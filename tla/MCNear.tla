------------------------------- MODULE MCNear -------------------------------
(***************************************************************************)
(* The NEAR service for TLC: orders and requests of each kind that compete *)
(* for the cores and for the service's NEAR.                               *)
(***************************************************************************)
EXTENDS NearProperties, TLC

CONSTANTS o1, o2, o3, x1, x2, c1, c2

SwapKinds == (o1 :> "native") @@ (o2 :> "swap")
TransferKinds == (o1 :> "native") @@ (o2 :> "mint") @@ (o3 :> "ft")
=============================================================================
