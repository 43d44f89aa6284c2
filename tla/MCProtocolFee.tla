--------------------------- MODULE MCProtocolFee ---------------------------
(***************************************************************************)
(* Small instances of ProtocolFee for TLC: two tokens and two of the four  *)
(* types in use.                                                           *)
(***************************************************************************)
EXTENDS ProtocolFee

CONSTANTS a, b

MCShareUpdates == {[DEV |-> 1, STAKER |-> 1], [STAKER |-> 2]}
\* The target of a claim comes first, or not at all.
TargetFirst == {<<a>>, <<b>>, <<a, b>>}
TargetLast == {<<a, b>>}
=============================================================================
