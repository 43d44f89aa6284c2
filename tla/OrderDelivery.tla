--------------------------- MODULE OrderDelivery ---------------------------
(***************************************************************************)
(* What the bridge promises of an order, whatever the chains, proofs, fees *)
(* and executors on its way: once sent to a destination it passes the      *)
(* relay chain at most once, it is executed at its destination and nowhere *)
(* else, at most once, and while it waits it waits in exactly one place.   *)
(***************************************************************************)
EXTENDS Integers

CONSTANTS
    Orders,     \* identities of orders
    Sites,      \* chains
    Hub,        \* the relay chain
    Origin      \* [Orders -> Sites], the chain an order is created on

VARIABLES
    stage,      \* [Orders -> Stages]
    dest,       \* [Orders -> Sites], meaningful once the order is sent
    executed    \* [Sites -> [Orders -> Nat]]

orderVars == <<stage, dest, executed>>

\* none: not sent; sent: a MessageOut event; kept: refused at the hub, for a
\* retry; routed: a MessageRelay event; held: refused at the destination, for a
\* retry; done: executed.
Stages == {"none", "sent", "kept", "routed", "held", "done"}

OrderInit ==
    /\ stage = [o \in Orders |-> "none"]
    /\ dest \in [Orders -> Sites]
    /\ executed = [s \in Sites |-> [o \in Orders |-> 0]]

Move(o, from, to) ==
    /\ stage[o] \in from
    /\ stage' = [stage EXCEPT ![o] = to]

\* An order of the hub is routed as it is sent.
Send(o, s) ==
    /\ Move(o, {"none"}, IF Origin[o] = Hub THEN "routed" ELSE "sent")
    /\ s # Origin[o]
    /\ dest' = [dest EXCEPT ![o] = s]
    /\ UNCHANGED executed

Keep(o) == Move(o, {"sent"}, "kept") /\ UNCHANGED <<dest, executed>>

Route(o) ==
    /\ dest[o] # Hub
    /\ Move(o, {"sent", "kept"}, "routed")
    /\ UNCHANGED <<dest, executed>>

Hold(o) == Move(o, {"routed"}, "held") /\ UNCHANGED <<dest, executed>>

Execute(o) ==
    /\ Move(o, IF dest[o] = Hub THEN {"sent", "kept"} ELSE {"routed", "held"}, "done")
    /\ executed' = [executed EXCEPT ![dest[o]][o] = @ + 1]
    /\ UNCHANGED dest

OrderNext ==
    \E o \in Orders :
        \/ \E s \in Sites : Send(o, s)
        \/ Keep(o) \/ Route(o) \/ Hold(o) \/ Execute(o)

OrderSpec == OrderInit /\ [][OrderNext]_orderVars
=============================================================================
