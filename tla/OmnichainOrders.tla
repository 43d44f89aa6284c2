-------------------------- MODULE OmnichainOrders --------------------------
(***************************************************************************)
(* The life of an order, proved for every number of chains, tokens, orders *)
(* and callers, every fee table and every behaviour of the executors: it   *)
(* is executed at most once, only where it was sent to and only as it was  *)
(* sent, and what waits for a retry can be retried.                        *)
(*                                                                         *)
(* The argument: an order's identity belongs to one MessageOut event; every *)
(* handler, however it computes fees and swaps, ends by delivering, keeping *)
(* or relaying one message with the order's own identity (Handled); and an *)
(* entry of orderList only moves towards Processed.                        *)
(***************************************************************************)
EXTENDS OmnichainProperties, OmnichainTypes

-----------------------------------------------------------------------------
(* The inductive invariant.                                                *)

\* An event carries its chain and a nonce already used there.
SentInv ==
    \A e \in sent :
        /\ \E n \in 0..nonce[e.from] - 1 : e.order = <<e.from, n>>
        /\ e.to # e.from
        /\ e.type = "DEPOSIT" => e.to = Relay

SentOnce == \A e, f \in sent : e.order = f.order => e = f

\* An executor may have changed the token of m.
MaySwap(e) == e.relay \/ \E f \in failed[Relay] : f.order = e.order

\* m tells of e what must not change on the way.
Tells(m, e) ==
    /\ e.order = m.order /\ e.type = m.type /\ e.from = m.from
    /\ e.to = m.to /\ e.initiator = m.initiator

Traced(m) == \E e \in sent : Tells(m, e) /\ (MaySwap(e) \/ m.token = e.token)

TracedInv ==
    /\ \A m \in relayed : Traced(m)
    /\ \A c \in Chains : \A m \in failed[c] : Traced(m)

RelayedInv ==
    \A m \in relayed :
        /\ m.to # Relay
        /\ m.from # Relay => orderList[Relay][m.order] = Processed

RelayedOnce == \A m, n \in relayed : m.order = n.order => m = n

\* The relay chain keeps nothing of its own, the others only what is for them.
FailedInv ==
    \A c \in Chains : \A m \in failed[c] : IF c = Relay THEN m.from # Relay ELSE m.to = c

DeliveredInv ==
    \A c \in Chains, o \in OrderIds : delivered[c][o] # 0 =>
        /\ delivered[c][o] = 1
        /\ orderList[c][o] = Processed
        /\ \E e \in sent : e.order = o /\ e.to = c
        /\ c # Relay => \E r \in relayed : r.order = o

StoredInv ==
    \A c \in Chains, o \in OrderIds : Stage(c, o) = "stored" =>
        /\ \E m \in failed[c] : m.order = o /\ orderList[c][o] = Stored(m)
        /\ c # Relay => \E r \in relayed : r.order = o

OrdersInv ==
    /\ SentInv /\ SentOnce /\ TracedInv /\ RelayedInv /\ RelayedOnce
    /\ FailedInv /\ DeliveredInv /\ StoredInv

\* What a step may do to an entry of orderList.
EntriesStep ==
    \A c \in Chains, o \in OrderIds :
        /\ Stage(c, o) = "processed" => orderList'[c][o] = orderList[c][o]
        /\ Stage(c, o) = "stored" => orderList'[c][o] \in {orderList[c][o], Processed}

\* What a step may do to an order: it is sent, delivered to chain c, kept there
\* or relayed, with the guards the handlers have in common.
Sends(e) ==
    /\ \A f \in sent : f.order # e.order
    /\ sent' = sent \cup {e}
    /\ e \in MessageOutEvent /\ e.order[1] = e.from /\ e.to # e.from

Delivers(c, m) ==
    /\ m.to = c /\ orderList[c][m.order] # Processed
    /\ c # Relay => \E r \in relayed : r.order = m.order
    /\ EmitMessageIn(c, m) /\ UNCHANGED relayed

Keeps(c, m) ==
    /\ IF c = Relay THEN m.from # Relay
       ELSE m.to = c /\ \E r \in relayed : r.order = m.order
    /\ orderList[c][m.order] = Unknown
    /\ StoreMessageData(c, m) /\ UNCHANGED relayed

Relays(m) ==
    /\ m.to # Relay /\ \A r \in relayed : r.order # m.order
    /\ EmitMessageRelay(m)

OrderMoves ==
    \/ /\ sent' = sent \/ \E e : Sends(e) /\ e.from # Relay
       /\ UNCHANGED <<orderList, delivered, failed, relayed>>
    \/ \E e, m : Sends(e) /\ Tells(m, e) /\ m.from = Relay /\ Relays(m)
    \/ \E e \in sent : \E m :
        /\ sent' = sent /\ Tells(m, e)
        /\ (\E c \in Chains : Delivers(c, m) \/ Keeps(c, m)) \/ (m.from # Relay /\ Relays(m))

OrderStep == EntriesStep /\ OrderMoves

-----------------------------------------------------------------------------
(* What the end of a handler does to the orders.                           *)

LEMMA TracedKept ==
    ASSUME sent \subseteq sent', failed[Relay] \subseteq failed'[Relay], NEW m, Traced(m)
    PROVE  Traced(m)'
BY DEF Traced, Tells, MaySwap

\* Messages with one identity tell of one event.
LEMMA OneEvent ==
    ASSUME SentOnce, NEW m, NEW n, Traced(m), Traced(n), m.order = n.order
    PROVE  m.from = n.from /\ m.to = n.to
BY DEF SentOnce, Traced, Tells

LEMMA StagesDiffer ==
    /\ Processed.status = "processed" /\ Unknown.status = "unknown"
    /\ \A m : Stored(m).status = "stored" /\ Stored(m) # Processed
    /\ Unknown # Processed
BY DEF Processed, Unknown, Stored

LEMMA ProcessedStage ==
    ASSUME TypeOK, NEW c \in Chains, NEW o \in OrderIds, Stage(c, o) = "processed"
    PROVE  orderList[c][o] = Processed
<1>1. orderList[c][o] \in OrderState  BY DEF TypeOK
<1> QED  BY <1>1 DEF Stage, OrderState, Processed

\* Delivering an order that was not processed.
LEMMA DeliverInv ==
    ASSUME TypeOK, OrdersInv, SentInv', SentOnce', sent' = sent,
           NEW c \in Chains, NEW n, n.order \in OrderIds, Traced(n)', n.to = c,
           c # Relay => \E r \in relayed : r.order = n.order,
           orderList[c][n.order] # Processed, EmitMessageIn(c, n), UNCHANGED relayed
    PROVE  OrdersInv' /\ OrderStep
<1> DEFINE o == n.order
<1>1. /\ orderList \in [Chains -> [OrderIds -> OrderState]]
      /\ delivered \in [Chains -> [OrderIds -> Nat]]
  BY DEF TypeOK
<1>2. /\ orderList' = [orderList EXCEPT ![c][o] = Processed]
      /\ delivered' = [delivered EXCEPT ![c][o] = @ + 1]
      /\ failed' = failed /\ relayed' = relayed
  BY DEF EmitMessageIn, MarkProcessed
<1>3. /\ orderList'[c][o] = Processed
      /\ \A d \in Chains, q \in OrderIds : <<d, q>> # <<c, o>> =>
            orderList'[d][q] = orderList[d][q] /\ delivered'[d][q] = delivered[d][q]
  BY <1>1, <1>2
<1>4. delivered[c][o] = 0 /\ delivered'[c][o] = 1
  <2>1. delivered[c][o] = 0  BY DEF OrdersInv, DeliveredInv
  <2>2. delivered'[c][o] = delivered[c][o] + 1  BY <1>1, <1>2
  <2> QED  BY <2>1, <2>2
<1>5. TracedInv'
  <2>1. ASSUME NEW m, Traced(m) PROVE Traced(m)'  BY <1>2, <2>1, TracedKept
  <2> QED  BY <1>2, <2>1 DEF OrdersInv, TracedInv
<1>6. RelayedInv' /\ RelayedOnce' /\ FailedInv'
  BY <1>2, <1>3 DEF OrdersInv, RelayedInv, RelayedOnce, FailedInv
<1>7. DeliveredInv'
  <2> SUFFICES ASSUME NEW d \in Chains, NEW q \in OrderIds, delivered'[d][q] # 0
               PROVE  /\ delivered'[d][q] = 1 /\ orderList'[d][q] = Processed
                      /\ \E e \in sent' : e.order = q /\ e.to = d
                      /\ d # Relay => \E r \in relayed' : r.order = q
    BY DEF DeliveredInv
  <2>1. CASE <<d, q>> = <<c, o>>
    <3>1. \E e \in sent' : e.order = o /\ e.to = c  BY DEF Traced, Tells
    <3> QED  BY <1>2, <1>3, <1>4, <2>1, <3>1
  <2>2. CASE <<d, q>> # <<c, o>>
    BY <1>2, <1>3, <2>2 DEF OrdersInv, DeliveredInv
  <2> QED  BY <2>1, <2>2
<1>8. StoredInv'
  <2> SUFFICES ASSUME NEW d \in Chains, NEW q \in OrderIds, orderList'[d][q].status = "stored"
               PROVE  /\ \E m \in failed'[d] : m.order = q /\ orderList'[d][q] = Stored(m)
                      /\ d # Relay => \E r \in relayed' : r.order = q
    BY DEF StoredInv, Stage
  <2>1. <<d, q>> # <<c, o>>  BY <1>3, StagesDiffer
  <2> QED  BY <1>2, <1>3, <2>1 DEF OrdersInv, StoredInv, Stage
<1>9. EntriesStep  BY <1>3, ProcessedStage DEF EntriesStep
<1>10. OrderMoves  BY DEF OrderMoves, Delivers, Traced
<1> QED  BY <1>5, <1>6, <1>7, <1>8, <1>9, <1>10 DEF OrdersInv, OrderStep

\* Keeping an order the chain sees for the first time.
LEMMA KeepInv ==
    ASSUME TypeOK, OrdersInv, SentInv', SentOnce', sent' = sent,
           NEW c \in Chains, NEW n, n.order \in OrderIds, Traced(n)',
           IF c = Relay THEN n.from # Relay
           ELSE n.to = c /\ \E r \in relayed : r.order = n.order,
           orderList[c][n.order] = Unknown, StoreMessageData(c, n), UNCHANGED relayed
    PROVE  OrdersInv' /\ OrderStep
<1> DEFINE o == n.order
<1>1. /\ orderList \in [Chains -> [OrderIds -> OrderState]]
      /\ failed \in [Chains -> SUBSET MessageInEvent]
  BY DEF TypeOK
<1>2. /\ orderList' = [orderList EXCEPT ![c][o] = Stored(n)]
      /\ failed' = [failed EXCEPT ![c] = @ \cup {n}]
      /\ delivered' = delivered /\ relayed' = relayed
  BY DEF StoreMessageData
<1>3. /\ orderList'[c][o] = Stored(n)
      /\ \A d \in Chains, q \in OrderIds : <<d, q>> # <<c, o>> =>
            orderList'[d][q] = orderList[d][q]
  BY <1>1, <1>2
<1>4. /\ failed'[c] = failed[c] \cup {n}
      /\ \A d \in Chains : d # c => failed'[d] = failed[d]
      /\ \A d \in Chains : failed[d] \subseteq failed'[d]
  BY <1>1, <1>2
<1>5. TracedInv'
  <2>1. ASSUME NEW m, Traced(m) PROVE Traced(m)'
    BY <1>4, <2>1, TracedKept, RelayIsChain
  <2> QED  BY <1>2, <1>4, <2>1 DEF OrdersInv, TracedInv
<1>6. RelayedInv'
  <2> SUFFICES ASSUME NEW m \in relayed
               PROVE  m.to # Relay /\ (m.from # Relay => orderList'[Relay][m.order] = Processed)
    BY <1>2 DEF RelayedInv
  <2>1. m.order \in OrderIds  BY DEF TypeOK, MessageInEvent
  <2>2. m.to # Relay /\ (m.from # Relay => orderList[Relay][m.order] = Processed)
    BY DEF OrdersInv, RelayedInv
  <2>3. CASE <<Relay, m.order>> = <<c, o>>
    <3>1. Traced(m)'  BY <1>2, <1>5 DEF TracedInv
    <3>2. m.from = n.from  BY <2>3, <3>1 DEF SentOnce, Traced, Tells
    <3> QED  BY <2>2, <2>3, <3>2, StagesDiffer
  <2> QED  BY <1>3, <2>1, <2>2, <2>3, RelayIsChain
<1>7. RelayedOnce' /\ FailedInv'
  BY <1>2, <1>4 DEF OrdersInv, RelayedOnce, FailedInv
<1>8. DeliveredInv'
  <2> SUFFICES ASSUME NEW d \in Chains, NEW q \in OrderIds, delivered[d][q] # 0
               PROVE  /\ delivered[d][q] = 1 /\ orderList'[d][q] = Processed
                      /\ \E e \in sent' : e.order = q /\ e.to = d
                      /\ d # Relay => \E r \in relayed' : r.order = q
    BY <1>2 DEF DeliveredInv
  <2> QED  BY <1>2, <1>3, StagesDiffer DEF OrdersInv, DeliveredInv
<1>9. StoredInv'
  <2> SUFFICES ASSUME NEW d \in Chains, NEW q \in OrderIds, orderList'[d][q].status = "stored"
               PROVE  /\ \E m \in failed'[d] : m.order = q /\ orderList'[d][q] = Stored(m)
                      /\ d # Relay => \E r \in relayed' : r.order = q
    BY DEF StoredInv, Stage
  <2>1. CASE <<d, q>> = <<c, o>>  BY <1>2, <1>3, <1>4, <2>1
  <2>2. CASE <<d, q>> # <<c, o>>
    BY <1>2, <1>3, <1>4, <2>2 DEF OrdersInv, StoredInv, Stage
  <2> QED  BY <2>1, <2>2
<1>10. EntriesStep  BY <1>3, StagesDiffer DEF EntriesStep, Stage
<1>11. OrderMoves  BY DEF OrderMoves, Keeps, Traced
<1> QED  BY <1>5, <1>6, <1>7, <1>8, <1>9, <1>10, <1>11 DEF OrdersInv, OrderStep

\* Relaying an order that was not relayed.
LEMMA RelayInv ==
    ASSUME TypeOK, OrdersInv, SentInv', SentOnce', sent \subseteq sent',
           NEW n, n.order \in OrderIds, Traced(n)', n.to # Relay,
           IF n.from = Relay THEN \E e : Sends(e) /\ Tells(n, e) ELSE sent' = sent,
           \A r \in relayed : r.order # n.order, EmitMessageRelay(n)
    PROVE  OrdersInv' /\ OrderStep
<1> DEFINE o == n.order
<1>1. orderList \in [Chains -> [OrderIds -> OrderState]]  BY DEF TypeOK
<1>2. /\ relayed' = relayed \cup {n} /\ failed' = failed /\ delivered' = delivered
      /\ n.from = Relay => orderList' = orderList
      /\ n.from # Relay => orderList' = [orderList EXCEPT ![Relay][o] = Processed]
  BY DEF EmitMessageRelay, RecordRelayed, MarkProcessed
<1>3. /\ n.from # Relay => orderList'[Relay][o] = Processed
      /\ \A d \in Chains, q \in OrderIds :
            orderList'[d][q] = orderList[d][q] \/ orderList'[d][q] = Processed
  BY <1>1, <1>2, RelayIsChain
<1>4. TracedInv'
  <2>1. ASSUME NEW m, Traced(m) PROVE Traced(m)'  BY <1>2, <2>1, TracedKept
  <2> QED  BY <1>2, <2>1 DEF OrdersInv, TracedInv
<1>5. RelayedInv'
  <2> SUFFICES ASSUME NEW m \in relayed'
               PROVE  m.to # Relay /\ (m.from # Relay => orderList'[Relay][m.order] = Processed)
    BY DEF RelayedInv
  <2>1. CASE m = n  BY <1>3, <2>1
  <2>2. CASE m \in relayed
    <3>1. m.order \in OrderIds  BY <2>2 DEF TypeOK, MessageInEvent
    <3> QED  BY <1>3, <2>2, <3>1, RelayIsChain DEF OrdersInv, RelayedInv
  <2> QED  BY <1>2, <2>1, <2>2
<1>6. RelayedOnce' /\ FailedInv'  BY <1>2 DEF OrdersInv, RelayedOnce, FailedInv
<1>7. DeliveredInv'  BY <1>2, <1>3 DEF OrdersInv, DeliveredInv
<1>8. StoredInv'
  <2> SUFFICES ASSUME NEW d \in Chains, NEW q \in OrderIds, orderList'[d][q].status = "stored"
               PROVE  /\ \E m \in failed'[d] : m.order = q /\ orderList'[d][q] = Stored(m)
                      /\ d # Relay => \E r \in relayed' : r.order = q
    BY DEF StoredInv, Stage
  <2>1. orderList'[d][q] = orderList[d][q]  BY <1>3, StagesDiffer
  <2> QED  BY <1>2, <2>1 DEF OrdersInv, StoredInv, Stage
<1>9. EntriesStep  BY <1>3, ProcessedStage DEF EntriesStep
<1>10. OrderMoves  BY DEF OrderMoves, Relays, Traced
<1> QED  BY <1>4, <1>5, <1>6, <1>7, <1>8, <1>9, <1>10 DEF OrdersInv, OrderStep

\* A step that touches no order.
LEMMA OtherInv ==
    ASSUME TypeOK, OrdersInv, SentInv', SentOnce', sent \subseteq sent',
           sent' = sent \/ \E e : Sends(e) /\ e.from # Relay,
           UNCHANGED <<orderList, delivered, failed, relayed>>
    PROVE  OrdersInv' /\ OrderStep
<1>1. TracedInv'
  <2>1. ASSUME NEW m, Traced(m) PROVE Traced(m)'  BY <2>1, TracedKept
  <2> QED  BY <2>1 DEF OrdersInv, TracedInv
<1>2. RelayedInv' /\ RelayedOnce' /\ FailedInv' /\ DeliveredInv' /\ StoredInv'
  BY DEF OrdersInv, RelayedInv, RelayedOnce, FailedInv, DeliveredInv, StoredInv, Stage
<1>3. OrderStep  BY DEF OrderStep, EntriesStep, OrderMoves
<1> QED  BY <1>1, <1>2, <1>3 DEF OrdersInv

\* A new event has an identity no other has.
LEMMA MessageOutInv ==
    ASSUME TypeOK, OrdersInv, NEW c \in Chains, NEW e \in MessageOutEvent,
           e.from = c, e.type = "DEPOSIT" => e.to = Relay, MessageOut(c, e)
    PROVE  SentInv' /\ SentOnce' /\ sent \subseteq sent' /\ e \in sent' /\ Sends(e)
<1>1. nonce \in [Chains -> Nat] /\ sent \subseteq MessageOutEvent  BY DEF TypeOK
<1>2. /\ e.order = <<c, nonce[c]>> /\ e.to # c /\ sent' = sent \cup {e}
      /\ nonce' = [nonce EXCEPT ![c] = nonce[c] + 1]
  BY <1>1 DEF MessageOut, GetOrderId
<1>3. nonce'[c] = nonce[c] + 1 /\ \A d \in Chains : d # c => nonce'[d] = nonce[d]
  BY <1>1, <1>2
<1>4. SentInv'
  <2> SUFFICES ASSUME NEW f \in sent'
               PROVE  /\ \E n \in 0..nonce'[f.from] - 1 : f.order = <<f.from, n>>
                      /\ f.to # f.from /\ (f.type = "DEPOSIT" => f.to = Relay)
    BY DEF SentInv
  <2>1. CASE f = e
    <3>1. nonce[c] \in 0..nonce'[c] - 1  BY <1>1, <1>3
    <3> QED  BY <1>2, <2>1, <3>1
  <2>2. CASE f \in sent
    <3>1. f.from \in Chains  BY <1>1, <2>2 DEF MessageOutEvent
    <3>2. PICK n \in 0..nonce[f.from] - 1 : f.order = <<f.from, n>>
      BY <2>2 DEF OrdersInv, SentInv
    <3>3. n \in 0..nonce'[f.from] - 1  BY <1>1, <1>3, <3>1, <3>2
    <3>4. f.to # f.from /\ (f.type = "DEPOSIT" => f.to = Relay)
      BY <2>2 DEF OrdersInv, SentInv
    <3> QED  BY <3>2, <3>3, <3>4
  <2> QED  BY <1>2, <2>1, <2>2
<1>5. \A f \in sent : f.order # e.order
  <2> SUFFICES ASSUME NEW f \in sent, f.order = e.order PROVE FALSE  OBVIOUS
  <2>1. f.from \in Chains  BY <1>1 DEF MessageOutEvent
  <2>2. PICK n \in 0..nonce[f.from] - 1 : f.order = <<f.from, n>>
    BY DEF OrdersInv, SentInv
  <2>3. f.from = c /\ n = nonce[c]  BY <1>2, <2>2
  <2> QED  BY <1>1, <2>2, <2>3
<1>6. SentOnce'  BY <1>2, <1>5 DEF OrdersInv, SentOnce
<1>7. Sends(e)  BY <1>2, <1>5 DEF Sends
<1> QED  BY <1>2, <1>4, <1>6, <1>7

-----------------------------------------------------------------------------
(* How the handlers of the relay chain end.                                *)

\* n is the message a handler ends with for m, swapped or not.
SameOrder(n, m) ==
    /\ n.order = m.order /\ n.type = m.type /\ n.from = m.from
    /\ n.to = m.to /\ n.initiator = m.initiator

Ends(n, to, must) ==
    \/ to = Relay /\ EmitMessageIn(Relay, n) /\ UNCHANGED relayed
    \/ ~must /\ StoreMessageData(Relay, n) /\ UNCHANGED relayed
    \/ to # Relay /\ EmitMessageRelay(n)

Handled(m, relay, must) ==
    \E n : /\ SameOrder(n, m) /\ (relay \/ n.token = m.token)
           /\ Ends(n, m.to, must)

LEMMA KeepForRetryEnds ==
    ASSUME NEW m, NEW bk, NEW must \in BOOLEAN, ~must, KeepForRetry(m, bk)
    PROVE  Ends(m, m.to, must)
BY DEF KeepForRetry, Ends

LEMMA PayOrRelayEnds ==
    ASSUME NEW m \in TokenEvent, NEW must \in BOOLEAN, NEW bk, PayOrRelay(m, must, bk)
    PROVE  Handled(m, FALSE, must)
<1>1. m \in MessageInEvent  BY TokenEventFields
<1>2. PICK out \in {[m EXCEPT !.amount = AfterTochainFee(m)]}, ch \in {CollectTochainFee(bk, m)} :
        \/ ~must /\ KeepForRetry(out, ch)
        \/ m.to = Relay /\ SwapIn(Relay, out, ch.acct) /\ UNCHANGED relayed
        \/ /\ m.to # Relay
           /\ EmitMessageRelay([out EXCEPT !.amount = TargetAmount(m.token, Relay, m.to, @)])
  BY DEF PayOrRelay
<1>3. SameOrder(out, m) /\ out.token = m.token /\ out.to = m.to
  BY <1>1, <1>2 DEF SameOrder, MessageInEvent
<1> DEFINE n == [out EXCEPT !.amount = TargetAmount(m.token, Relay, m.to, @)]
<1>4. SameOrder(n, m) /\ n.token = m.token
  BY <1>1, <1>2 DEF SameOrder, MessageInEvent
<1>5. CASE ~must /\ KeepForRetry(out, ch)
  BY <1>3, <1>5, KeepForRetryEnds DEF Handled
<1>6. CASE m.to = Relay /\ SwapIn(Relay, out, ch.acct) /\ UNCHANGED relayed
  BY <1>3, <1>6 DEF Handled, Ends, SwapIn
<1>7. CASE m.to # Relay /\ EmitMessageRelay(n)
  <2> HIDE DEF n
  <2> QED  BY SMTT(30), <1>4, <1>7 DEF Handled, Ends
<1> QED  BY <1>2, <1>5, <1>6, <1>7

LEMMA SwapRelayEnds ==
    ASSUME NEW m \in TokenEvent, NEW relay \in BOOLEAN, NEW must \in BOOLEAN, NEW bk,
           SwapRelay(m, relay, must, bk)
    PROVE  Handled(m, relay, must)
<1>1. CASE PayOrRelay(m, must, bk)  BY <1>1, PayOrRelayEnds DEF Handled
<1>2. CASE ~must /\ KeepForRetry(m, bk)
  BY <1>2, KeepForRetryEnds DEF Handled, SameOrder
<1>3. ASSUME relay, NEW paid, NEW t \in Tokens, NEW a \in ExecutorAmounts, NEW swap \in BOOLEAN,
             PayOrRelay([m EXCEPT !.token = t, !.amount = a, !.swap = swap], must,
                        [bk EXCEPT !.acct = TokenTransferIn(paid, t, a)])
      PROVE  Handled(m, relay, must)
  <2> DEFINE q == [m EXCEPT !.token = t, !.amount = a, !.swap = swap]
  <2>1. m \in MessageInEvent /\ a \in Nat  BY TokenEventFields, RelayAssumption
  <2>2. q \in TokenEvent /\ SameOrder(q, m) /\ q.to = m.to
    BY <2>1 DEF TokenEvent, MessageInEvent, SameOrder
  <2>3. PayOrRelay(q, must, [bk EXCEPT !.acct = TokenTransferIn(paid, t, a)])  BY <1>3
  <2> HIDE DEF q
  <2>4. Handled(q, FALSE, must)  BY <2>2, <2>3, PayOrRelayEnds
  <2> QED  BY <1>3, <2>2, <2>4 DEF Handled, SameOrder
<1> QED  BY <1>1, <1>2, <1>3 DEF SwapRelay

LEMMA ChargeSourceEnds ==
    ASSUME NEW m \in TokenEvent, NEW relay \in BOOLEAN, NEW must \in BOOLEAN,
           NEW bk \in BooksType, ChargeSource(m, relay, must, bk)
    PROVE  Handled(m, relay, must)
<1> DEFINE left == m.amount - FromFeeOf(m)
<1>1. left \in Nat /\ m \in MessageInEvent  BY FromFeeType, TokenEventFields
<1>2. PICK rest \in {[m EXCEPT !.amount = left]}, ch \in {CollectFromFee(bk, m)} :
        \/ ~must /\ KeepForRetry(rest, ch)
        \/ SwapRelay(rest, relay, must, ch)
  BY TokenEventFields DEF ChargeSource, MessageInEvent
<1> HIDE DEF left
<1>3. rest = [m EXCEPT !.amount = left]  BY <1>2
<1>4. rest \in MessageInEvent /\ rest.token = m.token /\ rest.to = m.to
  BY <1>1, <1>3, AmountType
<1>5. SameOrder(rest, m)  BY <1>1, <1>3 DEF SameOrder, MessageInEvent
<1>6. rest \in TokenEvent  BY <1>4, TokenEventFields DEF TokenEvent
<1>7. CASE ~must /\ KeepForRetry(rest, ch)
  BY <1>4, <1>5, <1>7, KeepForRetryEnds DEF Handled
<1>8. CASE SwapRelay(rest, relay, must, ch)
  <2>1. Handled(rest, relay, must)  BY <1>6, <1>8, SwapRelayEnds
  <2> QED  BY <1>4, <1>5, <2>1 DEF Handled, SameOrder
<1> QED  BY <1>2, <1>7, <1>8

LEMMA TransferRelayEnds ==
    ASSUME NEW m, NEW relay \in BOOLEAN, NEW must \in BOOLEAN, TransferRelay(m, relay, must)
    PROVE  Handled(m, relay, must)
<1>1. Ends(m, m.to, must)
  <2>1. CASE KeepForRetry(m, Books) /\ ~must  BY <2>1, KeepForRetryEnds
  <2>2. CASE m.to = Relay /\ must /\ EmitMessageIn(Relay, m) /\ UNCHANGED relayed
    BY <2>2 DEF Ends
  <2>3. CASE m.to = Relay /\ ~must /\ TransferIn(Relay, m) /\ UNCHANGED relayed
    BY <2>3 DEF Ends, TransferIn
  <2>4. CASE m.to # Relay /\ EmitMessageRelay(m)  BY <2>4 DEF Ends
  <2> QED  BY <2>1, <2>2, <2>3, <2>4 DEF TransferRelay
<1> QED  BY <1>1 DEF Handled, SameOrder

\* Whatever the end, the orders stay consistent.
LEMMA HandledInv ==
    ASSUME TypeOK, OrdersInv, SentInv', SentOnce', sent \subseteq sent',
           NEW m \in MessageInEvent, NEW relay \in BOOLEAN, NEW must \in BOOLEAN,
           Handled(m, relay, must),
           NEW e \in sent', Tells(m, e),
           IF m.from = Relay THEN Sends(e) /\ m.to # Relay ELSE sent' = sent,
           MaySwap(e) \/ (~relay /\ m.token = e.token),
           m.to = Relay => orderList[Relay][m.order] # Processed,
           ~must => orderList[Relay][m.order] = Unknown /\ m.from # Relay,
           \A r \in relayed : r.order # m.order
    PROVE  OrdersInv' /\ OrderStep
<1>1. PICK n : SameOrder(n, m) /\ (relay \/ n.token = m.token) /\ Ends(n, m.to, must)
  BY DEF Handled
<1>2. m.order \in OrderIds /\ Relay \in Chains  BY RelayIsChain DEF MessageInEvent
<1>3. failed[Relay] \subseteq failed'[Relay]
  BY <1>1, <1>2 DEF Ends, EmitMessageIn, StoreMessageData, EmitMessageRelay, TypeOK
<1>4. Traced(n)'  BY <1>1, <1>3 DEF Traced, Tells, MaySwap, SameOrder
<1>5. CASE m.to = Relay /\ EmitMessageIn(Relay, n) /\ UNCHANGED relayed
  BY <1>1, <1>2, <1>4, <1>5, DeliverInv DEF SameOrder
<1>6. CASE ~must /\ StoreMessageData(Relay, n) /\ UNCHANGED relayed
  BY <1>1, <1>2, <1>4, <1>6, KeepInv DEF SameOrder
<1>7. CASE m.to # Relay /\ EmitMessageRelay(n)
  <2>1. n.from = m.from /\ (m.from = Relay => Sends(e) /\ Tells(n, e))
    BY <1>1 DEF SameOrder, Tells
  <2> QED  BY <1>1, <1>2, <1>4, <1>7, <2>1, RelayInv DEF SameOrder
<1> QED  BY <1>1, <1>5, <1>6, <1>7 DEF Ends

-----------------------------------------------------------------------------
(* The operations.                                                         *)

\* An operation of a chain that only sends.
LEMMA SendInv ==
    ASSUME TypeOK, OrdersInv, NEW c \in LeafChains, NEW e \in MessageOutEvent,
           e.from = c, e.type = "DEPOSIT" => e.to = Relay, MessageOut(c, e),
           UNCHANGED <<orderList, delivered, failed, relayed>>
    PROVE  OrdersInv' /\ OrderStep
<1>1. c \in Chains /\ e.from # Relay  BY DEF LeafChains
<1> QED  BY <1>1, MessageOutInv, OtherInv

LEMMA TransferOutInv ==
    ASSUME TypeOK, OrdersInv, NEW c \in LeafChains, NEW to \in Chains, NEW t \in Tokens,
           NEW relay \in BOOLEAN, NEW i \in Callers,
           TransferOut(c, to, t, relay, i)
    PROVE  OrdersInv' /\ OrderStep
<1> DEFINE e == [order |-> GetOrderId(c), type |-> "MESSAGE", from |-> c,
                 to |-> to, token |-> NoToken, amount |-> 0,
                 initiator |-> i, swap |-> FALSE, relay |-> relay]
<1>1. MessageOut(c, e) /\ UNCHANGED <<orderList, delivered, failed, relayed>>
  BY DEF TransferOut
<1>2. c \in Chains /\ GetOrderId(c) \in OrderIds
  BY <1>1, GetOrderIdType, TypeParts DEF MessageOut, LeafChains
<1>3. /\ e \in MessageOutEvent /\ e.from = c
      /\ e.type = "DEPOSIT" => e.to = Relay
  BY <1>2, RelayIsChain, BridgeAssumption DEF MessageOutEvent, MessageTypes
<1> HIDE DEF e
<1> QED  BY <1>1, <1>3, SendInv

LEMMA SwapOutTokenInv ==
    ASSUME TypeOK, OrdersInv, NEW c \in LeafChains, NEW to \in Chains, NEW t \in Tokens,
           NEW a \in Amounts, NEW relay \in BOOLEAN, NEW swap \in BOOLEAN, NEW i \in Callers,
           SwapOutToken(c, to, t, a, relay, swap, i)
    PROVE  OrdersInv' /\ OrderStep
<1> DEFINE e == [order |-> GetOrderId(c), type |-> "BRIDGE", from |-> c,
                 to |-> to, token |-> t, amount |-> a,
                 initiator |-> i, swap |-> swap, relay |-> relay]
<1>1. MessageOut(c, e) /\ UNCHANGED <<orderList, delivered, failed, relayed>>
  BY DEF SwapOutToken
<1>2. c \in Chains /\ GetOrderId(c) \in OrderIds
  BY <1>1, GetOrderIdType, TypeParts DEF MessageOut, LeafChains
<1>3. /\ e \in MessageOutEvent /\ e.from = c
      /\ e.type = "DEPOSIT" => e.to = Relay
  BY <1>2, RelayIsChain, BridgeAssumption DEF MessageOutEvent, MessageTypes
<1> HIDE DEF e
<1> QED  BY <1>1, <1>3, SendInv

LEMMA DepositTokenInv ==
    ASSUME TypeOK, OrdersInv, NEW c \in LeafChains, NEW t \in Tokens, NEW a \in Amounts,
           NEW i \in Callers,
           DepositToken(c, t, a, i)
    PROVE  OrdersInv' /\ OrderStep
<1> DEFINE e == [order |-> GetOrderId(c), type |-> "DEPOSIT", from |-> c,
                 to |-> Relay, token |-> t, amount |-> a,
                 initiator |-> i, swap |-> FALSE, relay |-> FALSE]
<1>1. MessageOut(c, e) /\ UNCHANGED <<orderList, delivered, failed, relayed>>
  BY DEF DepositToken
<1>2. c \in Chains /\ GetOrderId(c) \in OrderIds
  BY <1>1, GetOrderIdType, TypeParts DEF MessageOut, LeafChains
<1>3. /\ e \in MessageOutEvent /\ e.from = c
      /\ e.type = "DEPOSIT" => e.to = Relay
  BY <1>2, RelayIsChain, BridgeAssumption DEF MessageOutEvent, MessageTypes
<1> HIDE DEF e
<1> QED  BY <1>1, <1>3, SendInv

\* Where no chain sends, the events stay as they are.
LEMMA SentKept ==
    ASSUME OrdersInv, UNCHANGED <<nonce, sent>>
    PROVE  SentInv' /\ SentOnce' /\ sent \subseteq sent' /\ sent' = sent
BY DEF OrdersInv, SentInv, SentOnce

LEMMA MessageInInv ==
    ASSUME TypeOK, OrdersInv, NEW c \in LeafChains, NEW m \in relayed, MessageIn(c, m)
    PROVE  OrdersInv' /\ OrderStep
<1>1. c \in Chains /\ c # Relay /\ m \in MessageInEvent /\ m.order \in OrderIds
  BY RelayIsChain DEF LeafChains, TypeOK, MessageInEvent
<1>2. /\ m.to = c /\ orderList[c][m.order] = Unknown
      /\ UNCHANGED <<nonce, sent, relayed>>
      /\ EmitMessageIn(c, m) \/ StoreMessageData(c, m)
  BY DEF MessageIn, CheckOrder, TransferIn, SwapIn
<1>3. failed'[Relay] = failed[Relay]
  BY <1>1, <1>2, RelayIsChain DEF EmitMessageIn, StoreMessageData, TypeOK
<1>4. SentInv' /\ SentOnce' /\ sent \subseteq sent'  BY <1>2, SentKept
<1>5. Traced(m)'  BY <1>3, <1>4, TracedKept DEF OrdersInv, TracedInv
<1>6. CASE EmitMessageIn(c, m)  BY <1>1, <1>2, <1>4, <1>5, <1>6, DeliverInv, StagesDiffer
<1>7. CASE StoreMessageData(c, m)  BY <1>1, <1>2, <1>4, <1>5, <1>7, KeepInv
<1> QED  BY <1>2, <1>6, <1>7

LEMMA RetryMessageInInv ==
    ASSUME TypeOK, OrdersInv, NEW c \in LeafChains, NEW m \in failed[c], RetryMessageIn(c, m)
    PROVE  OrdersInv' /\ OrderStep
<1>1. c \in Chains /\ c # Relay  BY RelayIsChain DEF LeafChains
<1>2. m \in MessageInEvent /\ m.order \in OrderIds  BY <1>1 DEF TypeOK, MessageInEvent
<1>3. /\ orderList[c][m.order] = Stored(m) /\ EmitMessageIn(c, m)
      /\ UNCHANGED <<nonce, sent, relayed>>
  BY DEF RetryMessageIn, GetStoredMessage
<1>4. SentInv' /\ SentOnce' /\ sent \subseteq sent'  BY <1>3, SentKept
<1>5. failed' = failed  BY <1>3 DEF EmitMessageIn
<1>6. Traced(m)'  BY <1>1, <1>4, <1>5, TracedKept DEF OrdersInv, TracedInv
<1>7. m.to = c /\ \E r \in relayed : r.order = m.order
  <2>1. Stage(c, m.order) = "stored"  BY <1>3, StagesDiffer DEF Stage
  <2> QED  BY <1>1, <1>2, <2>1 DEF OrdersInv, FailedInv, StoredInv
<1> QED  BY <1>1, <1>2, <1>3, <1>4, <1>6, <1>7, DeliverInv, StagesDiffer

\* Fees withdrawn, administration, vault operations.
LEMMA CommonNextInv ==
    ASSUME TypeOK, OrdersInv, NEW c \in Chains, CommonNext(c)
    PROVE  OrdersInv' /\ OrderStep
<1>1. UNCHANGED <<nonce, sent, orderList, delivered, failed, relayed>>
  BY DEF CommonNext, Trigger, RegisterTokenChains, SetFailedReceiver, WithdrawFee
<1> QED  BY SMTT(30), <1>1, SentKept, OtherInv

LEMMA RelayMessageInInv ==
    ASSUME TypeOK, OrdersInv, NEW e \in sent, RelayMessageIn(e)
    PROVE  OrdersInv' /\ OrderStep
<1> DEFINE m == SwapInToken(e)
<1>1. e \in MessageOutEvent /\ e.relay \in BOOLEAN /\ e.from # Relay
  BY DEF TypeOK, MessageOutEvent, RelayMessageIn, LeafChains
<1>2. m \in MessageInEvent /\ (e.type # "MESSAGE" => m \in TokenEvent)
  BY <1>1, SwapInTokenType
<1>3. Tells(m, e) /\ m.token = e.token /\ m.order = e.order /\ m.to = e.to /\ m.from = e.from
  <2>1. Tells(InEvent(e), e) /\ InEvent(e).token = e.token /\ InEvent(e) \in MessageInEvent
    BY <1>1, InEventType DEF Tells, InEvent
  <2> QED  BY <2>1 DEF SwapInToken, Tells, MessageInEvent
<1>4. /\ orderList[Relay][e.order] = Unknown
      /\ UNCHANGED <<nonce, sent>>
  BY DEF RelayMessageIn, CheckOrder
<1>5. \/ e.type = "MESSAGE" /\ TransferRelay(m, e.relay, FALSE)
      \/ e.type = "DEPOSIT" /\ DepositIn(m, Minted(m))
      \/ e.type = "BRIDGE" /\ ChargeSource(m, e.relay, FALSE, Minted(m))
  <2>1. PICK n \in {SwapInToken(e)} :
          \/ e.type = "MESSAGE" /\ TransferRelay(n, e.relay, FALSE)
          \/ e.type = "DEPOSIT" /\ DepositIn(n, Minted(n))
          \/ e.type = "BRIDGE" /\ ChargeSource(n, e.relay, FALSE, Minted(n))
    BY Zenon DEF RelayMessageIn
  <2>2. n = m  BY <2>1
  <2> QED  BY <2>1, <2>2
<1> HIDE DEF m
<1>6. Handled(m, e.relay, FALSE)
  <2>1. CASE TransferRelay(m, e.relay, FALSE)  BY <1>1, <2>1, TransferRelayEnds
  <2>2. CASE e.type = "DEPOSIT" /\ DepositIn(m, Minted(m))
    <3>1. m.to = Relay  BY <1>3, <2>2 DEF OrdersInv, SentInv
    <3> QED  BY <2>2, <3>1 DEF DepositIn, Handled, SameOrder, Ends
  <2>3. CASE e.type = "BRIDGE" /\ ChargeSource(m, e.relay, FALSE, Minted(m))
    <3>1. m \in TokenEvent /\ Minted(m) \in BooksType
      BY <1>2, <2>3, MintedType, TypeParts
    <3> QED  BY <1>1, <2>3, <3>1, ChargeSourceEnds
  <2> QED  BY <1>5, <2>1, <2>2, <2>3
<1>7. SentInv' /\ SentOnce' /\ sent \subseteq sent' /\ e \in sent'  BY <1>4, SentKept
<1>8. \A r \in relayed : r.order # m.order
  <2> SUFFICES ASSUME NEW r \in relayed, r.order = e.order PROVE FALSE  BY <1>3
  <2>1. PICK f \in sent : Tells(r, f)  BY DEF OrdersInv, TracedInv, Traced
  <2>2. r.from # Relay  BY <1>1, <2>1 DEF Tells, OrdersInv, SentOnce
  <2> QED  BY <1>4, <2>2, StagesDiffer DEF OrdersInv, RelayedInv
<1>9. MaySwap(e) \/ (~e.relay /\ m.token = e.token)  BY <1>1, <1>3 DEF MaySwap
<1> QED  BY <1>1, <1>2, <1>3, <1>4, <1>6, <1>7, <1>8, <1>9, HandledInv, StagesDiffer

LEMMA RelayRetryMessageInInv ==
    ASSUME TypeOK, OrdersInv, NEW m \in failed[Relay], RelayRetryMessageIn(m)
    PROVE  OrdersInv' /\ OrderStep
<1>1. m \in MessageInEvent /\ m.from # Relay
  BY RelayIsChain DEF TypeOK, OrdersInv, FailedInv
<1>2. /\ orderList[Relay][m.order] = Stored(m) /\ UNCHANGED <<nonce, sent>>
      /\ \/ TransferRelay(m, TRUE, TRUE)
         \/ m.type # "MESSAGE" /\ SwapRelay(m, TRUE, TRUE, Books)
  BY DEF RelayRetryMessageIn, GetStoredMessage
<1>3. Handled(m, TRUE, TRUE)
  <2>1. CASE TransferRelay(m, TRUE, TRUE)  BY <2>1, TransferRelayEnds
  <2>2. CASE m.type # "MESSAGE" /\ SwapRelay(m, TRUE, TRUE, Books)
    <3>1. m \in TokenEvent  BY <1>1, <2>2, IsTokenEvent
    <3> QED  BY <2>2, <3>1, SwapRelayEnds
  <2> QED  BY <1>2, <2>1, <2>2
<1>4. SentInv' /\ SentOnce' /\ sent \subseteq sent'  BY <1>2, SentKept
<1>5. PICK e \in sent : Tells(m, e)
  BY RelayIsChain DEF OrdersInv, TracedInv, Traced
<1>6. e \in sent' /\ MaySwap(e)  BY <1>4, <1>5 DEF MaySwap, Tells
<1>7. \A r \in relayed : r.order # m.order
  <2> SUFFICES ASSUME NEW r \in relayed, r.order = m.order PROVE FALSE  OBVIOUS
  <2>1. PICK f \in sent : Tells(r, f)  BY DEF OrdersInv, TracedInv, Traced
  <2>2. r.from # Relay  BY <1>1, <1>5, <2>1 DEF Tells, OrdersInv, SentOnce
  <2> QED  BY <1>2, <2>2, StagesDiffer DEF OrdersInv, RelayedInv
<1> QED  BY <1>1, <1>2, <1>3, <1>4, <1>5, <1>6, <1>7, HandledInv, StagesDiffer

\* An order of the relay chain goes straight to its MessageRelay event.
LEMMA RelaySendInv ==
    ASSUME TypeOK, OrdersInv, NEW e \in MessageOutEvent, e.from = Relay, e.type # "DEPOSIT",
           MessageOut(Relay, e), Handled(InEvent(e), e.relay, TRUE)
    PROVE  OrdersInv' /\ OrderStep
<1> DEFINE m == InEvent(e)
<1>1. /\ SentInv' /\ SentOnce' /\ sent \subseteq sent' /\ e \in sent'
      /\ Sends(e)
  BY RelayIsChain, MessageOutInv
<1>2. /\ m \in MessageInEvent /\ Tells(m, e) /\ m.token = e.token /\ m.order = e.order
      /\ m.to = e.to /\ e.relay \in BOOLEAN
  BY InEventType DEF Tells, InEvent, MessageOutEvent
<1>3. m.to # Relay /\ m.from = Relay  BY <1>2 DEF MessageOut, Tells
<1>4. \A r \in relayed : r.order # m.order
  BY <1>1, <1>2 DEF OrdersInv, TracedInv, Traced, Tells, Sends
<1>5. MaySwap(e) \/ (~e.relay /\ m.token = e.token)  BY <1>2 DEF MaySwap
<1> HIDE DEF m
<1>6. Handled(m, e.relay, TRUE)  BY DEF m
<1> QED  BY <1>1, <1>2, <1>3, <1>4, <1>5, <1>6, HandledInv

LEMMA RelayTransferOutInv ==
    ASSUME TypeOK, OrdersInv, NEW to \in Chains, NEW t \in Tokens, NEW relay \in BOOLEAN,
           NEW i \in Callers, RelayTransferOut(to, t, relay, i)
    PROVE  OrdersInv' /\ OrderStep
<1> DEFINE e == [order |-> GetOrderId(Relay), type |-> "MESSAGE", from |-> Relay,
                 to |-> to, token |-> NoToken, amount |-> 0,
                 initiator |-> i, swap |-> FALSE, relay |-> relay]
<1>1. MessageOut(Relay, e) /\ EmitMessageRelay(InEvent(e))  BY DEF RelayTransferOut
<1>2. GetOrderId(Relay) \in OrderIds
  BY <1>1, GetOrderIdType, TypeParts, RelayIsChain DEF MessageOut
<1>3. e \in MessageOutEvent /\ e.from = Relay /\ e.type # "DEPOSIT" /\ e.to # Relay
  BY <1>1, <1>2, RelayIsChain DEF MessageOutEvent, MessageTypes, MessageOut
<1> HIDE DEF e
<1>4. InEvent(e).to = e.to  BY DEF InEvent
<1>5. Ends(InEvent(e), InEvent(e).to, TRUE)  BY <1>1, <1>3, <1>4 DEF Ends
<1>6. Handled(InEvent(e), e.relay, TRUE)  BY <1>5 DEF Handled, SameOrder
<1> QED  BY <1>1, <1>3, <1>6, RelaySendInv

LEMMA RelaySwapOutTokenInv ==
    ASSUME TypeOK, OrdersInv, NEW to \in Chains, NEW t \in Tokens, NEW a \in Amounts,
           NEW relay \in BOOLEAN, NEW swap \in BOOLEAN, NEW i \in Callers,
           RelaySwapOutToken(to, t, a, relay, swap, i)
    PROVE  OrdersInv' /\ OrderStep
<1> DEFINE e == [order |-> GetOrderId(Relay), type |-> "BRIDGE", from |-> Relay,
                 to |-> to, token |-> t, amount |-> a,
                 initiator |-> i, swap |-> swap, relay |-> relay]
           ac == TokenTransferIn(acct[Relay], t, a)
           paid == [Books EXCEPT !.acct = ac]
<1>1. /\ MessageOut(Relay, e) /\ ChargeSource(InEvent(e), relay, TRUE, paid)
      /\ a <= acct[Relay].held[t] /\ a \in Nat
  BY BridgeAssumption DEF RelaySwapOutToken, Books
<1>2. GetOrderId(Relay) \in OrderIds
  BY <1>1, GetOrderIdType, TypeParts, RelayIsChain DEF MessageOut
<1>3. /\ e \in MessageOutEvent /\ e.from = Relay /\ e.type # "DEPOSIT"
      /\ e.relay = relay /\ e.token \in Tokens
  BY <1>1, <1>2, RelayIsChain DEF MessageOutEvent, MessageTypes
<1>4. ac \in Account  BY <1>1, RelayIsChain, TransferInType DEF TypeOK
<1> HIDE DEF e, ac
<1>5. paid \in BooksType  BY <1>4, BooksOK, TypeParts DEF BooksType
<1> HIDE DEF paid
<1>6. InEvent(e) \in TokenEvent  BY <1>3, InEventType DEF TokenEvent
<1>7. Handled(InEvent(e), relay, TRUE)  BY <1>1, <1>5, <1>6, ChargeSourceEnds
<1> QED  BY <1>1, <1>3, <1>7, RelaySendInv

-----------------------------------------------------------------------------
(* The invariant, and what follows from it.                                *)

LEMMA InitOrders == Init => OrdersInv
<1> SUFFICES ASSUME Init PROVE OrdersInv  OBVIOUS
<1>1. SentInv /\ SentOnce /\ TracedInv /\ RelayedInv /\ RelayedOnce /\ FailedInv
  BY DEF Init, SentInv, SentOnce, TracedInv, RelayedInv, RelayedOnce, FailedInv
<1>2. DeliveredInv  BY DEF Init, DeliveredInv
<1>3. StoredInv  BY StagesDiffer DEF Init, StoredInv, Stage
<1> QED  BY <1>1, <1>2, <1>3 DEF OrdersInv

LEMMA NextOrders == TypeOK /\ OrdersInv /\ [Next]_vars => OrdersInv' /\ OrderStep
<1> SUFFICES ASSUME TypeOK, OrdersInv, [Next]_vars PROVE OrdersInv' /\ OrderStep  OBVIOUS
<1> USE RelayIsChain
<1>1. ASSUME NEW c \in LeafChains, LeafNext(c) PROVE OrdersInv' /\ OrderStep
  BY <1>1, TransferOutInv, SwapOutTokenInv, DepositTokenInv, MessageInInv, RetryMessageInInv,
     CommonNextInv DEF LeafNext
<1>2. CASE RelayNext
  <2>1. ASSUME NEW t \in Tokens, NEW a \in Amounts, RelayDepositToken(t, a)
        PROVE  OrdersInv' /\ OrderStep
    BY <2>1, SentKept, OtherInv DEF RelayDepositToken
  <2>2. ASSUME NEW t \in Tokens, NEW a, Withdraw(t, a)
        PROVE  OrdersInv' /\ OrderStep
    BY <2>2, SentKept, OtherInv DEF Withdraw
  <2>3. ASSUME NEW c \in LeafChains, NEW enable \in BOOLEAN, RegisterChain(c, enable)
        PROVE  OrdersInv' /\ OrderStep
    BY <2>3, SentKept, OtherInv DEF RegisterChain
  <2> QED  BY <1>2, <2>1, <2>2, <2>3, RelayTransferOutInv, RelaySwapOutTokenInv,
              RelayMessageInInv, RelayRetryMessageInInv, CommonNextInv DEF RelayNext
<1>3. CASE UNCHANGED vars  BY <1>3, SentKept, OtherInv DEF vars, baseVars
<1> QED  BY <1>1, <1>2, <1>3 DEF Next

LEMMA OrdersCorrect == Spec => [](TypeOK /\ OrdersInv)
<1>1. Init => TypeOK /\ OrdersInv  BY InitType, InitOrders
<1>2. TypeOK /\ OrdersInv /\ [Next]_vars => TypeOK' /\ OrdersInv'  BY NextType, NextOrders
<1> QED  BY <1>1, <1>2, PTL DEF Spec

\* No order is relayed or executed twice, whichever proofs messengers present
\* again and whoever retries: the promise orderList is kept for.
THEOREM ExecutedAtMostOnce == Spec => []AtMostOnce
<1>1. TypeOK /\ OrdersInv => AtMostOnce
  <2> SUFFICES ASSUME TypeOK, OrdersInv PROVE AtMostOnce  OBVIOUS
  <2>1. \A e, f \in sent : e.order = f.order => e = f  BY DEF OrdersInv, SentOnce
  <2>2. \A m, n \in relayed : m.order = n.order => m = n  BY DEF OrdersInv, RelayedOnce
  <2>3. ASSUME NEW c \in Chains, NEW d \in Chains, NEW o \in OrderIds
        PROVE  /\ delivered[c][o] <= 1
               /\ delivered[c][o] > 0 /\ delivered[d][o] > 0 => c = d
    <3>1. delivered[c][o] \in Nat /\ delivered[d][o] \in Nat  BY DEF TypeOK
    <3>2. delivered[c][o] <= 1  BY <3>1 DEF OrdersInv, DeliveredInv
    <3>3. ASSUME delivered[c][o] # 0, delivered[d][o] # 0 PROVE c = d
      BY <2>1, <3>3 DEF OrdersInv, DeliveredInv
    <3> QED  BY <3>1, <3>2, <3>3
  <2> QED  BY <2>1, <2>2, <2>3 DEF AtMostOnce
<1> QED  BY <1>1, OrdersCorrect, PTL

\* What a chain relays, keeps or executes is what another chain sent to it.
THEOREM ExecutedAsSent == Spec => []NothingForged
<1>1. TypeOK /\ OrdersInv => NothingForged
  <2> SUFFICES ASSUME TypeOK, OrdersInv PROVE NothingForged  OBVIOUS
  <2>1. ASSUME NEW m \in relayed \cup UNION {failed[c] : c \in Chains}
        PROVE  \E e \in sent :
                 /\ e.order = m.order /\ e.type = m.type
                 /\ e.from = m.from /\ e.to = m.to
                 /\ m \in failed[Relay] /\ m.type = "BRIDGE" => e.initiator = m.initiator
                 /\ e.relay \/ (\E f \in failed[Relay] : f.order = m.order) \/ m.token = e.token
    <3>1. Traced(m)  BY <2>1 DEF OrdersInv, TracedInv
    <3> QED  BY <3>1 DEF Traced, Tells, MaySwap
  <2>2. ASSUME NEW c \in Chains, NEW o \in OrderIds, delivered[c][o] > 0
        PROVE  \E e \in SentAs(o) : e.to = c
    BY <2>2 DEF OrdersInv, DeliveredInv, SentAs
  <2> QED  BY <2>1, <2>2 DEF NothingForged
<1> QED  BY <1>1, OrdersCorrect, PTL

\* An order stored for a retry is in one place, unexecuted, with an event that
\* shows what the retry must present.
THEOREM StoredCanBeRetried == Spec => []KeptForRetry
<1>1. TypeOK /\ OrdersInv => KeptForRetry
  <2> SUFFICES ASSUME TypeOK, OrdersInv, NEW c \in Chains, NEW o \in OrderIds,
                      Stage(c, o) = "stored"
               PROVE  /\ \E m \in failed[c] : Stored(m) = orderList[c][o] /\ m.order = o
                      /\ \A d \in Chains : delivered[d][o] = 0
                      /\ c = Relay => RelayedAs(o) = {}
                      /\ c # Relay => RelayedAs(o) # {} /\ Stage(Relay, o) # "stored"
    BY DEF KeptForRetry
  <2>1. PICK m \in failed[c] : m.order = o /\ orderList[c][o] = Stored(m)
    BY DEF OrdersInv, StoredInv
  <2>2. PICK e \in sent : Tells(m, e)  BY DEF OrdersInv, TracedInv, Traced
  <2>3. \A r \in relayed : r.order = o => r.from = e.from /\ r.to = e.to
    BY <2>1, <2>2 DEF OrdersInv, TracedInv, Traced, Tells, SentOnce
  <2>4. CASE c = Relay
    <3>1. e.from # Relay  BY <2>1, <2>2, <2>4 DEF OrdersInv, FailedInv, Tells
    <3>2. \A r \in relayed : r.order # o
      BY <2>1, <2>3, <2>4, <3>1, StagesDiffer DEF OrdersInv, RelayedInv
    <3>3. ASSUME NEW d \in Chains, delivered[d][o] # 0 PROVE FALSE
      BY <2>1, <2>4, <3>2, <3>3, StagesDiffer DEF OrdersInv, DeliveredInv
    <3> QED  BY <2>1, <2>4, <3>2, <3>3 DEF RelayedAs
  <2>5. CASE c # Relay
    <3>1. e.to = c  BY <2>1, <2>2, <2>5 DEF OrdersInv, FailedInv, Tells
    <3>2. PICK r \in relayed : r.order = o  BY <2>5 DEF OrdersInv, StoredInv
    <3>3. ASSUME NEW d \in Chains, delivered[d][o] # 0 PROVE FALSE
      <4>1. d = c  BY <2>1, <2>2, <3>1, <3>3 DEF OrdersInv, DeliveredInv, SentOnce, Tells
      <4> QED  BY <2>1, <3>3, <4>1, StagesDiffer DEF OrdersInv, DeliveredInv
    <3>4. Stage(Relay, o) # "stored"
      <4> SUFFICES ASSUME Stage(Relay, o) = "stored" PROVE FALSE  OBVIOUS
      <4>1. PICK f \in failed[Relay] : f.order = o
        BY RelayIsChain DEF OrdersInv, StoredInv
      <4>2. f.from # Relay  BY RelayIsChain DEF OrdersInv, FailedInv
      <4>3. r.from = f.from
        BY <3>2, <4>1, RelayIsChain DEF OrdersInv, TracedInv, Traced, Tells, SentOnce
      <4>4. orderList[Relay][o] = Processed  BY <3>2, <4>2, <4>3 DEF OrdersInv, RelayedInv
      <4> QED  BY <4>4, StagesDiffer DEF Stage
    <3> QED  BY <2>1, <2>5, <3>2, <3>3, <3>4 DEF RelayedAs
  <2> QED  BY <2>4, <2>5
<1> QED  BY <1>1, OrdersCorrect, PTL

\* An entry of orderList never goes back: done stays done, and what is stored
\* stays as it is until it is done.
THEOREM EntriesAreFinal == Spec => OrderFinal
<1>1. TypeOK /\ OrdersInv /\ [Next]_vars => [EntriesStep]_vars
  BY NextOrders DEF OrderStep
<1>2. [][EntriesStep]_vars => OrderFinal  BY DEF EntriesStep, OrderFinal
<1> QED  BY <1>1, <1>2, OrdersCorrect, PTL DEF Spec

-----------------------------------------------------------------------------
(* The bridge implements OrderDelivery, for every number of chains, tokens,*)
(* orders and callers: every transaction moves at most one order, along the*)
(* edges of the order's life, and executes it where it was sent to.  Each  *)
(* alternative of OrderMoves is one action of OrderDelivery under the      *)
(* mapping of Promise.                                                     *)

\* What the mapping of an order depends on.
SameLife(o) ==
    /\ \A c \in Chains : delivered'[c][o] = delivered[c][o]
    /\ \A c \in Chains : orderList'[c][o] = orderList[c][o]
    /\ RelayedAs(o)' = RelayedAs(o)
    /\ SentAs(o)' = SentAs(o)

LEMMA LifeKept ==
    ASSUME NEW o \in OrderIds, SameLife(o)
    PROVE  StageOf(o)' = StageOf(o) /\ DestOf(o)' = DestOf(o)
<1>1. DestOf(o)' = DestOf(o)  BY DEF SameLife, DestOf
<1>2. (\E c \in Chains : delivered[c][o] > 0)' <=> \E c \in Chains : delivered[c][o] > 0
  BY DEF SameLife
<1>3. (\E c \in LeafChains : Stage(c, o) = "stored")' <=> \E c \in LeafChains : Stage(c, o) = "stored"
  BY DEF SameLife, Stage, LeafChains
<1>4. (Stage(Relay, o) = "stored")' <=> Stage(Relay, o) = "stored"
  BY RelayIsChain DEF SameLife, Stage
<1>5. (RelayedAs(o) # {})' <=> RelayedAs(o) # {}  BY DEF SameLife
<1>6. (SentAs(o) # {})' <=> SentAs(o) # {}  BY DEF SameLife
<1>7. StageOf(o)' = StageOf(o)  BY <1>2, <1>3, <1>4, <1>5, <1>6 DEF StageOf
<1> QED  BY <1>1, <1>7

\* The destination of an order that was sent.
LEMMA DestSent ==
    ASSUME SentOnce, NEW e \in sent
    PROVE  DestOf(e.order) = e.to /\ SentAs(e.order) = {e}
<1>1. SentAs(e.order) = {e}  BY DEF SentAs, SentOnce
<1> QED  BY <1>1 DEF DestOf

\* The mapped variables.
stages == [o \in OrderIds |-> StageOf(o)]
dests == [o \in OrderIds |-> DestOf(o)]

\* Only order o moves, from one stage to another.
Moves(o, from, to) ==
    /\ StageOf(o) \in from /\ StageOf(o)' = to
    /\ \A q \in OrderIds \ {o} : StageOf(q)' = StageOf(q)

LEMMA MoveMaps ==
    ASSUME NEW o \in OrderIds, NEW from, NEW to, Moves(o, from, to)
    PROVE  Promise!Move(o, from, to)
<1>1. stages' = [stages EXCEPT ![o] = to]  BY DEF Moves, stages
<1>2. stages[o] \in from  BY DEF Moves, stages
<1> QED  BY <1>1, <1>2 DEF Promise!Move, stages

-----------------------------------------------------------------------------
(* Where an order is.                                                      *)

\* Nothing is known of an order that was not sent.
LEMMA NotSent ==
    ASSUME TypeOK, OrdersInv, NEW o \in OrderIds, \A e \in sent : e.order # o
    PROVE  /\ \A c \in Chains : delivered[c][o] = 0 /\ Stage(c, o) # "stored"
           /\ RelayedAs(o) = {} /\ SentAs(o) = {}
<1>1. ASSUME NEW c \in Chains PROVE delivered[c][o] = 0
  BY DEF OrdersInv, DeliveredInv
<1>2. ASSUME NEW c \in Chains, Stage(c, o) = "stored" PROVE FALSE
  <2>1. PICK m \in failed[c] : m.order = o  BY <1>2 DEF OrdersInv, StoredInv
  <2> QED  BY <2>1 DEF OrdersInv, TracedInv, Traced, Tells
<1>3. RelayedAs(o) = {}  BY DEF OrdersInv, TracedInv, Traced, Tells, RelayedAs
<1> QED  BY <1>1, <1>2, <1>3 DEF SentAs

\* An order is executed only at its destination, and kept only there or at the
\* relay chain.
LEMMA OnlyAtDestination ==
    ASSUME TypeOK, OrdersInv, NEW e \in sent, NEW c \in Chains, c # e.to
    PROVE  /\ delivered[c][e.order] = 0
           /\ c # Relay => Stage(c, e.order) # "stored"
<1>0. e.order \in OrderIds  BY DEF TypeOK, MessageOutEvent
<1>1. delivered[c][e.order] = 0  BY <1>0 DEF OrdersInv, DeliveredInv, SentOnce
<1>2. ASSUME c # Relay, Stage(c, e.order) = "stored" PROVE FALSE
  <2>1. PICK m \in failed[c] : m.order = e.order  BY <1>0, <1>2 DEF OrdersInv, StoredInv
  <2>2. m.to = c  BY <1>2, <2>1 DEF OrdersInv, FailedInv
  <2>3. m.to = e.to  BY <2>1 DEF OrdersInv, TracedInv, Traced, Tells, SentOnce
  <2> QED  BY <2>2, <2>3
<1> QED  BY <1>1, <1>2

\* Before it is relayed an order has left no trace at another chain.
LEMMA NotRelayed ==
    ASSUME TypeOK, OrdersInv, NEW o \in OrderIds, RelayedAs(o) = {},
           NEW c \in LeafChains
    PROVE  delivered[c][o] = 0 /\ Stage(c, o) # "stored"
<1>1. c \in Chains /\ c # Relay  BY DEF LeafChains
<1> QED  BY <1>1 DEF OrdersInv, DeliveredInv, StoredInv, RelayedAs

LEMMA NotProcessed ==
    ASSUME TypeOK, OrdersInv, NEW o \in OrderIds, NEW c \in Chains,
           orderList[c][o] # Processed
    PROVE  delivered[c][o] = 0
BY DEF OrdersInv, DeliveredInv

\* An order for the relay chain is not relayed; an order of another chain is
\* processed there when it is.
LEMMA RelayedFrom ==
    ASSUME TypeOK, OrdersInv, NEW e \in sent, RelayedAs(e.order) # {}
    PROVE  /\ e.to # Relay
           /\ e.from # Relay => orderList[Relay][e.order] = Processed
<1>1. PICK r \in relayed : r.order = e.order  BY DEF RelayedAs
<1>2. r.from = e.from /\ r.to = e.to
  BY <1>1 DEF OrdersInv, TracedInv, Traced, Tells, SentOnce
<1> QED  BY <1>1, <1>2 DEF OrdersInv, RelayedInv

\* The stages, by the state they stand for.
LEMMA StageIs ==
    ASSUME NEW o \in OrderIds
    PROVE  /\ (\E c \in Chains : delivered[c][o] > 0) => StageOf(o) = "done"
           /\ ~(\E c \in Chains : delivered[c][o] > 0) /\ RelayedAs(o) # {}
                => /\ (\E c \in LeafChains : Stage(c, o) = "stored") => StageOf(o) = "held"
                   /\ ~(\E c \in LeafChains : Stage(c, o) = "stored") => StageOf(o) = "routed"
           /\ /\ ~(\E c \in Chains : delivered[c][o] > 0) /\ RelayedAs(o) = {}
              /\ ~(\E c \in LeafChains : Stage(c, o) = "stored")
              => /\ Stage(Relay, o) = "stored" => StageOf(o) = "kept"
                 /\ Stage(Relay, o) # "stored" /\ SentAs(o) # {} => StageOf(o) = "sent"
                 /\ Stage(Relay, o) # "stored" /\ SentAs(o) = {} => StageOf(o) = "none"
BY DEF StageOf

LEMMA StageIsNext ==
    ASSUME NEW o \in OrderIds
    PROVE  /\ (\E c \in Chains : delivered'[c][o] > 0) => StageOf(o)' = "done"
           /\ ~(\E c \in Chains : delivered'[c][o] > 0) /\ RelayedAs(o)' # {}
                => /\ (\E c \in LeafChains : Stage(c, o)' = "stored") => StageOf(o)' = "held"
                   /\ ~(\E c \in LeafChains : Stage(c, o)' = "stored") => StageOf(o)' = "routed"
           /\ /\ ~(\E c \in Chains : delivered'[c][o] > 0) /\ RelayedAs(o)' = {}
              /\ ~(\E c \in LeafChains : Stage(c, o)' = "stored")
              => /\ Stage(Relay, o)' = "stored" => StageOf(o)' = "kept"
                 /\ Stage(Relay, o)' # "stored" /\ SentAs(o)' # {} => StageOf(o)' = "sent"
                 /\ Stage(Relay, o)' # "stored" /\ SentAs(o)' = {} => StageOf(o)' = "none"
BY DEF StageOf

-----------------------------------------------------------------------------
(* The steps.                                                              *)

LEMMA SendMaps ==
    ASSUME TypeOK, OrdersInv, NEW e, Sends(e), e.from # Relay,
           UNCHANGED <<orderList, delivered, failed, relayed>>
    PROVE  \E o \in OrderIds, s \in Chains : Promise!Send(o, s)
<1> DEFINE o == e.order
<1>1. o \in OrderIds /\ o[1] = e.from /\ e.to \in Chains /\ e.to # e.from
  BY DEF Sends, MessageOutEvent
<1>2. /\ \A c \in Chains : delivered[c][o] = 0 /\ Stage(c, o) # "stored"
      /\ RelayedAs(o) = {} /\ SentAs(o) = {}
  BY <1>1, NotSent DEF Sends
<1>3. SentAs(o)' = {e} /\ \A q \in OrderIds \ {o} : SentAs(q)' = SentAs(q)
  BY DEF Sends, SentAs
<1>4. \A q \in OrderIds : RelayedAs(q)' = RelayedAs(q)  BY DEF RelayedAs
<1>5. \A q \in OrderIds \ {o} : SameLife(q)  BY <1>3, <1>4 DEF SameLife
<1>6. DestOf(o)' = e.to  BY <1>3 DEF DestOf
<1>7. StageOf(o) = "none"  BY <1>1, <1>2, StageIs, RelayIsChain DEF LeafChains
<1>8. \A c \in Chains : Stage(c, o)' # "stored" /\ delivered'[c][o] = 0  BY <1>2 DEF Stage
<1>9. StageOf(o)' = "sent"
  BY <1>1, <1>2, <1>3, <1>4, <1>8, StageIsNext, RelayIsChain DEF LeafChains
<1>10. Moves(o, {"none"}, "sent")  BY <1>5, <1>7, <1>9, LifeKept DEF Moves
<1>11. Promise!Move(o, {"none"}, "sent")  BY <1>1, <1>10, MoveMaps
<1>12. dests' = [dests EXCEPT ![o] = e.to]
  BY <1>1, <1>5, <1>6, LifeKept DEF dests
<1> HIDE DEF o
<1>13. Promise!Send(o, e.to)
  BY <1>1, <1>11, <1>12 DEF Promise!Send, dests
<1> QED  BY <1>1, <1>13

\* An order of the relay chain is routed by the transaction that sends it.
LEMMA SendRelayMaps ==
    ASSUME TypeOK, OrdersInv, NEW e, NEW m, Sends(e), Tells(m, e), m.from = Relay, Relays(m)
    PROVE  \E o \in OrderIds, s \in Chains : Promise!Send(o, s)
<1> DEFINE o == e.order
<1>1. o \in OrderIds /\ o[1] = Relay /\ e.to \in Chains /\ e.to # Relay /\ m.order = o
  BY DEF Sends, MessageOutEvent, Tells
<1>2. /\ \A c \in Chains : delivered[c][o] = 0 /\ Stage(c, o) # "stored"
      /\ RelayedAs(o) = {} /\ SentAs(o) = {}
  BY <1>1, NotSent DEF Sends
<1>3. SentAs(o)' = {e} /\ \A q \in OrderIds \ {o} : SentAs(q)' = SentAs(q)
  BY DEF Sends, SentAs
<1>4. UNCHANGED <<orderList, delivered, failed>> /\ relayed' = relayed \cup {m}
  BY DEF Relays, EmitMessageRelay, RecordRelayed
<1>5. RelayedAs(o)' # {} /\ \A q \in OrderIds \ {o} : RelayedAs(q)' = RelayedAs(q)
  BY <1>1, <1>4 DEF RelayedAs
<1>6. \A q \in OrderIds \ {o} : SameLife(q)  BY <1>3, <1>4, <1>5 DEF SameLife
<1>7. DestOf(o)' = e.to  BY <1>3 DEF DestOf
<1>8. StageOf(o) = "none"  BY <1>1, <1>2, StageIs, RelayIsChain DEF LeafChains
<1>9. \A c \in Chains : Stage(c, o)' # "stored" /\ delivered'[c][o] = 0
  BY <1>2, <1>4 DEF Stage
<1>10. StageOf(o)' = "routed"
  BY <1>1, <1>5, <1>9, StageIsNext DEF LeafChains
<1>11. Moves(o, {"none"}, "routed")  BY <1>6, <1>8, <1>10, LifeKept DEF Moves
<1>12. Promise!Move(o, {"none"}, "routed")  BY <1>1, <1>11, MoveMaps
<1>13. dests' = [dests EXCEPT ![o] = e.to]
  BY <1>1, <1>6, <1>7, LifeKept DEF dests
<1> HIDE DEF o
<1>14. Promise!Send(o, e.to)
  BY <1>1, <1>4, <1>12, <1>13 DEF Promise!Send, dests
<1> QED  BY <1>1, <1>14

\* What a delivery, a refusal or a relaying of m leaves alone.
Only(m) ==
    /\ sent' = sent
    /\ \A c \in Chains, q \in OrderIds \ {m.order} :
        orderList'[c][q] = orderList[c][q] /\ delivered'[c][q] = delivered[c][q]
    /\ \A q \in OrderIds \ {m.order} : RelayedAs(q)' = RelayedAs(q)

LEMMA OnlyMoves ==
    ASSUME NEW m, m.order \in OrderIds, Only(m), NEW from, NEW to,
           StageOf(m.order) \in from, StageOf(m.order)' = to
    PROVE  /\ Promise!Move(m.order, from, to)
           /\ dests' = dests
<1>1. \A q \in OrderIds : SentAs(q)' = SentAs(q) /\ DestOf(q)' = DestOf(q)
  BY DEF Only, SentAs, DestOf
<1>2. \A q \in OrderIds \ {m.order} : SameLife(q)  BY <1>1 DEF Only, SameLife
<1>3. Moves(m.order, from, to)  BY <1>2, LifeKept DEF Moves
<1> QED  BY <1>1, <1>3, MoveMaps DEF dests

LEMMA DeliverMaps ==
    ASSUME TypeOK, OrdersInv, NEW e \in sent, NEW m, Tells(m, e), sent' = sent,
           NEW c \in Chains, Delivers(c, m)
    PROVE  \E o \in OrderIds : Promise!Execute(o)
<1> DEFINE o == m.order
<1>0. orderList \in [Chains -> [OrderIds -> OrderState]] /\ delivered \in [Chains -> [OrderIds -> Nat]]
  BY DEF TypeOK
<1>1. o \in OrderIds /\ e.order = o /\ e.to = c /\ SentAs(o) = {e} /\ DestOf(o) = c
  BY DestSent DEF Tells, Delivers, TypeOK, MessageOutEvent, OrdersInv
<1>2. /\ delivered' = [delivered EXCEPT ![c][o] = @ + 1]
      /\ orderList' = [orderList EXCEPT ![c][o] = Processed] /\ relayed' = relayed
  BY DEF Delivers, EmitMessageIn, MarkProcessed
<1>3. \A d \in Chains : delivered[d][o] = 0 /\ (d \notin {c, Relay} => Stage(d, o) # "stored")
  BY <1>1, OnlyAtDestination, NotProcessed DEF Delivers
<1>4. Only(m)  BY <1>0, <1>1, <1>2 DEF Only, RelayedAs
<1>5. StageOf(o) \in IF c = Relay THEN {"sent", "kept"} ELSE {"routed", "held"}
  <2>1. CASE c = Relay
    <3>1. RelayedAs(o) = {}  BY <1>1, <2>1, RelayedFrom
    <3> QED  BY <1>1, <1>3, <2>1, <3>1, StageIs DEF LeafChains
  <2>2. CASE c # Relay
    <3>1. RelayedAs(o) # {}  BY <2>2 DEF Delivers, RelayedAs
    <3> QED  BY <1>1, <1>3, <2>2, <3>1, StageIs DEF LeafChains
  <2> QED  BY <2>1, <2>2
<1>6. delivered'[c][o] = 1
  <2>1. delivered'[c][o] = delivered[c][o] + 1  BY <1>0, <1>1, <1>2
  <2> QED  BY <1>3, <2>1
<1>7. StageOf(o)' = "done"  BY <1>1, <1>6, StageIsNext
<1>8. /\ Promise!Move(o, IF c = Relay THEN {"sent", "kept"} ELSE {"routed", "held"}, "done")
      /\ dests' = dests
  BY <1>1, <1>4, <1>5, <1>7, OnlyMoves
<1>9. dests[o] = c  BY <1>1 DEF dests
<1> HIDE DEF o
<1> QED  BY <1>1, <1>2, <1>8, <1>9 DEF Promise!Execute, dests

LEMMA KeepMaps ==
    ASSUME TypeOK, OrdersInv, NEW e \in sent, NEW m, Tells(m, e), sent' = sent,
           NEW c \in Chains, Keeps(c, m)
    PROVE  \E o \in OrderIds : Promise!Keep(o) \/ Promise!Hold(o)
<1> DEFINE o == m.order
<1>0. orderList \in [Chains -> [OrderIds -> OrderState]] /\ delivered \in [Chains -> [OrderIds -> Nat]]
  BY DEF TypeOK
<1>1. o \in OrderIds /\ e.order = o /\ e.to = m.to /\ e.from = m.from /\ SentAs(o) = {e}
  BY DestSent DEF Tells, TypeOK, MessageOutEvent, OrdersInv
<1>2. /\ orderList' = [orderList EXCEPT ![c][o] = Stored(m)]
      /\ delivered' = delivered /\ relayed' = relayed
  BY DEF Keeps, StoreMessageData
<1>3. Only(m)  BY <1>0, <1>1, <1>2 DEF Only, RelayedAs
<1>4. orderList'[c][o] = Stored(m) /\ \A d \in Chains \ {c} : orderList'[d][o] = orderList[d][o]
  BY <1>0, <1>1, <1>2
<1>5. Stage(c, o)' = "stored" /\ Stage(c, o) # "stored"
  BY <1>1, <1>4, StagesDiffer DEF Stage, Keeps
<1>6. \A d \in Chains \ {c} : Stage(d, o)' = "stored" <=> Stage(d, o) = "stored"
  BY <1>4 DEF Stage
<1>7. CASE c = Relay
  <2>1. RelayedAs(o) = {}
    BY <1>1, <1>7, RelayedFrom, StagesDiffer DEF Keeps
  <2>2. \A d \in LeafChains : delivered[d][o] = 0 /\ Stage(d, o) # "stored"
    BY <1>1, <2>1, NotRelayed
  <2>3. delivered[Relay][o] = 0  BY <1>1, <1>7, NotProcessed, StagesDiffer DEF Keeps
  <2>4. StageOf(o) = "sent"
    BY <1>1, <1>5, <1>7, <2>1, <2>2, <2>3, StageIs DEF LeafChains
  <2>5. RelayedAs(o)' = {}  BY <1>2, <2>1 DEF RelayedAs
  <2>6. ~(\E d \in LeafChains : Stage(d, o)' = "stored")
    BY <1>6, <1>7, <2>2 DEF LeafChains
  <2>7. ~(\E d \in Chains : delivered'[d][o] > 0)  BY <1>2, <2>2, <2>3 DEF LeafChains
  <2>8. StageOf(o)' = "kept"  BY <1>1, <1>5, <1>7, <2>5, <2>6, <2>7, StageIsNext
  <2>9. Promise!Move(o, {"sent"}, "kept") /\ dests' = dests
    BY <1>1, <1>3, <2>4, <2>8, OnlyMoves
  <2> HIDE DEF o
  <2> QED  BY <1>1, <1>2, <2>9 DEF Promise!Keep, dests
<1>8. CASE c # Relay
  <2>1. RelayedAs(o) # {} /\ m.to = c  BY <1>8 DEF Keeps, RelayedAs
  <2>2. \A d \in Chains : delivered[d][o] = 0
    BY <1>1, <2>1, OnlyAtDestination, NotProcessed, StagesDiffer DEF Keeps
  <2>3. \A d \in LeafChains : Stage(d, o) # "stored"
    BY <1>1, <1>5, <2>1, OnlyAtDestination DEF LeafChains
  <2>4. StageOf(o) = "routed"  BY <1>1, <2>1, <2>2, <2>3, StageIs
  <2>5. RelayedAs(o)' # {}  BY <1>2, <2>1 DEF RelayedAs
  <2>6. \E d \in LeafChains : Stage(d, o)' = "stored"  BY <1>5, <1>8 DEF LeafChains
  <2>7. ~(\E d \in Chains : delivered'[d][o] > 0)  BY <1>2, <2>2
  <2>8. StageOf(o)' = "held"  BY <1>1, <2>5, <2>6, <2>7, StageIsNext
  <2>9. Promise!Move(o, {"routed"}, "held") /\ dests' = dests
    BY <1>1, <1>3, <2>4, <2>8, OnlyMoves
  <2> HIDE DEF o
  <2> QED  BY <1>1, <1>2, <2>9 DEF Promise!Hold, dests
<1> QED  BY <1>7, <1>8

LEMMA RelayMaps ==
    ASSUME TypeOK, OrdersInv, NEW e \in sent, NEW m, Tells(m, e), sent' = sent,
           m.from # Relay, Relays(m)
    PROVE  \E o \in OrderIds : Promise!Route(o)
<1> DEFINE o == m.order
<1>0. orderList \in [Chains -> [OrderIds -> OrderState]]  BY DEF TypeOK
<1>1. /\ o \in OrderIds /\ e.order = o /\ SentAs(o) = {e} /\ DestOf(o) = e.to
      /\ e.to = m.to /\ m.to # Relay
  BY DestSent DEF Tells, Relays, TypeOK, MessageOutEvent, OrdersInv
<1>2. /\ orderList' = [orderList EXCEPT ![Relay][o] = Processed]
      /\ delivered' = delivered /\ relayed' = relayed \cup {m}
  BY DEF Relays, EmitMessageRelay, RecordRelayed, MarkProcessed
<1>3. Only(m)  BY <1>0, <1>1, <1>2, RelayIsChain DEF Only, RelayedAs
<1>4. RelayedAs(o) = {} /\ RelayedAs(o)' # {}  BY <1>2 DEF Relays, RelayedAs
<1>5. \A d \in LeafChains : delivered[d][o] = 0 /\ Stage(d, o) # "stored"
  BY <1>1, <1>4, NotRelayed
<1>6. delivered[Relay][o] = 0  BY <1>1, OnlyAtDestination, RelayIsChain
<1>7. ~(\E d \in Chains : delivered[d][o] > 0)  BY <1>5, <1>6 DEF LeafChains
<1>8. StageOf(o) \in {"sent", "kept"}  BY <1>1, <1>4, <1>5, <1>7, StageIs
<1>9. \A d \in LeafChains : Stage(d, o)' # "stored"
  BY <1>0, <1>1, <1>2, <1>5, RelayIsChain DEF Stage, LeafChains
<1>10. StageOf(o)' = "routed"  BY <1>1, <1>2, <1>4, <1>7, <1>9, StageIsNext
<1>11. Promise!Move(o, {"sent", "kept"}, "routed") /\ dests' = dests
  BY <1>1, <1>3, <1>8, <1>10, OnlyMoves
<1>12. dests[o] # Relay  BY <1>1 DEF dests
<1> HIDE DEF o
<1> QED  BY <1>1, <1>2, <1>11, <1>12 DEF Promise!Route, dests

-----------------------------------------------------------------------------
(* The refinement.                                                         *)

LEMMA InitMaps == Init => Promise!OrderInit
<1> SUFFICES ASSUME Init PROVE Promise!OrderInit  OBVIOUS
<1>1. \A o \in OrderIds : SentAs(o) = {} /\ RelayedAs(o) = {}
  BY DEF Init, SentAs, RelayedAs
<1>2. \A c \in Chains, o \in OrderIds : delivered[c][o] = 0 /\ Stage(c, o) # "stored"
  BY StagesDiffer DEF Init, Stage
<1>3. ASSUME NEW o \in OrderIds PROVE StageOf(o) = "none" /\ DestOf(o) \in Chains
  <2>1. StageOf(o) = "none"  BY <1>1, <1>2, StageIs, RelayIsChain DEF LeafChains
  <2> QED  BY <1>1, <2>1, RelayIsChain DEF DestOf
<1>4. stages = [o \in OrderIds |-> "none"] /\ dests \in [OrderIds -> Chains]
  BY <1>3 DEF stages, dests
<1>5. delivered = [c \in Chains |-> [o \in OrderIds |-> 0]]  BY DEF Init
<1> QED  BY <1>4, <1>5 DEF Promise!OrderInit, stages, dests

\* A transaction that touches no order, or a stutter.
LEMMA OtherMaps ==
    ASSUME UNCHANGED <<sent, orderList, delivered, failed, relayed>>
    PROVE  UNCHANGED Promise!orderVars
<1>1. \A q \in OrderIds : SameLife(q)  BY DEF SameLife, SentAs, RelayedAs
<1>2. stages' = stages /\ dests' = dests  BY <1>1, LifeKept DEF stages, dests
<1> QED  BY <1>2 DEF Promise!orderVars, stages, dests

LEMMA NextMaps ==
    TypeOK /\ OrdersInv /\ [Next]_vars => [Promise!OrderNext]_(Promise!orderVars)
<1> SUFFICES ASSUME TypeOK, OrdersInv, [Next]_vars
             PROVE  Promise!OrderNext \/ UNCHANGED Promise!orderVars
  OBVIOUS
<1>1. OrderMoves  BY NextOrders DEF OrderStep
<1>2. CASE UNCHANGED <<sent, orderList, delivered, failed, relayed>>  BY <1>2, OtherMaps
<1>3. ASSUME NEW e, Sends(e), e.from # Relay,
             UNCHANGED <<orderList, delivered, failed, relayed>>
      PROVE  Promise!OrderNext
  BY <1>3, SendMaps DEF Promise!OrderNext
<1>4. ASSUME NEW e, NEW m, Sends(e), Tells(m, e), m.from = Relay, Relays(m)
      PROVE  Promise!OrderNext
  BY <1>4, SendRelayMaps DEF Promise!OrderNext
<1>5. ASSUME NEW e \in sent, NEW m, sent' = sent, Tells(m, e), NEW c \in Chains, Delivers(c, m)
      PROVE  Promise!OrderNext
  BY <1>5, DeliverMaps DEF Promise!OrderNext
<1>6. ASSUME NEW e \in sent, NEW m, sent' = sent, Tells(m, e), NEW c \in Chains, Keeps(c, m)
      PROVE  Promise!OrderNext
  BY <1>6, KeepMaps DEF Promise!OrderNext
<1>7. ASSUME NEW e \in sent, NEW m, sent' = sent, Tells(m, e), m.from # Relay, Relays(m)
      PROVE  Promise!OrderNext
  BY <1>7, RelayMaps DEF Promise!OrderNext
<1> QED  BY <1>1, <1>2, <1>3, <1>4, <1>5, <1>6, <1>7 DEF OrderMoves

\* The contracts together keep the promise of OrderDelivery: whatever the fees,
\* executors, retries and repeated proofs, an order is sent once, passes the relay
\* chain at most once, waits in one place and is executed where it was sent to.
THEOREM OrdersDelivered == Spec => DeliversOrders
<1>1. Init => Promise!OrderInit  BY InitMaps
<1>2. TypeOK /\ OrdersInv /\ [Next]_vars => [Promise!OrderNext]_(Promise!orderVars)
  BY NextMaps
<1> QED  BY <1>1, <1>2, OrdersCorrect, PTL DEF Spec, DeliversOrders, Promise!OrderSpec
=============================================================================
