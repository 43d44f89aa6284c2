------------------------ MODULE OmnichainProperties ------------------------
(***************************************************************************)
(* What must be true of the bridge as a whole.  Every property relates     *)
(* states of several contracts, or the same order at several moments.      *)
(***************************************************************************)
EXTENDS Omnichain

SentAs(o) == {e \in sent : e.order = o}
RelayedAs(o) == {m \in relayed : m.order = o}
Stage(c, o) == orderList[c][o].status
KeptAt(c) == {m \in failed[c] : orderList[c][m.order] = Stored(m)}

-----------------------------------------------------------------------------
(* The life of an order.                                                   *)

\* An order is relayed at most once and executed at most once over all the
\* chains, whichever proofs are presented again and whoever retries.
AtMostOnce ==
    /\ \A e, f \in sent : e.order = f.order => e = f
    /\ \A m, n \in relayed : m.order = n.order => m = n
    /\ \A c, d \in Chains, o \in OrderIds :
        /\ delivered[c][o] <= 1
        /\ delivered[c][o] > 0 /\ delivered[d][o] > 0 => c = d

\* Nothing is relayed, kept or executed that was not sent so: the order keeps
\* its type, source and target, whatever happened to it on the relay chain, while
\* no executor had it (at once or at a retry) its token too, and the initiator a
\* retry is charged for is the one that sent it.
NothingForged ==
    /\ \A m \in relayed \cup UNION {failed[c] : c \in Chains} :
        \E e \in sent :
            /\ e.order = m.order /\ e.type = m.type
            /\ e.from = m.from /\ e.to = m.to
            /\ m \in failed[Relay] /\ m.type = "BRIDGE" => e.initiator = m.initiator
            /\ e.relay \/ (\E f \in failed[Relay] : f.order = m.order) \/ m.token = e.token
    /\ \A c \in Chains, o \in OrderIds :
        delivered[c][o] > 0 => \E e \in SentAs(o) : e.to = c

\* An order that waits for a retry can be retried: what its hash was taken of is
\* in an event, it waits nowhere else, and it was not executed or relayed.
KeptForRetry ==
    \A c \in Chains, o \in OrderIds :
        Stage(c, o) = "stored" =>
            /\ \E m \in failed[c] : Stored(m) = orderList[c][o] /\ m.order = o
            /\ \A d \in Chains : delivered[d][o] = 0
            /\ c = Relay => RelayedAs(o) = {}
            /\ c # Relay => RelayedAs(o) # {} /\ Stage(Relay, o) # "stored"

\* What is processed stays so, and what waits for a retry waits with the same
\* content until it is processed.
OrderFinal ==
    [][\A c \in Chains, o \in OrderIds :
        /\ Stage(c, o) = "processed" => orderList'[c][o] = orderList[c][o]
        /\ Stage(c, o) = "stored" =>
            orderList'[c][o] \in {orderList[c][o], Processed}]_vars

-----------------------------------------------------------------------------
(* Value.  Amounts of a token on different chains are compared in the      *)
(* token's common unit.                                                    *)

Worth(t, c, amount) == amount * (Unit[t] \div Scale[t][c])

SumOver(S, f(_)) == SumFunction([x \in S |-> f(x)])

WorthOf(t, c, messages) == SumOver(messages, LAMBDA m : Worth(t, c, m.amount))

Outside(t) ==
    SumOver(Chains, LAMBDA c : Worth(t, c, acct[c].held[t] + acct[c].parked[t]))

\* Sent by a chain, and not seen by the relay chain yet.
ToRelay(t, c) ==
    {e \in sent : e.token = t /\ e.from = c /\ c # Relay /\ CheckOrder(Relay, e.order)}

\* Relayed to a chain, and not seen by it yet.
ToLeaf(t, c) == {m \in relayed : m.token = t /\ m.to = c /\ CheckOrder(c, m.order)}

InTransit(t) ==
    SumOver(Chains, LAMBDA c : WorthOf(t, c, ToRelay(t, c)) + WorthOf(t, c, ToLeaf(t, c)))

Kept(t) == {m \in KeptAt(Relay) : m.token = t}

FeesOf(c, t) == SumOver(FeeReceivers, LAMBDA r : acct[c].fee[r][t])

OwedByRelay(t) ==
    vault[t].total + FeesOf(Relay, t) + SumOver(Kept(t), LAMBDA m : m.amount)

Claims(t) ==
    Outside(t) + InTransit(t) + Worth(t, Relay, OwedByRelay(t))
    + SumOver(LeafChains, LAMBDA c : Worth(t, c, FeesOf(c, t)))

InitialClaims(t) ==
    SumOver(Chains, LAMBDA c : Worth(t, c, InitHeld[c][t]))
    + Worth(t, Relay, InitVault(t).total)

\* No token is worth more than before: what accounts hold, what is on its way
\* and what the relay owes to vaults, fee receivers and kept orders never exceeds
\* what there was, over conversions between decimals, fees, retries and swaps on
\* the way.  (Rounding and an executor's leftovers are lost, never created.)
NoValueCreated == \A t \in Tokens : Claims(t) <= InitialClaims(t)

\* With equal decimals and executors that only swap, nothing is lost either.
ValueConserved == \A t \in Tokens : Claims(t) = InitialClaims(t)

\* Where the relay mints the token, it holds all that it owes: no withdrawal of
\* a fee or of a vault, and no retry, waits for liquidity.
RelaySolvent ==
    \A t \in Tokens : IsMintable(Relay, t) => acct[Relay].bal[t] >= OwedByRelay(t)

\* Deposits the whitelist refused: paid out on the relay chain.
Refused(t, c) ==
    {e \in sent : /\ e.type = "DEPOSIT" /\ e.token = t /\ e.from = c
                  /\ ~CheckOrder(Relay, e.order) /\ e.order \notin depositIn}

\* The vault's book of a chain is the truth about that chain: what its bridge
\* took in, less what it paid out, is what the book gained, plus the fees kept
\* there, the orders on their way in either direction, and the deposits that were
\* refused, for which the book is never told.
VaultTracksLeaf ==
    \A t \in Tokens, c \in LeafChains : Scale[t][c] = Scale[t][Relay] =>
        InitHeld[c][t] - acct[c].held[t] - acct[c].parked[t] =
            FeesOf(c, t) + vault[t].balance[c] - InitVault(t).balance[c]
            + SumOver(ToRelay(t, c) \cup Refused(t, c), LAMBDA e : e.amount)
            + SumOver(ToLeaf(t, c), LAMBDA m : m.amount)

\* The price of a vault share never falls, in whatever order deposits, withdrawals
\* and fees come: each rounds in favour of the vault.
SharePriceNeverFalls ==
    [][\A t \in Tokens :
        vault[t].shares > 0 /\ vault'[t].shares > 0 =>
            vault'[t].total * vault[t].shares >= vault[t].total * vault'[t].shares]_vars

\* Shares are always worth something, so the division that prices a deposit never
\* reverts and an order's deposit is never stuck.
SharesAreWorth == \A t \in Tokens : vault[t].shares > 0 => vault[t].total > 0

-----------------------------------------------------------------------------
(* The quotes.                                                             *)

\* Orders that reach their target as they were sent, with no executor between.
Untouched(e) == e.type = "BRIDGE" /\ ~(e.relay /\ e.swap)

\* Listed with a rate for the target chain only: the quote leaves out the source
\* chain's fee, which the order is charged all the same.
ListedForTargetOnly(e) ==
    /\ Whitelisted(ToCaller[e.token][e.from][e.to][e.initiator])
    /\ ~Whitelisted(FromCaller[e.token][e.from][e.initiator])

ListedForSource(e) == Whitelisted(FromCaller[e.token][e.from][e.initiator])

\* Who follows a quote gets what it said, although an order is charged in two
\* steps with three roundings and a conversion on either side: at least what the
\* quoted fee leaves, and for a listed caller that sends more than was quoted for
\* a target amount, that amount, wherever there is a quote (getTransferFeeV3 and
\* getSourceFeeByTargetV3 against _collectFromFee and _collectTochainFee).
QuotesAreKept ==
    \A e \in sent : \A m \in RelayedAs(e.order) :
        LET amount == TargetAmount(e.token, e.from, Relay, e.amount)
            fee == TransferFee(e.initiator, e.token, amount, e.from, e.to, e.swap)
            rate == CallerRate(e.initiator, e.token, e.from, e.to)
        IN  Untouched(e) /\ ~ListedForTargetOnly(e) =>
                /\ fee < amount =>
                       m.amount >= TargetAmount(e.token, Relay, e.to, amount - fee)
                /\ ListedForSource(e) /\ rate < MAX_RATE_UNI =>
                       e.amount <= SourceAmount(e.initiator, e.token, m.amount + 1,
                                                e.to, e.from, e.swap, Relay)

-----------------------------------------------------------------------------
(* What a test says of the relay chain.                                    *)

\* A paused relay chain relays nothing: "Should revert operations when relay is
\* paused", evmv3/test/relay.security.test.js:140, which tries transferOut.
PausedRelayRelaysNothing == [][paused[Relay] => relayed' = relayed]_vars

-----------------------------------------------------------------------------
(* Progress.                                                               *)

\* Messengers present every proof: anyone may, and is paid a share of the fee.
\* Retries, withdrawals and administrators are under no such obligation.
RelayMessageInOf(o) == \E e \in SentAs(o) : RelayMessageIn(e)
MessageInOf(c, o) == (\E m \in RelayedAs(o) : MessageIn(c, m)) /\ UNCHANGED relayVars

Fairness ==
    /\ \A o \in OrderIds : WF_vars(RelayMessageInOf(o))
    /\ \A c \in LeafChains, o \in OrderIds : WF_vars(MessageInOf(c, o))

FairSpec == Spec /\ Fairness

Open == ~paused[Relay] /\ registered = LeafChains

\* A relay chain that settles open takes in every order sent to it: no amount, fee,
\* whitelist decision or failing executor leaves an order that can only revert.
OrdersReachRelay ==
    <>[]Open =>
        \A o \in OrderIds : o[1] # Relay /\ SentAs(o) # {} ~> ~CheckOrder(Relay, o)

Payable(c, o) ==
    ~paused[c] /\ \A m \in RelayedAs(o) :
        m.type = "MESSAGE" \/ IsMintable(c, m.token) \/ m.amount <= acct[c].bal[m.token]

\* A target chain that settles open, with liquidity for the order where it does not
\* mint, executes the order or keeps it for a retry.
OrdersReachTarget ==
    \A c \in LeafChains, o \in OrderIds :
        <>[]Payable(c, o) =>
            ((\E m \in RelayedAs(o) : m.to = c) ~> ~CheckOrder(c, o))

-----------------------------------------------------------------------------
(* The promise of OrderDelivery.                                           *)

StageOf(o) ==
    IF \E c \in Chains : delivered[c][o] > 0 THEN "done"
    ELSE IF \E c \in LeafChains : Stage(c, o) = "stored" THEN "held"
    ELSE IF RelayedAs(o) # {} THEN "routed"
    ELSE IF Stage(Relay, o) = "stored" THEN "kept"
    ELSE IF SentAs(o) # {} THEN "sent"
    ELSE "none"

DestOf(o) == IF SentAs(o) = {} THEN Relay ELSE (CHOOSE e \in SentAs(o) : TRUE).to

Promise == INSTANCE OrderDelivery WITH
    Orders <- OrderIds, Sites <- Chains, Hub <- Relay,
    Origin <- [o \in OrderIds |-> o[1]],
    stage <- [o \in OrderIds |-> StageOf(o)],
    dest <- [o \in OrderIds |-> DestOf(o)],
    executed <- delivered

\* Every step of the contracts is a step of the order's life, or none.
DeliversOrders == Promise!OrderSpec
=============================================================================
