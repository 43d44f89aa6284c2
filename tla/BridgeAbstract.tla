--------------------------- MODULE BridgeAbstract ---------------------------
(***************************************************************************)
(* BridgeAbstract: the state and the internal functions that the contract  *)
(* Bridge of every chain and the contract BridgeAndRelay of the relay      *)
(* chain inherit.  Each variable is a function of the chain: chains run    *)
(* independently and a transaction is one atomic step of one chain.  A     *)
(* transaction that reverts changes nothing and is no step at all.         *)
(*                                                                         *)
(* Receivers, executors and swappers are not told apart: whether the called *)
(* account has code, and whether the call succeeds, is a free choice at    *)
(* every call, so an account may gain code between a call and its retry.   *)
(***************************************************************************)
EXTENDS TokenRegister, FiniteSets

CONSTANTS
    Relay,          \* the relay chain
    Mintable,       \* set of <<chain, token>> whose token the bridge mints
    MessageFee,     \* [Chains -> Nat], fee to send a message to a chain
    InitHeld,       \* [Chains -> [Tokens -> Nat]], tokens outside the bridge
    InitLiquidity,  \* [Chains -> [Tokens -> Nat]], deposited from a chain
    NoToken, NoMessage,
    Amounts,        \* bound: the amounts users and executors move
    Kinds,          \* bound: the message types the users send
    MaxNonce,       \* bound: [Chains -> Nat], orders created on a chain
    MaxAdmin        \* bound: administrator transactions in all

VARIABLES
    nonce,          \* [Chains -> Nat]
    orderList,      \* [Chains -> [OrderIds -> OrderState]]
    paused,         \* [Chains -> BOOLEAN]
    bridgeable,     \* [Chains -> set of <<token, chain>>], tokenMappingList
    failedReceiver, \* [Chains -> BOOLEAN], whether a failed receiver is set
    acct,           \* [Chains -> Account], token balances and feeList
    sent,           \* log of MessageOut events of all the chains
    relayed,        \* log of MessageRelay events of the relay chain
    failed,         \* [Chains -> log of MessageIn events with result false]
    delivered,      \* [Chains -> [OrderIds -> Nat]], MessageIn events, true
    adminOps        \* administrator transactions so far

baseVars == <<nonce, orderList, paused, bridgeable, failedReceiver, acct,
              sent, relayed, failed, delivered, adminOps>>

LeafChains == Chains \ {Relay}
FeeReceivers == {"service", "messenger", "protocol", "base"}
MessageTypes == {"MESSAGE", "BRIDGE", "DEPOSIT"}
OrderIds == UNION {{c} \X (0..MaxNonce[c] - 1) : c \in Chains}

\* The keccak of the contract, its nonce and the chains: unique per <<c, nonce>>.
GetOrderId(c) == <<c, nonce[c]>>

\* A message carries no token, every other order does.  A MessageOut event and
\* what the relay keeps of a bridge order name the initiator; elsewhere the field
\* only traces it, and no operator reads it.
MessageInEvent ==
    {m \in [order : OrderIds, type : MessageTypes, from : Chains, to : Chains,
            token : Tokens \cup {NoToken}, amount : Nat, initiator : Callers,
            swap : BOOLEAN] : m.type = "MESSAGE" \/ m.token \in Tokens}
MessageOutEvent ==
    {e \in [order : OrderIds, type : MessageTypes, from : Chains, to : Chains,
            token : Tokens \cup {NoToken}, amount : Nat, initiator : Callers,
            swap : BOOLEAN, relay : BOOLEAN] : e.type = "MESSAGE" \/ e.token \in Tokens}

\* Mutant of InEvent: the two chain fields are unpacked in the wrong order.
InEventSwapped(e) ==
    [order |-> e.order, type |-> e.type, from |-> e.to, to |-> e.from,
     token |-> e.token, amount |-> e.amount, initiator |-> e.initiator,
     swap |-> e.swap]

InEvent(e) ==
    [order |-> e.order, type |-> e.type, from |-> e.from, to |-> e.to,
     token |-> e.token, amount |-> e.amount, initiator |-> e.initiator,
     swap |-> e.swap]

\* bal: what the bridge contract holds; held: what accounts other than the
\* bridge and its failed receiver hold; parked: what went to the failed
\* receiver; fee: feeList, what is owed to a receiver of fees.
Account ==
    [bal : [Tokens -> Nat], held : [Tokens -> Nat], parked : [Tokens -> Nat],
     fee : [FeeReceivers -> [Tokens -> Nat]]]

ASSUME BridgeAssumption ==
    /\ IsFiniteSet(Chains) /\ Relay \in Chains
    /\ Mintable \subseteq Chains \X Tokens
    /\ MessageFee \in [Chains -> Nat]
    /\ InitHeld \in [Chains -> [Tokens -> Nat]]
    /\ InitLiquidity \in [Chains -> [Tokens -> Nat]]
    /\ NoToken \notin Tokens
    /\ NoMessage \notin MessageInEvent
    /\ Amounts \subseteq Nat \ {0}
    /\ Kinds \subseteq MessageTypes
    /\ MaxNonce \in [Chains -> Nat]
    /\ MaxAdmin \in Nat

-----------------------------------------------------------------------------
(* orderList: 0, 0x01, or the hash of a failed message kept for a retry.   *)

Unknown == [status |-> "unknown", msg |-> NoMessage]
Processed == [status |-> "processed", msg |-> NoMessage]
Stored(m) == [status |-> "stored", msg |-> m]
OrderState ==
    {s \in [status : {"unknown", "processed", "stored"}, msg : MessageInEvent \cup {NoMessage}] :
        s.status = "stored" <=> s.msg # NoMessage}

\* Mutant of CheckOrder: the order is marked but never looked up.
CheckOrderUnread(c, o) == TRUE

CheckOrder(c, o) == orderList[c][o] = Unknown

\* Mutant of MarkProcessed: the entry of an order that is done is deleted.
DeleteProcessed(c, o) == orderList' = [orderList EXCEPT ![c][o] = Unknown]

MarkProcessed(c, o) == orderList' = [orderList EXCEPT ![c][o] = Processed]

\* MessageIn(..., true, ...)
EmitMessageIn(c, m) ==
    /\ MarkProcessed(c, m.order)
    /\ delivered' = [delivered EXCEPT ![c][m.order] = @ + 1]
    /\ UNCHANGED failed

\* MessageIn(..., false, ...): everything a retry must present is in the event.
StoreMessageData(c, m) ==
    /\ orderList' = [orderList EXCEPT ![c][m.order] = Stored(m)]
    /\ failed' = [failed EXCEPT ![c] = @ \cup {m}]
    /\ UNCHANGED delivered

\* Mutant of GetStoredMessage: the hash is not compared with the stored one.
GetAnyMessage(c, m) == m \in failed[c]

\* A retry presents the content of any failed MessageIn event of the past; its
\* hash must be the one kept for the order now.
GetStoredMessage(c, m) == m \in failed[c] /\ orderList[c][m.order] = Stored(m)

-----------------------------------------------------------------------------
(* Token movements, as functions of the chain's account.                   *)

TokenTransferIn(ac, t, amount) ==
    [ac EXCEPT !.held[t] = @ - amount, !.bal[t] = @ + amount]

TokenTransferOut(ac, t, amount) ==
    [ac EXCEPT !.held[t] = @ + amount, !.bal[t] = @ - amount]

IsMintable(c, t) == <<c, t>> \in Mintable

\* Mutant of CheckAndMint: nothing is minted for an order that comes in.
MintNothing(c, ac, t, amount) == ac

CheckAndMint(c, ac, t, amount) ==
    IF IsMintable(c, t) THEN [ac EXCEPT !.bal[t] = @ + amount] ELSE ac

CanBurn(c, ac, t, amount) == IsMintable(c, t) => amount <= ac.bal[t]

CheckAndBurn(c, ac, t, amount) ==
    IF IsMintable(c, t) THEN [ac EXCEPT !.bal[t] = @ - amount] ELSE ac

AddFee(ac, receiver, t, amount) == [ac EXCEPT !.fee[receiver][t] = @ + amount]

-----------------------------------------------------------------------------
(* Mutants of SwapIn: liquidity is not checked; the check is off by one;   *)
(* the failed receiver is paid although the receiver has the tokens.       *)

SwapInUnchecked(c, m, ac) ==
    /\ acct' = [acct EXCEPT ![c] = TokenTransferOut(ac, m.token, m.amount)]
    /\ EmitMessageIn(c, m)

SwapInStrict(c, m, ac) ==
    /\ m.amount < ac.bal[m.token]
    /\ acct' = [acct EXCEPT ![c] = TokenTransferOut(ac, m.token, m.amount)]
    /\ EmitMessageIn(c, m)

SwapInTwice(c, m, ac) ==
    /\ 2 * m.amount <= ac.bal[m.token]
    /\ acct' = [acct EXCEPT ![c] =
            IF failedReceiver[c]
            THEN [TokenTransferOut(ac, m.token, m.amount)
                    EXCEPT !.bal[m.token] = @ - m.amount, !.parked[m.token] = @ + m.amount]
            ELSE TokenTransferOut(ac, m.token, m.amount)]
    /\ EmitMessageIn(c, m)

-----------------------------------------------------------------------------
(* _swapIn: pay the order out.  A transfer that fails goes to the failed   *)
(* receiver when one is set, and reverts the transaction otherwise.        *)
SwapIn(c, m, ac) ==
    /\ m.amount <= ac.bal[m.token]
    /\ \/ acct' = [acct EXCEPT ![c] = TokenTransferOut(ac, m.token, m.amount)]
       \/ /\ failedReceiver[c]
          /\ acct' = [acct EXCEPT ![c] =
                [ac EXCEPT !.bal[m.token] = @ - m.amount,
                           !.parked[m.token] = @ + m.amount]]
    /\ EmitMessageIn(c, m)

\* _transferIn: the executor takes the message, or it is kept for a retry.  The
\* messenger may ask for a revert instead of the latter, which is no step.
TransferIn(c, m) == EmitMessageIn(c, m) \/ StoreMessageData(c, m)

\* _transferOut and _messageOut of a MESSAGE: the fee is paid in a token the
\* fee service knows, and a chain without a message fee is not supported.
CollectMessageFee(c, to, t) ==
    /\ to # c
    /\ MessageFee[to] > 0
    /\ MessageFee[to] <= acct[c].held[t]
    /\ acct' = [acct EXCEPT ![c] =
            AddFee(TokenTransferIn(@, t, MessageFee[to]), "service", t, MessageFee[to])]

MessageOut(c, m) ==
    /\ m.order = GetOrderId(c)
    /\ nonce[c] < MaxNonce[c]
    /\ m.to # c
    /\ nonce' = [nonce EXCEPT ![c] = @ + 1]
    /\ sent' = sent \cup {m}

-----------------------------------------------------------------------------
(* Operations every chain has.                                             *)

Administer == adminOps < MaxAdmin /\ adminOps' = adminOps + 1

Trigger(c) ==
    /\ Administer
    /\ paused' = [paused EXCEPT ![c] = ~@]
    /\ UNCHANGED <<nonce, orderList, bridgeable, failedReceiver, acct, sent,
                   relayed, failed, delivered>>

RegisterTokenChains(c, t, to, enable) ==
    /\ Administer
    /\ bridgeable' = [bridgeable EXCEPT ![c] =
            IF enable THEN @ \cup {<<t, to>>} ELSE @ \ {<<t, to>>}]
    /\ UNCHANGED <<nonce, orderList, paused, failedReceiver, acct, sent,
                   relayed, failed, delivered>>

SetFailedReceiver(c) ==
    /\ Administer
    /\ failedReceiver' = [failedReceiver EXCEPT ![c] = TRUE]
    /\ UNCHANGED <<nonce, orderList, paused, bridgeable, acct, sent,
                   relayed, failed, delivered>>

\* Anyone may have the fees owed to a receiver sent to it, also while paused.
WithdrawFee(c, receiver, t) ==
    LET amount == acct[c].fee[receiver][t] IN
    /\ 0 < amount /\ amount <= acct[c].bal[t]
    /\ acct' = [acct EXCEPT ![c] =
            [TokenTransferOut(@, t, amount) EXCEPT !.fee[receiver][t] = 0]]
    /\ UNCHANGED <<nonce, orderList, paused, bridgeable, failedReceiver, sent,
                   relayed, failed, delivered, adminOps>>

CommonNext(c) ==
    \/ Trigger(c)
    \/ \E t \in Tokens, to \in Chains, enable \in BOOLEAN :
            RegisterTokenChains(c, t, to, enable)
    \/ SetFailedReceiver(c)
    \/ \E r \in FeeReceivers, t \in Tokens : WithdrawFee(c, r, t)
=============================================================================
