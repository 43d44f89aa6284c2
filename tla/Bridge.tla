------------------------------- MODULE Bridge -------------------------------
(***************************************************************************)
(* Bridge: the contract of a chain other than the relay chain.  Orders     *)
(* leave it as MessageOut events, which only the relay chain verifies, and *)
(* arrive as MessageRelay events of the relay contract, proven to the      *)
(* chain's light node.  A proof stays valid: a messenger may present any   *)
(* event of the log, in any order and any number of times.                 *)
(***************************************************************************)
EXTENDS BridgeAbstract

\* transferOut: a message, paid for with the fee token t.
TransferOut(c, to, t, relay, initiator) ==
    LET m == [order |-> GetOrderId(c), type |-> "MESSAGE", from |-> c,
              to |-> to, token |-> NoToken, amount |-> 0,
              initiator |-> initiator, swap |-> FALSE, relay |-> relay] IN
    /\ ~paused[c]
    /\ CollectMessageFee(c, to, t)
    /\ MessageOut(c, m)
    /\ UNCHANGED <<orderList, paused, bridgeable, failedReceiver, relayed,
                   failed, delivered, adminOps>>

\* The tokens of an order come in, and are burnt where the bridge mints them.
TakeTokens(c, t, amount) ==
    /\ amount <= acct[c].held[t]
    /\ acct' = [acct EXCEPT ![c] =
            CheckAndBurn(c, TokenTransferIn(@, t, amount), t, amount)]

SwapOutToken(c, to, t, amount, relay, swap, initiator) ==
    LET m == [order |-> GetOrderId(c), type |-> "BRIDGE", from |-> c,
              to |-> to, token |-> t, amount |-> amount,
              initiator |-> initiator, swap |-> swap, relay |-> relay] IN
    /\ ~paused[c]
    /\ amount > 0
    /\ TakeTokens(c, t, amount)
    /\ <<t, IF relay THEN Relay ELSE to>> \in bridgeable[c]
    /\ MessageOut(c, m)
    /\ UNCHANGED <<orderList, paused, bridgeable, failedReceiver, relayed,
                   failed, delivered, adminOps>>

DepositToken(c, t, amount, sender) ==
    LET m == [order |-> GetOrderId(c), type |-> "DEPOSIT", from |-> c,
              to |-> Relay, token |-> t, amount |-> amount,
              initiator |-> sender, swap |-> FALSE, relay |-> FALSE] IN
    /\ ~paused[c]
    /\ amount > 0
    /\ TakeTokens(c, t, amount)
    /\ <<t, Relay>> \in bridgeable[c]
    /\ MessageOut(c, m)
    /\ UNCHANGED <<orderList, paused, bridgeable, failedReceiver, relayed,
                   failed, delivered, adminOps>>

\* messageIn: a MESSAGE is executed or kept, tokens are minted and paid out.
MessageIn(c, m) ==
    /\ ~paused[c]
    /\ m \in relayed
    /\ m.to = c
    /\ CheckOrder(c, m.order)
    /\ \/ /\ m.type = "MESSAGE"
          /\ TransferIn(c, m)
          /\ UNCHANGED acct
       \/ /\ m.type # "MESSAGE"
          /\ SwapIn(c, m, CheckAndMint(c, acct[c], m.token, m.amount))
    /\ UNCHANGED <<nonce, paused, bridgeable, failedReceiver, sent, relayed,
                   adminOps>>

\* retryMessageIn: the executor must take the message, or the retry reverts.  A
\* receiver without code stores the same message again, which changes nothing.
RetryMessageIn(c, m) ==
    /\ ~paused[c]
    /\ GetStoredMessage(c, m)
    /\ EmitMessageIn(c, m)
    /\ UNCHANGED <<nonce, paused, bridgeable, failedReceiver, acct, sent,
                   relayed, adminOps>>

LeafNext(c) ==
    \/ \E to \in Chains, t \in Tokens, relay \in BOOLEAN, i \in Callers :
            "MESSAGE" \in Kinds /\ TransferOut(c, to, t, relay, i)
    \/ \E to \in Chains, t \in Tokens, a \in Amounts, relay \in BOOLEAN,
          swap \in BOOLEAN, i \in Callers :
            "BRIDGE" \in Kinds /\ SwapOutToken(c, to, t, a, relay, swap, i)
    \/ \E t \in Tokens, a \in Amounts, i \in Callers :
            "DEPOSIT" \in Kinds /\ DepositToken(c, t, a, i)
    \/ \E m \in relayed : MessageIn(c, m)
    \/ \E m \in failed[c] : RetryMessageIn(c, m)
    \/ CommonNext(c)
=============================================================================
