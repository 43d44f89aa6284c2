--------------------------- MODULE BridgeAndRelay ---------------------------
(***************************************************************************)
(* BridgeAndRelay: the contract of the relay chain.  It verifies the       *)
(* MessageOut events of the other chains, takes the fees, keeps the books  *)
(* of the vaults, may let an executor swap the tokens on the way, and      *)
(* emits the MessageRelay event the target chain acts on.                  *)
(***************************************************************************)
EXTENDS BridgeAbstract

CONSTANTS
    MAX_BASE_POINT,   \* the unit of distributeRate
    DistributeRate,   \* [messenger, protocol -> rate], distributeRate[1], [2]
    ExecutorAmounts   \* bound: what an executor may hand back

VARIABLES
    registered,       \* chains with a mos contract and a chain type
    vault,            \* [Tokens -> Vault]
    depositIn         \* log of DepositIn events, the orders that carried them

relayVars == <<registered, vault, depositIn>>

V == INSTANCE VaultTokenV3

\* setDistributeRate keeps the sum of the rates within the unit; setting a rate
\* sets its receiver, so a share is never computed for a missing receiver.
ASSUME RelayAssumption ==
    /\ MAX_BASE_POINT \in Nat \ {0}
    /\ DistributeRate \in [messenger : Nat, protocol : Nat]
    /\ DistributeRate.messenger + DistributeRate.protocol <= MAX_BASE_POINT
    /\ ExecutorAmounts \subseteq Nat

-----------------------------------------------------------------------------
(* Fees.  The books of a transaction in progress are a record: the relay   *)
(* chain's account and the vaults.                                         *)

Books == [acct |-> acct[Relay], vault |-> vault]

SetBooks(bk) ==
    /\ acct' = [acct EXCEPT ![Relay] = bk.acct]
    /\ vault' = bk.vault

Share(rate, amount) == (amount * rate) \div MAX_BASE_POINT

\* Mutant of VaultShare: the protocol's share is paid twice.
VaultShareTooLarge(amount) == amount - Share(DistributeRate.messenger, amount)

VaultShare(amount) ==
    amount - Share(DistributeRate.messenger, amount)
           - Share(DistributeRate.protocol, amount)

\* _collectBridgeFee
CollectBridgeFee(bk, m, baseFee, proportionFee, fromAmount, outAmount) ==
    LET messageFee == Share(DistributeRate.messenger, proportionFee)
        protocolFee == Share(DistributeRate.protocol, proportionFee)
        ac == AddFee(AddFee(AddFee(bk.acct, "messenger", m.token, messageFee),
                            "protocol", m.token, protocolFee),
                     "base", m.token, baseFee)
    IN  [acct |-> ac,
         vault |-> [bk.vault EXCEPT ![m.token] =
            V!UpdateVault(@, m.from, fromAmount, m.to, outAmount,
                          VaultShare(proportionFee))]]

\* The fee of the source chain, capped by the amount.
FromFeeOf(m) ==
    LET fee == FromChainFee(m.initiator, m.token, m.amount, m.from)
    IN  IF m.amount > fee THEN fee ELSE m.amount

\* Mutant of CollectFromFee: the vault is credited with what is left of the amount.
CollectFromFeeNet(bk, m) ==
    CollectBridgeFee(bk, m, 0, FromFeeOf(m),
                     IF m.from = Relay THEN 0 ELSE m.amount - FromFeeOf(m), 0)

CollectFromFee(bk, m) ==
    CollectBridgeFee(bk, m, 0, FromFeeOf(m),
                     IF m.from = Relay THEN 0 ELSE m.amount, 0)

\* The fees of the target chain: the base fee is served first.
TochainFeesOf(m) ==
    LET base == ToChainBaseFee(m.token, m.to, m.swap)
        prop == ToChainFee(m.initiator, m.token, m.amount, m.from, m.to)
    IN  IF m.amount > base + prop THEN [base |-> base, prop |-> prop]
        ELSE IF m.amount >= base THEN [base |-> base, prop |-> m.amount - base]
        ELSE [base |-> m.amount, prop |-> 0]

AfterTochainFee(m) == m.amount - TochainFeesOf(m).base - TochainFeesOf(m).prop

\* Mutant of CollectTochainFee: the vault is charged the amount before the fees.
CollectTochainFeeGross(bk, m) ==
    CollectBridgeFee(bk, m, TochainFeesOf(m).base, TochainFeesOf(m).prop,
                     IF m.from = Relay THEN m.amount ELSE 0, m.amount)

CollectTochainFee(bk, m) ==
    CollectBridgeFee(bk, m, TochainFeesOf(m).base, TochainFeesOf(m).prop,
                     IF m.from = Relay THEN m.amount ELSE 0, AfterTochainFee(m))

-----------------------------------------------------------------------------
(* Processing of an order on the relay chain.                              *)

\* Mutant of RecordRelayed: an order retried to success keeps its stored hash.
RecordNothing(m) == IF CheckOrder(Relay, m.order) /\ m.from # Relay
                    THEN MarkProcessed(Relay, m.order) ELSE UNCHANGED orderList

\* An order that came from another chain is recorded in orderList; one that
\* starts here is only emitted.
RecordRelayed(m) ==
    IF m.from = Relay THEN UNCHANGED orderList ELSE MarkProcessed(Relay, m.order)

\* _emitMessageRelay
EmitMessageRelay(m) ==
    /\ m.to \in registered
    /\ relayed' = relayed \cup {m}
    /\ RecordRelayed(m)
    /\ UNCHANGED <<failed, delivered>>

\* Mutant of KeepForRetry: what cannot be done reverts instead.
RevertInstead(m, bk) == FALSE

KeepForRetry(m, bk) ==
    /\ StoreMessageData(Relay, m)
    /\ SetBooks(bk)
    /\ UNCHANGED relayed

\* _swapRelay from the target chain's fee on.
PayOrRelay(m, mustSucceed, bk) ==
    /\ m.from = Relay => <<m.token, m.to>> \in bridgeable[Relay]
    /\ \E out \in {[m EXCEPT !.amount = AfterTochainFee(m)]},
          charged \in {CollectTochainFee(bk, m)} :
       \/ /\ out.amount = 0 /\ ~mustSucceed
          /\ KeepForRetry(out, charged)
       \/ /\ out.amount > 0 /\ m.to = Relay
          /\ SwapIn(Relay, out, charged.acct)
          /\ vault' = charged.vault
          /\ UNCHANGED relayed
       \/ /\ out.amount > 0 /\ m.to # Relay
          /\ CanBurn(Relay, charged.acct, m.token, out.amount)
          /\ SetBooks([charged EXCEPT
                !.acct = CheckAndBurn(Relay, @, m.token, out.amount)])
          /\ EmitMessageRelay([out EXCEPT
                !.amount = TargetAmount(m.token, Relay, m.to, @)])

\* _relayExecute: the executor gets the amount and returns another token, amount
\* and message; when its call fails the order is kept with its tokens.
SwapRelay(m, relay, mustSucceed, bk) ==
    \/ /\ ~(relay /\ m.swap)
       /\ PayOrRelay(m, mustSucceed, bk)
    \/ /\ relay /\ m.swap /\ ~mustSucceed
       /\ KeepForRetry(m, bk)
    \/ /\ relay /\ m.swap
       /\ m.amount <= bk.acct.bal[m.token]
       /\ \E paid \in {TokenTransferOut(bk.acct, m.token, m.amount)},
             t \in Tokens, amount \in ExecutorAmounts, swap \in BOOLEAN :
            /\ amount <= paid.held[t]
            /\ PayOrRelay([m EXCEPT !.token = t, !.amount = amount, !.swap = swap],
                          mustSucceed,
                          [bk EXCEPT !.acct = TokenTransferIn(paid, t, amount)])

\* _transferRelay: a message for this chain is executed here; one that asks for
\* it passes through an executor, which may leave tokens behind.
TransferRelay(m, relay, mustSucceed) ==
    \/ /\ m.to = Relay
       /\ IF mustSucceed THEN EmitMessageIn(Relay, m) ELSE TransferIn(Relay, m)
       /\ SetBooks(Books)
       /\ UNCHANGED relayed
    \/ /\ m.to # Relay /\ relay /\ ~mustSucceed
       /\ KeepForRetry(m, Books)
    \/ /\ m.to # Relay
       /\ \E t \in Tokens, amount \in {0} \cup (IF relay THEN ExecutorAmounts ELSE {}) :
            /\ amount <= acct[Relay].held[t]
            /\ SetBooks([Books EXCEPT !.acct = TokenTransferIn(@, t, amount)])
       /\ EmitMessageRelay(m)

\* _deposit of an order of another chain: into the vault when the whitelist
\* lets it, to the user otherwise.
DepositIn(m, bk) ==
    /\ \/ /\ V!CanDeposit(bk.vault[m.token])
          /\ SetBooks([bk EXCEPT !.vault[m.token] = V!Deposit(@, m.from, m.amount)])
          /\ depositIn' = depositIn \cup {m.order}
       \/ /\ m.amount <= bk.acct.bal[m.token]
          /\ SetBooks([bk EXCEPT !.acct = TokenTransferOut(@, m.token, m.amount)])
          /\ UNCHANGED depositIn
    /\ EmitMessageIn(Relay, m)
    /\ UNCHANGED relayed

\* _swapInToken: the source chain's amount in relay chain units.
SwapInToken(e) ==
    IF e.type = "MESSAGE" THEN InEvent(e)
    ELSE [InEvent(e) EXCEPT !.amount = TargetAmount(e.token, e.from, Relay, @)]

Minted(m) == [Books EXCEPT !.acct = CheckAndMint(Relay, @, m.token, m.amount)]

\* The source chain's fee first; what it leaves goes on, or is kept when nothing.
ChargeSource(m, relay, mustSucceed, bk) ==
    \E rest \in {[m EXCEPT !.amount = @ - FromFeeOf(m)]},
       charged \in {CollectFromFee(bk, m)} :
        \/ rest.amount = 0 /\ ~mustSucceed /\ KeepForRetry(rest, charged)
        \/ rest.amount > 0 /\ SwapRelay(rest, relay, mustSucceed, charged)

RelayMessageIn(e) ==
    /\ ~paused[Relay]
    /\ e \in sent
    /\ e.from \in registered
    /\ CheckOrder(Relay, e.order)
    /\ \E m \in {SwapInToken(e)} :
       \/ e.type = "MESSAGE" /\ TransferRelay(m, e.relay, FALSE)
       \/ e.type = "DEPOSIT" /\ DepositIn(m, Minted(m))
       \/ e.type = "BRIDGE" /\ ChargeSource(m, e.relay, FALSE, Minted(m))
    /\ e.type # "DEPOSIT" => UNCHANGED depositIn
    /\ UNCHANGED <<nonce, paused, bridgeable, failedReceiver, sent, adminOps,
                   registered>>

\* retryMessageIn: always through the executor and always to success.
RelayRetryMessageIn(m) ==
    /\ ~paused[Relay]
    /\ GetStoredMessage(Relay, m)
    /\ \/ m.type = "MESSAGE" /\ TransferRelay(m, TRUE, TRUE)
       \/ m.type # "MESSAGE" /\ SwapRelay(m, TRUE, TRUE, Books)
    /\ UNCHANGED <<nonce, paused, bridgeable, failedReceiver, sent, adminOps,
                   registered, depositIn>>
-----------------------------------------------------------------------------
(* Operations that start on the relay chain, and the vault's holders.      *)

\* transferOut: unlike every other operation it does not ask whenNotPaused.
RelayTransferOut(to, t, relay, initiator) ==
    LET e == [order |-> GetOrderId(Relay), type |-> "MESSAGE", from |-> Relay,
              to |-> to, token |-> NoToken, amount |-> 0,
              initiator |-> initiator, swap |-> FALSE, relay |-> relay] IN
    /\ CollectMessageFee(Relay, to, t)
    /\ MessageOut(Relay, e)
    /\ EmitMessageRelay(InEvent(e))
    /\ UNCHANGED <<paused, bridgeable, failedReceiver, adminOps, relayVars>>

\* swapOutToken: the same path as an order that arrives, to success only.  The
\* record keeps the relay flag, which the event omits and no contract reads.
RelaySwapOutToken(to, t, amount, relay, swap, initiator) ==
    LET e == [order |-> GetOrderId(Relay), type |-> "BRIDGE", from |-> Relay,
              to |-> to, token |-> t, amount |-> amount,
              initiator |-> initiator, swap |-> swap, relay |-> relay]
        paid == [Books EXCEPT !.acct = TokenTransferIn(@, t, amount)]
    IN
    /\ ~paused[Relay]
    /\ amount > 0 /\ amount <= acct[Relay].held[t]
    /\ to \in registered
    /\ MessageOut(Relay, e)
    /\ ChargeSource(InEvent(e), relay, TRUE, paid)
    /\ UNCHANGED <<paused, bridgeable, failedReceiver, adminOps, registered,
                   depositIn>>

\* depositToken: reverts for a sender the whitelist does not let in.
RelayDepositToken(t, amount) ==
    /\ ~paused[Relay]
    /\ amount <= acct[Relay].held[t]
    /\ V!CanDeposit(vault[t])
    /\ SetBooks([acct |-> TokenTransferIn(acct[Relay], t, amount),
                 vault |-> [vault EXCEPT ![t] = V!Deposit(@, Relay, amount)]])
    /\ UNCHANGED <<nonce, orderList, paused, bridgeable, failedReceiver, sent,
                   relayed, failed, delivered, adminOps, registered,
                   depositIn>>

\* withdraw: vault tokens are burnt and the underlying is paid out.
Withdraw(t, vaultAmount) ==
    LET amount == V!GetTokenAmount(vault[t], vaultAmount) IN
    /\ ~paused[Relay]
    /\ vaultAmount <= vault[t].shares
    /\ amount <= acct[Relay].bal[t]
    /\ SetBooks([acct |-> TokenTransferOut(acct[Relay], t, amount),
                 vault |-> [vault EXCEPT ![t] = V!Withdraw(@, Relay, vaultAmount)]])
    /\ UNCHANGED <<nonce, orderList, paused, bridgeable, failedReceiver, sent,
                   relayed, failed, delivered, adminOps, registered,
                   depositIn>>

\* registerChain: a chain is registered with its mos contract and type, or
\* registered again with another contract, which refuses its old events.
RegisterChain(c, enable) ==
    /\ Administer
    /\ registered' = IF enable THEN registered \cup {c} ELSE registered \ {c}
    /\ UNCHANGED <<nonce, orderList, paused, bridgeable, failedReceiver, acct,
                   sent, relayed, failed, delivered, vault, depositIn>>

RelayNext ==
    \/ \E to \in Chains, t \in Tokens, relay \in BOOLEAN, i \in Callers :
            "MESSAGE" \in Kinds /\ RelayTransferOut(to, t, relay, i)
    \/ \E to \in Chains, t \in Tokens, a \in Amounts, relay \in BOOLEAN,
          swap \in BOOLEAN, i \in Callers :
            "BRIDGE" \in Kinds /\ RelaySwapOutToken(to, t, a, relay, swap, i)
    \/ \E t \in Tokens, a \in Amounts :
            "DEPOSIT" \in Kinds /\ RelayDepositToken(t, a)
    \/ \E e \in sent : RelayMessageIn(e)
    \/ \E m \in failed[Relay] : RelayRetryMessageIn(m)
    \/ \E t \in Tokens : \E a \in Amounts \cup {vault[t].shares} :
            "DEPOSIT" \in Kinds /\ a > 0 /\ Withdraw(t, a)
    \/ \E c \in LeafChains, enable \in BOOLEAN : RegisterChain(c, enable)
    \/ CommonNext(Relay) /\ UNCHANGED relayVars
=============================================================================
