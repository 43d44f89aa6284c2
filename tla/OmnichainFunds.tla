--------------------------- MODULE OmnichainFunds ---------------------------
(***************************************************************************)
(* The money of the relay chain, for every number of chains, tokens and    *)
(* orders, every fee table, every amount and every executor.               *)
(*                                                                         *)
(* The price of a vault's share never falls and a share is always worth    *)
(* something: a transaction either charges fees, once or twice and to one  *)
(* or two vaults, which leaves the shares and never lowers a total, or it  *)
(* deposits in or withdraws from one vault, and the division that prices   *)
(* it drops a remainder that stays with the other holders.                 *)
(*                                                                         *)
(* The relay chain can pay: where it mints a token, it holds what it owes  *)
(* to the vault, to the receivers of fees and to the orders kept for a     *)
(* retry.  While an order is processed, its amount is in hand.  The books  *)
(* back what is owed to everyone else and the amount in hand; fees take    *)
(* from the amount in hand exactly what they add to what is owed; and      *)
(* every handler ends by paying the rest out, burning it or keeping it.    *)
(*                                                                         *)
(* The quotes are kept: what the source chain's and the target chain's     *)
(* fees take one after the other, each rounded, is no more than the one    *)
(* fee that was quoted, and what they leave converts to no less than the   *)
(* target amount it was quoted for.  Of an order kept for a retry nothing  *)
(* is left, so its quotes promise nothing that a retry could miss.         *)
(***************************************************************************)
EXTENDS OmnichainOrders

-----------------------------------------------------------------------------
(* Arithmetic.                                                             *)

LEMMA MinusTimes ==
    ASSUME NEW a \in Int, NEW b \in Int, NEW d \in Int
    PROVE  (a - b) * d = a * d - b * d
BY SMT

LEMMA TimesSwap == ASSUME NEW a \in Int, NEW b \in Int PROVE a * b = b * a
BY SMT

-----------------------------------------------------------------------------
(* What one operation does to one vault.                                   *)

Worthy(v) == v.shares > 0 => v.total > 0

\* w.total / w.shares >= v.total / v.shares
PriceKept(v, w) ==
    v.shares > 0 /\ w.shares > 0 => w.total * v.shares >= v.total * w.shares

Charged(v, w) == w.shares = v.shares /\ w.total >= v.total

Moved(v, w) ==
    \/ Charged(v, w)
    \/ \E c \in Chains, a \in Nat : V!CanDeposit(v) /\ w = V!Deposit(v, c, a)
    \/ \E c \in Chains, a \in Nat :
            a > 0 /\ a <= v.shares /\ w = V!Withdraw(v, c, a)

LEMMA ChargedPrice ==
    ASSUME NEW v \in V!Vault, NEW w \in V!Vault, Worthy(v), Charged(v, w)
    PROVE  Worthy(w) /\ PriceKept(v, w)
<1>1. v.total \in Nat /\ v.shares \in Nat /\ w.total \in Nat /\ w.shares \in Nat
  BY DEF V!Vault
<1>2. v.shares * v.total <= v.shares * w.total  BY <1>1, MulMono DEF Charged
<1>3. v.shares * v.total = v.total * v.shares /\ v.shares * w.total = w.total * v.shares
  BY <1>1, SMT
<1> QED  BY <1>1, <1>2, <1>3 DEF Charged, Worthy, PriceKept

\* A deposit buys at most its share of the vault.
LEMMA DepositPrice ==
    ASSUME NEW v \in V!Vault, NEW c \in Chains, NEW a \in Nat, Worthy(v), V!CanDeposit(v)
    PROVE  Worthy(V!Deposit(v, c, a)) /\ PriceKept(v, V!Deposit(v, c, a))
<1> DEFINE w == V!Deposit(v, c, a)
           n == V!GetVaultTokenAmount(v, a)
<1>1. v.total \in Nat /\ v.shares \in Nat  BY DEF V!Vault
<1>2. w.total = v.total + a /\ w.shares = v.shares + n  BY DEF V!Deposit, V!Vault
<1> HIDE DEF w, n
<1>3. CASE v.shares = 0
  <2>1. n = a  BY <1>3 DEF n, V!GetVaultTokenAmount
  <2>2. Worthy(w) /\ PriceKept(v, w)  BY <1>1, <1>2, <1>3, <2>1 DEF Worthy, PriceKept
  <2> QED  BY <2>2 DEF w
<1>4. CASE v.shares > 0
  <2>1. v.total \in Nat \ {0} /\ a * v.shares \in Nat
    BY <1>1, <1>4, MulNat DEF Worthy
  <2>2. n = (a * v.shares) \div v.total  BY <1>1, <1>4 DEF n, V!GetVaultTokenAmount
  <2>3. n \in Nat /\ n * v.total <= a * v.shares  BY <2>1, <2>2, DivNat
  <2>4. /\ w.total * v.shares = v.total * v.shares + a * v.shares
        /\ v.total * w.shares = v.total * v.shares + n * v.total
    BY <1>1, <1>2, <2>3, SMT
  <2>5. v.total * v.shares \in Nat /\ n * v.total \in Nat  BY <1>1, <2>3, MulNat
  <2>6. w.total * v.shares >= v.total * w.shares  BY <2>1, <2>3, <2>4, <2>5
  <2>7. Worthy(w) /\ PriceKept(v, w)
    BY <1>1, <1>2, <2>1, <2>6 DEF Worthy, PriceKept
  <2> QED  BY <2>7 DEF w
<1> QED  BY <1>1, <1>3, <1>4

\* A withdrawal is paid at most its share, and leaves something while shares are
\* left.
LEMMA WithdrawPrice ==
    ASSUME NEW v \in V!Vault, NEW c \in Chains, NEW a \in Nat, Worthy(v),
           a > 0, a <= v.shares
    PROVE  Worthy(V!Withdraw(v, c, a)) /\ PriceKept(v, V!Withdraw(v, c, a))
<1> DEFINE w == V!Withdraw(v, c, a)
           out == V!GetTokenAmount(v, a)
<1>1. v.total \in Nat \ {0} /\ v.shares \in Nat \ {0}  BY DEF V!Vault, Worthy
<1>2. w.total = v.total - out /\ w.shares = v.shares - a  BY DEF V!Withdraw, V!Vault
<1>3. out = (a * v.total) \div v.shares  BY <1>1 DEF V!GetTokenAmount
<1> HIDE DEF w, out
<1>4. a * v.total \in Nat  BY <1>1, MulNat
<1>5. out \in Nat /\ out * v.shares <= a * v.total  BY <1>1, <1>3, <1>4, DivNat
<1>6. /\ w.total * v.shares = v.total * v.shares - out * v.shares
      /\ v.total * w.shares = v.total * v.shares - a * v.total
  <2>1. (v.total - out) * v.shares = v.total * v.shares - out * v.shares
    BY <1>1, <1>5, MinusTimes
  <2>2. (v.shares - a) * v.total = v.shares * v.total - a * v.total
    BY <1>1, MinusTimes
  <2>3. /\ (v.shares - a) * v.total = v.total * (v.shares - a)
        /\ v.shares * v.total = v.total * v.shares
    BY <1>1, TimesSwap
  <2> QED  BY <1>2, <2>1, <2>2, <2>3
<1>7. v.total * v.shares \in Nat /\ out * v.shares \in Nat  BY <1>1, <1>5, MulNat
<1>8. w.total * v.shares >= v.total * w.shares  BY <1>4, <1>5, <1>6, <1>7
<1>9. Worthy(w)
  <2> SUFFICES ASSUME w.shares > 0 PROVE w.total > 0  BY DEF Worthy
  <2>1. w.shares \in Nat \ {0} /\ w.total \in Int  BY <1>1, <1>2, <1>5
  <2>2. v.total * w.shares > 0  BY <1>1, <2>1, SMT
  <2>3. w.total * v.shares > 0
    <3>1. w.total * v.shares \in Int /\ v.total * w.shares \in Int  BY <1>1, <2>1
    <3> QED  BY <1>8, <2>2, <3>1
  <2> QED  BY <1>1, <2>1, <2>3, SMT
<1>10. PriceKept(v, w)  BY <1>8 DEF PriceKept
<1> QED  BY <1>9, <1>10 DEF w

LEMMA MovedPrice ==
    ASSUME NEW v \in V!Vault, NEW w \in V!Vault, Worthy(v), Moved(v, w)
    PROVE  Worthy(w) /\ PriceKept(v, w)
BY ChargedPrice, DepositPrice, WithdrawPrice DEF Moved

-----------------------------------------------------------------------------
(* What the handlers of an order do to the vaults.                         *)

AllCharged(vs, ws) == \A t \in Tokens : Charged(vs[t], ws[t])

LEMMA ChargedAgain ==
    ASSUME NEW us \in [Tokens -> V!Vault], NEW vs \in [Tokens -> V!Vault],
           NEW ws \in [Tokens -> V!Vault], AllCharged(us, vs), AllCharged(vs, ws)
    PROVE  AllCharged(us, ws)
<1> SUFFICES ASSUME NEW t \in Tokens PROVE Charged(us[t], ws[t])  BY DEF AllCharged
<1>1. us[t].total \in Nat /\ vs[t].total \in Nat /\ ws[t].total \in Nat  BY DEF V!Vault
<1> QED  BY <1>1 DEF AllCharged, Charged

LEMMA NotCharged ==
    ASSUME NEW vs \in [Tokens -> V!Vault]
    PROVE  AllCharged(vs, vs)
BY DEF AllCharged, Charged, V!Vault

LEMMA CollectBridgeFeeCharges ==
    ASSUME NEW bk \in BooksType, NEW m \in TokenEvent, NEW base \in Nat,
           NEW prop \in Nat, NEW a \in Nat, NEW b \in Nat
    PROVE  AllCharged(bk.vault, CollectBridgeFee(bk, m, base, prop, a, b).vault)
<1> DEFINE v == bk.vault[m.token]
           w == V!UpdateVault(v, m.from, a, m.to, b, VaultShare(prop))
<1>1. bk.vault \in [Tokens -> V!Vault] /\ m.token \in Tokens
  BY TokenEventFields DEF BooksType
<1>2. VaultShare(prop) \in Nat  BY ShareNat
<1>3. v \in V!Vault  BY <1>1
<1>4. w.total = v.total + VaultShare(prop) /\ w.shares = v.shares
  BY <1>3 DEF V!UpdateVault, V!Vault
<1>5. CollectBridgeFee(bk, m, base, prop, a, b).vault = [bk.vault EXCEPT ![m.token] = w]
  BY DEF CollectBridgeFee
<1> HIDE DEF w
<1>6. Charged(v, w)  BY <1>2, <1>3, <1>4 DEF Charged, V!Vault
<1>7. AllCharged(bk.vault, [bk.vault EXCEPT ![m.token] = w])
  BY <1>1, <1>6 DEF AllCharged, Charged, V!Vault
<1> QED  BY <1>5, <1>7

LEMMA FromFeeCharges ==
    ASSUME NEW bk \in BooksType, NEW m \in TokenEvent
    PROVE  AllCharged(bk.vault, CollectFromFee(bk, m).vault)
<1>1. FromFeeOf(m) \in Nat  BY FromFeeType
<1>2. (IF m.from = Relay THEN 0 ELSE m.amount) \in Nat  BY TokenEventFields
<1> QED  BY <1>1, <1>2, CollectBridgeFeeCharges DEF CollectFromFee

LEMMA TochainFeeCharges ==
    ASSUME NEW bk \in BooksType, NEW m \in TokenEvent
    PROVE  AllCharged(bk.vault, CollectTochainFee(bk, m).vault)
<1>1. /\ TochainFeesOf(m).base \in Nat /\ TochainFeesOf(m).prop \in Nat
      /\ AfterTochainFee(m) \in Nat
  BY TochainFeesNat
<1>2. (IF m.from = Relay THEN m.amount ELSE 0) \in Nat  BY TokenEventFields
<1> QED  BY <1>1, <1>2, CollectBridgeFeeCharges DEF CollectTochainFee

LEMMA SetBooksVault == ASSUME NEW bk, SetBooks(bk) PROVE vault' = bk.vault
BY DEF SetBooks

LEMMA PayOrRelayCharges ==
    ASSUME NEW m \in TokenEvent, NEW must \in BOOLEAN, NEW bk \in BooksType,
           PayOrRelay(m, must, bk)
    PROVE  AllCharged(bk.vault, vault')
<1>1. PICK o \in {[m EXCEPT !.amount = AfterTochainFee(m)]}, ch \in {CollectTochainFee(bk, m)} :
        \/ KeepForRetry(o, ch)
        \/ vault' = ch.vault
        \/ SetBooks([ch EXCEPT !.acct = CheckAndBurn(Relay, @, m.token, o.amount)])
  BY DEF PayOrRelay
<1>2. ch \in BooksType /\ AllCharged(bk.vault, ch.vault)
  BY <1>1, TochainFeeType, TochainFeeCharges
<1>3. vault' = ch.vault  BY <1>1, <1>2 DEF KeepForRetry, SetBooks, BooksType
<1> QED  BY <1>2, <1>3

LEMMA SwapRelayCharges ==
    ASSUME NEW m \in TokenEvent, NEW relay \in BOOLEAN, NEW must \in BOOLEAN,
           NEW bk \in BooksType, SwapRelay(m, relay, must, bk)
    PROVE  AllCharged(bk.vault, vault')
<1>1. /\ m \in MessageInEvent /\ m.token \in Tokens /\ m.amount \in Nat
      /\ bk.acct \in Account /\ bk.vault \in [Tokens -> V!Vault]
  BY TokenEventFields DEF BooksType
<1>2. CASE PayOrRelay(m, must, bk)  BY <1>2, PayOrRelayCharges
<1>3. CASE KeepForRetry(m, bk)
  BY <1>1, <1>3, NotCharged, SetBooksVault DEF KeepForRetry
<1>4. ASSUME m.amount <= bk.acct.bal[m.token],
             NEW paid \in {TokenTransferOut(bk.acct, m.token, m.amount)},
             NEW t \in Tokens, NEW amount \in ExecutorAmounts, NEW swap \in BOOLEAN,
             amount <= paid.held[t],
             PayOrRelay([m EXCEPT !.token = t, !.amount = amount, !.swap = swap], must,
                        [bk EXCEPT !.acct = TokenTransferIn(paid, t, amount)])
      PROVE  AllCharged(bk.vault, vault')
  <2> DEFINE n == [m EXCEPT !.token = t, !.amount = amount, !.swap = swap]
             back == TokenTransferIn(paid, t, amount)
             ck == [bk EXCEPT !.acct = back]
  <2>1. amount \in Nat  BY <1>4, RelayAssumption
  <2>2. paid \in Account  BY <1>1, <1>4, TransferOutType
  <2>3. back \in Account  BY <1>4, <2>1, <2>2, TransferInType
  <2>4. n \in TokenEvent  BY <1>1, <1>4, <2>1 DEF TokenEvent, MessageInEvent
  <2>5. PayOrRelay(n, must, ck)  BY <1>4
  <2> HIDE DEF back
  <2>6. ck \in BooksType /\ ck.vault = bk.vault  BY <2>3 DEF BooksType
  <2> HIDE DEF n, ck
  <2> QED  BY <2>4, <2>5, <2>6, PayOrRelayCharges
<1> QED  BY <1>2, <1>3, <1>4 DEF SwapRelay

LEMMA ChargeSourceCharges ==
    ASSUME MoneyOK, NEW m \in TokenEvent, NEW relay \in BOOLEAN, NEW must \in BOOLEAN,
           NEW bk \in BooksType, ChargeSource(m, relay, must, bk),
           vault' \in [Tokens -> V!Vault]
    PROVE  AllCharged(bk.vault, vault')
<1> DEFINE left == m.amount - FromFeeOf(m)
<1>1. left \in Nat /\ CollectFromFee(bk, m) \in BooksType
  BY FromFeeType, TokenEventFields
<1>2. PICK rest \in {[m EXCEPT !.amount = left]}, ch \in {CollectFromFee(bk, m)} :
        \/ KeepForRetry(rest, ch)
        \/ SwapRelay(rest, relay, must, ch)
  BY TokenEventFields DEF ChargeSource, MessageInEvent
<1> HIDE DEF left
<1>3. rest \in MessageInEvent /\ rest.token = m.token
  <2>1. m \in MessageInEvent  BY TokenEventFields
  <2>2. rest = [m EXCEPT !.amount = left]  BY <1>2
  <2> QED  BY <1>1, <2>1, <2>2, AmountType
<1>4. rest \in TokenEvent /\ ch \in BooksType /\ AllCharged(bk.vault, ch.vault)
  BY <1>1, <1>2, <1>3, TokenEventFields, FromFeeCharges DEF TokenEvent
<1>5. bk.vault \in [Tokens -> V!Vault] /\ ch.vault \in [Tokens -> V!Vault]
  BY <1>4 DEF BooksType
<1>6. CASE KeepForRetry(rest, ch)
  BY <1>4, <1>6, SetBooksVault DEF KeepForRetry
<1>7. CASE SwapRelay(rest, relay, must, ch)
  <2>1. AllCharged(ch.vault, vault')  BY <1>4, <1>7, SwapRelayCharges
  <2> QED  BY <1>4, <1>5, <2>1, ChargedAgain
<1> QED  BY <1>2, <1>6, <1>7

LEMMA TransferRelayCharges ==
    ASSUME MoneyOK, NEW m, NEW relay \in BOOLEAN, NEW must \in BOOLEAN,
           TransferRelay(m, relay, must)
    PROVE  AllCharged(vault, vault')
<1>1. vault' = vault
  BY DEF TransferRelay, KeepForRetry, SetBooks, Books
<1> QED  BY <1>1, NotCharged DEF MoneyOK

-----------------------------------------------------------------------------
(* The operations.                                                         *)

AllMoved == \A t \in Tokens : Moved(vault[t], vault'[t])

LEMMA ChargedMoves == AllCharged(vault, vault') => AllMoved
BY DEF AllCharged, AllMoved, Moved

LEMMA VaultKept == ASSUME MoneyOK, vault' = vault PROVE AllMoved
BY NotCharged, ChargedMoves DEF MoneyOK

\* One vault moves.
LEMMA OneMoves ==
    ASSUME MoneyOK, NEW t \in Tokens, NEW w, vault' = [vault EXCEPT ![t] = w],
           Moved(vault[t], w)
    PROVE  AllMoved
<1> SUFFICES ASSUME NEW s \in Tokens PROVE Moved(vault[s], vault'[s])  BY DEF AllMoved
<1>1. CASE s = t  BY <1>1 DEF MoneyOK
<1>2. CASE s # t
  <2>1. vault'[s] = vault[s] /\ vault[s] \in V!Vault  BY <1>2 DEF MoneyOK
  <2> QED  BY <2>1 DEF Moved, Charged, V!Vault
<1> QED  BY <1>1, <1>2

LEMMA RelayMessageInMoves ==
    ASSUME TypeOK, TypeOK', NEW e \in sent, RelayMessageIn(e)
    PROVE  AllMoved
<1> USE TypeParts
<1> DEFINE m == SwapInToken(e)
<1>1. e \in MessageOutEvent /\ e.relay \in BOOLEAN  BY DEF LogsOK, MessageOutEvent
<1>2. m \in MessageInEvent /\ (e.type # "MESSAGE" => m \in TokenEvent)
  BY <1>1, SwapInTokenType
<1>3. \/ e.type = "MESSAGE" /\ TransferRelay(m, e.relay, FALSE)
      \/ e.type = "DEPOSIT" /\ DepositIn(m, Minted(m))
      \/ e.type = "BRIDGE" /\ ChargeSource(m, e.relay, FALSE, Minted(m))
  <2>1. PICK n \in {SwapInToken(e)} :
          \/ e.type = "MESSAGE" /\ TransferRelay(n, e.relay, FALSE)
          \/ e.type = "DEPOSIT" /\ DepositIn(n, Minted(n))
          \/ e.type = "BRIDGE" /\ ChargeSource(n, e.relay, FALSE, Minted(n))
    BY Zenon DEF RelayMessageIn
  <2>2. n = m  BY <2>1
  <2> QED  BY <2>1, <2>2
<1> HIDE DEF m
<1>4. Minted(m).vault = vault  BY DEF Minted, Books
<1>5. CASE TransferRelay(m, e.relay, FALSE)
  BY <1>1, <1>5, TransferRelayCharges, ChargedMoves
<1>6. CASE e.type = "DEPOSIT" /\ DepositIn(m, Minted(m))
  <2>1. /\ m.token \in Tokens /\ m.from \in Chains /\ m.amount \in Nat
        /\ Minted(m) \in BooksType
    BY <1>2, <1>6, MintedType, TokenEventFields
  <2>2. CASE /\ V!CanDeposit(vault[m.token])
             /\ vault' = [vault EXCEPT ![m.token] = V!Deposit(@, m.from, m.amount)]
    <3>1. vault' = [vault EXCEPT ![m.token] = V!Deposit(vault[m.token], m.from, m.amount)]
      BY <2>2
    <3>2. Moved(vault[m.token], V!Deposit(vault[m.token], m.from, m.amount))
      BY <2>1, <2>2 DEF Moved
    <3> QED  BY <2>1, <3>1, <3>2, OneMoves
  <2>3. CASE vault' = vault  BY <2>3, VaultKept
  <2>4. \/ /\ V!CanDeposit(vault[m.token])
           /\ vault' = [vault EXCEPT ![m.token] = V!Deposit(@, m.from, m.amount)]
        \/ vault' = vault
    BY <1>4, <1>6, <2>1 DEF DepositIn, SetBooks, BooksType
  <2> QED  BY <2>2, <2>3, <2>4
<1>7. CASE e.type = "BRIDGE" /\ ChargeSource(m, e.relay, FALSE, Minted(m))
  <2>1. m \in TokenEvent /\ Minted(m) \in BooksType  BY <1>2, <1>7, MintedType
  <2>2. vault' \in [Tokens -> V!Vault]  BY DEF MoneyOK
  <2>3. AllCharged(vault, vault')
    BY <1>1, <1>4, <1>7, <2>1, <2>2, ChargeSourceCharges
  <2> QED  BY <2>3, ChargedMoves
<1> QED  BY <1>3, <1>5, <1>6, <1>7

LEMMA RelayRetryMessageInMoves ==
    ASSUME TypeOK, NEW m \in failed[Relay], RelayRetryMessageIn(m)
    PROVE  AllMoved
<1> USE TypeParts
<1>1. m \in MessageInEvent  BY RelayIsChain DEF OrdersOK
<1>2. CASE TransferRelay(m, TRUE, TRUE)  BY <1>2, TransferRelayCharges, ChargedMoves
<1>3. CASE m.type # "MESSAGE" /\ SwapRelay(m, TRUE, TRUE, Books)
  <2>1. m \in TokenEvent /\ Books \in BooksType /\ Books.vault = vault
    BY <1>1, <1>3, IsTokenEvent, BooksOK DEF Books
  <2>2. AllCharged(vault, vault')  BY <1>3, <2>1, SwapRelayCharges
  <2> QED  BY <2>2, ChargedMoves
<1> QED  BY <1>2, <1>3 DEF RelayRetryMessageIn

LEMMA RelaySwapOutTokenMoves ==
    ASSUME TypeOK, TypeOK', NEW to \in Chains, NEW t \in Tokens, NEW a \in Amounts,
           NEW relay \in BOOLEAN, NEW swap \in BOOLEAN, NEW i \in Callers,
           RelaySwapOutToken(to, t, a, relay, swap, i)
    PROVE  AllMoved
<1> DEFINE e == [order |-> GetOrderId(Relay), type |-> "BRIDGE", from |-> Relay,
                 to |-> to, token |-> t, amount |-> a,
                 initiator |-> i, swap |-> swap, relay |-> relay]
           ac == TokenTransferIn(acct[Relay], t, a)
           bk == [Books EXCEPT !.acct = ac]
<1> USE TypeParts, RelayIsChain
<1>1. /\ a <= acct[Relay].held[t] /\ MessageOut(Relay, e)
      /\ ChargeSource(InEvent(e), relay, TRUE, bk)
  BY DEF RelaySwapOutToken, Books
<1>2. GetOrderId(Relay) \in OrderIds /\ a \in Nat
  BY <1>1, GetOrderIdType, BridgeAssumption DEF MessageOut
<1>3. e \in MessageOutEvent /\ e.token \in Tokens
  BY <1>2 DEF MessageOutEvent, MessageTypes
<1>4. ac \in Account  BY <1>1, <1>2, TransferInType DEF MoneyOK
<1> HIDE DEF e, ac
<1>5. InEvent(e) \in TokenEvent  BY <1>3, InEventType DEF TokenEvent
<1>6. bk \in BooksType /\ bk.vault = vault  BY <1>4, BooksOK DEF BooksType, Books
<1> HIDE DEF bk
<1>7. vault' \in [Tokens -> V!Vault]  BY DEF MoneyOK
<1>8. AllCharged(vault, vault')  BY <1>1, <1>5, <1>6, <1>7, ChargeSourceCharges
<1> QED  BY <1>8, ChargedMoves

LEMMA RelayDepositTokenMoves ==
    ASSUME TypeOK, NEW t \in Tokens, NEW a \in Amounts, RelayDepositToken(t, a)
    PROVE  AllMoved
<1>1. a \in Nat /\ MoneyOK  BY BridgeAssumption, TypeParts
<1>2. /\ V!CanDeposit(vault[t])
      /\ vault' = [vault EXCEPT ![t] = V!Deposit(vault[t], Relay, a)]
  BY DEF RelayDepositToken, SetBooks
<1>3. Moved(vault[t], V!Deposit(vault[t], Relay, a))
  BY <1>1, <1>2, RelayIsChain DEF Moved
<1> QED  BY <1>1, <1>2, <1>3, OneMoves

LEMMA WithdrawMoves ==
    ASSUME TypeOK, NEW t \in Tokens, NEW a \in Nat, a > 0, Withdraw(t, a)
    PROVE  AllMoved
<1>1. MoneyOK  BY TypeParts
<1>2. a <= vault[t].shares /\ vault' = [vault EXCEPT ![t] = V!Withdraw(vault[t], Relay, a)]
  BY DEF Withdraw, SetBooks
<1>3. Moved(vault[t], V!Withdraw(vault[t], Relay, a))
  BY <1>2, RelayIsChain DEF Moved
<1> QED  BY <1>1, <1>2, <1>3, OneMoves

LEMMA NextMoves ==
    ASSUME TypeOK, TypeOK', [Next]_vars
    PROVE  AllMoved
<1>0. MoneyOK  BY TypeParts
<1>1. CASE UNCHANGED relayVars  BY <1>0, <1>1, VaultKept DEF relayVars
<1>2. CASE RelayNext
  <2>1. ASSUME NEW to \in Chains, NEW t \in Tokens, NEW relay \in BOOLEAN, NEW i \in Callers,
               RelayTransferOut(to, t, relay, i)
        PROVE  AllMoved
    BY <1>0, <2>1, VaultKept DEF RelayTransferOut, relayVars
  <2>2. ASSUME NEW t \in Tokens, NEW a \in Amounts \cup {vault[t].shares}, a > 0,
               Withdraw(t, a)
        PROVE  AllMoved
    <3>1. vault[t].shares \in Nat  BY DEF TypeOK, V!Vault
    <3>2. a \in Nat  BY <3>1, BridgeAssumption
    <3> QED  BY <2>2, <3>2, WithdrawMoves
  <2>3. ASSUME NEW c \in LeafChains, NEW enable \in BOOLEAN, RegisterChain(c, enable)
        PROVE  AllMoved
    BY <1>0, <2>3, VaultKept DEF RegisterChain
  <2> QED  BY <1>1, <1>2, <2>1, <2>2, <2>3, RelaySwapOutTokenMoves, RelayDepositTokenMoves,
              RelayMessageInMoves, RelayRetryMessageInMoves DEF RelayNext
<1>3. CASE UNCHANGED vars  BY <1>1, <1>3 DEF vars
<1> QED  BY <1>1, <1>2, <1>3 DEF Next

-----------------------------------------------------------------------------
(* The theorems.                                                           *)

LEMMA InitWorth == Init => SharesAreWorth
BY DEF Init, SharesAreWorth, InitVault

LEMMA NextWorth ==
    TypeOK /\ TypeOK' /\ SharesAreWorth /\ [Next]_vars =>
        /\ SharesAreWorth'
        /\ \A t \in Tokens : PriceKept(vault[t], vault'[t])
<1> SUFFICES ASSUME TypeOK, TypeOK', SharesAreWorth, [Next]_vars, NEW t \in Tokens
             PROVE  Worthy(vault'[t]) /\ PriceKept(vault[t], vault'[t])
  BY DEF SharesAreWorth, Worthy
<1>1. Moved(vault[t], vault'[t])  BY NextMoves DEF AllMoved
<1>2. vault[t] \in V!Vault /\ vault'[t] \in V!Vault /\ Worthy(vault[t])
  BY DEF TypeOK, SharesAreWorth, Worthy
<1> QED  BY <1>1, <1>2, MovedPrice

\* Whoever deposits, withdraws and bridges in whatever order, shares that exist
\* are worth something: getVaultTokenAmount never divides by zero.
THEOREM SharesStayWorth == Spec => []SharesAreWorth
<1>1. TypeOK /\ SharesAreWorth /\ [Next]_vars => TypeOK' /\ SharesAreWorth'
  BY NextType, NextWorth
<1> QED  BY <1>1, InitType, InitWorth, PTL DEF Spec

\* No step lowers the price of a share: a rounding, a fee or a withdrawal is never
\* at the cost of the holders that stay.
THEOREM PriceNeverFalls == Spec => SharePriceNeverFalls
<1>1. TypeOK /\ TypeOK' /\ SharesAreWorth /\ [Next]_vars =>
        [\A t \in Tokens : PriceKept(vault[t], vault'[t])]_vars
  BY NextWorth
<1>2. [][\A t \in Tokens : PriceKept(vault[t], vault'[t])]_vars => SharePriceNeverFalls
  BY DEF PriceKept, SharePriceNeverFalls
<1> QED  BY <1>1, <1>2, TypeCorrect, SharesStayWorth, PTL DEF Spec

-----------------------------------------------------------------------------
(* What is owed.                                                           *)

FeeSum(ac, t) == SumFunctionOnSet([r \in FeeReceivers |-> ac.fee[r][t]], FeeReceivers)

Amounted(S) == [m \in S |-> m.amount]
AmountSum(S) == SumFunctionOnSet(Amounted(S), S)

\* What the books owe, besides the kept orders.
Owes(bk, t) == bk.vault[t].total + FeeSum(bk.acct, t)

\* What is kept, the order o aside.
Others(o, t) == {m \in Kept(t) : m.order # o}
Rest(o, t) == AmountSum(Others(o, t))

InHand(m, t) == IF m.token = t THEN m.amount ELSE 0

\* The books back what is owed to everyone else and the amount in hand.
Backed(bk, m) ==
    \A t \in Tokens : IsMintable(Relay, t) =>
        bk.acct.bal[t] >= Owes(bk, t) + Rest(m.order, t) + InHand(m, t)

LEMMA OwedIs ==
    ASSUME NEW t \in Tokens
    PROVE  OwedByRelay(t) = Owes(Books, t) + AmountSum(Kept(t))
BY DEF OwedByRelay, FeesOf, FeeSum, Owes, AmountSum, Amounted, SumOver, SumFunction, Books

LEMMA OwedIsNext ==
    ASSUME NEW t \in Tokens
    PROVE  OwedByRelay(t)' = vault'[t].total + FeeSum(acct'[Relay], t) + AmountSum(Kept(t)')
BY DEF OwedByRelay, FeesOf, FeeSum, AmountSum, Amounted, SumOver, SumFunction

LEMMA ReceiversFinite == IsFiniteSet(FeeReceivers)
<1>1. IsFiniteSet({"service"})  BY FS_Singleton
<1>2. IsFiniteSet({"service"} \cup {"messenger"})  BY <1>1, FS_AddElement
<1>3. IsFiniteSet(({"service"} \cup {"messenger"}) \cup {"protocol"})  BY <1>2, FS_AddElement
<1>4. IsFiniteSet((({"service"} \cup {"messenger"}) \cup {"protocol"}) \cup {"base"})
  BY <1>3, FS_AddElement
<1>5. FeeReceivers = (({"service"} \cup {"messenger"}) \cup {"protocol"}) \cup {"base"}
  BY DEF FeeReceivers
<1> QED  BY <1>4, <1>5

LEMMA FeeSumNat ==
    ASSUME NEW ac \in Account, NEW t \in Tokens
    PROVE  FeeSum(ac, t) \in Nat
<1>1. \A r \in FeeReceivers : [q \in FeeReceivers |-> ac.fee[q][t]][r] \in Nat
  BY DEF Account
<1> QED  BY <1>1, ReceiversFinite, SumNat DEF FeeSum

LEMMA OwesNat ==
    ASSUME NEW bk \in BooksType, NEW t \in Tokens
    PROVE  Owes(bk, t) \in Nat
BY FeeSumNat DEF Owes, BooksType, V!Vault

\* A fee adds to what is owed of its token.
LEMMA AddFeeSum ==
    ASSUME NEW ac \in Account, NEW r \in FeeReceivers, NEW t \in Tokens, NEW a \in Nat,
           NEW s \in Tokens
    PROVE  /\ FeeSum(AddFee(ac, r, t, a), s) = FeeSum(ac, s) + (IF s = t THEN a ELSE 0)
           /\ AddFee(ac, r, t, a).bal = ac.bal
<1> DEFINE ad == AddFee(ac, r, t, a)
           f == [q \in FeeReceivers |-> ac.fee[q][s]]
           g == [q \in FeeReceivers |-> ad.fee[q][s]]
<1>1. /\ ac.fee \in [FeeReceivers -> [Tokens -> Nat]]
      /\ ad.bal = ac.bal
      /\ ad.fee = [ac.fee EXCEPT ![r][t] = @ + a]
  BY DEF Account, AddFee
<1>2. ad \in Account  BY AddFeeType
<1> HIDE DEF ad
<1>3. \A q \in FeeReceivers : f[q] \in Nat /\ g[q] \in Nat  BY <1>1, <1>2 DEF Account
<1>4. \A q \in FeeReceivers \ {r} : f[q] = g[q]  BY <1>1
<1>5. g[r] - f[r] = IF s = t THEN a ELSE 0  BY <1>1
<1>6. SumFunctionOnSet(g, FeeReceivers) = SumFunctionOnSet(f, FeeReceivers) + g[r] - f[r]
  <2> HIDE DEF f, g
  <2> QED  BY <1>3, <1>4, ReceiversFinite, SumChange
<1>7. SumFunctionOnSet(f, FeeReceivers) \in Int
  <2> HIDE DEF f, g
  <2> QED  BY <1>3, ReceiversFinite, SumInt
<1>8. f[r] \in Int /\ g[r] \in Int  BY <1>3
<1>9. FeeSum(ad, s) = SumFunctionOnSet(g, FeeReceivers)
      /\ FeeSum(ac, s) = SumFunctionOnSet(f, FeeReceivers)
  BY DEF FeeSum
<1> HIDE DEF f, g
<1>10. FeeSum(ad, s) = FeeSum(ac, s) + (IF s = t THEN a ELSE 0)
  BY <1>5, <1>6, <1>7, <1>8, <1>9
<1> QED  BY <1>1, <1>10 DEF ad

LEMMA SameFees ==
    ASSUME NEW ac, NEW ad, ad.fee = ac.fee, NEW t
    PROVE  FeeSum(ad, t) = FeeSum(ac, t)
BY DEF FeeSum

\* A bridge fee is owed in full to the vault and to the receivers.
LEMMA CollectBridgeFeeOwes ==
    ASSUME NEW bk \in BooksType, NEW m \in TokenEvent, NEW base \in Nat,
           NEW prop \in Nat, NEW a \in Nat, NEW b \in Nat, NEW t \in Tokens
    PROVE  LET ck == CollectBridgeFee(bk, m, base, prop, a, b) IN
           /\ ck.acct.bal = bk.acct.bal
           /\ Owes(ck, t) = Owes(bk, t) + (IF t = m.token THEN base + prop ELSE 0)
<1> DEFINE f == Share(DistributeRate.messenger, prop)
           g == Share(DistributeRate.protocol, prop)
           h == VaultShare(prop)
           a1 == AddFee(bk.acct, "messenger", m.token, f)
           a2 == AddFee(a1, "protocol", m.token, g)
           a3 == AddFee(a2, "base", m.token, base)
           ck == CollectBridgeFee(bk, m, base, prop, a, b)
           Part(x) == IF t = m.token THEN x ELSE 0
<1>1. f \in Nat /\ g \in Nat /\ h \in Nat /\ h = prop - f - g  BY ShareNat DEF VaultShare
<1>2. /\ bk.acct \in Account /\ bk.vault \in [Tokens -> V!Vault]
      /\ m.token \in Tokens /\ m.from \in Chains /\ m.to \in Chains
  BY TokenEventFields DEF BooksType
<1>3. ck.acct = a3
      /\ ck.vault = [bk.vault EXCEPT ![m.token] = V!UpdateVault(@, m.from, a, m.to, b, h)]
  BY DEF CollectBridgeFee
<1> HIDE DEF f, g, h
<1>4. {"messenger", "protocol", "base"} \subseteq FeeReceivers  BY DEF FeeReceivers
<1>5. /\ a1 \in Account /\ a1.bal = bk.acct.bal
      /\ FeeSum(a1, t) = FeeSum(bk.acct, t) + Part(f)
  <2>1. a1 \in Account  BY <1>1, <1>2, <1>4, AddFeeType
  <2>2. /\ FeeSum(a1, t) = FeeSum(bk.acct, t) + (IF t = m.token THEN f ELSE 0)
        /\ a1.bal = bk.acct.bal
    BY <1>1, <1>2, <1>4, AddFeeSum
  <2> QED  BY <2>1, <2>2
<1> HIDE DEF a1
<1>6. /\ a2 \in Account /\ a2.bal = bk.acct.bal
      /\ FeeSum(a2, t) = FeeSum(a1, t) + Part(g)
  BY <1>1, <1>2, <1>4, <1>5, AddFeeType, AddFeeSum
<1> HIDE DEF a2
<1>7. /\ a3.bal = bk.acct.bal
      /\ FeeSum(a3, t) = FeeSum(a2, t) + Part(base)
  BY <1>2, <1>4, <1>6, AddFeeType, AddFeeSum
<1> HIDE DEF a3
<1>8. ck.vault[t].total = bk.vault[t].total + Part(h)
  <2>1. CASE t = m.token
    <3>1. ck.vault[t] = V!UpdateVault(bk.vault[t], m.from, a, m.to, b, h)
      BY <1>2, <1>3, <2>1
    <3>2. bk.vault[t] \in V!Vault  BY <1>2
    <3> QED  BY <2>1, <3>1, <3>2 DEF V!UpdateVault, V!Vault
  <2>2. CASE t # m.token
    <3>1. ck.vault[t] = bk.vault[t] /\ bk.vault[t] \in V!Vault  BY <1>2, <1>3, <2>2
    <3> QED  BY <2>2, <3>1 DEF V!Vault
  <2> QED  BY <2>1, <2>2
<1>9. bk.vault[t].total \in Nat /\ FeeSum(bk.acct, t) \in Nat
  BY <1>2, FeeSumNat DEF V!Vault
<1>10. ck.acct.bal = bk.acct.bal  BY <1>3, <1>7
<1>11. Owes(ck, t) = ck.vault[t].total + FeeSum(a3, t)  BY <1>3 DEF Owes
<1>12. Owes(bk, t) = bk.vault[t].total + FeeSum(bk.acct, t)  BY DEF Owes
<1> HIDE DEF ck
<1>13. Owes(ck, t) = Owes(bk, t) + Part(base + prop)
  BY <1>1, <1>5, <1>6, <1>7, <1>8, <1>9, <1>11, <1>12
<1> QED  BY <1>10, <1>13 DEF ck

LEMMA FromFeeOwes ==
    ASSUME NEW bk \in BooksType, NEW m \in TokenEvent, NEW t \in Tokens
    PROVE  LET ck == CollectFromFee(bk, m) IN
           /\ ck.acct.bal = bk.acct.bal
           /\ Owes(ck, t) = Owes(bk, t) + (IF t = m.token THEN FromFeeOf(m) ELSE 0)
<1>1. FromFeeOf(m) \in Nat  BY FromFeeType
<1>2. (IF m.from = Relay THEN 0 ELSE m.amount) \in Nat  BY TokenEventFields
<1> DEFINE a == IF m.from = Relay THEN 0 ELSE m.amount
           ck == CollectBridgeFee(bk, m, 0, FromFeeOf(m), a, 0)
<1>3. CollectFromFee(bk, m) = ck  BY DEF CollectFromFee
<1>4. a \in Nat  BY <1>2
<1> HIDE DEF a
<1>5. /\ ck.acct.bal = bk.acct.bal
      /\ Owes(ck, t) = Owes(bk, t) + (IF t = m.token THEN 0 + FromFeeOf(m) ELSE 0)
  BY <1>1, <1>4, CollectBridgeFeeOwes
<1>6. 0 + FromFeeOf(m) = FromFeeOf(m)  BY <1>1
<1> HIDE DEF ck
<1> QED  BY <1>3, <1>5, <1>6

LEMMA TochainFeeOwes ==
    ASSUME NEW bk \in BooksType, NEW m \in TokenEvent, NEW t \in Tokens
    PROVE  LET ck == CollectTochainFee(bk, m)
               fee == TochainFeesOf(m).base + TochainFeesOf(m).prop
           IN  /\ ck.acct.bal = bk.acct.bal
               /\ Owes(ck, t) = Owes(bk, t) + (IF t = m.token THEN fee ELSE 0)
<1> DEFINE base == TochainFeesOf(m).base
           prop == TochainFeesOf(m).prop
           a == IF m.from = Relay THEN m.amount ELSE 0
           b == AfterTochainFee(m)
           ck == CollectBridgeFee(bk, m, base, prop, a, b)
<1>1. base \in Nat /\ prop \in Nat /\ b \in Nat  BY TochainFeesNat
<1>2. a \in Nat  BY TokenEventFields
<1>3. CollectTochainFee(bk, m) = ck  BY DEF CollectTochainFee
<1> HIDE DEF a, b, base, prop
<1>4. /\ ck.acct.bal = bk.acct.bal
      /\ Owes(ck, t) = Owes(bk, t) + (IF t = m.token THEN base + prop ELSE 0)
  BY <1>1, <1>2, CollectBridgeFeeOwes
<1> HIDE DEF ck
<1> QED  BY <1>3, <1>4 DEF base, prop

-----------------------------------------------------------------------------
(* What is kept.                                                           *)

FiniteInv == IsFiniteSet(failed[Relay])

LEMMA AmountSumNat ==
    ASSUME NEW S, IsFiniteSet(S), \A m \in S : m.amount \in Nat
    PROVE  AmountSum(S) \in Nat
<1>1. \A m \in S : Amounted(S)[m] \in Nat  BY DEF Amounted
<1> QED  BY <1>1, SumNat DEF AmountSum

\* One order more.
LEMMA AmountSumAdd ==
    ASSUME NEW S, IsFiniteSet(S), NEW x, x \notin S, \A m \in S \cup {x} : m.amount \in Nat
    PROVE  AmountSum(S \cup {x}) = AmountSum(S) + x.amount
<1> DEFINE T == S \cup {x}
           f == Amounted(T)
<1>1. IsFiniteSet(T)  BY FS_AddElement
<1>2. \A m \in T : f[m] = m.amount  BY DEF Amounted
<1>3. \A m \in S : f[m] = Amounted(S)[m]  BY DEF Amounted
<1> HIDE DEF f
<1>4. SumFunctionOnSet(f, S \cup {x}) = f[x] + SumFunctionOnSet(f, S)
  BY <1>2, SumAdd
<1>5. SumFunctionOnSet(f, S) = AmountSum(S)  BY <1>3, SumSame DEF AmountSum
<1>6. AmountSum(T) = x.amount + AmountSum(S)  BY <1>2, <1>4, <1>5 DEF AmountSum, f
<1>7. AmountSum(S) \in Nat  BY AmountSumNat
<1> QED  BY <1>6, <1>7

LEMMA KeptFinite ==
    ASSUME OrdersOK, FiniteInv, NEW t, NEW o
    PROVE  /\ IsFiniteSet(Kept(t)) /\ IsFiniteSet(Others(o, t))
           /\ \A m \in Kept(t) : m \in failed[Relay] /\ m.amount \in Nat
           /\ Rest(o, t) \in Nat
<1>1. failed[Relay] \subseteq MessageInEvent  BY RelayIsChain DEF OrdersOK
<1>2. Kept(t) \subseteq failed[Relay] /\ Others(o, t) \subseteq failed[Relay]
  BY DEF Kept, KeptAt, Others
<1>3. IsFiniteSet(Kept(t)) /\ IsFiniteSet(Others(o, t))  BY <1>2, FS_Subset DEF FiniteInv
<1>4. \A m \in failed[Relay] : m.amount \in Nat  BY <1>1 DEF MessageInEvent
<1>5. Rest(o, t) \in Nat  BY <1>2, <1>3, <1>4, AmountSumNat DEF Rest
<1> QED  BY <1>2, <1>3, <1>4, <1>5

\* What is kept at one time: one message for an order.
LEMMA OneKept ==
    ASSUME NEW m \in KeptAt(Relay), NEW n, Stored(n) = orderList[Relay][m.order]
    PROVE  m = n
BY DEF KeptAt, Stored

\* The order is not kept, or is what is retried.
LEMMA RestUnknown ==
    ASSUME NEW o, \A m \in failed[Relay] : m.order = o => orderList[Relay][o].status # "stored",
           NEW t
    PROVE  Rest(o, t) = AmountSum(Kept(t))
<1>1. Others(o, t) = Kept(t)  BY DEF Others, Kept, KeptAt, Stored
<1> QED  BY <1>1 DEF Rest

LEMMA RestRetried ==
    ASSUME OrdersOK, FiniteInv, NEW m, GetStoredMessage(Relay, m), NEW t
    PROVE  AmountSum(Kept(t)) = Rest(m.order, t) + InHand(m, t)
<1>1. m \in KeptAt(Relay) /\ m \in failed[Relay]  BY DEF GetStoredMessage, KeptAt
<1>2. ASSUME NEW n \in Kept(t), n.order = m.order PROVE n = m
  <2>1. n \in KeptAt(Relay)  BY DEF Kept
  <2>2. Stored(m) = orderList[Relay][n.order]  BY <1>2 DEF GetStoredMessage
  <2> QED  BY <2>1, <2>2, OneKept
<1>3. m.amount \in Nat  BY <1>1, RelayIsChain DEF OrdersOK, MessageInEvent
<1>4. CASE m.token = t
  <2>1. m \in Kept(t)  BY <1>1, <1>4 DEF Kept
  <2>2. Kept(t) = Others(m.order, t) \cup {m}  BY <1>2, <2>1 DEF Others
  <2>3. m \notin Others(m.order, t)  BY DEF Others
  <2>4. \A n \in Others(m.order, t) \cup {m} : n.amount \in Nat  BY <1>3, KeptFinite DEF Others
  <2>5. AmountSum(Kept(t)) = Rest(m.order, t) + m.amount
    BY <2>2, <2>3, <2>4, KeptFinite, AmountSumAdd DEF Rest
  <2> QED  BY <1>4, <2>5 DEF InHand
<1>5. CASE m.token # t
  <2>1. m \notin Kept(t)  BY <1>5 DEF Kept
  <2>2. Kept(t) = Others(m.order, t)  BY <1>2, <2>1 DEF Others
  <2>3. Rest(m.order, t) \in Nat  BY KeptFinite
  <2> QED  BY <1>5, <2>2, <2>3 DEF InHand, Rest
<1> QED  BY <1>4, <1>5

\* The order ends on the relay chain.
LEMMA RestSettled ==
    ASSUME OrdersOK, NEW o \in OrderIds, failed' = failed,
           \/ orderList' = [orderList EXCEPT ![Relay][o] = Processed]
           \/ /\ orderList' = orderList
              /\ \A m \in failed[Relay] : m.order # o,
           NEW t
    PROVE  Rest(o, t) = AmountSum(Kept(t)')
<1> USE RelayIsChain
<1>1. Kept(t)' = {m \in failed[Relay] : orderList'[Relay][m.order] = Stored(m) /\ m.token = t}
  BY DEF Kept, KeptAt
<1>2. Others(o, t) = {m \in failed[Relay] :
            orderList[Relay][m.order] = Stored(m) /\ m.token = t /\ m.order # o}
  BY DEF Kept, KeptAt, Others
<1>3. \A m \in failed[Relay] : m.order \in OrderIds  BY DEF OrdersOK, MessageInEvent
<1>4. CASE orderList' = [orderList EXCEPT ![Relay][o] = Processed]
  <2>1. /\ orderList'[Relay][o] = Processed
        /\ \A q \in OrderIds \ {o} : orderList'[Relay][q] = orderList[Relay][q]
    BY <1>4 DEF OrdersOK
  <2>2. \A m \in failed[Relay] : orderList'[Relay][m.order] = Stored(m) <=>
            orderList[Relay][m.order] = Stored(m) /\ m.order # o
    BY <1>3, <2>1, StagesDiffer
  <2>3. Others(o, t) = Kept(t)'  BY <1>1, <1>2, <2>2
  <2> QED  BY <2>3 DEF Rest
<1>5. CASE orderList' = orderList /\ \A m \in failed[Relay] : m.order # o
  <2>1. Others(o, t) = Kept(t)'  BY <1>1, <1>2, <1>5
  <2> QED  BY <2>1 DEF Rest
<1> QED  BY <1>4, <1>5

\* The order is kept.
LEMMA RestStored ==
    ASSUME OrdersOK, FiniteInv, NEW m \in MessageInEvent, StoreMessageData(Relay, m), NEW t
    PROVE  AmountSum(Kept(t)') = Rest(m.order, t) + InHand(m, t)
<1> USE RelayIsChain
<1> DEFINE o == m.order
<1>1. Kept(t)' = {n \in failed'[Relay] : orderList'[Relay][n.order] = Stored(n) /\ n.token = t}
  BY DEF Kept, KeptAt
<1>2. Others(o, t) = {n \in failed[Relay] :
            orderList[Relay][n.order] = Stored(n) /\ n.token = t /\ n.order # o}
  BY DEF Kept, KeptAt, Others
<1>3. /\ failed'[Relay] = failed[Relay] \cup {m}
      /\ o \in OrderIds /\ m.amount \in Nat
      /\ \A n \in failed[Relay] : n.order \in OrderIds
  BY DEF OrdersOK, MessageInEvent, StoreMessageData
<1>4. /\ orderList'[Relay][o] = Stored(m)
      /\ \A q \in OrderIds \ {o} : orderList'[Relay][q] = orderList[Relay][q]
  BY <1>3 DEF OrdersOK, StoreMessageData
<1>5. \A n : Stored(n) = Stored(m) => n = m  BY DEF Stored
<1>6. \A n \in failed'[Relay] : orderList'[Relay][n.order] = Stored(n) <=>
        \/ n = m
        \/ n \in failed[Relay] /\ orderList[Relay][n.order] = Stored(n) /\ n.order # o
  BY <1>3, <1>4, <1>5
<1>7. m \notin Others(o, t)  BY <1>2
<1>8. CASE m.token = t
  <2>1. Kept(t)' = Others(o, t) \cup {m}  BY <1>1, <1>2, <1>3, <1>6, <1>8
  <2>2. \A n \in Others(o, t) \cup {m} : n.amount \in Nat  BY <1>3, KeptFinite DEF Others
  <2>3. AmountSum(Kept(t)') = Rest(o, t) + m.amount
    BY <1>7, <2>1, <2>2, KeptFinite, AmountSumAdd DEF Rest
  <2> QED  BY <1>8, <2>3 DEF InHand
<1>9. CASE m.token # t
  <2>1. Kept(t)' = Others(o, t)  BY <1>1, <1>2, <1>3, <1>6, <1>9
  <2>2. Rest(o, t) \in Nat  BY KeptFinite
  <2> QED  BY <1>9, <2>1, <2>2 DEF InHand, Rest
<1> QED  BY <1>8, <1>9

-----------------------------------------------------------------------------
(* The handlers of an order on the relay chain.                            *)

\* What the relay chain starts with nothing in hand, or ends with.
LEMMA EndsSolvent ==
    ASSUME NEW bk \in BooksType, acct'[Relay] = bk.acct, vault' = bk.vault,
           \A t \in Tokens : IsMintable(Relay, t) =>
                bk.acct.bal[t] >= Owes(bk, t) + AmountSum(Kept(t)')
    PROVE  RelaySolvent'
<1> SUFFICES ASSUME NEW t \in Tokens, IsMintable(Relay, t)
             PROVE  acct'[Relay].bal[t] >= OwedByRelay(t)'
  BY DEF RelaySolvent
<1>1. OwedByRelay(t)' = Owes(bk, t) + AmountSum(Kept(t)')
  BY OwedIsNext DEF Owes
<1> QED  BY <1>1

\* Fees leave the books backed: they are taken from the amount in hand.
LEMMA FromFeeBacked ==
    ASSUME OrdersOK, FiniteInv, NEW bk \in BooksType, NEW m \in TokenEvent, Backed(bk, m),
           NEW n, n = [m EXCEPT !.amount = @ - FromFeeOf(m)]
    PROVE  Backed(CollectFromFee(bk, m), n)
<1> DEFINE ck == CollectFromFee(bk, m)
<1>1. ck \in BooksType /\ FromFeeOf(m) \in Nat /\ FromFeeOf(m) <= m.amount  BY FromFeeType
<1>2. m.amount \in Nat /\ m.order = n.order /\ m.token = n.token
      /\ n.amount = m.amount - FromFeeOf(m)
  BY TokenEventFields DEF MessageInEvent
<1>3. ASSUME NEW t \in Tokens, IsMintable(Relay, t)
      PROVE  ck.acct.bal[t] >= Owes(ck, t) + Rest(n.order, t) + InHand(n, t)
  <2>1. /\ ck.acct.bal = bk.acct.bal
        /\ Owes(ck, t) = Owes(bk, t) + (IF t = m.token THEN FromFeeOf(m) ELSE 0)
    BY FromFeeOwes
  <2>2. bk.acct.bal[t] >= Owes(bk, t) + Rest(m.order, t) + InHand(m, t)
    BY <1>3 DEF Backed
  <2>3. Owes(bk, t) \in Nat /\ Rest(m.order, t) \in Nat /\ bk.acct.bal[t] \in Nat
    BY OwesNat, KeptFinite DEF BooksType, Account
  <2> HIDE DEF ck
  <2> QED  BY <1>1, <1>2, <2>1, <2>2, <2>3 DEF InHand
<1> QED  BY <1>3 DEF Backed

LEMMA TochainFeeBacked ==
    ASSUME OrdersOK, FiniteInv, NEW bk \in BooksType, NEW m \in TokenEvent, Backed(bk, m),
           NEW n, n = [m EXCEPT !.amount = AfterTochainFee(m)]
    PROVE  Backed(CollectTochainFee(bk, m), n)
<1> DEFINE ck == CollectTochainFee(bk, m)
           fee == TochainFeesOf(m).base + TochainFeesOf(m).prop
<1>1. /\ ck \in BooksType
      /\ TochainFeesOf(m).base \in Nat /\ TochainFeesOf(m).prop \in Nat
      /\ AfterTochainFee(m) \in Nat
  BY TochainFeeType, TochainFeesNat
<1>2. m.amount \in Nat /\ m.order = n.order /\ m.token = n.token
      /\ n.amount = AfterTochainFee(m)
  BY TokenEventFields DEF MessageInEvent
<1>3. fee \in Nat /\ AfterTochainFee(m) = m.amount - fee
  BY <1>1, <1>2 DEF AfterTochainFee
<1>4. ASSUME NEW t \in Tokens, IsMintable(Relay, t)
      PROVE  ck.acct.bal[t] >= Owes(ck, t) + Rest(n.order, t) + InHand(n, t)
  <2>1. /\ ck.acct.bal = bk.acct.bal
        /\ Owes(ck, t) = Owes(bk, t) + (IF t = m.token THEN fee ELSE 0)
    BY TochainFeeOwes
  <2>2. bk.acct.bal[t] >= Owes(bk, t) + Rest(m.order, t) + InHand(m, t)
    BY <1>4 DEF Backed
  <2>3. Owes(bk, t) \in Nat /\ Rest(m.order, t) \in Nat /\ bk.acct.bal[t] \in Nat
    BY OwesNat, KeptFinite DEF BooksType, Account
  <2> HIDE DEF ck, fee
  <2> QED  BY <1>2, <1>3, <2>1, <2>2, <2>3 DEF InHand
<1> QED  BY <1>4 DEF Backed

LEMMA KeepForRetrySolvent ==
    ASSUME OrdersOK, MoneyOK, FiniteInv, NEW bk \in BooksType, NEW m \in MessageInEvent,
           Backed(bk, m), KeepForRetry(m, bk)
    PROVE  RelaySolvent'
<1>1. acct'[Relay] = bk.acct /\ vault' = bk.vault  BY RelayIsChain DEF MoneyOK, KeepForRetry, SetBooks
<1>2. ASSUME NEW t \in Tokens, IsMintable(Relay, t)
      PROVE  bk.acct.bal[t] >= Owes(bk, t) + AmountSum(Kept(t)')
  <2>1. AmountSum(Kept(t)') = Rest(m.order, t) + InHand(m, t)  BY RestStored DEF KeepForRetry
  <2>2. bk.acct.bal[t] >= Owes(bk, t) + Rest(m.order, t) + InHand(m, t)
    BY <1>2 DEF Backed
  <2>3. Owes(bk, t) \in Nat /\ Rest(m.order, t) \in Nat  BY OwesNat, KeptFinite
  <2>4. InHand(m, t) \in Nat  BY DEF InHand, MessageInEvent
  <2> QED  BY <2>1, <2>2, <2>3, <2>4
<1> QED  BY <1>1, <1>2, EndsSolvent

\* The order ends on the relay chain, or it started there and nothing of it is kept.
Closes(m) ==
    /\ failed' = failed
    /\ \/ orderList' = [orderList EXCEPT ![Relay][m.order] = Processed]
       \/ orderList' = orderList /\ \A n \in failed[Relay] : n.order # m.order

\* The handler ends with books that back what is owed to everyone else.
LEMMA ClosesSolvent ==
    ASSUME OrdersOK, FiniteInv, NEW bk \in BooksType, NEW m \in MessageInEvent, Closes(m),
           acct'[Relay] = bk.acct, vault' = bk.vault,
           \A t \in Tokens : IsMintable(Relay, t) =>
                bk.acct.bal[t] >= Owes(bk, t) + Rest(m.order, t)
    PROVE  RelaySolvent'
<1>1. m.order \in OrderIds  BY DEF MessageInEvent
<1>2. \A t \in Tokens : Rest(m.order, t) = AmountSum(Kept(t)')
  BY <1>1, RestSettled DEF Closes
<1> QED  BY <1>2, EndsSolvent

\* What is paid out, or burnt, was in hand.
LEMMA SpendBacked ==
    ASSUME OrdersOK, FiniteInv, NEW bk \in BooksType, NEW m \in TokenEvent, Backed(bk, m),
           NEW ck \in BooksType, ck.vault = bk.vault, ck.acct.fee = bk.acct.fee,
           NEW s \in Tokens, IsMintable(Relay, s),
           ck.acct.bal[s] >= bk.acct.bal[s] - InHand(m, s)
    PROVE  ck.acct.bal[s] >= Owes(ck, s) + Rest(m.order, s)
<1>1. bk.acct.bal[s] >= Owes(bk, s) + Rest(m.order, s) + InHand(m, s)  BY DEF Backed
<1>2. Owes(ck, s) = Owes(bk, s)  BY SameFees DEF Owes
<1>3. /\ Owes(bk, s) \in Nat /\ Rest(m.order, s) \in Nat
      /\ bk.acct.bal[s] \in Nat /\ ck.acct.bal[s] \in Nat
  BY OwesNat, KeptFinite DEF BooksType, Account
<1>4. InHand(m, s) \in Nat  BY TokenEventFields DEF InHand
<1> QED  BY <1>1, <1>2, <1>3, <1>4

LEMMA TransferOutFields ==
    ASSUME NEW ac \in Account, NEW t \in Tokens, NEW a \in Nat, NEW s \in Tokens
    PROVE  /\ TokenTransferOut(ac, t, a).fee = ac.fee
           /\ TokenTransferOut(ac, t, a).bal[s] = ac.bal[s] - (IF s = t THEN a ELSE 0)
BY DEF TokenTransferOut, Account

LEMMA TransferInFields ==
    ASSUME NEW ac \in Account, NEW t \in Tokens, NEW a \in Nat, NEW s \in Tokens
    PROVE  /\ TokenTransferIn(ac, t, a).fee = ac.fee
           /\ TokenTransferIn(ac, t, a).bal[s] = ac.bal[s] + (IF s = t THEN a ELSE 0)
BY DEF TokenTransferIn, Account

LEMMA BurnFields ==
    ASSUME NEW ac \in Account, NEW t \in Tokens, NEW a \in Nat, NEW s \in Tokens
    PROVE  /\ CheckAndBurn(Relay, ac, t, a).fee = ac.fee
           /\ CheckAndBurn(Relay, ac, t, a).bal[s] >= ac.bal[s] - (IF s = t THEN a ELSE 0)
<1>1. ac.bal \in [Tokens -> Nat]  BY DEF Account
<1> QED  BY <1>1 DEF CheckAndBurn, Account

LEMMA SwapInSolvent ==
    ASSUME OrdersOK, MoneyOK, FiniteInv, NEW bk \in BooksType, NEW m \in TokenEvent,
           Backed(bk, m), SwapIn(Relay, m, bk.acct), vault' = bk.vault
    PROVE  RelaySolvent'
<1> USE RelayIsChain
<1>1. m \in MessageInEvent /\ m.token \in Tokens /\ m.amount \in Nat /\ m.order \in OrderIds
      /\ bk.acct \in Account
  BY TokenEventFields DEF BooksType
<1> DEFINE ac == acct'[Relay]
           ck == [bk EXCEPT !.acct = ac]
<1>2. acct' \in [Chains -> Account]  BY SwapInType, <1>1
<1>3. /\ ac.fee = bk.acct.fee
      /\ \A s \in Tokens : ac.bal[s] = bk.acct.bal[s] - InHand(m, s)
  <2>1. CASE acct' = [acct EXCEPT ![Relay] = TokenTransferOut(bk.acct, m.token, m.amount)]
    <3>1. ac = TokenTransferOut(bk.acct, m.token, m.amount)  BY <2>1 DEF MoneyOK
    <3>2. \A s \in Tokens : InHand(m, s) = IF s = m.token THEN m.amount ELSE 0
      BY DEF InHand
    <3> QED  BY <1>1, <3>1, <3>2, TransferOutFields
  <2>2. CASE acct' = [acct EXCEPT ![Relay] =
                [bk.acct EXCEPT !.bal[m.token] = @ - m.amount,
                                !.parked[m.token] = @ + m.amount]]
    <3>1. ac = [bk.acct EXCEPT !.bal[m.token] = @ - m.amount,
                               !.parked[m.token] = @ + m.amount]
      BY <2>2 DEF MoneyOK
    <3> QED  BY <1>1, <3>1 DEF InHand, Account
  <2> QED  BY <2>1, <2>2 DEF SwapIn
<1>4. ac \in Account  BY <1>2
<1> HIDE DEF ac
<1>5. ck \in BooksType /\ ck.acct = ac /\ ck.vault = bk.vault  BY <1>4 DEF BooksType
<1>6. Closes(m)  BY DEF SwapIn, EmitMessageIn, MarkProcessed, Closes
<1> HIDE DEF ck
<1>7. \A s \in Tokens : ck.acct.bal[s] \in Int /\ bk.acct.bal[s] \in Int /\ InHand(m, s) \in Int
  BY <1>1, <1>4, <1>5 DEF Account, InHand
<1>8. ASSUME NEW s \in Tokens, IsMintable(Relay, s)
      PROVE  ck.acct.bal[s] >= Owes(ck, s) + Rest(m.order, s)
  <2>1. ck.acct.bal[s] >= bk.acct.bal[s] - InHand(m, s)  BY <1>3, <1>5, <1>7
  <2> QED  BY <1>3, <1>5, <1>8, <2>1, SpendBacked
<1>9. acct'[Relay] = ck.acct /\ vault' = ck.vault  BY <1>5 DEF ac
<1> QED  BY <1>1, <1>5, <1>6, <1>8, <1>9, ClosesSolvent

\* An order that started on the relay chain is new there.
New(m) == m.from = Relay => \A n \in failed[Relay] : n.order # m.order

LEMMA EmitMessageRelayCloses ==
    ASSUME NEW m, NEW n, n.order = m.order, n.from = m.from, New(m), EmitMessageRelay(n)
    PROVE  Closes(m)
BY DEF EmitMessageRelay, RecordRelayed, MarkProcessed, Closes, New

LEMMA PayOrRelaySolvent ==
    ASSUME OrdersOK, MoneyOK, FiniteInv, NEW m \in TokenEvent, NEW must \in BOOLEAN,
           NEW bk \in BooksType, Backed(bk, m), New(m), PayOrRelay(m, must, bk)
    PROVE  RelaySolvent'
<1> USE RelayIsChain
<1>1. PICK out \in {[m EXCEPT !.amount = AfterTochainFee(m)]}, ch \in {CollectTochainFee(bk, m)} :
        \/ KeepForRetry(out, ch)
        \/ SwapIn(Relay, out, ch.acct) /\ vault' = ch.vault
        \/ /\ CanBurn(Relay, ch.acct, m.token, out.amount)
           /\ SetBooks([ch EXCEPT !.acct = CheckAndBurn(Relay, @, m.token, out.amount)])
           /\ EmitMessageRelay([out EXCEPT !.amount = TargetAmount(m.token, Relay, m.to, @)])
  BY DEF PayOrRelay
<1>2. AfterTochainFee(m) \in Nat /\ ch \in BooksType  BY <1>1, TochainFeeType
<1>3. m \in MessageInEvent /\ m.token \in Tokens /\ m.to \in Chains  BY TokenEventFields
<1>4. /\ out \in MessageInEvent /\ out.token = m.token /\ out.amount \in Nat
      /\ out.order = m.order /\ out.from = m.from
  <2>1. out = [m EXCEPT !.amount = AfterTochainFee(m)]  BY <1>1
  <2> QED  BY <1>2, <1>3, <2>1, AmountType
<1>5. out \in TokenEvent  BY <1>3, <1>4 DEF TokenEvent
<1>6. Backed(ch, out)  BY <1>1, TochainFeeBacked
<1>7. CASE KeepForRetry(out, ch)  BY <1>2, <1>4, <1>6, <1>7, KeepForRetrySolvent
<1>8. CASE SwapIn(Relay, out, ch.acct) /\ vault' = ch.vault
  BY <1>2, <1>5, <1>6, <1>8, SwapInSolvent
<1>9. CASE /\ CanBurn(Relay, ch.acct, m.token, out.amount)
           /\ SetBooks([ch EXCEPT !.acct = CheckAndBurn(Relay, @, m.token, out.amount)])
           /\ EmitMessageRelay([out EXCEPT !.amount = TargetAmount(m.token, Relay, m.to, @)])
  <2> DEFINE ac == CheckAndBurn(Relay, ch.acct, m.token, out.amount)
             ck == [ch EXCEPT !.acct = ac]
             n == [out EXCEPT !.amount = TargetAmount(m.token, Relay, m.to, @)]
  <2>1. ch.acct \in Account /\ ch.vault \in [Tokens -> V!Vault]  BY <1>2 DEF BooksType
  <2>2. ac \in Account  BY <1>3, <1>4, <1>9, <2>1, BurnType
  <2>3. SetBooks(ck)  BY <1>9
  <2>4. n.order = out.order /\ n.from = out.from  BY <1>4 DEF MessageInEvent
  <2>5. Closes(out)
    <3>1. EmitMessageRelay(n)  BY <1>9
    <3>2. New(out)  BY <1>4 DEF New
    <3> HIDE DEF n
    <3> QED  BY <2>4, <3>1, <3>2, EmitMessageRelayCloses
  <2>6. ASSUME NEW s \in Tokens, IsMintable(Relay, s)
        PROVE  ac.bal[s] >= ch.acct.bal[s] - InHand(out, s) /\ ac.fee = ch.acct.fee
    <3>1. /\ ac.fee = ch.acct.fee
          /\ ac.bal[s] >= ch.acct.bal[s] - (IF s = m.token THEN out.amount ELSE 0)
      BY <1>3, <1>4, <2>1, BurnFields
    <3> QED  BY <1>4, <3>1 DEF InHand
  <2> HIDE DEF ac
  <2>7. ck \in BooksType /\ ck.acct = ac /\ ck.vault = ch.vault  BY <1>2, <2>2 DEF BooksType
  <2> HIDE DEF ck
  <2>8. ASSUME NEW s \in Tokens, IsMintable(Relay, s)
        PROVE  ck.acct.bal[s] >= Owes(ck, s) + Rest(out.order, s)
    BY <1>2, <1>5, <1>6, <2>6, <2>7, <2>8, SpendBacked
  <2>9. acct'[Relay] = ck.acct /\ vault' = ck.vault  BY SMTT(30), <2>3 DEF SetBooks, MoneyOK
  <2> QED  BY <1>4, <2>5, <2>7, <2>8, <2>9, ClosesSolvent
<1> QED  BY <1>1, <1>7, <1>8, <1>9

\* The executor takes the amount in hand, and what it returns is in hand.
LEMMA SwapRelaySolvent ==
    ASSUME OrdersOK, MoneyOK, FiniteInv, NEW m \in TokenEvent, NEW relay \in BOOLEAN,
           NEW must \in BOOLEAN, NEW bk \in BooksType, Backed(bk, m), New(m),
           SwapRelay(m, relay, must, bk)
    PROVE  RelaySolvent'
<1>1. /\ m \in MessageInEvent /\ m.token \in Tokens /\ m.amount \in Nat
      /\ bk.acct \in Account /\ bk.vault \in [Tokens -> V!Vault]
  BY TokenEventFields DEF BooksType
<1>2. CASE PayOrRelay(m, must, bk)  BY <1>2, PayOrRelaySolvent
<1>3. CASE KeepForRetry(m, bk)  BY <1>1, <1>3, KeepForRetrySolvent
<1>4. ASSUME m.amount <= bk.acct.bal[m.token],
             NEW paid \in {TokenTransferOut(bk.acct, m.token, m.amount)},
             NEW t \in Tokens, NEW amount \in ExecutorAmounts, NEW swap \in BOOLEAN,
             amount <= paid.held[t],
             PayOrRelay([m EXCEPT !.token = t, !.amount = amount, !.swap = swap], must,
                        [bk EXCEPT !.acct = TokenTransferIn(paid, t, amount)])
      PROVE  RelaySolvent'
  <2> DEFINE n == [m EXCEPT !.token = t, !.amount = amount, !.swap = swap]
             back == TokenTransferIn(paid, t, amount)
             pk == [bk EXCEPT !.acct = paid]
             ck == [bk EXCEPT !.acct = back]
  <2>1. amount \in Nat  BY <1>4, RelayAssumption
  <2>2. paid \in Account  BY <1>1, <1>4, TransferOutType
  <2>3. back \in Account  BY <1>4, <2>1, <2>2, TransferInType
  <2>4. n \in TokenEvent /\ n.order = m.order /\ n.from = m.from
        /\ n.token = t /\ n.amount = amount
    BY <1>1, <1>4, <2>1 DEF TokenEvent, MessageInEvent
  <2>5. PayOrRelay(n, must, ck)  BY <1>4
  <2>6. ASSUME NEW s \in Tokens
        PROVE  /\ paid.fee = bk.acct.fee /\ back.fee = paid.fee
               /\ paid.bal[s] = bk.acct.bal[s] - InHand(m, s)
               /\ back.bal[s] = paid.bal[s] + InHand(n, s)
    <3>1. paid.bal[s] = bk.acct.bal[s] - (IF s = m.token THEN m.amount ELSE 0)
      BY <1>1, <1>4, TransferOutFields
    <3>2. back.bal[s] = paid.bal[s] + (IF s = t THEN amount ELSE 0)
      BY <1>4, <2>1, <2>2, TransferInFields
    <3>3. paid.fee = bk.acct.fee /\ back.fee = paid.fee
      BY <1>1, <1>4, <2>1, <2>2, TransferOutFields, TransferInFields
    <3> QED  BY <2>4, <3>1, <3>2, <3>3 DEF InHand
  <2> HIDE DEF back
  <2>7. ck \in BooksType /\ ck.vault = bk.vault /\ ck.acct = back
        /\ pk \in BooksType /\ pk.vault = bk.vault /\ pk.acct = paid
    BY <2>2, <2>3 DEF BooksType
  <2> HIDE DEF n, ck, pk
  <2>8. ASSUME NEW s \in Tokens, IsMintable(Relay, s)
        PROVE  ck.acct.bal[s] >= Owes(ck, s) + Rest(n.order, s) + InHand(n, s)
    <3>1. paid.bal[s] \in Int /\ bk.acct.bal[s] \in Int /\ InHand(m, s) \in Int
      BY <1>1, <2>2 DEF Account, InHand
    <3>2. pk.acct.bal[s] >= bk.acct.bal[s] - InHand(m, s)  BY <2>6, <2>7, <3>1
    <3>3. pk.acct.bal[s] >= Owes(pk, s) + Rest(m.order, s)
      BY <2>6, <2>7, <2>8, <3>2, SpendBacked
    <3>4. Owes(ck, s) = Owes(pk, s)  BY <2>6, <2>7, SameFees DEF Owes
    <3>5. Owes(pk, s) \in Nat /\ Rest(m.order, s) \in Nat /\ InHand(n, s) \in Nat
      BY <2>1, <2>4, <2>7, OwesNat, KeptFinite DEF InHand
    <3> QED  BY <2>4, <2>6, <2>7, <3>1, <3>3, <3>4, <3>5
  <2>9. Backed(ck, n)  BY <2>8 DEF Backed
  <2>10. New(n)  BY <2>4 DEF New
  <2> QED  BY <2>4, <2>5, <2>7, <2>9, <2>10, PayOrRelaySolvent
<1> QED  BY <1>2, <1>3, <1>4 DEF SwapRelay

LEMMA ChargeSourceSolvent ==
    ASSUME OrdersOK, MoneyOK, FiniteInv, NEW m \in TokenEvent, NEW relay \in BOOLEAN,
           NEW must \in BOOLEAN, NEW bk \in BooksType, Backed(bk, m), New(m),
           ChargeSource(m, relay, must, bk)
    PROVE  RelaySolvent'
<1> DEFINE left == m.amount - FromFeeOf(m)
<1>1. left \in Nat /\ CollectFromFee(bk, m) \in BooksType
  BY FromFeeType, TokenEventFields
<1>2. PICK rest \in {[m EXCEPT !.amount = @ - FromFeeOf(m)]}, ch \in {CollectFromFee(bk, m)} :
        \/ KeepForRetry(rest, ch)
        \/ SwapRelay(rest, relay, must, ch)
  BY DEF ChargeSource
<1>3. Backed(ch, rest)  BY <1>2, FromFeeBacked
<1>4. rest = [m EXCEPT !.amount = left]  BY <1>2, TokenEventFields DEF MessageInEvent
<1> HIDE DEF left
<1>5. rest \in MessageInEvent /\ rest.token = m.token
      /\ rest.order = m.order /\ rest.from = m.from
  <2>1. m \in MessageInEvent  BY TokenEventFields
  <2> QED  BY <1>1, <1>4, <2>1, AmountType
<1>6. rest \in TokenEvent /\ ch \in BooksType /\ New(rest)
  BY <1>1, <1>2, <1>5, TokenEventFields DEF TokenEvent, New
<1>7. CASE KeepForRetry(rest, ch)  BY <1>3, <1>5, <1>6, <1>7, KeepForRetrySolvent
<1>8. CASE SwapRelay(rest, relay, must, ch)  BY <1>3, <1>6, <1>8, SwapRelaySolvent
<1> QED  BY <1>2, <1>7, <1>8

\* A deposit adds to the vault what was in hand, or the user is paid.
LEMMA DepositInSolvent ==
    ASSUME OrdersOK, MoneyOK, FiniteInv, NEW m \in TokenEvent, NEW bk \in BooksType,
           Backed(bk, m), DepositIn(m, bk)
    PROVE  RelaySolvent'
<1> USE RelayIsChain
<1>1. m \in MessageInEvent /\ m.token \in Tokens /\ m.amount \in Nat /\ m.from \in Chains
      /\ bk.acct \in Account /\ bk.vault \in [Tokens -> V!Vault]
  BY TokenEventFields DEF BooksType
<1>2. Closes(m)  BY DEF DepositIn, EmitMessageIn, MarkProcessed, Closes
<1>3. CASE /\ V!CanDeposit(bk.vault[m.token])
           /\ SetBooks([bk EXCEPT !.vault[m.token] = V!Deposit(@, m.from, m.amount)])
  <2> DEFINE w == V!Deposit(bk.vault[m.token], m.from, m.amount)
             ws == [bk.vault EXCEPT ![m.token] = w]
             ck == [bk EXCEPT !.vault = ws]
  <2>1. w \in V!Vault  BY <1>1, <1>3, DepositType
  <2>2. w.total = bk.vault[m.token].total + m.amount  BY <1>1 DEF V!Deposit, V!Vault
  <2>3. SetBooks(ck)  BY <1>3 DEF BooksType
  <2> HIDE DEF w
  <2>4. ws \in [Tokens -> V!Vault]  BY <1>1, <2>1
  <2>5. ck \in BooksType /\ ck.acct = bk.acct /\ ck.vault = ws  BY <2>4 DEF BooksType
  <2>6. ASSUME NEW s \in Tokens, IsMintable(Relay, s)
        PROVE  ck.acct.bal[s] >= Owes(ck, s) + Rest(m.order, s)
    <3>1. ws[s].total = bk.vault[s].total + InHand(m, s)
      <4>1. CASE s = m.token  BY <1>1, <2>2, <4>1 DEF InHand
      <4>2. CASE s # m.token
        <5>1. ws[s] = bk.vault[s] /\ bk.vault[s].total \in Nat  BY <1>1, <4>2 DEF V!Vault
        <5> QED  BY <4>2, <5>1 DEF InHand
      <4> QED  BY <4>1, <4>2
    <3>2. bk.acct.bal[s] >= Owes(bk, s) + Rest(m.order, s) + InHand(m, s)
      BY <2>6 DEF Backed
    <3>3. Owes(ck, s) = ws[s].total + FeeSum(bk.acct, s)  BY <2>5 DEF Owes
    <3>4. Owes(bk, s) = bk.vault[s].total + FeeSum(bk.acct, s)  BY DEF Owes
    <3>5. bk.vault[s].total \in Nat /\ FeeSum(bk.acct, s) \in Nat /\ InHand(m, s) \in Nat
          /\ Rest(m.order, s) \in Nat
      BY <1>1, FeeSumNat, KeptFinite DEF V!Vault, InHand
    <3> HIDE DEF ws, ck
    <3> QED  BY <2>5, <3>1, <3>2, <3>3, <3>4, <3>5
  <2> HIDE DEF ck
  <2>7. acct'[Relay] = ck.acct /\ vault' = ck.vault  BY <2>3 DEF SetBooks, MoneyOK
  <2> QED  BY <1>1, <1>2, <2>5, <2>6, <2>7, ClosesSolvent
<1>4. CASE /\ m.amount <= bk.acct.bal[m.token]
           /\ SetBooks([bk EXCEPT !.acct = TokenTransferOut(@, m.token, m.amount)])
  <2> DEFINE ac == TokenTransferOut(bk.acct, m.token, m.amount)
             ck == [bk EXCEPT !.acct = ac]
  <2>1. ac \in Account  BY <1>1, <1>4, TransferOutType
  <2>2. SetBooks(ck)  BY <1>4
  <2>3. ASSUME NEW s \in Tokens
        PROVE  ac.fee = bk.acct.fee /\ ac.bal[s] = bk.acct.bal[s] - InHand(m, s)
    BY <1>1, TransferOutFields DEF InHand
  <2> HIDE DEF ac
  <2>4. ck \in BooksType /\ ck.acct = ac /\ ck.vault = bk.vault  BY <2>1 DEF BooksType
  <2> HIDE DEF ck
  <2>5. ASSUME NEW s \in Tokens, IsMintable(Relay, s)
        PROVE  ck.acct.bal[s] >= Owes(ck, s) + Rest(m.order, s)
    <3>1. bk.acct.bal[s] \in Int /\ InHand(m, s) \in Int  BY <1>1 DEF Account, InHand
    <3>2. ck.acct.bal[s] >= bk.acct.bal[s] - InHand(m, s)  BY <2>3, <2>4, <3>1
    <3> QED  BY <2>3, <2>4, <2>5, <3>2, SpendBacked
  <2>6. acct'[Relay] = ck.acct /\ vault' = ck.vault  BY <2>2 DEF SetBooks, MoneyOK
  <2> QED  BY <1>1, <1>2, <2>4, <2>5, <2>6, ClosesSolvent
<1> QED  BY <1>3, <1>4 DEF DepositIn

\* A message carries no token, but the executor it passes through may leave some.
LEMMA TransferRelaySolvent ==
    ASSUME OrdersOK, MoneyOK, FiniteInv, NEW m \in MessageInEvent, NEW relay \in BOOLEAN,
           NEW must \in BOOLEAN, Backed(Books, m), New(m), TransferRelay(m, relay, must)
    PROVE  RelaySolvent'
<1> USE RelayIsChain
<1>1. Books \in BooksType /\ Books.acct = acct[Relay] /\ Books.vault = vault
      /\ acct[Relay] \in Account
  BY BooksOK DEF Books, MoneyOK
<1>2. ASSUME NEW ck \in BooksType, SetBooks(ck), ck.vault = vault,
             ck.acct.fee = acct[Relay].fee, Closes(m),
             \A s \in Tokens : ck.acct.bal[s] >= acct[Relay].bal[s]
      PROVE  RelaySolvent'
  <2>1. ASSUME NEW s \in Tokens, IsMintable(Relay, s)
        PROVE  ck.acct.bal[s] >= Owes(ck, s) + Rest(m.order, s)
    <3>1. Owes(ck, s) = Owes(Books, s)  BY <1>1, <1>2, SameFees DEF Owes
    <3>2. acct[Relay].bal[s] >= Owes(Books, s) + Rest(m.order, s) + InHand(m, s)
      BY <1>1, <2>1 DEF Backed
    <3>3. /\ Owes(Books, s) \in Nat /\ Rest(m.order, s) \in Nat /\ InHand(m, s) \in Nat
          /\ acct[Relay].bal[s] \in Nat /\ ck.acct.bal[s] \in Nat
      BY <1>1, OwesNat, KeptFinite DEF InHand, MessageInEvent, BooksType, Account
    <3> QED  BY <1>2, <3>1, <3>2, <3>3
  <2>2. acct'[Relay] = ck.acct /\ vault' = ck.vault  BY <1>2 DEF SetBooks, MoneyOK
  <2> QED  BY <1>2, <2>1, <2>2, ClosesSolvent
<1>3. ASSUME SetBooks(Books), Closes(m) PROVE RelaySolvent'
  <2>1. \A s \in Tokens : acct[Relay].bal[s] >= acct[Relay].bal[s]  BY <1>1 DEF Account
  <2> QED  BY <1>1, <1>2, <1>3, <2>1
<1>4. CASE EmitMessageIn(Relay, m) /\ SetBooks(Books)
  BY <1>3, <1>4 DEF EmitMessageIn, MarkProcessed, Closes
<1>5. CASE StoreMessageData(Relay, m) /\ SetBooks(Books)
  <2>1. acct'[Relay] = acct[Relay] /\ vault' = vault  BY <1>1, <1>5 DEF SetBooks, MoneyOK
  <2>2. ASSUME NEW t \in Tokens, IsMintable(Relay, t)
        PROVE  Books.acct.bal[t] >= Owes(Books, t) + AmountSum(Kept(t)')
    <3>1. AmountSum(Kept(t)') = Rest(m.order, t) + InHand(m, t)  BY <1>5, RestStored
    <3>2. Books.acct.bal[t] >= Owes(Books, t) + Rest(m.order, t) + InHand(m, t)
      BY <2>2 DEF Backed
    <3>3. Owes(Books, t) \in Nat /\ Rest(m.order, t) \in Nat /\ InHand(m, t) \in Nat
      BY <1>1, OwesNat, KeptFinite DEF InHand, MessageInEvent
    <3> QED  BY <3>1, <3>2, <3>3
  <2> QED  BY <1>1, <2>1, <2>2, EndsSolvent
<1>6. ASSUME NEW t \in Tokens, NEW a \in Nat, a <= acct[Relay].held[t],
             SetBooks([Books EXCEPT !.acct = TokenTransferIn(@, t, a)]), EmitMessageRelay(m)
      PROVE  RelaySolvent'
  <2> DEFINE ac == TokenTransferIn(acct[Relay], t, a)
             ck == [Books EXCEPT !.acct = ac]
  <2>1. ac \in Account  BY <1>1, <1>6, TransferInType
  <2>2. SetBooks(ck)  BY <1>6 DEF Books
  <2>3. ASSUME NEW s \in Tokens
        PROVE  ac.bal[s] >= acct[Relay].bal[s] /\ ac.fee = acct[Relay].fee
    <3>1. /\ ac.bal[s] = acct[Relay].bal[s] + (IF s = t THEN a ELSE 0)
          /\ ac.fee = acct[Relay].fee
      BY <1>1, TransferInFields
    <3>2. acct[Relay].bal[s] \in Nat  BY <1>1 DEF Account
    <3> HIDE DEF ac
    <3> QED  BY <3>1, <3>2
  <2>4. ac.fee = acct[Relay].fee  BY <2>3
  <2> HIDE DEF ac
  <2>5. ck \in BooksType /\ ck.acct = ac /\ ck.vault = vault
    BY <1>1, <2>1 DEF BooksType, Books
  <2> HIDE DEF ck
  <2>6. Closes(m)  BY <1>6, EmitMessageRelayCloses
  <2> QED  BY <1>2, <2>2, <2>3, <2>4, <2>5, <2>6
<1>7. \A relays \in BOOLEAN : \A a \in {0} \cup (IF relays THEN ExecutorAmounts ELSE {}) : a \in Nat
  BY RelayAssumption
<1>8. CASE /\ IF must THEN EmitMessageIn(Relay, m) ELSE TransferIn(Relay, m)
           /\ SetBooks(Books)
  BY <1>4, <1>5, <1>8 DEF TransferIn
<1>9. CASE KeepForRetry(m, Books)  BY <1>5, <1>9 DEF KeepForRetry
<1>10. CASE /\ \E t \in Tokens, amount \in {0} \cup (IF relay THEN ExecutorAmounts ELSE {}) :
                 /\ amount <= acct[Relay].held[t]
                 /\ SetBooks([Books EXCEPT !.acct = TokenTransferIn(@, t, amount)])
            /\ EmitMessageRelay(m)
  BY <1>6, <1>7, <1>10
<1> QED  BY <1>8, <1>9, <1>10 DEF TransferRelay

-----------------------------------------------------------------------------
(* The operations of the relay chain.                                      *)

\* What the books hold when a handler starts.
LEMMA StartsBacked ==
    ASSUME OrdersOK, MoneyOK, FiniteInv, RelaySolvent, NEW m \in TokenEvent,
           \A s \in Tokens : Rest(m.order, s) = AmountSum(Kept(s)),
           NEW ck \in BooksType, ck.vault = vault, ck.acct.fee = acct[Relay].fee,
           \A s \in Tokens : IsMintable(Relay, s) =>
                ck.acct.bal[s] = acct[Relay].bal[s] + InHand(m, s)
    PROVE  Backed(ck, m)
<1> SUFFICES ASSUME NEW t \in Tokens, IsMintable(Relay, t)
             PROVE  ck.acct.bal[t] >= Owes(ck, t) + Rest(m.order, t) + InHand(m, t)
  BY DEF Backed
<1>1. acct[Relay].bal[t] >= Owes(Books, t) + Rest(m.order, t)
  BY OwedIs DEF RelaySolvent
<1>2. Owes(ck, t) = Owes(Books, t)  BY SameFees DEF Owes, Books
<1>3. Owes(Books, t) \in Nat /\ Rest(m.order, t) \in Nat /\ InHand(m, t) \in Nat
      /\ acct[Relay].bal[t] \in Nat
  BY BooksOK, OwesNat, KeptFinite, TokenEventFields, RelayIsChain DEF InHand, MoneyOK, Account
<1> QED  BY <1>1, <1>2, <1>3

\* Messages carry no token.
PlainInv == \A e \in sent : e.type = "MESSAGE" => e.token = NoToken

LEMMA RelayMessageInSolvent ==
    ASSUME TypeOK, FiniteInv, PlainInv, OrdersInv, RelaySolvent,
           NEW e \in sent, RelayMessageIn(e)
    PROVE  RelaySolvent'
<1> USE TypeParts, RelayIsChain
<1> DEFINE m == SwapInToken(e)
<1>1. e \in MessageOutEvent /\ e.relay \in BOOLEAN /\ e.from # Relay
  BY DEF LogsOK, MessageOutEvent, RelayMessageIn, LeafChains, AdminOK
<1>2. m \in MessageInEvent /\ (e.type # "MESSAGE" => m \in TokenEvent)
  BY <1>1, SwapInTokenType
<1>3. m.order = e.order /\ m.token = e.token /\ m.from = e.from
  BY <1>1, InEventType DEF SwapInToken, MessageInEvent
<1>4. \A s : Rest(m.order, s) = AmountSum(Kept(s))
  <2>1. orderList[Relay][m.order].status # "stored"
    BY <1>3, StagesDiffer DEF RelayMessageIn, CheckOrder
  <2> HIDE DEF m
  <2> QED  BY <2>1, RestUnknown
<1>5. New(m)  BY <1>1, <1>3 DEF New
<1>6. \/ e.type = "MESSAGE" /\ TransferRelay(m, e.relay, FALSE)
      \/ e.type = "DEPOSIT" /\ DepositIn(m, Minted(m))
      \/ e.type = "BRIDGE" /\ ChargeSource(m, e.relay, FALSE, Minted(m))
  <2>1. PICK n \in {SwapInToken(e)} :
          \/ e.type = "MESSAGE" /\ TransferRelay(n, e.relay, FALSE)
          \/ e.type = "DEPOSIT" /\ DepositIn(n, Minted(n))
          \/ e.type = "BRIDGE" /\ ChargeSource(n, e.relay, FALSE, Minted(n))
    BY Zenon DEF RelayMessageIn
  <2>2. n = m  BY <2>1
  <2> QED  BY <2>1, <2>2
<1> HIDE DEF m
<1>7. CASE e.type = "MESSAGE" /\ TransferRelay(m, e.relay, FALSE)
  <2>1. m.token \notin Tokens  BY <1>3, <1>7, BridgeAssumption DEF PlainInv
  <2>2. ASSUME NEW t \in Tokens, IsMintable(Relay, t)
        PROVE  Books.acct.bal[t] >= Owes(Books, t) + Rest(m.order, t) + InHand(m, t)
    <3>1. InHand(m, t) = 0  BY <2>1 DEF InHand
    <3>2. acct[Relay].bal[t] >= Owes(Books, t) + AmountSum(Kept(t))
      BY <2>2, OwedIs DEF RelaySolvent
    <3>3. Owes(Books, t) \in Nat /\ Rest(m.order, t) \in Nat  BY BooksOK, OwesNat, KeptFinite
    <3> QED  BY <1>4, <3>1, <3>2, <3>3 DEF Books
  <2>3. Backed(Books, m)  BY <2>2 DEF Backed
  <2> QED  BY <1>1, <1>2, <1>5, <1>7, <2>3, TransferRelaySolvent
<1>8. ASSUME m \in TokenEvent PROVE Minted(m) \in BooksType /\ Backed(Minted(m), m)
  <2>1. Minted(m) \in BooksType  BY <1>8, MintedType
  <2>2. Minted(m).vault = vault
        /\ Minted(m).acct = CheckAndMint(Relay, acct[Relay], m.token, m.amount)
    BY DEF Minted, Books
  <2>3. acct[Relay] \in Account /\ m.token \in Tokens /\ m.amount \in Nat
    BY <1>8, TokenEventFields DEF MoneyOK
  <2>4. Minted(m).acct.fee = acct[Relay].fee  BY <2>2, <2>3 DEF CheckAndMint, Account
  <2>5. ASSUME NEW s \in Tokens, IsMintable(Relay, s)
        PROVE  Minted(m).acct.bal[s] = acct[Relay].bal[s] + InHand(m, s)
    <3>1. acct[Relay].bal \in [Tokens -> Nat]  BY <2>3 DEF Account
    <3>2. CASE IsMintable(Relay, m.token)
      <4>1. Minted(m).acct.bal = [acct[Relay].bal EXCEPT ![m.token] = @ + m.amount]
        BY <2>2, <2>3, <3>2 DEF CheckAndMint, Account
      <4> QED  BY <2>3, <3>1, <4>1 DEF InHand
    <3>3. CASE ~IsMintable(Relay, m.token)
      <4>1. Minted(m).acct = acct[Relay] /\ m.token # s  BY <2>2, <2>5, <3>3 DEF CheckAndMint
      <4> QED  BY <3>1, <4>1 DEF InHand
    <3> QED  BY <3>2, <3>3
  <2> QED  BY <1>4, <1>8, <2>1, <2>2, <2>4, <2>5, StartsBacked
<1>9. CASE e.type = "DEPOSIT" /\ DepositIn(m, Minted(m))
  BY <1>2, <1>8, <1>9, DepositInSolvent
<1>10. CASE e.type = "BRIDGE" /\ ChargeSource(m, e.relay, FALSE, Minted(m))
  BY <1>1, <1>2, <1>5, <1>8, <1>10, ChargeSourceSolvent
<1> QED  BY <1>6, <1>7, <1>9, <1>10

\* What was kept is in hand at the retry.
LEMMA RelayRetryMessageInSolvent ==
    ASSUME TypeOK, FiniteInv, OrdersInv, RelaySolvent,
           NEW m \in failed[Relay], RelayRetryMessageIn(m)
    PROVE  RelaySolvent'
<1> USE TypeParts, RelayIsChain
<1>1. m \in MessageInEvent /\ m.from # Relay  BY DEF OrdersOK, OrdersInv, FailedInv
<1>2. New(m)  BY <1>1 DEF New
<1>3. Backed(Books, m)
  <2> SUFFICES ASSUME NEW t \in Tokens, IsMintable(Relay, t)
               PROVE  Books.acct.bal[t] >= Owes(Books, t) + Rest(m.order, t) + InHand(m, t)
    BY DEF Backed
  <2>1. AmountSum(Kept(t)) = Rest(m.order, t) + InHand(m, t)
    BY RestRetried DEF RelayRetryMessageIn
  <2>2. acct[Relay].bal[t] >= Owes(Books, t) + AmountSum(Kept(t))
    BY OwedIs DEF RelaySolvent
  <2>3. Owes(Books, t) \in Nat /\ Rest(m.order, t) \in Nat /\ InHand(m, t) \in Nat
    BY <1>1, BooksOK, OwesNat, KeptFinite DEF InHand, MessageInEvent
  <2> QED  BY <2>1, <2>2, <2>3 DEF Books
<1>4. CASE TransferRelay(m, TRUE, TRUE)  BY <1>1, <1>2, <1>3, <1>4, TransferRelaySolvent
<1>5. CASE m.type # "MESSAGE" /\ SwapRelay(m, TRUE, TRUE, Books)
  <2>1. m \in TokenEvent  BY <1>1, <1>5, IsTokenEvent
  <2> QED  BY <1>2, <1>3, <1>5, <2>1, BooksOK, SwapRelaySolvent
<1> QED  BY <1>4, <1>5 DEF RelayRetryMessageIn

\* A new order of the relay chain: nothing kept has its identity.
LEMMA FreshOrder ==
    ASSUME TypeOK, OrdersInv, NEW e \in MessageOutEvent, e.from = Relay,
           e.type # "DEPOSIT", MessageOut(Relay, e)
    PROVE  \A n \in failed[Relay] : n.order # e.order
<1>1. \A f \in sent : f.order # e.order  BY RelayIsChain, MessageOutInv DEF Sends
<1> QED  BY <1>1, RelayIsChain DEF OrdersInv, TracedInv, Traced, Tells

LEMMA RelaySwapOutTokenSolvent ==
    ASSUME TypeOK, FiniteInv, OrdersInv, RelaySolvent, NEW to \in Chains, NEW t \in Tokens,
           NEW a \in Amounts, NEW relay \in BOOLEAN, NEW swap \in BOOLEAN, NEW i \in Callers,
           RelaySwapOutToken(to, t, a, relay, swap, i)
    PROVE  RelaySolvent'
<1> USE TypeParts, RelayIsChain
<1> DEFINE e == [order |-> GetOrderId(Relay), type |-> "BRIDGE", from |-> Relay,
                 to |-> to, token |-> t, amount |-> a,
                 initiator |-> i, swap |-> swap, relay |-> relay]
           m == InEvent(e)
           ac == TokenTransferIn(acct[Relay], t, a)
           ck == [Books EXCEPT !.acct = ac]
<1>1. /\ MessageOut(Relay, e) /\ ChargeSource(m, relay, TRUE, ck)
      /\ a <= acct[Relay].held[t] /\ a \in Nat
  BY BridgeAssumption DEF RelaySwapOutToken, Books
<1>2. GetOrderId(Relay) \in OrderIds  BY <1>1, GetOrderIdType DEF MessageOut
<1>3. /\ e \in MessageOutEvent /\ e.from = Relay /\ e.type # "DEPOSIT" /\ e.token \in Tokens
      /\ m.token = t /\ m.amount = a /\ m.order = e.order
  BY <1>1, <1>2 DEF MessageOutEvent, MessageTypes, InEvent
<1>4. ac \in Account  BY <1>1, TransferInType DEF MoneyOK
<1>5. ASSUME NEW s \in Tokens
      PROVE  ac.fee = acct[Relay].fee /\ ac.bal[s] = acct[Relay].bal[s] + InHand(m, s)
  <2>1. acct[Relay] \in Account  BY DEF MoneyOK
  <2>2. InHand(m, s) = IF s = t THEN a ELSE 0  BY <1>3 DEF InHand
  <2> QED  BY <1>1, <2>1, <2>2, TransferInFields
<1> HIDE DEF e, ac
<1>6. ac.fee = acct[Relay].fee
  <2>1. CASE Tokens = {}  BY <2>1
  <2>2. CASE Tokens # {}  BY <1>5, <2>2
  <2> QED  BY <2>1, <2>2
<1>7. m \in TokenEvent  BY <1>3, InEventType DEF TokenEvent
<1>8. ck \in BooksType /\ ck.acct = ac /\ ck.vault = vault  BY <1>4, BooksOK DEF BooksType, Books
<1>9. \A n \in failed[Relay] : n.order # m.order  BY <1>1, <1>3, FreshOrder
<1> HIDE DEF m, ck
<1>10. \A s : Rest(m.order, s) = AmountSum(Kept(s))  BY <1>9, RestUnknown
<1>11. Backed(ck, m)  BY <1>5, <1>6, <1>7, <1>8, <1>10, StartsBacked
<1>12. New(m)  BY <1>9 DEF New
<1> QED  BY <1>1, <1>7, <1>8, <1>11, <1>12, ChargeSourceSolvent

\* An operation that touches no kept order and covers what it adds to the debts.
LEMMA CoveredSolvent ==
    ASSUME OrdersOK, MoneyOK, FiniteInv, RelaySolvent,
           orderList'[Relay] = orderList[Relay], failed'[Relay] = failed[Relay],
           NEW ck \in BooksType, acct'[Relay] = ck.acct, vault' = ck.vault,
           \A s \in Tokens :
                ck.acct.bal[s] - Owes(ck, s) >= acct[Relay].bal[s] - Owes(Books, s)
    PROVE  RelaySolvent'
<1> SUFFICES ASSUME NEW s \in Tokens, IsMintable(Relay, s)
             PROVE  ck.acct.bal[s] >= Owes(ck, s) + AmountSum(Kept(s)')
  BY EndsSolvent
<1>1. Kept(s)' = Kept(s)  BY DEF Kept, KeptAt
<1>2. acct[Relay].bal[s] >= Owes(Books, s) + AmountSum(Kept(s))
  BY OwedIs DEF RelaySolvent
<1>3. /\ AmountSum(Kept(s)) \in Nat /\ Owes(Books, s) \in Nat /\ Owes(ck, s) \in Nat
      /\ acct[Relay].bal[s] \in Nat /\ ck.acct.bal[s] \in Nat
  <2>1. AmountSum(Kept(s)) \in Nat  BY AmountSumNat, KeptFinite
  <2>2. Owes(Books, s) \in Nat /\ Owes(ck, s) \in Nat  BY BooksOK, OwesNat
  <2>3. acct[Relay].bal[s] \in Nat  BY RelayIsChain DEF MoneyOK, Account
  <2>4. ck.acct.bal[s] \in Nat  BY DEF Account, BooksType
  <2> QED  BY <2>1, <2>2, <2>3, <2>4
<1> QED  BY <1>1, <1>2, <1>3

LEMMA IdleSolvent ==
    ASSUME OrdersOK, MoneyOK, FiniteInv, RelaySolvent,
           orderList'[Relay] = orderList[Relay], failed'[Relay] = failed[Relay],
           acct'[Relay] = acct[Relay], vault' = vault
    PROVE  RelaySolvent'
<1>1. Books \in BooksType /\ Books.acct = acct[Relay] /\ Books.vault = vault
  BY BooksOK DEF Books
<1>2. \A s \in Tokens : Owes(Books, s) \in Nat /\ acct[Relay].bal[s] \in Nat
  BY <1>1, OwesNat, RelayIsChain DEF MoneyOK, Account
<1>3. \A s \in Tokens :
        Books.acct.bal[s] - Owes(Books, s) >= acct[Relay].bal[s] - Owes(Books, s)
  BY <1>1, <1>2
<1> QED  BY <1>1, <1>3, CoveredSolvent

\* The fee of a message is owed to the fee service.
LEMMA RelayTransferOutSolvent ==
    ASSUME TypeOK, FiniteInv, RelaySolvent, NEW to \in Chains, NEW t \in Tokens,
           NEW relay \in BOOLEAN, NEW i \in Callers, RelayTransferOut(to, t, relay, i)
    PROVE  RelaySolvent'
<1> USE TypeParts, RelayIsChain
<1> DEFINE f == MessageFee[to]
           in == TokenTransferIn(acct[Relay], t, f)
           ac == AddFee(in, "service", t, f)
           ck == [Books EXCEPT !.acct = ac]
<1>1. /\ f <= acct[Relay].held[t] /\ f \in Nat
      /\ acct' = [acct EXCEPT ![Relay] = ac]
      /\ orderList' = orderList /\ failed' = failed /\ vault' = vault
  BY BridgeAssumption DEF RelayTransferOut, CollectMessageFee, EmitMessageRelay,
                          RecordRelayed, InEvent, MoneyOK, relayVars
<1> HIDE DEF f
<1>2. acct[Relay] \in Account /\ "service" \in FeeReceivers  BY DEF MoneyOK, FeeReceivers
<1>3. in \in Account  BY <1>1, <1>2, TransferInType
<1>4. ASSUME NEW s \in Tokens
      PROVE  /\ in.bal[s] = acct[Relay].bal[s] + (IF s = t THEN f ELSE 0)
             /\ in.fee = acct[Relay].fee
  BY <1>1, <1>2, TransferInFields
<1> HIDE DEF in
<1>5. ac \in Account  BY <1>1, <1>2, <1>3, AddFeeType
<1>6. ASSUME NEW s \in Tokens
      PROVE  /\ ac.bal = in.bal
             /\ FeeSum(ac, s) = FeeSum(in, s) + (IF s = t THEN f ELSE 0)
  BY <1>1, <1>2, <1>3, AddFeeSum
<1> HIDE DEF ac
<1>7. ck \in BooksType /\ ck.acct = ac /\ ck.vault = vault
  BY <1>5, BooksOK DEF BooksType, Books
<1> HIDE DEF ck
<1>8. ASSUME NEW s \in Tokens
      PROVE  ck.acct.bal[s] - Owes(ck, s) >= acct[Relay].bal[s] - Owes(Books, s)
  <2>1. FeeSum(in, s) = FeeSum(acct[Relay], s)  BY <1>4, SameFees
  <2>2. Owes(ck, s) = vault[s].total + FeeSum(ac, s)  BY <1>7 DEF Owes
  <2>3. Owes(Books, s) = vault[s].total + FeeSum(acct[Relay], s)  BY DEF Owes, Books
  <2>4. vault[s].total \in Nat /\ FeeSum(acct[Relay], s) \in Nat /\ acct[Relay].bal[s] \in Nat
    BY <1>2, FeeSumNat DEF MoneyOK, V!Vault, Account
  <2> QED  BY <1>1, <1>4, <1>6, <1>7, <2>1, <2>2, <2>3, <2>4
<1>9. acct'[Relay] = ck.acct /\ vault' = ck.vault  BY <1>1, <1>7 DEF MoneyOK
<1> QED  BY <1>1, <1>7, <1>8, <1>9, CoveredSolvent

LEMMA VaultOwes ==
    ASSUME MoneyOK, NEW t \in Tokens, NEW w \in V!Vault, NEW ac \in Account,
           ac.fee = acct[Relay].fee, NEW ck,
           ck = [acct |-> ac, vault |-> [vault EXCEPT ![t] = w]]
    PROVE  /\ ck \in BooksType
           /\ \A s \in Tokens : Owes(ck, s) - Owes(Books, s) =
                    IF s = t THEN w.total - vault[t].total ELSE 0
<1>1. /\ ck.acct = ac /\ ck.vault = [vault EXCEPT ![t] = w]
      /\ [vault EXCEPT ![t] = w] \in [Tokens -> V!Vault]
  BY DEF MoneyOK
<1>2. ck \in BooksType  BY <1>1 DEF BooksType
<1>3. ASSUME NEW s \in Tokens
      PROVE  Owes(ck, s) - Owes(Books, s) = IF s = t THEN w.total - vault[t].total ELSE 0
  <2>1. FeeSum(ac, s) = FeeSum(acct[Relay], s) /\ FeeSum(ac, s) \in Nat
    BY SameFees, FeeSumNat
  <2>2. Owes(ck, s) = ck.vault[s].total + FeeSum(ac, s)  BY <1>1 DEF Owes
  <2>3. Owes(Books, s) = vault[s].total + FeeSum(acct[Relay], s)  BY DEF Owes, Books
  <2>4. vault[s].total \in Nat /\ w.total \in Nat /\ vault[t].total \in Nat
    BY DEF MoneyOK, V!Vault
  <2>5. ck.vault[s] = IF s = t THEN w ELSE vault[s]  BY <1>1 DEF MoneyOK
  <2> QED  BY <2>1, <2>2, <2>3, <2>4, <2>5
<1> QED  BY <1>2, <1>3

LEMMA RelayDepositTokenSolvent ==
    ASSUME TypeOK, FiniteInv, RelaySolvent, NEW t \in Tokens, NEW a \in Amounts,
           RelayDepositToken(t, a)
    PROVE  RelaySolvent'
<1> USE TypeParts, RelayIsChain
<1> DEFINE w == V!Deposit(vault[t], Relay, a)
           ac == TokenTransferIn(acct[Relay], t, a)
           ck == [acct |-> ac, vault |-> [vault EXCEPT ![t] = w]]
<1>1. /\ a \in Nat /\ a <= acct[Relay].held[t] /\ V!CanDeposit(vault[t])
      /\ SetBooks(ck) /\ orderList' = orderList /\ failed' = failed
  BY BridgeAssumption DEF RelayDepositToken
<1>2. acct[Relay] \in Account /\ vault[t] \in V!Vault  BY DEF MoneyOK
<1>3. ac \in Account  BY <1>1, <1>2, TransferInType
<1>4. w \in V!Vault  BY <1>1, <1>2, DepositType
<1>5. w.total = vault[t].total + a  BY <1>2 DEF V!Deposit, V!Vault
<1>6. ac.fee = acct[Relay].fee
      /\ \A s \in Tokens : ac.bal[s] = acct[Relay].bal[s] + (IF s = t THEN a ELSE 0)
  BY <1>1, <1>2, TransferInFields
<1> HIDE DEF w, ac
<1>7. ck \in BooksType
      /\ \A s \in Tokens : Owes(ck, s) - Owes(Books, s) =
            IF s = t THEN w.total - vault[t].total ELSE 0
  BY <1>3, <1>4, <1>6, VaultOwes
<1>8. acct'[Relay] = ck.acct /\ vault' = ck.vault  BY <1>1 DEF SetBooks, MoneyOK
<1>9. ck.acct = ac  OBVIOUS
<1> HIDE DEF ck
<1>10. ASSUME NEW s \in Tokens
       PROVE  ck.acct.bal[s] - Owes(ck, s) >= acct[Relay].bal[s] - Owes(Books, s)
  <2>1. Owes(ck, s) \in Nat /\ Owes(Books, s) \in Nat  BY <1>7, BooksOK, OwesNat
  <2>2. vault[t].total \in Nat /\ acct[Relay].bal[s] \in Nat  BY <1>2 DEF V!Vault, Account
  <2> QED  BY <1>1, <1>5, <1>6, <1>7, <1>9, <2>1, <2>2
<1> QED  BY <1>1, <1>7, <1>8, <1>10, CoveredSolvent

LEMMA WithdrawSolvent ==
    ASSUME TypeOK, FiniteInv, RelaySolvent, NEW t \in Tokens, NEW a \in Nat, a > 0,
           Withdraw(t, a)
    PROVE  RelaySolvent'
<1> USE TypeParts, RelayIsChain
<1> DEFINE out == V!GetTokenAmount(vault[t], a)
           w == V!Withdraw(vault[t], Relay, a)
           ac == TokenTransferOut(acct[Relay], t, out)
           ck == [acct |-> ac, vault |-> [vault EXCEPT ![t] = w]]
<1>1. /\ a <= vault[t].shares /\ out <= acct[Relay].bal[t]
      /\ SetBooks(ck) /\ orderList' = orderList /\ failed' = failed
  BY DEF Withdraw
<1>2. acct[Relay] \in Account /\ vault[t] \in V!Vault  BY DEF MoneyOK
<1>3. out \in Nat /\ w \in V!Vault  BY <1>1, <1>2, TokenAmountWithin, WithdrawType
<1>4. w.total = vault[t].total - out  BY <1>2 DEF V!Withdraw, V!Vault
<1> HIDE DEF out, w
<1>5. ac \in Account  BY <1>1, <1>2, <1>3, TransferOutType
<1>6. ac.fee = acct[Relay].fee
      /\ \A s \in Tokens : ac.bal[s] = acct[Relay].bal[s] - (IF s = t THEN out ELSE 0)
  BY <1>2, <1>3, TransferOutFields
<1> HIDE DEF ac
<1>7. ck \in BooksType
      /\ \A s \in Tokens : Owes(ck, s) - Owes(Books, s) =
            IF s = t THEN w.total - vault[t].total ELSE 0
  BY <1>3, <1>5, <1>6, VaultOwes
<1>8. acct'[Relay] = ck.acct /\ vault' = ck.vault  BY <1>1 DEF SetBooks, MoneyOK
<1>9. ck.acct = ac  OBVIOUS
<1> HIDE DEF ck
<1>10. ASSUME NEW s \in Tokens
       PROVE  ck.acct.bal[s] - Owes(ck, s) >= acct[Relay].bal[s] - Owes(Books, s)
  <2>1. Owes(ck, s) \in Nat /\ Owes(Books, s) \in Nat  BY <1>7, BooksOK, OwesNat
  <2>2. vault[t].total \in Nat /\ acct[Relay].bal[s] \in Nat  BY <1>2 DEF V!Vault, Account
  <2> QED  BY <1>3, <1>4, <1>6, <1>7, <1>9, <2>1, <2>2
<1> QED  BY <1>1, <1>7, <1>8, <1>10, CoveredSolvent

\* A fee that is withdrawn was owed.
LEMMA WithdrawFeeSolvent ==
    ASSUME TypeOK, MoneyOK', FiniteInv, RelaySolvent, NEW r \in FeeReceivers,
           NEW t \in Tokens, WithdrawFee(Relay, r, t), vault' = vault
    PROVE  RelaySolvent'
<1> USE TypeParts, RelayIsChain
<1> DEFINE a == acct[Relay].fee[r][t]
           out == TokenTransferOut(acct[Relay], t, a)
           ac == acct'[Relay]
           ck == [acct |-> ac, vault |-> vault]
<1>1. acct[Relay] \in Account /\ a <= acct[Relay].bal[t]  BY DEF WithdrawFee, MoneyOK
<1>2. a \in Nat  BY SMTT(30), <1>1 DEF Account
<1>3. /\ acct' = [acct EXCEPT ![Relay] = [out EXCEPT !.fee[r][t] = 0]]
      /\ orderList' = orderList /\ failed' = failed
  BY ZenonT(60) DEF WithdrawFee, MoneyOK
<1>4. ac = [out EXCEPT !.fee[r][t] = 0]  BY <1>3 DEF MoneyOK
<1>5. ac \in Account  BY DEF MoneyOK
<1>6. out \in Account  BY <1>1, <1>2, TransferOutType
<1>7. ASSUME NEW s \in Tokens
      PROVE  /\ out.fee = acct[Relay].fee
             /\ out.bal[s] = acct[Relay].bal[s] - (IF s = t THEN a ELSE 0)
  BY <1>1, <1>2, TransferOutFields
<1> HIDE DEF out
<1>8. /\ ac.bal = out.bal
      /\ \A q \in FeeReceivers, s \in Tokens :
            ac.fee[q][s] = IF q = r /\ s = t THEN 0 ELSE out.fee[q][s]
  BY <1>4, <1>6 DEF Account
<1> HIDE DEF ac
<1>9. ASSUME NEW s \in Tokens
      PROVE  FeeSum(ac, s) = FeeSum(acct[Relay], s) - (IF s = t THEN a ELSE 0)
  <2> DEFINE f == [q \in FeeReceivers |-> acct[Relay].fee[q][s]]
             g == [q \in FeeReceivers |-> ac.fee[q][s]]
  <2>1. \A q \in FeeReceivers : f[q] \in Nat /\ g[q] \in Nat  BY <1>1, <1>5 DEF Account
  <2>2. \A q \in FeeReceivers \ {r} : f[q] = g[q]  BY <1>7, <1>8
  <2>3. g[r] = IF s = t THEN 0 ELSE f[r]  BY <1>7, <1>8
  <2>4. s = t => f[r] = a  OBVIOUS
  <2>5. FeeSum(ac, s) = SumFunctionOnSet(g, FeeReceivers)
        /\ FeeSum(acct[Relay], s) = SumFunctionOnSet(f, FeeReceivers)
    BY DEF FeeSum
  <2> HIDE DEF f, g, a
  <2>6. SumFunctionOnSet(g, FeeReceivers) = SumFunctionOnSet(f, FeeReceivers) + g[r] - f[r]
    BY <2>1, <2>2, ReceiversFinite, SumChange
  <2>7. SumFunctionOnSet(f, FeeReceivers) \in Int  BY <2>1, ReceiversFinite, SumInt
  <2> QED  BY <1>2, <2>1, <2>3, <2>4, <2>5, <2>6, <2>7
<1> HIDE DEF a
<1>10. ck \in BooksType /\ ck.acct = ac /\ ck.vault = vault
  BY <1>5 DEF BooksType, MoneyOK
<1>11. acct'[Relay] = ck.acct /\ vault' = ck.vault  BY <1>10 DEF ac
<1> HIDE DEF ck
<1>12. ASSUME NEW s \in Tokens
       PROVE  ck.acct.bal[s] - Owes(ck, s) >= acct[Relay].bal[s] - Owes(Books, s)
  <2>1. Owes(ck, s) = vault[s].total + FeeSum(ac, s)  BY <1>10 DEF Owes
  <2>2. Owes(Books, s) = vault[s].total + FeeSum(acct[Relay], s)  BY DEF Owes, Books
  <2>3. vault[s].total \in Nat /\ FeeSum(acct[Relay], s) \in Nat /\ acct[Relay].bal[s] \in Nat
    BY <1>1, FeeSumNat DEF MoneyOK, V!Vault, Account
  <2>4. ck.acct.bal[s] = acct[Relay].bal[s] - (IF s = t THEN a ELSE 0)  BY <1>7, <1>8, <1>10
  <2> QED  BY <1>2, <1>9, <2>1, <2>2, <2>3, <2>4
<1> QED  BY SMTT(30), <1>3, <1>10, <1>11, <1>12, CoveredSolvent

-----------------------------------------------------------------------------
(* The theorem.                                                            *)

FundsInv == FiniteInv /\ PlainInv /\ RelaySolvent

\* Another chain's operation moves nothing of the relay chain.
LEMMA LeafKeeps ==
    ASSUME TypeOK, NEW c \in LeafChains, LeafNext(c)
    PROVE  /\ acct'[Relay] = acct[Relay]
           /\ orderList'[Relay] = orderList[Relay]
           /\ failed'[Relay] = failed[Relay]
<1> USE TypeParts, RelayIsChain
<1>1. c # Relay  BY DEF LeafChains
<1>2. ASSUME NEW m, EmitMessageIn(c, m)
      PROVE  orderList'[Relay] = orderList[Relay] /\ failed'[Relay] = failed[Relay]
  BY <1>1, <1>2 DEF EmitMessageIn, MarkProcessed, OrdersOK
<1>3. ASSUME NEW m, StoreMessageData(c, m)
      PROVE  orderList'[Relay] = orderList[Relay] /\ failed'[Relay] = failed[Relay]
  BY <1>1, <1>3 DEF StoreMessageData, OrdersOK
<1>4. ASSUME NEW m, NEW ac, SwapIn(c, m, ac)
      PROVE  /\ acct'[Relay] = acct[Relay] /\ orderList'[Relay] = orderList[Relay]
             /\ failed'[Relay] = failed[Relay]
  BY <1>1, <1>2, <1>4 DEF SwapIn, MoneyOK
<1>5. ASSUME NEW m, MessageIn(c, m)
      PROVE  /\ acct'[Relay] = acct[Relay] /\ orderList'[Relay] = orderList[Relay]
             /\ failed'[Relay] = failed[Relay]
  BY <1>2, <1>3, <1>4, <1>5 DEF MessageIn, TransferIn
<1>6. ASSUME NEW m, RetryMessageIn(c, m)
      PROVE  /\ acct'[Relay] = acct[Relay] /\ orderList'[Relay] = orderList[Relay]
             /\ failed'[Relay] = failed[Relay]
  BY SMTT(30), <1>2, <1>6 DEF RetryMessageIn
<1>7. ASSUME CommonNext(c)
      PROVE  /\ acct'[Relay] = acct[Relay] /\ orderList' = orderList /\ failed' = failed
  BY <1>1, <1>7 DEF CommonNext, Trigger, RegisterTokenChains, SetFailedReceiver, WithdrawFee,
                    MoneyOK
<1>8. ASSUME NEW to, NEW t, NEW relay, NEW i, TransferOut(c, to, t, relay, i)
      PROVE  /\ acct'[Relay] = acct[Relay] /\ orderList' = orderList /\ failed' = failed
  BY <1>1, <1>8 DEF TransferOut, CollectMessageFee, MoneyOK
<1>9. ASSUME NEW to, NEW t, NEW a, NEW relay, NEW swap, NEW i,
             SwapOutToken(c, to, t, a, relay, swap, i)
      PROVE  /\ acct'[Relay] = acct[Relay] /\ orderList' = orderList /\ failed' = failed
  BY <1>1, <1>9 DEF SwapOutToken, TakeTokens, MoneyOK
<1>10. ASSUME NEW t, NEW a, NEW i, DepositToken(c, t, a, i)
       PROVE  /\ acct'[Relay] = acct[Relay] /\ orderList' = orderList /\ failed' = failed
  BY <1>1, <1>10 DEF DepositToken, TakeTokens, MoneyOK
<1> QED  BY <1>5, <1>6, <1>7, <1>8, <1>9, <1>10 DEF LeafNext

\* The kept orders stay finite: a step keeps one more at most.
LEMMA FiniteStep ==
    ASSUME OrdersOK, FiniteInv, OrderMoves
    PROVE  FiniteInv'
<1>1. \/ failed' = failed
      \/ \E c \in Chains : \E m : StoreMessageData(c, m)
  BY DEF OrderMoves, Relays, EmitMessageRelay, Delivers, EmitMessageIn, Keeps
<1>2. CASE failed' = failed  BY <1>2 DEF FiniteInv
<1>3. ASSUME NEW c \in Chains, NEW m, StoreMessageData(c, m) PROVE FiniteInv'
  <2>1. failed'[Relay] \in {failed[Relay], failed[Relay] \cup {m}}
    BY <1>3, RelayIsChain DEF StoreMessageData, OrdersOK
  <2> QED  BY <2>1, FS_AddElement DEF FiniteInv
<1> QED  BY <1>1, <1>2, <1>3

LEMMA PlainStep ==
    ASSUME TypeOK, PlainInv, [Next]_vars
    PROVE  PlainInv'
<1> SUFFICES ASSUME NEW e \in sent', e \notin sent, e.type = "MESSAGE"
             PROVE  e.token = NoToken
  BY DEF PlainInv
<1>1. ASSUME NEW c \in LeafChains, LeafNext(c) PROVE e.token = NoToken
  <2>1. ASSUME NEW to, NEW t, NEW relay, NEW i, TransferOut(c, to, t, relay, i)
        PROVE  e.token = NoToken
    BY <2>1 DEF TransferOut, MessageOut
  <2>2. ASSUME NEW to, NEW t, NEW a, NEW relay, NEW swap, NEW i,
               SwapOutToken(c, to, t, a, relay, swap, i)
        PROVE  FALSE
    BY <2>2 DEF SwapOutToken, MessageOut
  <2>3. ASSUME NEW t, NEW a, NEW i, DepositToken(c, t, a, i) PROVE FALSE
    BY <2>3 DEF DepositToken, MessageOut
  <2>4. ASSUME NEW m, MessageIn(c, m) \/ RetryMessageIn(c, m) PROVE FALSE
    BY SMTT(30), <2>4 DEF MessageIn, RetryMessageIn
  <2>5. ASSUME CommonNext(c) PROVE FALSE
    BY <2>5 DEF CommonNext, Trigger, RegisterTokenChains, SetFailedReceiver, WithdrawFee
  <2> QED  BY <1>1, <2>1, <2>2, <2>3, <2>4, <2>5 DEF LeafNext
<1>2. CASE RelayNext
  <2>1. ASSUME NEW to, NEW t, NEW relay, NEW i, RelayTransferOut(to, t, relay, i)
        PROVE  e.token = NoToken
    BY <2>1 DEF RelayTransferOut, MessageOut
  <2>2. ASSUME NEW to, NEW t, NEW a, NEW relay, NEW swap, NEW i,
               RelaySwapOutToken(to, t, a, relay, swap, i)
        PROVE  FALSE
    BY <2>2 DEF RelaySwapOutToken, MessageOut
  <2>3. ASSUME NEW t, NEW a, RelayDepositToken(t, a) \/ Withdraw(t, a) PROVE FALSE
    BY <2>3 DEF RelayDepositToken, Withdraw
  <2>4. ASSUME NEW m, RelayMessageIn(m) \/ RelayRetryMessageIn(m) PROVE FALSE
    BY <2>4 DEF RelayMessageIn, RelayRetryMessageIn
  <2>5. ASSUME NEW c, NEW enable, RegisterChain(c, enable) PROVE FALSE
    BY <2>5 DEF RegisterChain
  <2>6. ASSUME CommonNext(Relay) PROVE FALSE
    BY <2>6 DEF CommonNext, Trigger, RegisterTokenChains, SetFailedReceiver, WithdrawFee
  <2> QED  BY <1>2, <2>1, <2>2, <2>3, <2>4, <2>5, <2>6 DEF RelayNext
<1>3. CASE UNCHANGED vars  BY <1>3 DEF vars, baseVars
<1> QED  BY <1>1, <1>2, <1>3 DEF Next

LEMMA InitFunds == Init => FundsInv
<1> SUFFICES ASSUME Init PROVE FundsInv  OBVIOUS
<1> USE RelayIsChain
<1>1. failed[Relay] = {} /\ sent = {}  BY DEF Init
<1>2. FiniteInv /\ PlainInv  BY <1>1, FS_EmptySet DEF FiniteInv, PlainInv
<1>3. ASSUME NEW t \in Tokens, IsMintable(Relay, t)
      PROVE  acct[Relay].bal[t] >= OwedByRelay(t)
  <2>1. acct[Relay].bal[t] = InitTotal(t)  BY <1>3 DEF Init, InitBal
  <2>2. vault[t].total = InitTotal(t)  BY DEF Init, InitVault
  <2>3. \A r \in FeeReceivers : acct[Relay].fee[r][t] = 0  BY DEF Init
  <2>4. FeeSum(acct[Relay], t) = 0
    <3> DEFINE f == [r \in FeeReceivers |-> acct[Relay].fee[r][t]]
    <3>1. \A r \in FeeReceivers : f[r] = 0  BY <2>3
    <3> HIDE DEF f
    <3>2. SumFunctionOnSet(f, FeeReceivers) = 0  BY <3>1, ReceiversFinite, SumZero
    <3> QED  BY <3>2 DEF FeeSum, f
  <2>5. Kept(t) = {}  BY <1>1 DEF Kept, KeptAt
  <2>6. AmountSum(Kept(t)) = 0  BY <2>5, SumEmpty DEF AmountSum
  <2>7. Owes(Books, t) = InitTotal(t) + 0  BY <2>2, <2>4 DEF Owes, Books
  <2>8. vault[t].total \in Nat  BY InitType DEF TypeOK, V!Vault
  <2> QED  BY <2>1, <2>2, <2>6, <2>7, <2>8, OwedIs
<1> QED  BY <1>2, <1>3 DEF FundsInv, RelaySolvent

LEMMA NextFunds ==
    ASSUME TypeOK, TypeOK', OrdersInv, OrderStep, FundsInv, [Next]_vars
    PROVE  FundsInv'
<1> USE TypeParts, RelayIsChain DEF FundsInv
<1>1. FiniteInv'  BY FiniteStep DEF OrderStep
<1>2. PlainInv'  BY PlainStep
<1>3. RelaySolvent'
  <2>1. ASSUME NEW c \in LeafChains, LeafNext(c), UNCHANGED relayVars PROVE RelaySolvent'
    BY <2>1, LeafKeeps, IdleSolvent DEF relayVars
  <2>2. ASSUME CommonNext(Relay), UNCHANGED relayVars PROVE RelaySolvent'
    <3>1. vault' = vault  BY <2>2 DEF relayVars
    <3>2. ASSUME NEW r \in FeeReceivers, NEW t \in Tokens, WithdrawFee(Relay, r, t)
          PROVE  RelaySolvent'
      BY <3>1, <3>2, WithdrawFeeSolvent
    <3>3. ASSUME Trigger(Relay) PROVE RelaySolvent'
      BY <3>1, <3>3, IdleSolvent DEF Trigger
    <3>4. ASSUME NEW t, NEW to, NEW enable, RegisterTokenChains(Relay, t, to, enable)
          PROVE  RelaySolvent'
      BY <3>1, <3>4, IdleSolvent DEF RegisterTokenChains
    <3>5. ASSUME SetFailedReceiver(Relay) PROVE RelaySolvent'
      BY <3>1, <3>5, IdleSolvent DEF SetFailedReceiver
    <3> QED  BY <2>2, <3>2, <3>3, <3>4, <3>5 DEF CommonNext
  <2>3. ASSUME NEW c, NEW enable, RegisterChain(c, enable) PROVE RelaySolvent'
    BY <2>3, IdleSolvent DEF RegisterChain
  <2>4. ASSUME NEW t \in Tokens, NEW a \in Amounts \cup {vault[t].shares}, a > 0, Withdraw(t, a)
        PROVE  RelaySolvent'
    <3>1. vault[t].shares \in Nat  BY DEF MoneyOK, V!Vault
    <3>2. a \in Nat  BY <3>1, BridgeAssumption
    <3> QED  BY <2>4, <3>2, WithdrawSolvent
  <2>5. CASE RelayNext
    BY <2>2, <2>3, <2>4, <2>5, RelayTransferOutSolvent, RelaySwapOutTokenSolvent,
       RelayDepositTokenSolvent, RelayMessageInSolvent, RelayRetryMessageInSolvent
    DEF RelayNext
  <2>6. CASE UNCHANGED vars  BY <2>6, IdleSolvent DEF vars, baseVars, relayVars
  <2> QED  BY <2>1, <2>5, <2>6 DEF Next
<1> QED  BY <1>1, <1>2, <1>3

\* Where the relay chain mints the token, it holds at every moment what it owes
\* to the vault's depositors, to the receivers of fees and to the orders it keeps
\* for a retry, whatever the fees, the executors and the order of events: no
\* withdrawal and no retry waits for liquidity.
THEOREM RelayCanPay == Spec => []RelaySolvent
<1>1. Init => TypeOK /\ OrdersInv /\ FundsInv  BY InitType, InitOrders, InitFunds
<1>2. TypeOK /\ OrdersInv /\ FundsInv /\ [Next]_vars => (TypeOK /\ OrdersInv /\ FundsInv)'
  <2> SUFFICES ASSUME TypeOK, OrdersInv, FundsInv, [Next]_vars
               PROVE  TypeOK' /\ OrdersInv' /\ FundsInv'
    OBVIOUS
  <2>1. TypeOK'  BY NextType
  <2>2. OrdersInv' /\ OrderStep  BY NextOrders
  <2> QED  BY <2>1, <2>2, NextFunds
<1>3. FundsInv => RelaySolvent  BY DEF FundsInv
<1> QED  BY <1>1, <1>2, <1>3, PTL DEF Spec

-----------------------------------------------------------------------------
(* What the fees of an order add up to.                                    *)

\* The quotient is the largest factor.
LEMMA LeDiv ==
    ASSUME NEW q \in Nat, NEW b \in Nat, NEW d \in Nat \ {0}, q * d <= b
    PROVE  q <= b \div d
BY SMT

LEMMA DivBelow ==
    ASSUME NEW a \in Nat, NEW n \in Nat, NEW d \in Nat \ {0}, n >= a \div d
    PROVE  a <= (n + 1) * d
<1>1. a <= (a \div d + 1) * d /\ a \div d \in Nat  BY SMT
<1>2. d * (a \div d + 1) <= d * (n + 1)  BY <1>1, MulMono
<1> QED  BY <1>1, <1>2

LEMMA DivMono ==
    ASSUME NEW a \in Nat, NEW b \in Nat, NEW d \in Nat \ {0}, a <= b
    PROVE  a \div d \in Nat /\ a \div d <= b \div d
<1>1. a \div d \in Nat /\ (a \div d) * d <= a  BY DivNat
<1> QED  BY <1>1, LeDiv

\* A part of an amount: never more of a smaller one.
Part(a, r) == (a * r) \div MAX_RATE_UNI

LEMMA PartIs ==
    ASSUME NEW a \in Nat, NEW r \in Nat
    PROVE  /\ Part(a, r) \in Nat /\ Part(a, r) * MAX_RATE_UNI <= a * r
           /\ \A b \in Nat : b <= a => Part(b, r) <= Part(a, r)
           /\ r <= MAX_RATE_UNI => Part(a, r) <= a
<1>1. MAX_RATE_UNI \in Nat \ {0}  BY RegisterAssumption
<1>2. a * r \in Nat  BY MulNat
<1>3. Part(a, r) \in Nat /\ Part(a, r) * MAX_RATE_UNI <= a * r
  BY <1>1, <1>2, DivNat DEF Part
<1>4. ASSUME NEW b \in Nat, b <= a PROVE Part(b, r) <= Part(a, r)
  <2>1. r * b <= r * a  BY <1>4, MulMono
  <2>2. b * r = r * b /\ a * r = r * a  BY SMT
  <2>3. b * r \in Nat  BY MulNat
  <2> QED  BY <1>1, <1>2, <2>1, <2>2, <2>3, DivMono DEF Part
<1>5. ASSUME r <= MAX_RATE_UNI PROVE Part(a, r) <= a
  <2>1. a * r <= a * MAX_RATE_UNI  BY <1>1, <1>5, MulMono
  <2> QED  BY <1>1, <1>2, <2>1, DivLe DEF Part
<1> QED  BY <1>3, <1>4, <1>5

\* Two parts taken one after the other are no more than both taken at once.
LEMMA PartsTogether ==
    ASSUME NEW a \in Nat, NEW b \in Nat, b <= a, NEW r \in Nat, NEW s \in Nat
    PROVE  Part(a, r) + Part(b, s) <= Part(a, r + s)
<1> DEFINE p == Part(a, r)
           q == Part(a, s)
           k == MAX_RATE_UNI
<1>1. k \in Nat \ {0}  BY RegisterAssumption
<1>2. /\ p \in Nat /\ q \in Nat /\ p * k <= a * r /\ q * k <= a * s
      /\ Part(b, s) \in Nat /\ Part(b, s) <= q
  BY PartIs
<1>3. a * (r + s) \in Nat /\ a * r \in Nat /\ a * s \in Nat  BY MulNat
<1>4. Part(a, r + s) = (a * (r + s)) \div k  BY DEF Part
<1> HIDE DEF p, q, k
<1>5. p * k \in Nat /\ q * k \in Nat  BY <1>1, <1>2, MulNat
<1>6. (p + q) * k = p * k + q * k  BY <1>1, <1>2
<1>7. a * (r + s) = a * r + a * s  BY SMT
<1>8. (p + q) * k <= a * (r + s)  BY <1>2, <1>3, <1>5, <1>6, <1>7
<1>9. p + q \in Nat /\ p + q <= (a * (r + s)) \div k
  <2>1. p + q \in Nat  BY <1>2
  <2> QED  BY <2>1, <1>1, <1>3, <1>8, LeDiv
<1>10. Part(a, r + s) \in Nat  BY PartIs
<1> QED  BY <1>2, <1>4, <1>9, <1>10 DEF p

\* What two parts taken one after the other leave is no less than what both leave.
LEMMA LeftOver ==
    ASSUME NEW a \in Nat, NEW r \in Nat, NEW s \in Nat, r <= MAX_RATE_UNI,
           NEW rest \in Nat, rest = a - Part(a, r), NEW left \in Nat,
           left >= rest - Part(rest, s)
    PROVE  left * MAX_RATE_UNI >= a * (MAX_RATE_UNI - (r + s))
<1> DEFINE k == MAX_RATE_UNI
           p == Part(a, r)
           q == Part(rest, s)
<1>1. k \in Nat \ {0}  BY RegisterAssumption
<1>2. /\ p \in Nat /\ p * k <= a * r /\ p <= a
      /\ q \in Nat /\ q * k <= rest * s
  BY PartIs
<1> HIDE DEF p, q, k
<1>3. rest = a - p /\ left >= rest - q  BY DEF p, q
<1>4. left * k >= (rest - q) * k
  <2>1. left + q >= rest /\ left + q \in Nat  BY <1>2, <1>3
  <2>2. k * rest <= k * (left + q)  BY <1>1, <2>1, MulMono
  <2>3. k * (left + q) = left * k + q * k  BY <1>1, <1>2
  <2>4. k * rest = rest * k  BY <1>1
  <2>5. (rest - q) * k = rest * k - q * k  BY <1>1, <1>2
  <2>6. left * k \in Nat /\ q * k \in Nat /\ rest * k \in Nat  BY <1>1, <1>2, MulNat
  <2> QED  BY <2>2, <2>3, <2>4, <2>5, <2>6
<1>5. rest * s <= a * s
  <2>1. rest <= a  BY <1>2, <1>3
  <2>2. s * rest <= s * a  BY <2>1, MulMono
  <2>3. s * rest = rest * s /\ s * a = a * s  BY SMT
  <2> QED  BY <2>2, <2>3
<1>6. (rest - q) * k = a * k - p * k - q * k
  <2>1. rest - q = (a - p) - q  BY <1>2, <1>3
  <2>2. ((a - p) - q) * k = (a - p) * k - q * k  BY <1>1, <1>2
  <2>3. (a - p) * k = a * k - p * k  BY <1>1, <1>2
  <2> QED  BY <2>1, <2>2, <2>3
<1>7. a * (k - (r + s)) = a * k - (a * r + a * s)
  <2>1. a * (k - (r + s)) = a * k - a * (r + s)  BY <1>1
  <2>2. a * (r + s) = a * r + a * s  BY SMT
  <2> QED  BY <2>1, <2>2
<1>8. /\ a * k \in Nat /\ p * k \in Nat /\ q * k \in Nat /\ a * r \in Nat /\ a * s \in Nat
      /\ rest * s \in Nat /\ left * k \in Nat
  BY <1>1, <1>2, MulNat
<1>9. left * k >= a * (k - (r + s))
  BY <1>2, <1>4, <1>5, <1>6, <1>7, <1>8
<1> QED  BY <1>9 DEF k

\* A clamped fee of a smaller amount is no larger.
LEMMA FeeMono ==
    ASSUME NEW r \in FeeRate, NEW a \in Nat, NEW b \in Nat, b <= a
    PROVE  Fee(r, a) \in Nat /\ Fee(r, b) \in Nat /\ Fee(r, b) <= Fee(r, a)
<1>1. /\ r.rate \in Nat /\ r.lowest \in Nat /\ r.highest \in Nat /\ r.lowest <= r.highest
  BY RegisterAssumption DEF FeeRate
<1>2. Part(a, r.rate) \in Nat /\ Part(b, r.rate) \in Nat /\ Part(b, r.rate) <= Part(a, r.rate)
  BY <1>1, PartIs
<1>3. \A c \in Nat : Fee(r, c) = IF Part(c, r.rate) > r.highest THEN r.highest
                                  ELSE IF Part(c, r.rate) < r.lowest THEN r.lowest
                                  ELSE Part(c, r.rate)
  BY DEF Fee, Part
<1> QED  BY <1>1, <1>2, <1>3

-----------------------------------------------------------------------------
(* What an order is charged against what was quoted.                       *)

\* The amount of an event on the relay chain, and what is quoted for it.
Entered(e) == TargetAmount(e.token, e.from, Relay, e.amount)
QuotedBase(e) == ToChainBaseFee(e.token, e.to, e.swap)
QuotedRate(e) == CallerRate(e.initiator, e.token, e.from, e.to)
QuotedFee(e) == TransferFee(e.initiator, e.token, Entered(e), e.from, e.to, e.swap)

\* To leave so much of the order of e is to honour the quotes.
Honours(e, left) ==
    /\ left \in Nat
    /\ ~ListedForTargetOnly(e) => left + QuotedFee(e) >= Entered(e)
    /\ ListedForSource(e) =>
        (left + QuotedBase(e)) * MAX_RATE_UNI >= Entered(e) * (MAX_RATE_UNI - QuotedRate(e))

\* m is e on its way, with that amount.
Carries(m, e, amount) ==
    /\ m.order = e.order /\ m.from = e.from /\ m.to = e.to /\ m.token = e.token
    /\ m.initiator = e.initiator /\ m.swap = e.swap /\ m.amount = amount

SourceRate(e) == FromCaller[e.token][e.from][e.initiator] \div 2
TargetRate(e) == ToCaller[e.token][e.from][e.to][e.initiator] \div 2

LEMMA EntryRate ==
    ASSUME NEW entry \in WhitelistEntry
    PROVE  entry \div 2 \in Nat /\ entry \div 2 <= MAX_RATE_UNI
<1>1. MAX_RATE_UNI \in Nat  BY RegisterAssumption
<1>2. CASE entry = 0  BY <1>1, <1>2
<1>3. CASE entry # 0
  <2>1. PICK r \in 0..MAX_RATE_UNI : entry = 2 * r + 1  BY <1>3 DEF WhitelistEntry
  <2>2. (2 * r + 1) \div 2 = r  BY <1>1, <2>1
  <2> QED  BY <1>1, <2>1, <2>2
<1> QED  BY <1>2, <1>3

LEMMA RatesType ==
    ASSUME NEW e \in MessageOutEvent, e.token \in Tokens
    PROVE  /\ SourceRate(e) \in Nat /\ SourceRate(e) <= MAX_RATE_UNI
           /\ TargetRate(e) \in Nat /\ TargetRate(e) <= MAX_RATE_UNI
           /\ QuotedRate(e) = SourceRate(e) + TargetRate(e)
           /\ QuotedBase(e) \in Nat /\ Entered(e) \in Nat
           /\ FromFee[e.token][e.from] \in FeeRate /\ ToFee[e.token][e.to] \in FeeRate
<1>1. e.from \in Chains /\ e.to \in Chains /\ e.initiator \in Callers /\ e.amount \in Nat
  BY DEF MessageOutEvent
<1>2. /\ FromCaller[e.token][e.from][e.initiator] \in WhitelistEntry
      /\ ToCaller[e.token][e.from][e.to][e.initiator] \in WhitelistEntry
      /\ BaseFee[e.token][e.to] \in [withSwap : Nat, noSwap : Nat]
      /\ FromFee[e.token][e.from] \in FeeRate /\ ToFee[e.token][e.to] \in FeeRate
  BY <1>1, RegisterAssumption
<1>3. QuotedBase(e) \in Nat  BY <1>2 DEF QuotedBase, ToChainBaseFee
<1>4. Entered(e) \in Nat  BY <1>1, TargetAmountNat, RelayIsChain DEF Entered
<1>5. QuotedRate(e) = SourceRate(e) + TargetRate(e)
  BY DEF QuotedRate, CallerRate, SourceRate, TargetRate
<1>6. /\ SourceRate(e) \in Nat /\ SourceRate(e) <= MAX_RATE_UNI
      /\ TargetRate(e) \in Nat /\ TargetRate(e) <= MAX_RATE_UNI
  BY <1>2, EntryRate DEF SourceRate, TargetRate
<1> QED  BY <1>2, <1>3, <1>4, <1>5, <1>6

LEMMA QuotedFeeNat ==
    ASSUME NEW e \in MessageOutEvent, e.token \in Tokens
    PROVE  QuotedFee(e) \in Nat
<1> DEFINE a == Entered(e)
<1>1. /\ QuotedRate(e) \in Nat /\ QuotedBase(e) \in Nat /\ a \in Nat
      /\ FromFee[e.token][e.from] \in FeeRate /\ ToFee[e.token][e.to] \in FeeRate
  BY RatesType
<1>2. Part(a, QuotedRate(e)) \in Nat  BY <1>1, PartIs
<1> HIDE DEF a
<1>3. a <= a  BY <1>1
<1>4. Fee(FromFee[e.token][e.from], a) \in Nat  BY <1>1, <1>3, FeeMono
<1>5. Fee(ToFee[e.token][e.to], a) \in Nat  BY <1>1, <1>3, FeeMono
<1> QED  BY <1>1, <1>2, <1>4, <1>5 DEF QuotedFee, TransferFee, QuotedBase, QuotedRate, Part, a

\* However short the amount is, what the target's fees leave and the fees cover it.
LEMMA TochainLeaves ==
    ASSUME NEW m, m.amount \in Nat, NEW base, NEW prop,
           base = ToChainBaseFee(m.token, m.to, m.swap), base \in Nat,
           prop = ToChainFee(m.initiator, m.token, m.amount, m.from, m.to), prop \in Nat
    PROVE  AfterTochainFee(m) \in Nat /\ AfterTochainFee(m) + base + prop >= m.amount
<1>1. CASE m.amount > base + prop
  <2>1. TochainFeesOf(m) = [base |-> base, prop |-> prop]  BY <1>1 DEF TochainFeesOf
  <2> QED  BY <1>1, <2>1 DEF AfterTochainFee
<1>2. CASE ~(m.amount > base + prop) /\ m.amount >= base
  <2>1. TochainFeesOf(m) = [base |-> base, prop |-> m.amount - base]
    BY <1>2 DEF TochainFeesOf
  <2> QED  BY <1>2, <2>1 DEF AfterTochainFee
<1>3. CASE ~(m.amount > base + prop) /\ ~(m.amount >= base)
  <2>1. TochainFeesOf(m) = [base |-> m.amount, prop |-> 0]  BY <1>3 DEF TochainFeesOf
  <2> QED  BY <1>3, <2>1 DEF AfterTochainFee
<1> QED  BY <1>1, <1>2, <1>3

LEMMA ListedHonoured ==
    ASSUME NEW e \in MessageOutEvent, e.token \in Tokens, ListedForSource(e),
           NEW m, Carries(m, e, Entered(e)),
           NEW n, Carries(n, e, m.amount - FromFeeOf(m))
    PROVE  Honours(e, AfterTochainFee(n))
<1> DEFINE a == Entered(e)
           f == SourceRate(e)
           s == TargetRate(e)
           base == QuotedBase(e)
           left == AfterTochainFee(n)
           rest == n.amount
<1>1. /\ f \in Nat /\ f <= MAX_RATE_UNI /\ s \in Nat /\ QuotedRate(e) = f + s
      /\ base \in Nat /\ a \in Nat
  BY RatesType
<1>2. FromChainFee(m.initiator, m.token, m.amount, m.from) = Part(a, f)
  BY DEF FromChainFee, CallerFee, Part, SourceRate, ListedForSource, Carries
<1>3. Part(a, f) \in Nat /\ Part(a, f) <= a  BY <1>1, PartIs
<1>4. rest = a - Part(a, f) /\ rest \in Nat /\ rest <= a
  <2>1. FromFeeOf(m) = IF a > Part(a, f) THEN Part(a, f) ELSE a
    BY <1>2 DEF FromFeeOf, Carries
  <2>2. rest = a - FromFeeOf(m)  BY DEF Carries
  <2> QED  BY <1>1, <1>3, <2>1, <2>2
<1>5. ToChainFee(n.initiator, n.token, n.amount, n.from, n.to) = Part(rest, s)
  BY DEF ToChainFee, CallerFee, Part, TargetRate, ListedForSource, Carries
<1>6. ToChainBaseFee(n.token, n.to, n.swap) = base  BY DEF QuotedBase, Carries
<1>7. Part(rest, s) \in Nat  BY <1>1, <1>4, PartIs
<1>8. left \in Nat /\ left + base + Part(rest, s) >= rest
  BY <1>1, <1>4, <1>5, <1>6, <1>7, TochainLeaves
<1>9. QuotedFee(e) = base + Part(a, f + s)
  <2>1. Listed(e.initiator, e.token, e.from, e.to)  BY DEF Listed, ListedForSource
  <2>2. CallerRate(e.initiator, e.token, e.from, e.to) = f + s
    BY DEF CallerRate, SourceRate, TargetRate
  <2> QED  BY <2>1, <2>2 DEF QuotedFee, TransferFee, Part, QuotedBase
<1> HIDE DEF a, f, s, base, left, rest
<1>10. Part(a, f) + Part(rest, s) <= Part(a, f + s) /\ Part(a, f + s) \in Nat
  <2>1. f + s \in Nat  BY <1>1
  <2> QED  BY <1>1, <1>4, <2>1, PartsTogether, PartIs
<1>11. left + QuotedFee(e) >= a
  BY <1>1, <1>3, <1>4, <1>7, <1>8, <1>9, <1>10
<1>12. (left + base) * MAX_RATE_UNI >= a * (MAX_RATE_UNI - (f + s))
  <2>1. left + base \in Nat /\ left + base >= rest - Part(rest, s)  BY <1>1, <1>4, <1>7, <1>8
  <2> HIDE DEF Part
  <2> QED  BY <1>1, <1>4, <2>1, LeftOver
<1> QED  BY <1>1, <1>8, <1>11, <1>12 DEF Honours, a, base, left

LEMMA UnlistedHonoured ==
    ASSUME NEW e \in MessageOutEvent, e.token \in Tokens, ~ListedForSource(e),
           NEW m, Carries(m, e, Entered(e)),
           NEW n, Carries(n, e, m.amount - FromFeeOf(m))
    PROVE  Honours(e, AfterTochainFee(n))
<1> DEFINE a == Entered(e)
           in == FromFee[e.token][e.from]
           out == ToFee[e.token][e.to]
           base == QuotedBase(e)
           left == AfterTochainFee(n)
           rest == n.amount
           prop == ToChainFee(n.initiator, n.token, n.amount, n.from, n.to)
<1>1. base \in Nat /\ a \in Nat /\ in \in FeeRate /\ out \in FeeRate  BY RatesType
<1>2. FromChainFee(m.initiator, m.token, m.amount, m.from) = Fee(in, a)
  BY DEF FromChainFee, ListedForSource, Carries
<1>3. Fee(in, a) \in Nat  BY <1>1, FeeMono
<1>4. rest \in Nat /\ rest <= a /\ rest + Fee(in, a) >= a
  <2>1. FromFeeOf(m) = IF a > Fee(in, a) THEN Fee(in, a) ELSE a
    BY <1>2 DEF FromFeeOf, Carries
  <2>2. rest = a - FromFeeOf(m)  BY DEF Carries
  <2> QED  BY <1>1, <1>3, <2>1, <2>2
<1>5. /\ ~ListedForTargetOnly(e) => prop = Fee(out, rest)
      /\ ListedForTargetOnly(e) => prop = Part(rest, TargetRate(e))
  BY DEF ToChainFee, CallerFee, Part, TargetRate, ListedForSource, ListedForTargetOnly, Carries
<1>6. Fee(out, rest) \in Nat /\ Fee(out, a) \in Nat /\ Fee(out, rest) <= Fee(out, a)
  BY <1>1, <1>4, FeeMono
<1>7. prop \in Nat
  <2>1. Part(rest, TargetRate(e)) \in Nat  BY <1>4, RatesType, PartIs
  <2> QED  BY <1>5, <1>6, <2>1
<1>8. left \in Nat /\ left + base + prop >= rest
  <2>1. ToChainBaseFee(n.token, n.to, n.swap) = base  BY DEF QuotedBase, Carries
  <2> QED  BY <1>1, <1>4, <1>7, <2>1, TochainLeaves
<1>9. ~ListedForTargetOnly(e) => QuotedFee(e) = base + (Fee(out, a) + Fee(in, a))
  BY DEF ListedForTargetOnly, ListedForSource, Listed, QuotedFee, TransferFee, QuotedBase
<1> HIDE DEF a, in, out, base, left, rest, prop
<1>10. ~ListedForTargetOnly(e) => left + QuotedFee(e) >= a
  BY <1>1, <1>3, <1>4, <1>5, <1>6, <1>7, <1>8, <1>9
<1> QED  BY <1>8, <1>10 DEF Honours, a, left

LEMMA ChargedHonours ==
    ASSUME NEW e \in MessageOutEvent, e.token \in Tokens,
           NEW m, Carries(m, e, Entered(e)),
           NEW n, Carries(n, e, m.amount - FromFeeOf(m))
    PROVE  Honours(e, AfterTochainFee(n))
BY ListedHonoured, UnlistedHonoured

-----------------------------------------------------------------------------
(* From what is left on the relay chain to what the quotes say.            *)

LEMMA ScaleType ==
    ASSUME NEW t \in Tokens, NEW c \in Chains
    PROVE  Scale[t][c] \in Nat \ {0}
BY RegisterAssumption

LEMMA ConvertMono ==
    ASSUME NEW t \in Tokens, NEW c \in Chains, NEW d \in Chains,
           NEW a \in Nat, NEW b \in Nat, a <= b
    PROVE  TargetAmount(t, c, d, a) <= TargetAmount(t, c, d, b)
<1> DEFINE p == Scale[t][c]
           q == Scale[t][d]
<1>1. p \in Nat \ {0} /\ q \in Nat \ {0}  BY ScaleType
<1>2. CASE p = q  BY <1>2 DEF TargetAmount
<1>3. CASE p # q
  <2>1. TargetAmount(t, c, d, a) = (a * q) \div p /\ TargetAmount(t, c, d, b) = (b * q) \div p
    BY <1>3 DEF TargetAmount
  <2> HIDE DEF p, q
  <2>2. q * a <= q * b  BY <1>1, MulMono
  <2>3. q * a = a * q /\ q * b = b * q  BY <1>1
  <2>4. a * q \in Nat /\ b * q \in Nat  BY <1>1, MulNat
  <2>5. (a * q) \div p <= (b * q) \div p  BY <1>1, <2>2, <2>3, <2>4, DivMono
  <2> QED  BY <2>1, <2>5
<1> QED  BY <1>2, <1>3

\* One unit more than an amount converts to, converted back, is no less than it.
LEMMA ConvertBack ==
    ASSUME NEW t \in Tokens, NEW c \in Chains, NEW d \in Chains, NEW a \in Nat, NEW n \in Nat,
           n >= TargetAmount(t, c, d, a)
    PROVE  TargetAmount(t, d, c, n + 1) >= a
<1> DEFINE p == Scale[t][c]
           q == Scale[t][d]
<1>1. p \in Nat \ {0} /\ q \in Nat \ {0}  BY ScaleType
<1>2. CASE p = q  BY <1>2 DEF TargetAmount
<1>3. CASE p # q
  <2>1. TargetAmount(t, c, d, a) = (a * q) \div p
        /\ TargetAmount(t, d, c, n + 1) = ((n + 1) * p) \div q
    BY <1>3 DEF TargetAmount
  <2> HIDE DEF p, q
  <2>2. a * q \in Nat /\ (n + 1) * p \in Nat  BY <1>1, MulNat
  <2>3. a * q <= (n + 1) * p  BY <1>1, <2>1, <2>2, DivBelow
  <2>4. a <= ((n + 1) * p) \div q  BY <1>1, <2>2, <2>3, LeDiv
  <2> QED  BY <2>1, <2>4
<1> QED  BY <1>2, <1>3

LEMMA TimesMono ==
    ASSUME NEW a \in Nat, NEW b \in Nat, a <= b, NEW k \in Nat
    PROVE  a * k <= b * k
<1>1. k * a <= k * b  BY MulMono
<1> QED  BY <1>1

LEMMA QuoteHolds ==
    ASSUME NEW e \in MessageOutEvent, e.token \in Tokens, NEW left, Honours(e, left),
           NEW n \in Nat, n >= TargetAmount(e.token, Relay, e.to, left),
           ~ListedForTargetOnly(e)
    PROVE  /\ QuotedFee(e) < Entered(e) =>
                n >= TargetAmount(e.token, Relay, e.to, Entered(e) - QuotedFee(e))
           /\ ListedForSource(e) /\ QuotedRate(e) < MAX_RATE_UNI =>
                e.amount <= SourceAmount(e.initiator, e.token, n + 1, e.to, e.from, e.swap, Relay)
<1> USE RelayIsChain
<1>1. /\ e.from \in Chains /\ e.to \in Chains /\ e.amount \in Nat /\ left \in Nat
  BY DEF MessageOutEvent, Honours
<1>2. /\ QuotedBase(e) \in Nat /\ QuotedRate(e) \in Nat /\ Entered(e) \in Nat
  BY RatesType
<1>3. MAX_RATE_UNI \in Nat  BY RegisterAssumption
<1>4. QuotedFee(e) \in Nat  BY QuotedFeeNat
<1>5. ASSUME QuotedFee(e) < Entered(e)
      PROVE  n >= TargetAmount(e.token, Relay, e.to, Entered(e) - QuotedFee(e))
  <2> DEFINE less == Entered(e) - QuotedFee(e)
  <2>1. less \in Nat /\ less <= left  BY <1>1, <1>2, <1>4, <1>5 DEF Honours
  <2> HIDE DEF less
  <2>2. TargetAmount(e.token, Relay, e.to, less) <= TargetAmount(e.token, Relay, e.to, left)
    BY <1>1, <2>1, ConvertMono
  <2>3. /\ TargetAmount(e.token, Relay, e.to, less) \in Nat
        /\ TargetAmount(e.token, Relay, e.to, left) \in Nat
    BY <1>1, <2>1, TargetAmountNat
  <2>4. n >= TargetAmount(e.token, Relay, e.to, less)  BY <2>2, <2>3
  <2> QED  BY <2>4 DEF less
<1>6. ASSUME ListedForSource(e), QuotedRate(e) < MAX_RATE_UNI
      PROVE  e.amount <= SourceAmount(e.initiator, e.token, n + 1, e.to, e.from, e.swap, Relay)
  <2> DEFINE x == TargetAmount(e.token, e.to, Relay, n + 1)
             d == MAX_RATE_UNI - QuotedRate(e)
             all == (x + QuotedBase(e)) * MAX_RATE_UNI
             before == all \div d + 1
             a == Entered(e)
  <2>1. x \in Nat /\ x >= left
    <3>1. n + 1 \in Nat  OBVIOUS
    <3>2. x \in Nat  BY <1>1, <3>1, TargetAmountNat
    <3>3. x >= left  BY <1>1, ConvertBack
    <3> QED  BY <3>2, <3>3
  <2>2. d \in Nat \ {0}  BY <1>2, <1>3, <1>6
  <2>3. AmountBeforeFee(e.initiator, e.token, x, e.to, e.from, e.swap) = before
    BY <1>6 DEF AmountBeforeFee, Listed, ListedForSource, QuotedRate, QuotedBase
  <2>4. (left + QuotedBase(e)) * MAX_RATE_UNI >= a * d  BY <1>6 DEF Honours
  <2>5. SourceAmount(e.initiator, e.token, n + 1, e.to, e.from, e.swap, Relay)
          = TargetAmount(e.token, Relay, e.from, before)
    BY <2>3 DEF SourceAmount
  <2>6. a = TargetAmount(e.token, e.from, Relay, e.amount) /\ a \in Nat
    BY <1>2 DEF Entered
  <2>7. all \in Nat
    <3>1. x + QuotedBase(e) \in Nat  BY <1>2, <2>1
    <3> HIDE DEF x
    <3> QED  BY <1>3, <3>1, MulNat
  <2> HIDE DEF x, d, a
  <2>8. a * d <= all
    <3>1. (left + QuotedBase(e)) * MAX_RATE_UNI <= (x + QuotedBase(e)) * MAX_RATE_UNI
      <4>1. /\ left + QuotedBase(e) \in Nat /\ x + QuotedBase(e) \in Nat
            /\ left + QuotedBase(e) <= x + QuotedBase(e)
        BY <1>1, <1>2, <2>1
      <4> QED  BY <1>3, <4>1, TimesMono
    <3>2. (left + QuotedBase(e)) * MAX_RATE_UNI \in Nat
      <4>1. left + QuotedBase(e) \in Nat  BY <1>1, <1>2
      <4> QED  BY <1>3, <4>1, MulNat
    <3>3. a * d \in Nat  BY <2>2, <2>6, MulNat
    <3> QED  BY <2>4, <2>7, <3>1, <3>2, <3>3
  <2> HIDE DEF all
  <2>9. a <= all \div d /\ all \div d \in Nat  BY <2>2, <2>6, <2>7, <2>8, LeDiv, DivNat
  <2>10. TargetAmount(e.token, Relay, e.from, all \div d + 1) >= e.amount
    BY <1>1, <2>6, <2>9, ConvertBack
  <2> QED  BY <1>1, <2>5, <2>9, <2>10, TargetAmountNat
<1> QED  BY <1>5, <1>6

-----------------------------------------------------------------------------
(* What a step adds to the logs.                                           *)

\* Whatever the step adds is of the order o.
LogsOf(o) ==
    /\ \A n \in relayed' : n \in relayed \/ n.order = o
    /\ \A n \in failed'[Relay] : n \in failed[Relay] \/ n.order = o

\* The step relays m with what the target's fees leave of it, or keeps it when
\* they leave nothing.
PaysOut(m) ==
    /\ \A n \in relayed' : n \in relayed \/
            (n.order = m.order /\ n.amount = TargetAmount(m.token, Relay, m.to, AfterTochainFee(m)))
    /\ \A n \in failed'[Relay] : n \in failed[Relay] \/
            (n.order = m.order /\ AfterTochainFee(m) = 0)

LEMMA HandledLogs ==
    ASSUME TypeOK, NEW m, NEW relay, NEW must, Handled(m, relay, must)
    PROVE  LogsOf(m.order)
<1>1. PICK n : n.order = m.order /\ Ends(n, m.to, must)  BY DEF Handled, SameOrder
<1>2. CASE EmitMessageIn(Relay, n) /\ UNCHANGED relayed
  BY <1>2 DEF EmitMessageIn, LogsOf
<1>3. CASE StoreMessageData(Relay, n) /\ UNCHANGED relayed
  <2>1. failed'[Relay] = failed[Relay] \cup {n}
    BY <1>3, RelayIsChain DEF StoreMessageData, TypeOK
  <2> QED  BY <1>1, <1>3, <2>1 DEF LogsOf
<1>4. CASE EmitMessageRelay(n)
  <2>1. relayed' = relayed \cup {n} /\ failed' = failed  BY <1>4 DEF EmitMessageRelay
  <2> QED  BY <1>1, <2>1 DEF LogsOf
<1> QED  BY <1>1, <1>2, <1>3, <1>4 DEF Ends

LEMMA PayOrRelayPaysOut ==
    ASSUME TypeOK, NEW m \in TokenEvent, NEW must \in BOOLEAN, NEW bk, PayOrRelay(m, must, bk)
    PROVE  PaysOut(m)
<1> DEFINE left == AfterTochainFee(m)
           total == TargetAmount(m.token, Relay, m.to, left)
<1>1. m \in MessageInEvent /\ left \in Nat  BY TokenEventFields, TochainFeesNat
<1>2. PICK out \in {[m EXCEPT !.amount = left]}, ch \in {CollectTochainFee(bk, m)} :
        \/ out.amount = 0 /\ KeepForRetry(out, ch)
        \/ SwapIn(Relay, out, ch.acct) /\ UNCHANGED relayed
        \/ EmitMessageRelay([out EXCEPT !.amount = TargetAmount(m.token, Relay, m.to, @)])
  BY DEF PayOrRelay
<1>3. out.order = m.order /\ out.amount = left /\ out \in MessageInEvent
  <2> HIDE DEF left
  <2>1. out = [m EXCEPT !.amount = left]  BY <1>2
  <2> QED  BY <1>1, <2>1, AmountType DEF MessageInEvent
<1> DEFINE n == [out EXCEPT !.amount = TargetAmount(m.token, Relay, m.to, @)]
<1>4. n.order = m.order /\ n.amount = total
  BY <1>3 DEF MessageInEvent
<1> HIDE DEF n, total, left
<1>5. CASE out.amount = 0 /\ KeepForRetry(out, ch)
  <2>1. relayed' = relayed /\ failed'[Relay] = failed[Relay] \cup {out}
    BY <1>5, RelayIsChain DEF KeepForRetry, StoreMessageData, TypeOK
  <2>2. left = 0  BY <1>3, <1>5
  <2> QED  BY <1>3, <2>1, <2>2 DEF PaysOut, left
<1>6. CASE SwapIn(Relay, out, ch.acct) /\ UNCHANGED relayed
  BY <1>6 DEF SwapIn, EmitMessageIn, PaysOut
<1>7. CASE EmitMessageRelay(n)
  <2>1. relayed' = relayed \cup {n} /\ failed' = failed  BY <1>7 DEF EmitMessageRelay
  <2> QED  BY <1>4, <2>1 DEF PaysOut, total, left
<1> QED  BY <1>2, <1>5, <1>6, <1>7 DEF n

-----------------------------------------------------------------------------
(* The invariant.                                                          *)

\* The event n on the relay chain gives the order of e what the quotes promise.
Served(e, n) ==
    \E left \in Nat : Honours(e, left) /\ n.amount >= TargetAmount(e.token, Relay, e.to, left)

\* Every order relayed so far is served; of one that is kept for a retry nothing is
\* left, and its quotes promise nothing, so whatever the retry relays serves it.
QuoteInv ==
    \A e \in sent : Untouched(e) =>
        /\ \A n \in relayed : n.order = e.order => Served(e, n)
        /\ \A n \in failed[Relay] : n.order = e.order => Honours(e, 0)

\* The same for what a step adds.
QuoteStep ==
    \A e \in sent' : Untouched(e) =>
        /\ \A n \in relayed' : n.order = e.order => n \in relayed \/ Served(e, n)
        /\ \A n \in failed'[Relay] : n.order = e.order => n \in failed[Relay] \/ Honours(e, 0)

\* An event logged before a step is of an order sent before it.
LEMMA OldOrders ==
    ASSUME OrdersInv, SentOnce', sent \subseteq sent', NEW e \in sent',
           NEW n, n \in relayed \/ n \in failed[Relay], n.order = e.order
    PROVE  e \in sent
<1>1. Traced(n)  BY RelayIsChain DEF OrdersInv, TracedInv
<1>2. PICK f \in sent : f.order = n.order  BY <1>1 DEF Traced, Tells
<1> QED  BY <1>2 DEF SentOnce

LEMMA QuoteStepKeeps ==
    ASSUME OrdersInv, SentOnce', sent \subseteq sent', QuoteInv, QuoteStep
    PROVE  QuoteInv'
<1> SUFFICES ASSUME NEW e \in sent', Untouched(e)
             PROVE  /\ \A n \in relayed' : n.order = e.order => Served(e, n)
                    /\ \A n \in failed'[Relay] : n.order = e.order => Honours(e, 0)
  BY DEF QuoteInv, Served, Honours, Untouched, Entered, QuotedFee, QuotedBase, QuotedRate,
         ListedForTargetOnly, ListedForSource
<1>1. ASSUME NEW n \in relayed', n.order = e.order PROVE Served(e, n)
  <2>1. CASE n \in relayed  BY <1>1, <2>1, OldOrders DEF QuoteInv
  <2> QED  BY <1>1, <2>1 DEF QuoteStep
<1>2. ASSUME NEW n \in failed'[Relay], n.order = e.order PROVE Honours(e, 0)
  <2>1. CASE n \in failed[Relay]  BY <1>2, <2>1, OldOrders DEF QuoteInv
  <2> QED  BY <1>2, <2>1 DEF QuoteStep
<1> QED  BY <1>1, <1>2

\* A step that leaves the logs of the relay chain alone, or adds to the log of an
\* order no executor leaves untouched.
LEMMA OtherQuotes ==
    ASSUME NEW o, LogsOf(o), SentOnce', NEW f \in sent', f.order = o, ~Untouched(f)
    PROVE  QuoteStep
BY DEF LogsOf, QuoteStep, SentOnce

LEMMA IdleQuotes ==
    ASSUME relayed' = relayed, failed'[Relay] = failed[Relay]
    PROVE  QuoteStep
BY DEF QuoteStep

\* A step that pays out an order, charged for its source chain.
LEMMA PaidQuotes ==
    ASSUME NEW e \in sent', e \in MessageOutEvent, e.token \in Tokens, SentOnce', NEW m, PaysOut(m),
           m.order = e.order, m.token = e.token, m.to = e.to, Honours(e, AfterTochainFee(m))
    PROVE  QuoteStep
<1> DEFINE left == AfterTochainFee(m)
           total == TargetAmount(e.token, Relay, e.to, left)
<1>1. left \in Nat /\ total \in Nat
  BY TargetAmountNat, RelayIsChain DEF Honours, MessageOutEvent
<1>2. ASSUME NEW n \in relayed', n.order = e.order PROVE n \in relayed \/ Served(e, n)
  BY <1>1, <1>2 DEF PaysOut, Served
<1>3. ASSUME NEW n \in failed'[Relay], n.order = e.order
      PROVE  n \in failed[Relay] \/ Honours(e, 0)
  BY <1>3 DEF PaysOut
<1>4. ASSUME NEW f \in sent' PROVE f = e \/ f.order # e.order
  BY <1>4 DEF SentOnce
<1>5. /\ \A n \in relayed' : n \in relayed \/ n.order = e.order
      /\ \A n \in failed'[Relay] : n \in failed[Relay] \/ n.order = e.order
  BY DEF PaysOut
<1> QED  BY <1>2, <1>3, <1>4, <1>5 DEF QuoteStep

-----------------------------------------------------------------------------
(* The operations.                                                         *)

\* What the source chain's fee leaves of an order goes on untouched.
LEMMA ChargeSourceQuotes ==
    ASSUME TypeOK, SentOnce', NEW e \in sent', e \in MessageOutEvent, Untouched(e),
           NEW m \in TokenEvent, Carries(m, e, Entered(e)),
           NEW must \in BOOLEAN, NEW bk \in BooksType, ChargeSource(m, e.relay, must, bk)
    PROVE  QuoteStep
<1> DEFINE left == m.amount - FromFeeOf(m)
<1>1. left \in Nat /\ m \in MessageInEvent /\ m.token \in Tokens
  BY FromFeeType, TokenEventFields
<1>2. PICK rest \in {[m EXCEPT !.amount = left]}, ch \in {CollectFromFee(bk, m)} :
        \/ rest.amount = 0 /\ KeepForRetry(rest, ch)
        \/ SwapRelay(rest, e.relay, must, ch)
  BY <1>1 DEF ChargeSource, MessageInEvent
<1>3. Carries(rest, e, left) /\ rest \in MessageInEvent
  <2> HIDE DEF left
  <2>1. rest = [m EXCEPT !.amount = left]  BY <1>2
  <2> QED  BY <1>1, <2>1, AmountType DEF Carries, MessageInEvent
<1>4. rest \in TokenEvent /\ e.token \in Tokens  BY <1>1, <1>3 DEF TokenEvent, Carries
<1>5. Honours(e, AfterTochainFee(rest))
  BY <1>3, <1>4, ChargedHonours
<1> HIDE DEF left
<1>6. CASE rest.amount = 0 /\ KeepForRetry(rest, ch)
  <2>1. AfterTochainFee(rest) = 0
    BY <1>4, <1>6, TochainFeesNat, TokenEventFields DEF AfterTochainFee
  <2>2. relayed' = relayed /\ failed'[Relay] = failed[Relay] \cup {rest}
    BY <1>6, RelayIsChain DEF KeepForRetry, StoreMessageData, TypeOK
  <2>3. PaysOut(rest)  BY <2>1, <2>2 DEF PaysOut
  <2> QED  BY <1>3, <1>4, <1>5, <2>3, PaidQuotes DEF Carries
<1>7. CASE SwapRelay(rest, e.relay, must, ch)
  <2>1. ~(e.relay /\ rest.swap)  BY <1>3 DEF Untouched, Carries
  <2>2. PayOrRelay(rest, must, ch)  BY <1>7, <2>1 DEF SwapRelay
  <2>3. PaysOut(rest)  BY <1>4, <2>2, PayOrRelayPaysOut
  <2> QED  BY <1>3, <1>4, <1>5, <2>3, PaidQuotes DEF Carries
<1> QED  BY <1>2, <1>6, <1>7

LEMMA RelayMessageInQuotes ==
    ASSUME TypeOK, OrdersInv, SentOnce', NEW e \in sent, RelayMessageIn(e)
    PROVE  QuoteStep
<1> DEFINE m == SwapInToken(e)
<1>1. e \in MessageOutEvent /\ e.relay \in BOOLEAN /\ e \in sent'
  BY DEF TypeOK, MessageOutEvent, RelayMessageIn
<1>2. m \in MessageInEvent /\ (e.type # "MESSAGE" => m \in TokenEvent)
  BY <1>1, SwapInTokenType
<1>3. /\ m.order = e.order /\ m.token = e.token /\ m.to = e.to
      /\ e.type # "MESSAGE" => Carries(m, e, Entered(e))
  <2>1. InEvent(e) \in MessageInEvent  BY <1>1, InEventType
  <2> QED  BY <1>1, <2>1 DEF SwapInToken, InEvent, Carries, Entered, MessageInEvent
<1>4. PICK n \in {SwapInToken(e)} :
        \/ e.type = "MESSAGE" /\ TransferRelay(n, e.relay, FALSE)
        \/ e.type = "DEPOSIT" /\ DepositIn(n, Minted(n))
        \/ e.type = "BRIDGE" /\ ChargeSource(n, e.relay, FALSE, Minted(n))
  BY Zenon DEF RelayMessageIn
<1>5. n = m  BY <1>4
<1> HIDE DEF m
<1>6. CASE e.type = "MESSAGE" /\ TransferRelay(m, e.relay, FALSE)
  <2>1. LogsOf(e.order)  BY <1>1, <1>3, <1>6, TransferRelayEnds, HandledLogs
  <2> QED  BY <1>1, <1>6, <2>1, OtherQuotes DEF Untouched
<1>7. CASE e.type = "DEPOSIT" /\ DepositIn(m, Minted(m))
  BY <1>7, IdleQuotes DEF DepositIn, EmitMessageIn
<1>8. CASE e.type = "BRIDGE" /\ ChargeSource(m, e.relay, FALSE, Minted(m))
  <2>1. m \in TokenEvent /\ Minted(m) \in BooksType
    BY <1>2, <1>8, MintedType, TypeParts
  <2>2. CASE Untouched(e)
    BY <1>1, <1>3, <1>8, <2>1, <2>2, ChargeSourceQuotes
  <2>3. CASE ~Untouched(e)
    <3>1. LogsOf(e.order)  BY <1>1, <1>3, <1>8, <2>1, ChargeSourceEnds, HandledLogs
    <3> QED  BY <1>1, <2>3, <3>1, OtherQuotes
  <2> QED  BY <2>2, <2>3
<1> QED  BY <1>4, <1>5, <1>6, <1>7, <1>8

\* A retry relays whatever it relays for an order nothing was left of.
LEMMA RelayRetryMessageInQuotes ==
    ASSUME TypeOK, TypeOK', OrdersInv, SentOnce', QuoteInv, NEW m \in failed[Relay], RelayRetryMessageIn(m)
    PROVE  QuoteStep
<1>1. m \in MessageInEvent /\ sent' = sent
  BY RelayIsChain DEF TypeOK, RelayRetryMessageIn
<1>2. \/ TransferRelay(m, TRUE, TRUE)
      \/ m.type # "MESSAGE" /\ SwapRelay(m, TRUE, TRUE, Books)
  BY DEF RelayRetryMessageIn
<1>3. Handled(m, TRUE, TRUE)
  <2>1. CASE TransferRelay(m, TRUE, TRUE)  BY <2>1, TransferRelayEnds
  <2>2. CASE m.type # "MESSAGE" /\ SwapRelay(m, TRUE, TRUE, Books)
    <3>1. m \in TokenEvent  BY <1>1, <2>2, IsTokenEvent
    <3> QED  BY <2>2, <3>1, SwapRelayEnds
  <2> QED  BY <1>2, <2>1, <2>2
<1>4. LogsOf(m.order)  BY <1>3, HandledLogs
<1>5. ASSUME NEW e \in sent, Untouched(e), e.order = m.order PROVE Honours(e, 0)
  BY <1>5 DEF QuoteInv
<1>6. ASSUME NEW e \in sent, Untouched(e), e.order = m.order, NEW n \in relayed'
      PROVE  Served(e, n)
  <2>1. Honours(e, 0) /\ n.amount \in Nat  BY <1>5, <1>6 DEF TypeOK, MessageInEvent
  <2>2. e.token \in Tokens /\ e.to \in Chains
    BY <1>6 DEF TypeOK, MessageOutEvent, Untouched
  <2>3. TargetAmount(e.token, Relay, e.to, 0) = 0
    <3>1. Scale[e.token][Relay] \in Nat \ {0} /\ Scale[e.token][e.to] \in Nat \ {0}
      BY <2>2, ScaleType, RelayIsChain
    <3> QED  BY <3>1 DEF TargetAmount
  <2> QED  BY <2>1, <2>3 DEF Served
<1> QED  BY <1>1, <1>4, <1>5, <1>6 DEF QuoteStep, LogsOf

\* An order that starts on the relay chain enters with its amount as it is.
LEMMA RelaySwapOutTokenQuotes ==
    ASSUME TypeOK, SentOnce', NEW to \in Chains, NEW t \in Tokens, NEW a \in Amounts,
           NEW relay \in BOOLEAN, NEW swap \in BOOLEAN, NEW i \in Callers,
           RelaySwapOutToken(to, t, a, relay, swap, i)
    PROVE  QuoteStep
<1> DEFINE e == [order |-> GetOrderId(Relay), type |-> "BRIDGE", from |-> Relay,
                 to |-> to, token |-> t, amount |-> a,
                 initiator |-> i, swap |-> swap, relay |-> relay]
           ac == TokenTransferIn(acct[Relay], t, a)
           paid == [Books EXCEPT !.acct = ac]
<1>1. /\ MessageOut(Relay, e) /\ ChargeSource(InEvent(e), relay, TRUE, paid)
      /\ a <= acct[Relay].held[t] /\ a \in Nat
  BY BridgeAssumption DEF RelaySwapOutToken, Books
<1>2. GetOrderId(Relay) \in OrderIds
  BY <1>1, GetOrderIdType, TypeParts, RelayIsChain DEF MessageOut
<1>3. /\ e \in MessageOutEvent /\ e.from = Relay /\ e.type # "DEPOSIT"
      /\ e.relay = relay /\ e.token \in Tokens /\ e.amount \in Nat
  BY <1>1, <1>2, RelayIsChain DEF MessageOutEvent, MessageTypes
<1>4. ac \in Account  BY <1>1, RelayIsChain, TransferInType DEF TypeOK
<1> HIDE DEF e, ac
<1>5. paid \in BooksType  BY <1>4, BooksOK, TypeParts DEF BooksType
<1> HIDE DEF paid
<1>6. InEvent(e) \in TokenEvent /\ InEvent(e).order = e.order
  BY <1>3, InEventType DEF TokenEvent, InEvent
<1>7. e \in sent'  BY <1>1 DEF MessageOut
<1>8. Carries(InEvent(e), e, Entered(e))
  <2>1. Entered(e) = e.amount  BY <1>3 DEF Entered, TargetAmount
  <2> QED  BY <2>1 DEF Carries, InEvent
<1>9. CASE Untouched(e)
  <2>1. ChargeSource(InEvent(e), e.relay, TRUE, paid)  BY <1>1, <1>3
  <2> QED  BY <1>3, <1>5, <1>6, <1>7, <1>8, <1>9, <2>1, ChargeSourceQuotes
<1>10. CASE ~Untouched(e)
  <2>1. Handled(InEvent(e), relay, TRUE)  BY <1>1, <1>5, <1>6, ChargeSourceEnds
  <2>2. LogsOf(e.order)  BY <1>6, <2>1, HandledLogs
  <2> QED  BY <1>7, <1>10, <2>2, OtherQuotes
<1> QED  BY <1>9, <1>10

LEMMA RelayTransferOutQuotes ==
    ASSUME TypeOK, SentOnce', NEW to \in Chains, NEW t \in Tokens, NEW relay \in BOOLEAN,
           NEW i \in Callers, RelayTransferOut(to, t, relay, i)
    PROVE  QuoteStep
<1> DEFINE e == [order |-> GetOrderId(Relay), type |-> "MESSAGE", from |-> Relay,
                 to |-> to, token |-> NoToken, amount |-> 0,
                 initiator |-> i, swap |-> FALSE, relay |-> relay]
<1>1. MessageOut(Relay, e) /\ EmitMessageRelay(InEvent(e))  BY DEF RelayTransferOut
<1>2. ~Untouched(e)  BY DEF Untouched
<1> HIDE DEF e
<1>3. e \in sent'  BY <1>1 DEF MessageOut
<1>4. LogsOf(e.order)
  <2>1. InEvent(e).order = e.order  BY DEF InEvent
  <2> QED  BY <1>1, <2>1 DEF EmitMessageRelay, LogsOf
<1> QED  BY <1>2, <1>3, <1>4, OtherQuotes

\* No operation of another chain, and none of the vaults and the administrators,
\* touches the logs of the relay chain.
LEMMA CommonNextLogs ==
    ASSUME NEW c, CommonNext(c)
    PROVE  relayed' = relayed /\ failed' = failed
BY ZenonT(30) DEF CommonNext, Trigger, RegisterTokenChains, SetFailedReceiver, WithdrawFee

LEMMA LeafNextLogs ==
    ASSUME TypeOK, NEW c \in LeafChains, LeafNext(c)
    PROVE  relayed' = relayed /\ failed'[Relay] = failed[Relay]
<1>1. failed'[Relay] = failed[Relay]  BY LeafKeeps
<1>2. ASSUME NEW to, NEW t, NEW relay, NEW i, TransferOut(c, to, t, relay, i)
      PROVE  relayed' = relayed
  BY <1>2 DEF TransferOut
<1>3. ASSUME NEW to, NEW t, NEW a, NEW relay, NEW swap, NEW i,
             SwapOutToken(c, to, t, a, relay, swap, i)
      PROVE  relayed' = relayed
  BY <1>3 DEF SwapOutToken
<1>4. ASSUME NEW t, NEW a, NEW i, DepositToken(c, t, a, i) PROVE relayed' = relayed
  BY <1>4 DEF DepositToken
<1>5. ASSUME NEW m, MessageIn(c, m) \/ RetryMessageIn(c, m) PROVE relayed' = relayed
  BY SMTT(30), <1>5 DEF MessageIn, RetryMessageIn
<1> QED  BY <1>1, <1>2, <1>3, <1>4, <1>5, CommonNextLogs DEF LeafNext

LEMMA NextQuotes ==
    ASSUME TypeOK, TypeOK', OrdersInv, OrdersInv', QuoteInv, [Next]_vars
    PROVE  QuoteInv'
<1>1. SentOnce'  BY DEF OrdersInv
<1>2. OrderStep  BY NextOrders
<1>3. sent \subseteq sent'  BY <1>2 DEF OrderStep, OrderMoves, Sends
<1>4. QuoteStep
  <2>1. ASSUME NEW c \in LeafChains, LeafNext(c) PROVE QuoteStep
    BY <2>1, LeafNextLogs, IdleQuotes
  <2>2. CASE UNCHANGED vars  BY <2>2, IdleQuotes DEF vars, baseVars
  <2>3. CASE RelayNext
    <3>1. ASSUME NEW t, NEW a, RelayDepositToken(t, a) \/ Withdraw(t, a) PROVE QuoteStep
      BY <3>1, IdleQuotes DEF RelayDepositToken, Withdraw
    <3>2. ASSUME NEW c, NEW enable, RegisterChain(c, enable) PROVE QuoteStep
      BY <3>2, IdleQuotes DEF RegisterChain
    <3>3. ASSUME CommonNext(Relay) PROVE QuoteStep
      BY <3>3, CommonNextLogs, IdleQuotes
    <3> QED  BY <1>1, <2>3, <3>1, <3>2, <3>3, RelayTransferOutQuotes, RelaySwapOutTokenQuotes,
                RelayMessageInQuotes, RelayRetryMessageInQuotes DEF RelayNext
  <2> QED  BY <2>1, <2>2, <2>3 DEF Next
<1> QED  BY <1>1, <1>3, <1>4, QuoteStepKeeps

LEMMA ServedQuotes == TypeOK /\ QuoteInv => QuotesAreKept
<1> SUFFICES ASSUME TypeOK, QuoteInv, NEW e \in sent, NEW n \in RelayedAs(e.order),
                    Untouched(e), ~ListedForTargetOnly(e)
             PROVE  /\ QuotedFee(e) < Entered(e) =>
                         n.amount >= TargetAmount(e.token, Relay, e.to, Entered(e) - QuotedFee(e))
                    /\ ListedForSource(e) /\ QuotedRate(e) < MAX_RATE_UNI =>
                         e.amount <= SourceAmount(e.initiator, e.token, n.amount + 1,
                                                  e.to, e.from, e.swap, Relay)
  BY DEF QuotesAreKept, Entered, QuotedFee, QuotedRate
<1>1. e \in MessageOutEvent /\ e.token \in Tokens
  BY DEF TypeOK, MessageOutEvent, Untouched
<1>2. n \in relayed /\ n.order = e.order /\ n.amount \in Nat
  BY DEF RelayedAs, TypeOK, MessageInEvent
<1>3. PICK left \in Nat : Honours(e, left) /\ n.amount >= TargetAmount(e.token, Relay, e.to, left)
  BY <1>2 DEF QuoteInv, Served
<1> QED  BY <1>1, <1>2, <1>3, QuoteHolds

\* Whatever a user quoted before sending holds when the order is charged: in two
\* steps, with three roundings and a conversion on either side, an order that no
\* executor touches leaves no less than the quoted fee did, and a listed caller
\* who sends more than was quoted for an amount gets it.
THEOREM QuotesHold == Spec => []QuotesAreKept
<1> DEFINE Inv == TypeOK /\ OrdersInv /\ QuoteInv
<1>1. Init => Inv  BY InitType, InitOrders DEF Init, QuoteInv
<1>2. Inv /\ [Next]_vars => Inv'  BY NextType, NextOrders, NextQuotes
<1>3. Inv => QuotesAreKept  BY ServedQuotes
<1> QED  BY <1>1, <1>2, <1>3, PTL DEF Spec
=============================================================================
