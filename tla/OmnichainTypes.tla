-------------------------- MODULE OmnichainTypes --------------------------
(***************************************************************************)
(* Type correctness of the bridge for every value of the constants: no     *)
(* amount, balance, fee or vault ever becomes negative, every guard of the *)
(* contracts that keeps a subtraction from going below zero is enough.     *)
(***************************************************************************)
EXTENDS Omnichain, Sums

-----------------------------------------------------------------------------
(* Arithmetic.                                                             *)

\* Two shares of an amount, whose rates stay within the unit, stay within it.
LEMMA SharesWithin ==
    ASSUME NEW a \in Nat, NEW r \in Nat, NEW s \in Nat, NEW m \in Nat \ {0}, r + s <= m
    PROVE  (a * r) \div m + (a * s) \div m <= a
<1> DEFINE x == (a * r) \div m
           y == (a * s) \div m
<1>1. a * r \in Nat /\ a * s \in Nat /\ a * m \in Nat  BY MulNat
<1>2. x \in Nat /\ x * m <= a * r  BY <1>1, DivNat
<1>3. y \in Nat /\ y * m <= a * s  BY <1>1, DivNat
<1>4. a * r + a * s <= a * m  BY SMT
<1>5. (x + y) * m = x * m + y * m  BY <1>2, <1>3, SMT
<1>6. x * m \in Nat /\ y * m \in Nat  BY <1>2, <1>3, MulNat
<1> HIDE DEF x, y
<1>7. (x + y) * m <= a * m  BY <1>1, <1>2, <1>3, <1>4, <1>5, <1>6
<1>8. x + y <= a  BY <1>2, <1>3, <1>7, CancelMul
<1> QED  BY <1>8 DEF x, y

-----------------------------------------------------------------------------
(* The registry's amounts and fees.                                        *)

LEMMA TargetAmountNat ==
    ASSUME NEW t \in Tokens, NEW c \in Chains, NEW d \in Chains, NEW a \in Nat
    PROVE  TargetAmount(t, c, d, a) \in Nat
<1>1. Scale[t][c] \in Nat \ {0} /\ Scale[t][d] \in Nat \ {0}  BY RegisterAssumption
<1>2. a * Scale[t][d] \in Nat  BY <1>1, MulNat
<1>3. (a * Scale[t][d]) \div Scale[t][c] \in Nat  BY <1>1, <1>2, DivNat
<1> QED  BY <1>3 DEF TargetAmount

LEMMA FeeNat ==
    ASSUME NEW r \in FeeRate, NEW a \in Nat
    PROVE  Fee(r, a) \in Nat
<1>1. r.lowest \in Nat /\ r.highest \in Nat /\ r.rate \in Nat  BY RegisterAssumption DEF FeeRate
<1>2. MAX_RATE_UNI \in Nat \ {0}  BY RegisterAssumption
<1>3. a * r.rate \in Nat  BY <1>1, MulNat
<1>4. (a * r.rate) \div MAX_RATE_UNI \in Nat  BY <1>2, <1>3, DivNat
<1> QED  BY <1>1, <1>4 DEF Fee

LEMMA CallerFeeNat ==
    ASSUME NEW e \in WhitelistEntry, NEW a \in Nat
    PROVE  CallerFee(e, a) \in Nat
<1>1. MAX_RATE_UNI \in Nat \ {0}  BY RegisterAssumption
<1>2. e \in Nat  BY <1>1 DEF WhitelistEntry
<1>3. e \div 2 \in Nat  BY <1>2, DivNat
<1>4. a * (e \div 2) \in Nat  BY <1>3, MulNat
<1> QED  BY <1>1, <1>4, DivNat DEF CallerFee

LEMMA FromChainFeeNat ==
    ASSUME NEW i \in Callers, NEW t \in Tokens, NEW a \in Nat, NEW c \in Chains
    PROVE  FromChainFee(i, t, a, c) \in Nat
<1>1. FromCaller[t][c][i] \in WhitelistEntry /\ FromFee[t][c] \in FeeRate
  BY RegisterAssumption
<1> QED  BY <1>1, FeeNat, CallerFeeNat DEF FromChainFee

LEMMA ToChainFeeNat ==
    ASSUME NEW i \in Callers, NEW t \in Tokens, NEW a \in Nat,
           NEW c \in Chains, NEW d \in Chains
    PROVE  ToChainFee(i, t, a, c, d) \in Nat
<1>1. ToCaller[t][c][d][i] \in WhitelistEntry /\ ToFee[t][d] \in FeeRate
  BY RegisterAssumption
<1> QED  BY <1>1, FeeNat, CallerFeeNat DEF ToChainFee

LEMMA BaseFeeNat ==
    ASSUME NEW t \in Tokens, NEW d \in Chains, NEW swap \in BOOLEAN
    PROVE  ToChainBaseFee(t, d, swap) \in Nat
BY RegisterAssumption DEF ToChainBaseFee

-----------------------------------------------------------------------------
(* Events.                                                                 *)

TokenEvent == {m \in MessageInEvent : m.token \in Tokens}

LEMMA InEventType ==
    ASSUME NEW e \in MessageOutEvent
    PROVE  /\ InEvent(e) \in MessageInEvent
           /\ InEvent(e).order = e.order /\ InEvent(e).to = e.to /\ InEvent(e).from = e.from
           /\ InEvent(e).token = e.token
BY DEF InEvent, MessageInEvent, MessageOutEvent

LEMMA AmountType ==
    ASSUME NEW m \in MessageInEvent, NEW a \in Nat
    PROVE  /\ [m EXCEPT !.amount = a] \in MessageInEvent
           /\ [m EXCEPT !.amount = a].order = m.order
           /\ [m EXCEPT !.amount = a].token = m.token
           /\ [m EXCEPT !.amount = a].from = m.from
           /\ [m EXCEPT !.amount = a].to = m.to
           /\ [m EXCEPT !.amount = a].type = m.type
           /\ [m EXCEPT !.amount = a].amount = a
BY DEF MessageInEvent

-----------------------------------------------------------------------------
(* Accounts.                                                               *)

LEMMA TransferInType ==
    ASSUME NEW ac \in Account, NEW t \in Tokens, NEW a \in Nat, a <= ac.held[t]
    PROVE  TokenTransferIn(ac, t, a) \in Account
<1> DEFINE held == [ac.held EXCEPT ![t] = @ - a]
           bal == [ac.bal EXCEPT ![t] = @ + a]
<1>1. ac.held \in [Tokens -> Nat] /\ ac.bal \in [Tokens -> Nat]  BY DEF Account
<1>2. held \in [Tokens -> Nat] /\ bal \in [Tokens -> Nat]  BY <1>1
<1>3. TokenTransferIn(ac, t, a) = [ac EXCEPT !.held = held, !.bal = bal]
  BY DEF TokenTransferIn, Account
<1> HIDE DEF held, bal
<1> QED  BY <1>2, <1>3 DEF Account

LEMMA TransferOutType ==
    ASSUME NEW ac \in Account, NEW t \in Tokens, NEW a \in Nat, a <= ac.bal[t]
    PROVE  TokenTransferOut(ac, t, a) \in Account
<1> DEFINE held == [ac.held EXCEPT ![t] = @ + a]
           bal == [ac.bal EXCEPT ![t] = @ - a]
<1>1. ac.held \in [Tokens -> Nat] /\ ac.bal \in [Tokens -> Nat]  BY DEF Account
<1>2. held \in [Tokens -> Nat] /\ bal \in [Tokens -> Nat]  BY <1>1
<1>3. TokenTransferOut(ac, t, a) = [ac EXCEPT !.held = held, !.bal = bal]
  BY DEF TokenTransferOut, Account
<1> HIDE DEF held, bal
<1> QED  BY <1>2, <1>3 DEF Account

LEMMA MintType ==
    ASSUME NEW c \in Chains, NEW ac \in Account, NEW t \in Tokens, NEW a \in Nat
    PROVE  CheckAndMint(c, ac, t, a) \in Account
BY DEF Account, CheckAndMint

LEMMA BurnType ==
    ASSUME NEW c \in Chains, NEW ac \in Account, NEW t \in Tokens, NEW a \in Nat,
           CanBurn(c, ac, t, a)
    PROVE  CheckAndBurn(c, ac, t, a) \in Account
BY DEF Account, CheckAndBurn, CanBurn

LEMMA AddFeeType ==
    ASSUME NEW ac \in Account, NEW r \in FeeReceivers, NEW t \in Tokens, NEW a \in Nat
    PROVE  AddFee(ac, r, t, a) \in Account
<1> DEFINE row == [ac.fee[r] EXCEPT ![t] = @ + a]
           fee == [ac.fee EXCEPT ![r] = row]
<1>1. ac.fee \in [FeeReceivers -> [Tokens -> Nat]]  BY DEF Account
<1>2. ac.fee[r] \in [Tokens -> Nat]  BY <1>1
<1>3. row \in [Tokens -> Nat]  BY <1>2
<1>4. AddFee(ac, r, t, a) = [ac EXCEPT !.fee = fee]  BY DEF AddFee, Account
<1> HIDE DEF row
<1>5. fee \in [FeeReceivers -> [Tokens -> Nat]]  BY <1>1, <1>3
<1> HIDE DEF fee
<1> QED  BY <1>4, <1>5 DEF Account

-----------------------------------------------------------------------------
(* The relay chain's books.                                                *)

BooksType == [acct : Account, vault : [Tokens -> V!Vault]]

LEMMA ShareNat ==
    ASSUME NEW a \in Nat
    PROVE  /\ Share(DistributeRate.messenger, a) \in Nat
           /\ Share(DistributeRate.protocol, a) \in Nat
           /\ VaultShare(a) \in Nat
<1>1. /\ DistributeRate.messenger \in Nat /\ DistributeRate.protocol \in Nat
      /\ MAX_BASE_POINT \in Nat \ {0}
      /\ DistributeRate.messenger + DistributeRate.protocol <= MAX_BASE_POINT
  BY RelayAssumption
<1>2. a * DistributeRate.messenger \in Nat /\ a * DistributeRate.protocol \in Nat
  BY <1>1, MulNat
<1>3. /\ Share(DistributeRate.messenger, a) \in Nat
      /\ Share(DistributeRate.protocol, a) \in Nat
  BY <1>1, <1>2, DivNat DEF Share
<1>4. Share(DistributeRate.messenger, a) + Share(DistributeRate.protocol, a) <= a
  BY <1>1, SharesWithin DEF Share
<1> QED  BY <1>3, <1>4 DEF VaultShare

LEMMA UpdateVaultType ==
    ASSUME NEW v \in V!Vault, NEW c \in Chains, NEW d \in Chains,
           NEW a \in Nat, NEW b \in Nat, NEW f \in Nat
    PROVE  V!UpdateVault(v, c, a, d, b, f) \in V!Vault
<1> DEFINE total == v.total + f
           balance == [[v.balance EXCEPT ![c] = @ + a] EXCEPT ![d] = @ - b]
<1>1. v.total \in Nat /\ v.shares \in Nat /\ v.balance \in [Chains -> Int]  BY DEF V!Vault
<1>2. total \in Nat /\ balance \in [Chains -> Int]  BY <1>1
<1>3. V!UpdateVault(v, c, a, d, b, f) = [v EXCEPT !.total = total, !.balance = balance]
  BY DEF V!UpdateVault, V!Vault
<1> HIDE DEF total, balance
<1> QED  BY <1>2, <1>3 DEF V!Vault

LEMMA DepositType ==
    ASSUME NEW v \in V!Vault, NEW c \in Chains, NEW a \in Nat, V!CanDeposit(v)
    PROVE  V!Deposit(v, c, a) \in V!Vault
<1> DEFINE minted == V!GetVaultTokenAmount(v, a)
           shares == v.shares + minted
           total == v.total + a
           balance == [v.balance EXCEPT ![c] = @ + a]
<1>1. v.total \in Nat /\ v.shares \in Nat /\ v.balance \in [Chains -> Int]  BY DEF V!Vault
<1>2. minted \in Nat
  <2>1. CASE v.shares = 0  BY <2>1 DEF V!GetVaultTokenAmount
  <2>2. CASE v.shares # 0
    <3>1. v.total \in Nat \ {0}  BY <1>1, <2>2 DEF V!CanDeposit
    <3>2. a * v.shares \in Nat  BY <1>1, MulNat
    <3> QED  BY <3>1, <3>2, <2>2, DivNat DEF V!GetVaultTokenAmount
  <2> QED  BY <2>1, <2>2
<1>3. V!Deposit(v, c, a) = [v EXCEPT !.shares = shares, !.total = total, !.balance = balance]
  BY DEF V!Deposit, V!Vault
<1> HIDE DEF minted
<1>4. shares \in Nat /\ total \in Nat /\ balance \in [Chains -> Int]  BY <1>1, <1>2
<1> HIDE DEF shares, total, balance
<1> QED  BY <1>3, <1>4 DEF V!Vault

\* Vault tokens never claim more than the vault.
LEMMA TokenAmountWithin ==
    ASSUME NEW v \in V!Vault, NEW a \in Nat, a > 0, a <= v.shares
    PROVE  V!GetTokenAmount(v, a) \in Nat /\ V!GetTokenAmount(v, a) <= v.total
<1>1. v.total \in Nat /\ v.shares \in Nat \ {0}  BY DEF V!Vault
<1>2. a * v.total \in Nat  BY <1>1, MulNat
<1>3. (a * v.total) \div v.shares \in Nat  BY <1>1, <1>2, DivNat
<1>4. v.total * a <= v.total * v.shares  BY <1>1, MulMono
<1>5. a * v.total <= v.total * v.shares  BY <1>1, <1>4, SMT
<1>6. (a * v.total) \div v.shares <= v.total  BY <1>1, <1>5, <1>2, DivLe
<1> QED  BY <1>1, <1>3, <1>6 DEF V!GetTokenAmount

LEMMA WithdrawType ==
    ASSUME NEW v \in V!Vault, NEW c \in Chains, NEW a \in Nat, a > 0, a <= v.shares
    PROVE  V!Withdraw(v, c, a) \in V!Vault
<1> DEFINE out == V!GetTokenAmount(v, a)
           shares == v.shares - a
           total == v.total - out
           balance == [v.balance EXCEPT ![c] = @ - out]
<1>1. v.total \in Nat /\ v.shares \in Nat /\ v.balance \in [Chains -> Int]  BY DEF V!Vault
<1>2. out \in Nat /\ out <= v.total  BY TokenAmountWithin
<1>3. V!Withdraw(v, c, a) = [v EXCEPT !.shares = shares, !.total = total, !.balance = balance]
  BY DEF V!Withdraw, V!Vault
<1> HIDE DEF out
<1>4. shares \in Nat /\ total \in Nat /\ balance \in [Chains -> Int]  BY <1>1, <1>2
<1> HIDE DEF shares, total, balance
<1> QED  BY <1>3, <1>4 DEF V!Vault

LEMMA CollectBridgeFeeType ==
    ASSUME NEW bk \in BooksType, NEW m \in TokenEvent, NEW base \in Nat,
           NEW prop \in Nat, NEW a \in Nat, NEW b \in Nat
    PROVE  CollectBridgeFee(bk, m, base, prop, a, b) \in BooksType
<1> DEFINE f == Share(DistributeRate.messenger, prop)
           g == Share(DistributeRate.protocol, prop)
           h == VaultShare(prop)
           ac == AddFee(AddFee(AddFee(bk.acct, "messenger", m.token, f),
                               "protocol", m.token, g), "base", m.token, base)
           v == V!UpdateVault(bk.vault[m.token], m.from, a, m.to, b, h)
<1>1. f \in Nat /\ g \in Nat /\ h \in Nat  BY ShareNat
<1>2. bk.acct \in Account /\ bk.vault \in [Tokens -> V!Vault]  BY DEF BooksType
<1>3. m.token \in Tokens /\ m.from \in Chains /\ m.to \in Chains
  BY DEF TokenEvent, MessageInEvent
<1>4. {"messenger", "protocol", "base"} \subseteq FeeReceivers  BY DEF FeeReceivers
<1> HIDE DEF f, g, h
<1>5. AddFee(bk.acct, "messenger", m.token, f) \in Account  BY <1>1, <1>2, <1>3, <1>4, AddFeeType
<1>6. AddFee(AddFee(bk.acct, "messenger", m.token, f), "protocol", m.token, g) \in Account
  BY <1>1, <1>3, <1>4, <1>5, AddFeeType
<1>7. ac \in Account  BY <1>3, <1>4, <1>6, AddFeeType
<1>8. v \in V!Vault  BY <1>1, <1>2, <1>3, UpdateVaultType
<1>9. CollectBridgeFee(bk, m, base, prop, a, b) =
        [acct |-> ac, vault |-> [bk.vault EXCEPT ![m.token] = v]]
  BY <1>2, <1>3 DEF CollectBridgeFee, f, g, h
<1> HIDE DEF ac, v
<1>10. [bk.vault EXCEPT ![m.token] = v] \in [Tokens -> V!Vault]  BY <1>2, <1>8
<1> QED  BY <1>7, <1>9, <1>10 DEF BooksType

LEMMA TokenEventFields ==
    ASSUME NEW m \in TokenEvent
    PROVE  /\ m \in MessageInEvent /\ m.token \in Tokens /\ m.amount \in Nat
           /\ m.from \in Chains /\ m.to \in Chains /\ m.initiator \in Callers
           /\ m.swap \in BOOLEAN /\ m.order \in OrderIds
BY DEF TokenEvent, MessageInEvent

\* What the source chain's fee leaves of an order is not negative.
LEMMA FromFeeType ==
    ASSUME NEW bk \in BooksType, NEW m \in TokenEvent
    PROVE  /\ FromFeeOf(m) \in Nat /\ FromFeeOf(m) <= m.amount
           /\ CollectFromFee(bk, m) \in BooksType
<1>1. FromChainFee(m.initiator, m.token, m.amount, m.from) \in Nat
  BY FromChainFeeNat, TokenEventFields
<1>2. FromFeeOf(m) \in Nat /\ FromFeeOf(m) <= m.amount
  BY <1>1, TokenEventFields DEF FromFeeOf
<1>3. (IF m.from = Relay THEN 0 ELSE m.amount) \in Nat  BY TokenEventFields
<1> QED  BY <1>2, <1>3, CollectBridgeFeeType DEF CollectFromFee

\* Nor what the target chain's fees leave.
LEMMA TochainFeesNat ==
    ASSUME NEW m \in TokenEvent
    PROVE  /\ TochainFeesOf(m).base \in Nat /\ TochainFeesOf(m).prop \in Nat
           /\ AfterTochainFee(m) \in Nat
<1> DEFINE base == ToChainBaseFee(m.token, m.to, m.swap)
           prop == ToChainFee(m.initiator, m.token, m.amount, m.from, m.to)
<1>1. base \in Nat  BY BaseFeeNat, TokenEventFields
<1>2. prop \in Nat  BY ToChainFeeNat, TokenEventFields
<1>3. m.amount \in Nat  BY TokenEventFields
<1>4. TochainFeesOf(m) = IF m.amount > base + prop THEN [base |-> base, prop |-> prop]
        ELSE IF m.amount >= base THEN [base |-> base, prop |-> m.amount - base]
        ELSE [base |-> m.amount, prop |-> 0]
  BY DEF TochainFeesOf
<1> HIDE DEF base, prop
<1>5. /\ TochainFeesOf(m).base \in Nat /\ TochainFeesOf(m).prop \in Nat
      /\ TochainFeesOf(m).base + TochainFeesOf(m).prop <= m.amount
  BY <1>1, <1>2, <1>3, <1>4
<1> QED  BY <1>3, <1>5 DEF AfterTochainFee

LEMMA TochainFeeType ==
    ASSUME NEW bk \in BooksType, NEW m \in TokenEvent
    PROVE  AfterTochainFee(m) \in Nat /\ CollectTochainFee(bk, m) \in BooksType
<1>1. m.amount \in Nat  BY TokenEventFields
<1>2. (IF m.from = Relay THEN m.amount ELSE 0) \in Nat  BY <1>1
<1> QED  BY <1>2, TochainFeesNat, CollectBridgeFeeType DEF CollectTochainFee

-----------------------------------------------------------------------------
(* The parts of TypeOK that the handlers of an order change.               *)

OrdersOK ==
    /\ orderList \in [Chains -> [OrderIds -> OrderState]]
    /\ delivered \in [Chains -> [OrderIds -> Nat]]
    /\ failed \in [Chains -> SUBSET MessageInEvent]

MoneyOK ==
    /\ acct \in [Chains -> Account]
    /\ vault \in [Tokens -> V!Vault]

LEMMA EmitMessageInType ==
    ASSUME OrdersOK, NEW c \in Chains, NEW m \in MessageInEvent, EmitMessageIn(c, m)
    PROVE  OrdersOK'
<1>1. m.order \in OrderIds  BY DEF MessageInEvent
<1>2. Processed \in OrderState  BY DEF Processed, OrderState
<1>3. orderList' \in [Chains -> [OrderIds -> OrderState]]
  BY <1>1, <1>2 DEF OrdersOK, EmitMessageIn, MarkProcessed
<1>4. delivered' \in [Chains -> [OrderIds -> Nat]]  BY <1>1 DEF OrdersOK, EmitMessageIn
<1> QED  BY <1>3, <1>4 DEF OrdersOK, EmitMessageIn

LEMMA StoreMessageDataType ==
    ASSUME OrdersOK, NEW c \in Chains, NEW m \in MessageInEvent, StoreMessageData(c, m)
    PROVE  OrdersOK'
<1>1. m.order \in OrderIds  BY DEF MessageInEvent
<1>2. Stored(m) \in OrderState  BY BridgeAssumption DEF Stored, OrderState
<1>3. orderList' \in [Chains -> [OrderIds -> OrderState]]
  BY <1>1, <1>2 DEF OrdersOK, StoreMessageData
<1>4. failed' \in [Chains -> SUBSET MessageInEvent]  BY DEF OrdersOK, StoreMessageData
<1> QED  BY <1>3, <1>4 DEF OrdersOK, StoreMessageData

LEMMA EmitMessageRelayType ==
    ASSUME OrdersOK, relayed \subseteq MessageInEvent,
           NEW m \in MessageInEvent, EmitMessageRelay(m)
    PROVE  OrdersOK' /\ relayed' \subseteq MessageInEvent
<1>1. m.order \in OrderIds /\ Relay \in Chains
  BY BridgeAssumption DEF MessageInEvent
<1>2. Processed \in OrderState  BY DEF Processed, OrderState
<1>3. orderList' \in [Chains -> [OrderIds -> OrderState]]
  <2>1. CASE m.from = Relay  BY <2>1 DEF OrdersOK, EmitMessageRelay, RecordRelayed
  <2>2. CASE m.from # Relay
    <3>1. orderList' = [orderList EXCEPT ![Relay][m.order] = Processed]
      BY <2>2 DEF EmitMessageRelay, RecordRelayed, MarkProcessed
    <3> QED  BY <1>1, <1>2, <3>1 DEF OrdersOK
  <2> QED  BY <2>1, <2>2
<1> QED  BY <1>3 DEF OrdersOK, EmitMessageRelay

LEMMA SetBooksType ==
    ASSUME MoneyOK, NEW bk \in BooksType, SetBooks(bk)
    PROVE  MoneyOK'
BY BridgeAssumption DEF MoneyOK, SetBooks, BooksType

LEMMA BooksOK == MoneyOK => Books \in BooksType
BY BridgeAssumption DEF MoneyOK, Books, BooksType

LEMMA SwapInType ==
    ASSUME OrdersOK, MoneyOK, NEW c \in Chains, NEW m \in TokenEvent,
           NEW ac \in Account, SwapIn(c, m, ac)
    PROVE  OrdersOK' /\ acct' \in [Chains -> Account]
<1>1. m.token \in Tokens /\ m.amount \in Nat /\ m \in MessageInEvent  BY TokenEventFields
<1>2. OrdersOK'  BY <1>1, EmitMessageInType DEF SwapIn
<1>3. TokenTransferOut(ac, m.token, m.amount) \in Account
  BY <1>1, TransferOutType DEF SwapIn
<1> DEFINE bal == [ac.bal EXCEPT ![m.token] = @ - m.amount]
           parked == [ac.parked EXCEPT ![m.token] = @ + m.amount]
<1>4. ac.bal \in [Tokens -> Nat] /\ ac.parked \in [Tokens -> Nat]  BY DEF Account
<1>5. bal \in [Tokens -> Nat] /\ parked \in [Tokens -> Nat]  BY <1>1, <1>4 DEF SwapIn
<1>6. [ac EXCEPT !.bal[m.token] = @ - m.amount, !.parked[m.token] = @ + m.amount] =
        [ac EXCEPT !.bal = bal, !.parked = parked]
  BY DEF Account
<1> HIDE DEF bal, parked
<1>7. [ac EXCEPT !.bal = bal, !.parked = parked] \in Account  BY <1>5 DEF Account
<1> QED  BY <1>2, <1>3, <1>6, <1>7 DEF SwapIn, MoneyOK
-----------------------------------------------------------------------------
(* The handlers of an order on the relay chain.                            *)

LogOK == relayed \subseteq MessageInEvent

LEMMA KeepForRetryType ==
    ASSUME OrdersOK, MoneyOK, LogOK, NEW m \in MessageInEvent, NEW bk \in BooksType,
           KeepForRetry(m, bk)
    PROVE  OrdersOK' /\ MoneyOK' /\ LogOK'
<1>1. OrdersOK'  BY StoreMessageDataType, BridgeAssumption DEF KeepForRetry
<1>2. MoneyOK'  BY SetBooksType DEF KeepForRetry
<1> QED  BY <1>1, <1>2 DEF KeepForRetry, LogOK

LEMMA PayOrRelayType ==
    ASSUME OrdersOK, MoneyOK, LogOK, NEW m \in TokenEvent, NEW must \in BOOLEAN,
           NEW bk \in BooksType, PayOrRelay(m, must, bk)
    PROVE  OrdersOK' /\ MoneyOK' /\ LogOK'
<1> DEFINE out == [m EXCEPT !.amount = AfterTochainFee(m)]
           charged == CollectTochainFee(bk, m)
<1>1. AfterTochainFee(m) \in Nat /\ charged \in BooksType  BY TochainFeeType
<1>2. m \in MessageInEvent /\ m.token \in Tokens /\ m.to \in Chains  BY TokenEventFields
<1>3. /\ out \in MessageInEvent /\ out.token = m.token /\ out.amount \in Nat
  BY <1>1, <1>2, AmountType
<1>4. out \in TokenEvent  BY <1>2, <1>3 DEF TokenEvent
<1>5. PICK o \in {out}, ch \in {charged} :
        \/ /\ o.amount = 0 /\ ~must
           /\ KeepForRetry(o, ch)
        \/ /\ o.amount > 0 /\ m.to = Relay
           /\ SwapIn(Relay, o, ch.acct)
           /\ vault' = ch.vault
           /\ UNCHANGED relayed
        \/ /\ o.amount > 0 /\ m.to # Relay
           /\ CanBurn(Relay, ch.acct, m.token, o.amount)
           /\ SetBooks([ch EXCEPT !.acct = CheckAndBurn(Relay, @, m.token, o.amount)])
           /\ EmitMessageRelay([o EXCEPT !.amount = TargetAmount(m.token, Relay, m.to, @)])
  BY DEF PayOrRelay
<1>6. o \in TokenEvent /\ o \in MessageInEvent /\ o.amount \in Nat /\ ch \in BooksType
  BY <1>1, <1>3, <1>4, <1>5
<1>7. ch.acct \in Account /\ ch.vault \in [Tokens -> V!Vault]  BY <1>6 DEF BooksType
<1>8. Relay \in Chains  BY BridgeAssumption
<1> HIDE DEF out, charged
<1>9. CASE KeepForRetry(o, ch)  BY <1>6, <1>9, KeepForRetryType
<1>10. CASE SwapIn(Relay, o, ch.acct) /\ vault' = ch.vault /\ UNCHANGED relayed
  <2>1. OrdersOK' /\ acct' \in [Chains -> Account]  BY <1>6, <1>7, <1>8, <1>10, SwapInType
  <2> QED  BY <1>7, <1>10, <2>1 DEF MoneyOK, LogOK
<1>11. CASE /\ CanBurn(Relay, ch.acct, m.token, o.amount)
            /\ SetBooks([ch EXCEPT !.acct = CheckAndBurn(Relay, @, m.token, o.amount)])
            /\ EmitMessageRelay([o EXCEPT !.amount = TargetAmount(m.token, Relay, m.to, @)])
  <2> DEFINE burnt == CheckAndBurn(Relay, ch.acct, m.token, o.amount)
             target == TargetAmount(m.token, Relay, m.to, o.amount)
  <2>1. burnt \in Account  BY <1>2, <1>6, <1>7, <1>8, <1>11, BurnType
  <2>2. target \in Nat  BY <1>2, <1>6, <1>8, TargetAmountNat
  <2>3. SetBooks([ch EXCEPT !.acct = burnt])  BY <1>6, <1>11 DEF BooksType
  <2>4. EmitMessageRelay([o EXCEPT !.amount = target])
    BY <1>6, <1>11 DEF MessageInEvent
  <2> HIDE DEF burnt, target
  <2>5. [ch EXCEPT !.acct = burnt] \in BooksType  BY <1>6, <2>1 DEF BooksType
  <2>6. [o EXCEPT !.amount = target] \in MessageInEvent  BY <1>6, <2>2, AmountType
  <2>7. MoneyOK'  BY SMTT(30), <2>3, <2>5, SetBooksType
  <2> QED  BY <2>4, <2>6, <2>7, EmitMessageRelayType DEF LogOK
<1> QED  BY <1>5, <1>9, <1>10, <1>11

LEMMA SwapRelayType ==
    ASSUME OrdersOK, MoneyOK, LogOK, NEW m \in TokenEvent, NEW relay \in BOOLEAN,
           NEW must \in BOOLEAN, NEW bk \in BooksType, SwapRelay(m, relay, must, bk)
    PROVE  OrdersOK' /\ MoneyOK' /\ LogOK'
<1>1. /\ m \in MessageInEvent /\ m.token \in Tokens /\ m.amount \in Nat
      /\ bk.acct \in Account
  BY TokenEventFields DEF BooksType
<1>2. CASE PayOrRelay(m, must, bk)  BY <1>2, PayOrRelayType
<1>3. CASE KeepForRetry(m, bk)  BY <1>1, <1>3, KeepForRetryType
<1>4. ASSUME m.amount <= bk.acct.bal[m.token],
             NEW paid \in {TokenTransferOut(bk.acct, m.token, m.amount)},
             NEW t \in Tokens, NEW amount \in ExecutorAmounts, NEW swap \in BOOLEAN,
             amount <= paid.held[t],
             PayOrRelay([m EXCEPT !.token = t, !.amount = amount, !.swap = swap], must,
                        [bk EXCEPT !.acct = TokenTransferIn(paid, t, amount)])
      PROVE  OrdersOK' /\ MoneyOK' /\ LogOK'
  <2> DEFINE n == [m EXCEPT !.token = t, !.amount = amount, !.swap = swap]
             back == TokenTransferIn(paid, t, amount)
  <2>1. amount \in Nat  BY <1>4, RelayAssumption
  <2>2. paid \in Account  BY <1>1, <1>4, TransferOutType
  <2>3. back \in Account  BY <1>4, <2>1, <2>2, TransferInType
  <2>4. n \in TokenEvent  BY <1>1, <1>4, <2>1 DEF TokenEvent, MessageInEvent
  <2> HIDE DEF back
  <2>5. [bk EXCEPT !.acct = back] \in BooksType  BY <2>3 DEF BooksType
  <2>6. PayOrRelay(n, must, [bk EXCEPT !.acct = back])  BY <1>4 DEF back
  <2> HIDE DEF n
  <2> QED  BY <2>4, <2>5, <2>6, PayOrRelayType
<1> QED  BY <1>2, <1>3, <1>4 DEF SwapRelay

LEMMA ChargeSourceType ==
    ASSUME OrdersOK, MoneyOK, LogOK, NEW m \in TokenEvent, NEW relay \in BOOLEAN,
           NEW must \in BOOLEAN, NEW bk \in BooksType, ChargeSource(m, relay, must, bk)
    PROVE  OrdersOK' /\ MoneyOK' /\ LogOK'
<1> DEFINE left == m.amount - FromFeeOf(m)
<1>1. left \in Nat /\ CollectFromFee(bk, m) \in BooksType
  BY FromFeeType, TokenEventFields
<1>2. PICK rest \in {[m EXCEPT !.amount = left]}, charged \in {CollectFromFee(bk, m)} :
        \/ KeepForRetry(rest, charged)
        \/ SwapRelay(rest, relay, must, charged)
  BY TokenEventFields DEF ChargeSource, MessageInEvent
<1> HIDE DEF left
<1>3. rest \in MessageInEvent /\ rest.token = m.token
  <2>1. m \in MessageInEvent  BY TokenEventFields
  <2>2. rest = [m EXCEPT !.amount = left]  BY <1>2
  <2> QED  BY <1>1, <2>1, <2>2, AmountType
<1>4. rest \in TokenEvent /\ charged \in BooksType
  BY <1>1, <1>2, <1>3, TokenEventFields DEF TokenEvent
<1> QED  BY <1>2, <1>3, <1>4, KeepForRetryType, SwapRelayType

LEMMA TransferRelayType ==
    ASSUME OrdersOK, MoneyOK, LogOK, NEW m \in MessageInEvent, NEW relay \in BOOLEAN,
           NEW must \in BOOLEAN, TransferRelay(m, relay, must)
    PROVE  OrdersOK' /\ MoneyOK' /\ LogOK'
<1>1. Relay \in Chains /\ Books \in BooksType  BY BridgeAssumption, BooksOK
<1>2. CASE /\ IF must THEN EmitMessageIn(Relay, m) ELSE TransferIn(Relay, m)
           /\ SetBooks(Books) /\ UNCHANGED relayed
  <2>1. EmitMessageIn(Relay, m) \/ StoreMessageData(Relay, m)  BY <1>2 DEF TransferIn
  <2>2. OrdersOK'  BY <1>1, <2>1, EmitMessageInType, StoreMessageDataType
  <2>3. MoneyOK'  BY <1>1, <1>2, SetBooksType
  <2> QED  BY <1>2, <2>2, <2>3 DEF LogOK
<1>3. CASE KeepForRetry(m, Books)  BY <1>1, <1>3, KeepForRetryType
<1>4. ASSUME NEW t \in Tokens,
             NEW amount \in {0} \cup (IF relay THEN ExecutorAmounts ELSE {}),
             amount <= acct[Relay].held[t],
             SetBooks([Books EXCEPT !.acct = TokenTransferIn(@, t, amount)]),
             EmitMessageRelay(m)
      PROVE  OrdersOK' /\ MoneyOK' /\ LogOK'
  <2> DEFINE ac == TokenTransferIn(acct[Relay], t, amount)
  <2>1. amount \in Nat  BY <1>4, RelayAssumption
  <2>2. ac \in Account  BY <1>1, <1>4, <2>1, TransferInType DEF MoneyOK
  <2>3. SetBooks([Books EXCEPT !.acct = ac])  BY <1>4 DEF Books
  <2> HIDE DEF ac
  <2>4. [Books EXCEPT !.acct = ac] \in BooksType  BY <1>1, <2>2 DEF BooksType
  <2>5. MoneyOK'  BY <2>3, <2>4, SetBooksType
  <2> QED  BY <1>4, <2>5, EmitMessageRelayType DEF LogOK
<1> QED  BY <1>2, <1>3, <1>4 DEF TransferRelay

LEMMA DepositInType ==
    ASSUME OrdersOK, MoneyOK, LogOK, depositIn \subseteq OrderIds,
           NEW m \in TokenEvent, NEW bk \in BooksType, DepositIn(m, bk)
    PROVE  OrdersOK' /\ MoneyOK' /\ LogOK' /\ depositIn' \subseteq OrderIds
<1>1. /\ m \in MessageInEvent /\ m.token \in Tokens /\ m.amount \in Nat
      /\ m.from \in Chains /\ m.order \in OrderIds /\ Relay \in Chains
  BY TokenEventFields, BridgeAssumption
<1>2. bk.acct \in Account /\ bk.vault \in [Tokens -> V!Vault]  BY DEF BooksType
<1>3. OrdersOK' /\ LogOK'  BY <1>1, EmitMessageInType DEF DepositIn, LogOK
<1>4. CASE /\ V!CanDeposit(bk.vault[m.token])
           /\ SetBooks([bk EXCEPT !.vault[m.token] = V!Deposit(@, m.from, m.amount)])
           /\ depositIn' = depositIn \cup {m.order}
  <2> DEFINE v == V!Deposit(bk.vault[m.token], m.from, m.amount)
             vs == [bk.vault EXCEPT ![m.token] = v]
  <2>1. v \in V!Vault  BY <1>1, <1>2, <1>4, DepositType
  <2>2. SetBooks([bk EXCEPT !.vault = vs])  BY <1>2, <1>4 DEF BooksType
  <2> HIDE DEF v
  <2>3. vs \in [Tokens -> V!Vault]  BY <1>2, <2>1
  <2> HIDE DEF vs
  <2>4. [bk EXCEPT !.vault = vs] \in BooksType  BY <2>3 DEF BooksType
  <2>5. MoneyOK'  BY <2>2, <2>4, SetBooksType
  <2> QED  BY <1>1, <1>3, <1>4, <2>5
<1>5. CASE /\ m.amount <= bk.acct.bal[m.token]
           /\ SetBooks([bk EXCEPT !.acct = TokenTransferOut(@, m.token, m.amount)])
           /\ UNCHANGED depositIn
  <2> DEFINE ac == TokenTransferOut(bk.acct, m.token, m.amount)
  <2>1. ac \in Account  BY <1>1, <1>2, <1>5, TransferOutType
  <2>2. SetBooks([bk EXCEPT !.acct = ac])  BY <1>5 DEF BooksType
  <2> HIDE DEF ac
  <2>3. [bk EXCEPT !.acct = ac] \in BooksType  BY <2>1 DEF BooksType
  <2>4. MoneyOK'  BY <2>2, <2>3, SetBooksType
  <2> QED  BY <1>3, <1>5, <2>4
<1> QED  BY <1>4, <1>5 DEF DepositIn

-----------------------------------------------------------------------------
(* The operations, one lemma each.  LogsOK and AdminOK are the parts of    *)
(* TypeOK that the handlers above leave alone.                             *)

LogsOK ==
    /\ nonce \in [Chains -> Nat] /\ \A c \in Chains : nonce[c] <= MaxNonce[c]
    /\ sent \subseteq MessageOutEvent

AdminOK ==
    /\ paused \in [Chains -> BOOLEAN]
    /\ bridgeable \in [Chains -> SUBSET (Tokens \X Chains)]
    /\ failedReceiver \in [Chains -> BOOLEAN]
    /\ adminOps \in Nat
    /\ registered \subseteq LeafChains

DepositsOK == depositIn \subseteq OrderIds

LEMMA TypeParts ==
    /\ TypeOK <=> OrdersOK /\ MoneyOK /\ LogOK /\ LogsOK /\ AdminOK /\ DepositsOK
    /\ TypeOK' <=> OrdersOK' /\ MoneyOK' /\ LogOK' /\ LogsOK' /\ AdminOK' /\ DepositsOK'
BY DEF TypeOK, OrdersOK, MoneyOK, LogOK, LogsOK, AdminOK, DepositsOK

LEMMA RelayIsChain == Relay \in Chains /\ LeafChains \subseteq Chains
BY BridgeAssumption DEF LeafChains

\* An order's identity exists while the chain's bound on orders is not reached.
LEMMA GetOrderIdType ==
    ASSUME LogsOK, NEW c \in Chains, nonce[c] < MaxNonce[c]
    PROVE  GetOrderId(c) \in OrderIds
<1>1. nonce[c] \in Nat /\ MaxNonce[c] \in Nat  BY BridgeAssumption DEF LogsOK
<1>2. nonce[c] \in 0..MaxNonce[c] - 1  BY <1>1
<1> QED  BY <1>2 DEF GetOrderId, OrderIds

LEMMA MessageOutType ==
    ASSUME LogsOK, NEW c \in Chains, NEW m \in MessageOutEvent, MessageOut(c, m)
    PROVE  LogsOK'
<1>1. nonce[c] \in Nat /\ MaxNonce[c] \in Nat /\ nonce[c] < MaxNonce[c]
  BY BridgeAssumption DEF LogsOK, MessageOut
<1>2. nonce' = [nonce EXCEPT ![c] = nonce[c] + 1]  BY DEF LogsOK, MessageOut
<1>3. nonce' \in [Chains -> Nat] /\ \A d \in Chains : nonce'[d] <= MaxNonce[d]
  BY <1>1, <1>2 DEF LogsOK
<1>4. sent' \subseteq MessageOutEvent  BY DEF LogsOK, MessageOut
<1> QED  BY <1>3, <1>4 DEF LogsOK

LEMMA CollectMessageFeeType ==
    ASSUME MoneyOK, NEW c \in Chains, NEW to \in Chains, NEW t \in Tokens,
           CollectMessageFee(c, to, t)
    PROVE  acct' \in [Chains -> Account]
<1> DEFINE f == MessageFee[to]
           ac == AddFee(TokenTransferIn(acct[c], t, f), "service", t, f)
<1>1. f \in Nat /\ f <= acct[c].held[t] /\ acct[c] \in Account
  BY BridgeAssumption DEF MoneyOK, CollectMessageFee
<1>2. "service" \in FeeReceivers  BY DEF FeeReceivers
<1> HIDE DEF f
<1>3. TokenTransferIn(acct[c], t, f) \in Account  BY <1>1, TransferInType
<1>4. ac \in Account  BY <1>1, <1>2, <1>3, AddFeeType
<1>5. acct' = [acct EXCEPT ![c] = ac]  BY DEF CollectMessageFee, MoneyOK, f
<1> HIDE DEF ac
<1> QED  BY <1>4, <1>5 DEF MoneyOK

LEMMA TakeTokensType ==
    ASSUME MoneyOK, NEW c \in Chains, NEW t \in Tokens, NEW a \in Nat,
           TakeTokens(c, t, a)
    PROVE  acct' \in [Chains -> Account]
<1> DEFINE in == TokenTransferIn(acct[c], t, a)
           ac == CheckAndBurn(c, in, t, a)
<1>1. acct[c] \in Account /\ a <= acct[c].held[t]  BY DEF MoneyOK, TakeTokens
<1>2. in \in Account  BY <1>1, TransferInType
<1>3. a <= in.bal[t]
  <2>1. acct[c].bal \in [Tokens -> Nat] /\ acct[c].held \in [Tokens -> Nat]
    BY <1>1 DEF Account
  <2>2. in.bal = [acct[c].bal EXCEPT ![t] = acct[c].bal[t] + a]
    BY <1>1 DEF TokenTransferIn, Account
  <2> QED  BY <2>1, <2>2
<1>4. acct' = [acct EXCEPT ![c] = ac]  BY DEF TakeTokens, MoneyOK
<1> HIDE DEF in
<1>5. ac \in Account  BY <1>2, <1>3, BurnType DEF CanBurn
<1> HIDE DEF ac
<1> QED  BY <1>4, <1>5 DEF MoneyOK

LEMMA TransferOutOpType ==
    ASSUME TypeOK, NEW c \in Chains, NEW to \in Chains, NEW t \in Tokens,
           NEW relay \in BOOLEAN, NEW i \in Callers,
           TransferOut(c, to, t, relay, i), UNCHANGED relayVars
    PROVE  TypeOK'
<1> DEFINE e == [order |-> GetOrderId(c), type |-> "MESSAGE", from |-> c,
                 to |-> to, token |-> NoToken, amount |-> 0,
                 initiator |-> i, swap |-> FALSE, relay |-> relay]
<1> USE TypeParts
<1>1. /\ CollectMessageFee(c, to, t) /\ MessageOut(c, e)
      /\ UNCHANGED <<orderList, paused, bridgeable, failedReceiver, relayed,
                     failed, delivered, adminOps>>
      /\ UNCHANGED <<registered, vault, depositIn>>
  BY DEF TransferOut, relayVars
<1>2. GetOrderId(c) \in OrderIds  BY <1>1, GetOrderIdType DEF MessageOut
<1>3. e \in MessageOutEvent  BY <1>2 DEF MessageOutEvent, MessageTypes
<1> HIDE DEF e
<1>4. LogsOK'  BY <1>1, <1>3, MessageOutType
<1>5. acct' \in [Chains -> Account]  BY <1>1, CollectMessageFeeType
<1> QED  BY <1>1, <1>4, <1>5 DEF OrdersOK, MoneyOK, LogOK, AdminOK, DepositsOK

LEMMA SwapOutTokenType ==
    ASSUME TypeOK, NEW c \in Chains, NEW to \in Chains, NEW t \in Tokens,
           NEW a \in Amounts, NEW relay \in BOOLEAN, NEW swap \in BOOLEAN,
           NEW i \in Callers,
           SwapOutToken(c, to, t, a, relay, swap, i), UNCHANGED relayVars
    PROVE  TypeOK'
<1> DEFINE e == [order |-> GetOrderId(c), type |-> "BRIDGE", from |-> c,
                 to |-> to, token |-> t, amount |-> a,
                 initiator |-> i, swap |-> swap, relay |-> relay]
<1> USE TypeParts
<1>1. /\ TakeTokens(c, t, a) /\ MessageOut(c, e)
      /\ UNCHANGED <<orderList, paused, bridgeable, failedReceiver, relayed,
                     failed, delivered, adminOps>>
      /\ UNCHANGED <<registered, vault, depositIn>>
  BY DEF SwapOutToken, relayVars
<1>2. GetOrderId(c) \in OrderIds /\ a \in Nat
  BY <1>1, GetOrderIdType, BridgeAssumption DEF MessageOut
<1>3. e \in MessageOutEvent  BY <1>2 DEF MessageOutEvent, MessageTypes
<1> HIDE DEF e
<1>4. LogsOK'  BY <1>1, <1>3, MessageOutType
<1>5. acct' \in [Chains -> Account]  BY <1>1, <1>2, TakeTokensType
<1> QED  BY <1>1, <1>4, <1>5 DEF OrdersOK, MoneyOK, LogOK, AdminOK, DepositsOK

LEMMA DepositTokenType ==
    ASSUME TypeOK, NEW c \in Chains, NEW t \in Tokens, NEW a \in Amounts,
           NEW i \in Callers, DepositToken(c, t, a, i), UNCHANGED relayVars
    PROVE  TypeOK'
<1> DEFINE e == [order |-> GetOrderId(c), type |-> "DEPOSIT", from |-> c,
                 to |-> Relay, token |-> t, amount |-> a,
                 initiator |-> i, swap |-> FALSE, relay |-> FALSE]
<1> USE TypeParts
<1>1. /\ TakeTokens(c, t, a) /\ MessageOut(c, e)
      /\ UNCHANGED <<orderList, paused, bridgeable, failedReceiver, relayed,
                     failed, delivered, adminOps>>
      /\ UNCHANGED <<registered, vault, depositIn>>
  BY DEF DepositToken, relayVars
<1>2. GetOrderId(c) \in OrderIds /\ a \in Nat
  BY <1>1, GetOrderIdType, BridgeAssumption DEF MessageOut
<1>3. e \in MessageOutEvent
  BY <1>2, RelayIsChain DEF MessageOutEvent, MessageTypes
<1> HIDE DEF e
<1>4. LogsOK'  BY <1>1, <1>3, MessageOutType
<1>5. acct' \in [Chains -> Account]  BY <1>1, <1>2, TakeTokensType
<1> QED  BY <1>1, <1>4, <1>5 DEF OrdersOK, MoneyOK, LogOK, AdminOK, DepositsOK

\* An event that is not a message is the event of a token.
LEMMA IsTokenEvent ==
    ASSUME NEW m \in MessageInEvent, m.type # "MESSAGE"
    PROVE  m \in TokenEvent
BY DEF MessageInEvent, TokenEvent

LEMMA MessageInType ==
    ASSUME TypeOK, NEW c \in Chains, NEW m \in relayed, MessageIn(c, m),
           UNCHANGED relayVars
    PROVE  TypeOK'
<1> USE TypeParts
<1>1. m \in MessageInEvent  BY DEF LogOK
<1>2. /\ UNCHANGED <<nonce, paused, bridgeable, failedReceiver, sent, relayed, adminOps>>
      /\ UNCHANGED <<registered, vault, depositIn>>
  BY DEF MessageIn, relayVars
<1>3. OrdersOK' /\ acct' \in [Chains -> Account]
  <2>1. CASE TransferIn(c, m) /\ UNCHANGED acct
    <3>1. EmitMessageIn(c, m) \/ StoreMessageData(c, m)  BY <2>1 DEF TransferIn
    <3> QED  BY <1>1, <2>1, <3>1, EmitMessageInType, StoreMessageDataType DEF MoneyOK
  <2>2. CASE /\ m.type # "MESSAGE"
             /\ SwapIn(c, m, CheckAndMint(c, acct[c], m.token, m.amount))
    <3>1. m \in TokenEvent  BY <1>1, <2>2, IsTokenEvent
    <3>2. m.token \in Tokens /\ m.amount \in Nat  BY <3>1, TokenEventFields
    <3>3. CheckAndMint(c, acct[c], m.token, m.amount) \in Account
      BY <3>2, MintType DEF MoneyOK
    <3> QED  BY <2>2, <3>1, <3>3, SwapInType
  <2> QED  BY <2>1, <2>2 DEF MessageIn
<1> QED  BY <1>2, <1>3 DEF MoneyOK, LogOK, LogsOK, AdminOK, DepositsOK

LEMMA RetryMessageInType ==
    ASSUME TypeOK, NEW c \in Chains, NEW m \in failed[c], RetryMessageIn(c, m),
           UNCHANGED relayVars
    PROVE  TypeOK'
<1> USE TypeParts
<1>1. m \in MessageInEvent  BY DEF OrdersOK
<1>2. /\ UNCHANGED <<nonce, paused, bridgeable, failedReceiver, acct, sent, relayed, adminOps>>
      /\ UNCHANGED <<registered, vault, depositIn>>
      /\ EmitMessageIn(c, m)
  BY DEF RetryMessageIn, relayVars
<1>3. OrdersOK'  BY <1>1, <1>2, EmitMessageInType
<1> QED  BY <1>2, <1>3 DEF MoneyOK, LogOK, LogsOK, AdminOK, DepositsOK

LEMMA CommonNextType ==
    ASSUME TypeOK, NEW c \in Chains, CommonNext(c), UNCHANGED relayVars
    PROVE  TypeOK'
<1> USE TypeParts
<1>1. UNCHANGED <<registered, vault, depositIn>>  BY DEF relayVars
<1>2. CASE Trigger(c)
  BY <1>1, <1>2 DEF Trigger, Administer, OrdersOK, MoneyOK, LogOK, LogsOK, AdminOK, DepositsOK
<1>3. ASSUME NEW t \in Tokens, NEW to \in Chains, NEW enable \in BOOLEAN,
             RegisterTokenChains(c, t, to, enable)
      PROVE  TypeOK'
  <2>1. bridgeable' \in [Chains -> SUBSET (Tokens \X Chains)]
    <3>1. <<t, to>> \in Tokens \X Chains  OBVIOUS
    <3>2. CASE enable
      BY <1>3, <3>1, <3>2 DEF RegisterTokenChains, AdminOK
    <3>3. CASE ~enable
      BY <1>3, <3>1, <3>3 DEF RegisterTokenChains, AdminOK
    <3> QED  BY <3>2, <3>3
  <2> QED  BY <1>1, <1>3, <2>1
       DEF RegisterTokenChains, Administer, OrdersOK, MoneyOK, LogOK, LogsOK, AdminOK, DepositsOK
<1>4. CASE SetFailedReceiver(c)
  BY SMTT(30), <1>1, <1>4 DEF SetFailedReceiver, Administer, OrdersOK, MoneyOK, LogOK, LogsOK,
                    AdminOK, DepositsOK
<1>5. ASSUME NEW r \in FeeReceivers, NEW t \in Tokens, WithdrawFee(c, r, t)
      PROVE  TypeOK'
  <2> DEFINE a == acct[c].fee[r][t]
             out == TokenTransferOut(acct[c], t, a)
             row == [out.fee[r] EXCEPT ![t] = 0]
             fee == [out.fee EXCEPT ![r] = row]
  <2>1. acct[c] \in Account /\ a <= acct[c].bal[t]  BY <1>5 DEF WithdrawFee, MoneyOK
  <2>2. a \in Nat  BY SMTT(30), <2>1 DEF Account
  <2>3. acct' = [acct EXCEPT ![c] = [out EXCEPT !.fee[r][t] = 0]]
    BY <1>5 DEF WithdrawFee, MoneyOK
  <2> HIDE DEF a
  <2>4. out \in Account  BY <2>1, <2>2, TransferOutType
  <2> HIDE DEF out
  <2>5. out.fee \in [FeeReceivers -> [Tokens -> Nat]]  BY <2>4 DEF Account
  <2>6. row \in [Tokens -> Nat]  BY <2>5
  <2>7. [out EXCEPT !.fee[r][t] = 0] = [out EXCEPT !.fee = fee]  BY <2>4 DEF Account
  <2> HIDE DEF row
  <2>8. fee \in [FeeReceivers -> [Tokens -> Nat]]  BY <2>5, <2>6
  <2> HIDE DEF fee
  <2>9. [out EXCEPT !.fee = fee] \in Account  BY <2>4, <2>8 DEF Account
  <2>10. MoneyOK'  BY <1>1, <2>3, <2>7, <2>9 DEF MoneyOK
  <2> QED  BY SMTT(30), <1>1, <1>5, <2>10 DEF WithdrawFee, OrdersOK, LogOK, LogsOK, AdminOK, DepositsOK
<1> QED  BY <1>2, <1>3, <1>4, <1>5 DEF CommonNext

LEMMA SwapInTokenType ==
    ASSUME NEW e \in MessageOutEvent
    PROVE  /\ SwapInToken(e) \in MessageInEvent
           /\ e.type # "MESSAGE" => SwapInToken(e) \in TokenEvent
<1>1. /\ InEvent(e) \in MessageInEvent /\ InEvent(e).type = e.type
      /\ e.from \in Chains /\ e.amount \in Nat
      /\ e.type # "MESSAGE" => e.token \in Tokens
  BY DEF InEvent, MessageInEvent, MessageOutEvent
<1>2. CASE e.type = "MESSAGE"  BY <1>1, <1>2 DEF SwapInToken
<1>3. CASE e.type # "MESSAGE"
  <2> DEFINE a == TargetAmount(e.token, e.from, Relay, e.amount)
  <2>1. a \in Nat  BY <1>1, <1>3, RelayIsChain, TargetAmountNat
  <2>2. SwapInToken(e) = [InEvent(e) EXCEPT !.amount = a]
    BY <1>3 DEF SwapInToken, InEvent
  <2> HIDE DEF a
  <2>3. SwapInToken(e) \in MessageInEvent /\ SwapInToken(e).type = e.type
    BY <1>1, <2>1, <2>2, AmountType
  <2> QED  BY <1>3, <2>3, IsTokenEvent
<1> QED  BY <1>2, <1>3

LEMMA MintedType ==
    ASSUME MoneyOK, NEW m \in TokenEvent
    PROVE  Minted(m) \in BooksType
<1> DEFINE ac == CheckAndMint(Relay, acct[Relay], m.token, m.amount)
<1>1. ac \in Account  BY MintType, RelayIsChain, TokenEventFields DEF MoneyOK
<1>2. Minted(m) = [Books EXCEPT !.acct = ac]  BY DEF Minted, Books
<1> HIDE DEF ac
<1> QED  BY <1>1, <1>2, BooksOK DEF BooksType

LEMMA RelayMessageInType ==
    ASSUME TypeOK, NEW e \in sent, RelayMessageIn(e)
    PROVE  TypeOK'
<1> USE TypeParts
<1> DEFINE m == SwapInToken(e)
<1>1. e \in MessageOutEvent /\ e.relay \in BOOLEAN  BY DEF LogsOK, MessageOutEvent
<1>2. m \in MessageInEvent /\ (e.type # "MESSAGE" => m \in TokenEvent)
  BY <1>1, SwapInTokenType
<1>3. /\ e.type # "DEPOSIT" => UNCHANGED depositIn
      /\ UNCHANGED <<nonce, paused, bridgeable, failedReceiver, sent, adminOps, registered>>
  BY DEF RelayMessageIn
<1>4. \/ e.type = "MESSAGE" /\ TransferRelay(m, e.relay, FALSE)
      \/ e.type = "DEPOSIT" /\ DepositIn(m, Minted(m))
      \/ e.type = "BRIDGE" /\ ChargeSource(m, e.relay, FALSE, Minted(m))
  <2>1. PICK n \in {SwapInToken(e)} :
          \/ e.type = "MESSAGE" /\ TransferRelay(n, e.relay, FALSE)
          \/ e.type = "DEPOSIT" /\ DepositIn(n, Minted(n))
          \/ e.type = "BRIDGE" /\ ChargeSource(n, e.relay, FALSE, Minted(n))
    BY Zenon DEF RelayMessageIn
  <2>2. n = m  BY <2>1
  <2> QED  BY <2>1, <2>2
<1> HIDE DEF m
<1>5. OrdersOK' /\ MoneyOK' /\ LogOK' /\ DepositsOK'
  <2>1. CASE e.type = "MESSAGE" /\ TransferRelay(m, e.relay, FALSE)
    BY <1>1, <1>2, <1>3, <2>1, TransferRelayType DEF DepositsOK
  <2>2. CASE e.type = "DEPOSIT" /\ DepositIn(m, Minted(m))
    <3>1. m \in TokenEvent /\ Minted(m) \in BooksType  BY <1>2, <2>2, MintedType
    <3> QED  BY <2>2, <3>1, DepositInType DEF DepositsOK
  <2>3. CASE e.type = "BRIDGE" /\ ChargeSource(m, e.relay, FALSE, Minted(m))
    <3>1. m \in TokenEvent /\ Minted(m) \in BooksType  BY <1>2, <2>3, MintedType
    <3>2. DepositsOK'  BY <1>3, <2>3 DEF DepositsOK
    <3> QED  BY <1>1, <2>3, <3>1, <3>2, ChargeSourceType
  <2> QED  BY <1>4, <2>1, <2>2, <2>3
<1> QED  BY <1>3, <1>5 DEF LogsOK, AdminOK

LEMMA RelayRetryMessageInType ==
    ASSUME TypeOK, NEW m \in failed[Relay], RelayRetryMessageIn(m)
    PROVE  TypeOK'
<1> USE TypeParts
<1>1. m \in MessageInEvent  BY RelayIsChain DEF OrdersOK
<1>2. /\ \/ m.type = "MESSAGE" /\ TransferRelay(m, TRUE, TRUE)
         \/ m.type # "MESSAGE" /\ SwapRelay(m, TRUE, TRUE, Books)
      /\ UNCHANGED <<nonce, paused, bridgeable, failedReceiver, sent, adminOps,
                     registered, depositIn>>
  BY DEF RelayRetryMessageIn
<1>3. OrdersOK' /\ MoneyOK' /\ LogOK'
  <2>1. CASE TransferRelay(m, TRUE, TRUE)  BY <1>1, <2>1, TransferRelayType
  <2>2. CASE m.type # "MESSAGE" /\ SwapRelay(m, TRUE, TRUE, Books)
    <3>1. m \in TokenEvent /\ Books \in BooksType  BY <1>1, <2>2, IsTokenEvent, BooksOK
    <3> QED  BY <2>2, <3>1, SwapRelayType
  <2> QED  BY <1>2, <2>1, <2>2
<1> QED  BY <1>2, <1>3 DEF LogsOK, AdminOK, DepositsOK

LEMMA RelayTransferOutType ==
    ASSUME TypeOK, NEW to \in Chains, NEW t \in Tokens, NEW relay \in BOOLEAN,
           NEW i \in Callers, RelayTransferOut(to, t, relay, i)
    PROVE  TypeOK'
<1> DEFINE e == [order |-> GetOrderId(Relay), type |-> "MESSAGE", from |-> Relay,
                 to |-> to, token |-> NoToken, amount |-> 0,
                 initiator |-> i, swap |-> FALSE, relay |-> relay]
<1> USE TypeParts, RelayIsChain
<1>1. /\ CollectMessageFee(Relay, to, t) /\ MessageOut(Relay, e)
      /\ EmitMessageRelay(InEvent(e))
      /\ UNCHANGED <<paused, bridgeable, failedReceiver, adminOps, registered, vault, depositIn>>
  BY DEF RelayTransferOut, relayVars
<1>2. GetOrderId(Relay) \in OrderIds  BY <1>1, GetOrderIdType DEF MessageOut
<1>3. e \in MessageOutEvent  BY <1>2 DEF MessageOutEvent, MessageTypes
<1> HIDE DEF e
<1>4. InEvent(e) \in MessageInEvent  BY <1>3, InEventType
<1>5. LogsOK'  BY <1>1, <1>3, MessageOutType
<1>6. acct' \in [Chains -> Account]  BY <1>1, CollectMessageFeeType
<1>7. OrdersOK' /\ LogOK'  BY <1>1, <1>4, EmitMessageRelayType DEF LogOK
<1> QED  BY <1>1, <1>5, <1>6, <1>7 DEF MoneyOK, AdminOK, DepositsOK

LEMMA RelaySwapOutTokenType ==
    ASSUME TypeOK, NEW to \in Chains, NEW t \in Tokens, NEW a \in Amounts,
           NEW relay \in BOOLEAN, NEW swap \in BOOLEAN, NEW i \in Callers,
           RelaySwapOutToken(to, t, a, relay, swap, i)
    PROVE  TypeOK'
<1> DEFINE e == [order |-> GetOrderId(Relay), type |-> "BRIDGE", from |-> Relay,
                 to |-> to, token |-> t, amount |-> a,
                 initiator |-> i, swap |-> swap, relay |-> relay]
           ac == TokenTransferIn(acct[Relay], t, a)
           bk == [Books EXCEPT !.acct = ac]
<1> USE TypeParts, RelayIsChain
<1>1. /\ a <= acct[Relay].held[t] /\ MessageOut(Relay, e)
      /\ ChargeSource(InEvent(e), relay, TRUE, bk)
      /\ UNCHANGED <<paused, bridgeable, failedReceiver, adminOps, registered, depositIn>>
  BY DEF RelaySwapOutToken, Books
<1>2. GetOrderId(Relay) \in OrderIds /\ a \in Nat
  BY <1>1, GetOrderIdType, BridgeAssumption DEF MessageOut
<1>3. e \in MessageOutEvent /\ e.token \in Tokens
  BY <1>2 DEF MessageOutEvent, MessageTypes
<1>4. ac \in Account  BY <1>1, <1>2, TransferInType DEF MoneyOK
<1> HIDE DEF e, ac
<1>5. InEvent(e) \in TokenEvent  BY <1>3, InEventType DEF TokenEvent
<1>6. bk \in BooksType  BY <1>4, BooksOK DEF BooksType
<1> HIDE DEF bk
<1>7. LogsOK'  BY <1>1, <1>3, MessageOutType
<1>8. OrdersOK' /\ MoneyOK' /\ LogOK'  BY <1>1, <1>5, <1>6, ChargeSourceType
<1> QED  BY <1>1, <1>7, <1>8 DEF AdminOK, DepositsOK

LEMMA RelayDepositTokenType ==
    ASSUME TypeOK, NEW t \in Tokens, NEW a \in Amounts, RelayDepositToken(t, a)
    PROVE  TypeOK'
<1> DEFINE ac == TokenTransferIn(acct[Relay], t, a)
           v == V!Deposit(vault[t], Relay, a)
           vs == [vault EXCEPT ![t] = v]
<1> USE TypeParts, RelayIsChain
<1>1. /\ a <= acct[Relay].held[t] /\ V!CanDeposit(vault[t])
      /\ SetBooks([acct |-> ac, vault |-> vs])
      /\ UNCHANGED <<nonce, orderList, paused, bridgeable, failedReceiver, sent, relayed,
                     failed, delivered, adminOps, registered, depositIn>>
  BY DEF RelayDepositToken, MoneyOK
<1>2. a \in Nat  BY BridgeAssumption
<1>3. ac \in Account  BY <1>1, <1>2, TransferInType DEF MoneyOK
<1>4. v \in V!Vault  BY <1>1, <1>2, DepositType DEF MoneyOK
<1> HIDE DEF ac, v
<1>5. vs \in [Tokens -> V!Vault]  BY <1>4 DEF MoneyOK
<1> HIDE DEF vs
<1>6. [acct |-> ac, vault |-> vs] \in BooksType  BY <1>3, <1>5 DEF BooksType
<1>7. MoneyOK'  BY <1>1, <1>6, SetBooksType
<1> QED  BY <1>1, <1>7 DEF OrdersOK, LogOK, LogsOK, AdminOK, DepositsOK

LEMMA WithdrawOpType ==
    ASSUME TypeOK, NEW t \in Tokens, NEW a \in Nat, a > 0, Withdraw(t, a)
    PROVE  TypeOK'
<1> DEFINE out == V!GetTokenAmount(vault[t], a)
           ac == TokenTransferOut(acct[Relay], t, out)
           v == V!Withdraw(vault[t], Relay, a)
           vs == [vault EXCEPT ![t] = v]
<1> USE TypeParts, RelayIsChain
<1>1. /\ a <= vault[t].shares /\ out <= acct[Relay].bal[t]
      /\ SetBooks([acct |-> ac, vault |-> vs])
      /\ UNCHANGED <<nonce, orderList, paused, bridgeable, failedReceiver, sent, relayed,
                     failed, delivered, adminOps, registered, depositIn>>
  BY DEF Withdraw, MoneyOK
<1>2. v \in V!Vault /\ out \in Nat  BY <1>1, TokenAmountWithin, WithdrawType DEF MoneyOK
<1> HIDE DEF out
<1>3. ac \in Account  BY <1>1, <1>2, TransferOutType DEF MoneyOK
<1> HIDE DEF ac, v
<1>4. vs \in [Tokens -> V!Vault]  BY <1>2 DEF MoneyOK
<1> HIDE DEF vs
<1>5. [acct |-> ac, vault |-> vs] \in BooksType  BY <1>3, <1>4 DEF BooksType
<1>6. MoneyOK'  BY <1>1, <1>5, SetBooksType
<1> QED  BY <1>1, <1>6 DEF OrdersOK, LogOK, LogsOK, AdminOK, DepositsOK

LEMMA RegisterChainType ==
    ASSUME TypeOK, NEW c \in LeafChains, NEW enable \in BOOLEAN, RegisterChain(c, enable)
    PROVE  TypeOK'
<1> USE TypeParts
<1>1. registered' \subseteq LeafChains
  <2>1. CASE enable  BY <2>1 DEF RegisterChain, AdminOK
  <2>2. CASE ~enable  BY <2>2 DEF RegisterChain, AdminOK
  <2> QED  BY <2>1, <2>2
<1> QED  BY <1>1 DEF RegisterChain, Administer, OrdersOK, MoneyOK, LogOK, LogsOK, AdminOK,
                     DepositsOK

-----------------------------------------------------------------------------
(* The theorem.                                                            *)

LEMMA InitType == Init => TypeOK
<1> SUFFICES ASSUME Init PROVE TypeOK  OBVIOUS
<1>1. /\ InitHeld \in [Chains -> [Tokens -> Nat]]
      /\ InitLiquidity \in [Chains -> [Tokens -> Nat]]
      /\ MaxNonce \in [Chains -> Nat]
  BY BridgeAssumption
<1>2. \A t \in Tokens, c \in Chains : Deposited(t, c) \in Nat
  BY <1>1, RelayIsChain, TargetAmountNat DEF Deposited
<1>3. ASSUME NEW t \in Tokens PROVE InitTotal(t) \in Nat
  <2>1. IsFiniteSet(Chains)  BY BridgeAssumption
  <2> QED  BY <1>2, <2>1, SumNat DEF InitTotal, SumFunction
<1>4. \A c \in Chains, t \in Tokens : InitBal(c, t) \in Nat  BY <1>1, <1>3 DEF InitBal
<1>5. \A t \in Tokens : InitVault(t) \in V!Vault
  <2> SUFFICES ASSUME NEW t \in Tokens PROVE InitVault(t) \in V!Vault  OBVIOUS
  <2>1. [c \in Chains |-> Deposited(t, c)] \in [Chains -> Int]  BY <1>2
  <2> QED  BY <1>3, <2>1 DEF InitVault, V!Vault
<1>6. Unknown \in OrderState  BY DEF Unknown, OrderState
<1>7. OrdersOK  BY <1>6 DEF Init, OrdersOK
<1>8. acct \in [Chains -> Account]
  <2> SUFFICES ASSUME NEW c \in Chains
               PROVE [bal |-> [t \in Tokens |-> InitBal(c, t)], held |-> InitHeld[c],
                      parked |-> [t \in Tokens |-> 0],
                      fee |-> [r \in FeeReceivers |-> [t \in Tokens |-> 0]]] \in Account
    BY DEF Init
  <2>1. [t \in Tokens |-> InitBal(c, t)] \in [Tokens -> Nat]  BY <1>4
  <2>2. [t \in Tokens |-> 0] \in [Tokens -> Nat]  OBVIOUS
  <2>3. [r \in FeeReceivers |-> [t \in Tokens |-> 0]] \in [FeeReceivers -> [Tokens -> Nat]]
    BY <2>2
  <2> QED  BY <1>1, <2>1, <2>2, <2>3 DEF Account
<1>9. MoneyOK  BY <1>5, <1>8 DEF Init, MoneyOK
<1>10. LogOK /\ LogsOK /\ AdminOK /\ DepositsOK
  BY <1>1 DEF Init, LogOK, LogsOK, AdminOK, DepositsOK
<1> QED  BY <1>7, <1>9, <1>10, TypeParts

LEMMA NextType == TypeOK /\ [Next]_vars => TypeOK'
<1> SUFFICES ASSUME TypeOK, [Next]_vars PROVE TypeOK'  OBVIOUS
<1> USE RelayIsChain
<1>1. ASSUME NEW c \in LeafChains, LeafNext(c), UNCHANGED relayVars
      PROVE  TypeOK'
  BY <1>1, TransferOutOpType, SwapOutTokenType, DepositTokenType, MessageInType,
     RetryMessageInType, CommonNextType DEF LeafNext
<1>2. CASE RelayNext
  <2>1. ASSUME NEW t \in Tokens, NEW a \in Amounts \cup {vault[t].shares}, a > 0,
               Withdraw(t, a)
        PROVE  TypeOK'
    <3>1. vault[t].shares \in Nat  BY DEF TypeOK, V!Vault
    <3>2. a \in Nat  BY <3>1, BridgeAssumption
    <3> QED  BY <2>1, <3>2, WithdrawOpType
  <2> QED  BY <1>2, <2>1, RelayTransferOutType, RelaySwapOutTokenType, RelayDepositTokenType,
              RelayMessageInType, RelayRetryMessageInType, RegisterChainType, CommonNextType
           DEF RelayNext
<1>3. CASE UNCHANGED vars
  BY <1>3 DEF vars, baseVars, relayVars, TypeOK
<1> QED  BY <1>1, <1>2, <1>3 DEF Next

\* In every reachable state every amount, balance, fee and vault is a natural
\* number: no check of the contracts is missing that a subtraction relies on.
THEOREM TypeCorrect == Spec => []TypeOK
BY InitType, NextType, PTL DEF Spec
=============================================================================
