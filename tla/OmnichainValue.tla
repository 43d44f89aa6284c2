--------------------------- MODULE OmnichainValue ---------------------------
(***************************************************************************)
(* Value: what the relay chain and each other chain are worth, and that    *)
(* the steps of the contracts move value between them and create none.     *)
(* Every step is one of three: it changes what no chain is worth, it leaves *)
(* tokens behind at the executor of a message, or it takes an amount off a *)
(* chain, which the relay gains, and gives another amount, perhaps of      *)
(* another token, to a chain, which the relay loses.                       *)
(***************************************************************************)
EXTENDS OmnichainFunds

\* An amount of the token u, seen from the token t; an amount of u on the chain d,
\* seen from t on c.
On(t, u, amount) == IF t = u THEN amount ELSE 0
OnAt(t, c, u, d, amount) == IF t = u /\ c = d THEN amount ELSE 0

\* What accounts outside the bridge hold, the failed receiver's among them.
HeldBy(ac, t) == ac.held[t] + ac.parked[t]

Going(t, c) == AmountSum(ToRelay(t, c))
Coming(t, c) == AmountSum(ToLeaf(t, c))
Denied(t, c) == AmountSum(Refused(t, c))

\* What the relay chain is worth in a token: what is held there and what is owed.
AtRelay(t) ==
    HeldBy(acct[Relay], t) + vault[t].total + FeeSum(acct[Relay], t) + AmountSum(Kept(t))

\* What another chain is worth, orders on the way to and from it included.
AtLeaf(t, c) == HeldBy(acct[c], t) + FeeSum(acct[c], t) + Going(t, c) + Coming(t, c)

\* What the relay chain knows of a chain, had it known of the deposits it refused.
Book(t, c) == vault[t].balance[c] + Denied(t, c)

\* What the relay chain is worth while the order m is in hand.
WealthOf(bk, m, t) == HeldBy(bk.acct, t) + Owes(bk, t) + Rest(m.order, t) + InHand(m, t)

-----------------------------------------------------------------------------
(* The logs behind the books.                                              *)

LogsFinite == IsFiniteSet(sent) /\ IsFiniteSet(relayed)

\* A message carries no token anywhere.
PlainLog ==
    /\ \A m \in relayed : m.type = "MESSAGE" => m.token = NoToken
    /\ \A m \in failed[Relay] : m.type = "MESSAGE" => m.token = NoToken

\* A chain has an entry only for what was sent to it.
SeenInv ==
    /\ \A o \in OrderIds : ~CheckOrder(Relay, o) => \E e \in sent : e.order = o
    /\ \A c \in LeafChains, o \in OrderIds :
        ~CheckOrder(c, o) => \E r \in relayed : r.order = o

DepositsSeen == \A o \in depositIn : ~CheckOrder(Relay, o)

BooksInv == LogsFinite /\ PlainLog /\ SeenInv /\ DepositsSeen

-----------------------------------------------------------------------------
(* The three kinds of steps.                                               *)

LeavesKept ==
    \A t \in Tokens, c \in LeafChains :
        AtLeaf(t, c)' = AtLeaf(t, c) /\ Book(t, c)' = Book(t, c)

Quiet == LeavesKept /\ \A t \in Tokens : AtRelay(t)' = AtRelay(t)

LeavesBehind ==
    /\ LeavesKept
    /\ \A t \in Tokens : AtRelay(t)' <= AtRelay(t)
    /\ \E e \in sent : e.type = "MESSAGE"

\* The relay takes b of s from chain f, in that chain's unit, and gives a of u for
\* chain d, in its own.
Exchange(s, f, b, u, d, a) ==
    /\ f = Relay => b = 0
    /\ d = Relay => a = 0
    /\ \A t \in Tokens :
        AtRelay(t)' = AtRelay(t) + On(t, s, TargetAmount(s, f, Relay, b)) - On(t, u, a)
    /\ \A t \in Tokens, c \in LeafChains :
        /\ AtLeaf(t, c)' = AtLeaf(t, c) - OnAt(t, c, s, f, b)
                           + OnAt(t, c, u, d, TargetAmount(u, Relay, d, a))
        /\ Scale[t][c] = Scale[t][Relay] =>
            Book(t, c)' = Book(t, c) + OnAt(t, c, s, f, b) - OnAt(t, c, u, d, a)

Exchanges ==
    \E s \in Tokens, u \in Tokens, f \in Chains, d \in Chains, a \in Nat, b \in Nat :
        Exchange(s, f, b, u, d, a)

ValueStep == Quiet \/ LeavesBehind \/ Exchanges

-----------------------------------------------------------------------------

(* Moving tokens.                                                          *)

LEMMA OnNat ==
    ASSUME NEW a \in Nat, NEW t, NEW u, NEW c, NEW d
    PROVE  On(t, u, a) \in Nat /\ OnAt(t, c, u, d, a) \in Nat
BY DEF On, OnAt

LEMMA HeldNat ==
    ASSUME NEW ac \in Account, NEW t \in Tokens
    PROVE  HeldBy(ac, t) \in Nat
BY DEF HeldBy, Account

LEMMA TransferOutHeld ==
    ASSUME NEW ac \in Account, NEW t \in Tokens, NEW a \in Nat, NEW s \in Tokens
    PROVE  HeldBy(TokenTransferOut(ac, t, a), s) = HeldBy(ac, s) + On(s, t, a)
<1>1. TokenTransferOut(ac, t, a).held[s] = ac.held[s] + On(s, t, a)
      /\ TokenTransferOut(ac, t, a).parked = ac.parked
  BY DEF TokenTransferOut, Account, On
<1>2. ac.held[s] \in Nat /\ ac.parked[s] \in Nat /\ On(s, t, a) \in Nat
  BY DEF Account, On
<1> QED  BY <1>1, <1>2 DEF HeldBy

LEMMA TransferInHeld ==
    ASSUME NEW ac \in Account, NEW t \in Tokens, NEW a \in Nat, NEW s \in Tokens
    PROVE  HeldBy(TokenTransferIn(ac, t, a), s) = HeldBy(ac, s) - On(s, t, a)
<1>1. TokenTransferIn(ac, t, a).held[s] = ac.held[s] - On(s, t, a)
      /\ TokenTransferIn(ac, t, a).parked = ac.parked
  BY DEF TokenTransferIn, Account, On
<1>2. ac.held[s] \in Nat /\ ac.parked[s] \in Nat /\ On(s, t, a) \in Nat
  BY DEF Account, On
<1> QED  BY <1>1, <1>2 DEF HeldBy

\* What goes to the failed receiver instead.
Park(ac, t, a) == [ac EXCEPT !.bal[t] = @ - a, !.parked[t] = @ + a]

LEMMA ParkHeld ==
    ASSUME NEW ac \in Account, NEW t \in Tokens, NEW a \in Nat, NEW s \in Tokens
    PROVE  HeldBy(Park(ac, t, a), s) = HeldBy(ac, s) + On(s, t, a)
           /\ Park(ac, t, a).fee = ac.fee
<1> DEFINE ad == Park(ac, t, a)
<1>1. ad.parked[s] = ac.parked[s] + On(s, t, a) /\ ad.held = ac.held /\ ad.fee = ac.fee
  BY DEF Account, On, OnAt, Park
<1>2. ac.held[s] \in Nat /\ ac.parked[s] \in Nat /\ On(s, t, a) \in Nat
  BY DEF Account, On, OnAt
<1> HIDE DEF ad
<1>3. HeldBy(ad, s) = HeldBy(ac, s) + On(s, t, a)  BY <1>1, <1>2 DEF HeldBy
<1> QED  BY <1>1, <1>3 DEF ad

\* Minting and burning are on the bridge's own balance.
LEMMA MintHeld ==
    ASSUME NEW c, NEW ac \in Account, NEW t, NEW a, NEW s
    PROVE  /\ HeldBy(CheckAndMint(c, ac, t, a), s) = HeldBy(ac, s)
           /\ CheckAndMint(c, ac, t, a).fee = ac.fee
BY DEF HeldBy, CheckAndMint, Account

LEMMA BurnHeld ==
    ASSUME NEW c, NEW ac \in Account, NEW t, NEW a, NEW s
    PROVE  /\ HeldBy(CheckAndBurn(c, ac, t, a), s) = HeldBy(ac, s)
           /\ CheckAndBurn(c, ac, t, a).fee = ac.fee
BY DEF HeldBy, CheckAndBurn, Account

LEMMA AddFeeHeld ==
    ASSUME NEW ac \in Account, NEW r, NEW t, NEW a, NEW s
    PROVE  HeldBy(AddFee(ac, r, t, a), s) = HeldBy(ac, s)
BY DEF HeldBy, AddFee, Account

\* A chain that pays a message out of what was held is worth what it was.
LEMMA MessageFeeHeld ==
    ASSUME NEW ac \in Account, NEW t \in Tokens, NEW a \in Nat, a <= ac.held[t],
           NEW s \in Tokens, NEW ad, ad = AddFee(TokenTransferIn(ac, t, a), "service", t, a)
    PROVE  HeldBy(ad, s) + FeeSum(ad, s) = HeldBy(ac, s) + FeeSum(ac, s)
<1> DEFINE ai == TokenTransferIn(ac, t, a)
<1>1. ai \in Account /\ HeldBy(ai, s) = HeldBy(ac, s) - On(s, t, a) /\ ai.fee = ac.fee
  BY TransferInType, TransferInHeld, TransferInFields
<1>2. ad = AddFee(ai, "service", t, a)  OBVIOUS
<1>3. "service" \in FeeReceivers  BY DEF FeeReceivers
<1> HIDE DEF ai
<1>4. FeeSum(ai, s) = FeeSum(ac, s)  BY <1>1, SameFees
<1>5. FeeSum(ad, s) = FeeSum(ai, s) + (IF s = t THEN a ELSE 0)
  BY <1>1, <1>2, <1>3, AddFeeSum
<1>6. HeldBy(ad, s) = HeldBy(ai, s)  BY <1>1, <1>2, AddFeeHeld
<1>7. FeeSum(ac, s) \in Nat /\ HeldBy(ac, s) \in Nat  BY FeeSumNat, HeldNat
<1> QED  BY <1>1, <1>4, <1>5, <1>6, <1>7 DEF On, OnAt

-----------------------------------------------------------------------------
(* Fees on the relay chain move what is in hand to who is owed.            *)

\* What updateVault does to the balance of the chain x.
VaultUpdates(v, c, a, d, b, f, x) ==
    V!UpdateVault(v, c, a, d, b, f).balance[x] = v.balance[x] + (On(x, c, a) - On(x, d, b))

LEMMA UpdateVaultBalance ==
    ASSUME NEW v \in V!Vault, NEW c \in Chains, NEW d \in Chains,
           NEW a \in Nat, NEW b \in Nat, NEW f \in Nat, NEW x \in Chains
    PROVE  VaultUpdates(v, c, a, d, b, f, x)
<1>1. v.balance \in [Chains -> Int]  BY DEF V!Vault
<1>2. V!UpdateVault(v, c, a, d, b, f).balance =
        [[v.balance EXCEPT ![c] = @ + a] EXCEPT ![d] = @ - b]
  BY DEF V!UpdateVault, V!Vault
<1>3. v.balance[x] \in Int  BY <1>1
<1> DEFINE w == [v.balance EXCEPT ![c] = @ + a]
<1>4. w \in [Chains -> Int] /\ w[x] = v.balance[x] + On(x, c, a)  BY <1>1, <1>3 DEF On, OnAt
<1>5. V!UpdateVault(v, c, a, d, b, f).balance = [w EXCEPT ![d] = @ - b]  BY <1>2
<1> HIDE DEF w
<1>6. [w EXCEPT ![d] = @ - b][x] = w[x] - On(x, d, b)  BY <1>4 DEF On, OnAt
<1>7. On(x, c, a) \in Nat /\ On(x, d, b) \in Nat  BY OnNat
<1> QED  BY <1>3, <1>4, <1>5, <1>6, <1>7 DEF VaultUpdates

LEMMA BalanceInt ==
    ASSUME NEW bk \in BooksType, NEW t \in Tokens, NEW c \in LeafChains
    PROVE  bk.vault[t].balance[c] \in Int
BY DEF BooksType, V!Vault, LeafChains

\* What _collectBridgeFee does to what is held and to the balance of the chain x.
FeeMoves(bk, m, base, prop, a, b, t, x) ==
    LET ck == CollectBridgeFee(bk, m, base, prop, a, b) IN
    /\ HeldBy(ck.acct, t) = HeldBy(bk.acct, t)
    /\ ck.vault[t].balance[x] =
         bk.vault[t].balance[x] + OnAt(t, x, m.token, m.from, a)
                                - OnAt(t, x, m.token, m.to, b)

LEMMA BridgeFeeMoves ==
    ASSUME NEW bk \in BooksType, NEW m \in TokenEvent, NEW base \in Nat,
           NEW prop \in Nat, NEW a \in Nat, NEW b \in Nat, NEW t \in Tokens,
           NEW x \in Chains
    PROVE  FeeMoves(bk, m, base, prop, a, b, t, x)
<1> DEFINE f == Share(DistributeRate.messenger, prop)
           g == Share(DistributeRate.protocol, prop)
           h == VaultShare(prop)
           a1 == AddFee(bk.acct, "messenger", m.token, f)
           a2 == AddFee(a1, "protocol", m.token, g)
           a3 == AddFee(a2, "base", m.token, base)
           ck == CollectBridgeFee(bk, m, base, prop, a, b)
<1>1. f \in Nat /\ g \in Nat /\ h \in Nat  BY ShareNat
<1>2. /\ bk.acct \in Account /\ bk.vault \in [Tokens -> V!Vault]
      /\ m.token \in Tokens /\ m.from \in Chains /\ m.to \in Chains
  BY TokenEventFields DEF BooksType
<1>3. ck.acct = a3
      /\ ck.vault = [bk.vault EXCEPT ![m.token] = V!UpdateVault(@, m.from, a, m.to, b, h)]
  BY DEF CollectBridgeFee
<1> HIDE DEF f, g, h, ck
<1>4. {"messenger", "protocol", "base"} \subseteq FeeReceivers  BY DEF FeeReceivers
<1>5. a1 \in Account /\ HeldBy(a1, t) = HeldBy(bk.acct, t)
  BY <1>1, <1>2, <1>4, AddFeeType, AddFeeHeld
<1> HIDE DEF a1
<1>6. a2 \in Account /\ HeldBy(a2, t) = HeldBy(a1, t)
  BY <1>1, <1>2, <1>4, <1>5, AddFeeType, AddFeeHeld
<1> HIDE DEF a2
<1>7. HeldBy(a3, t) = HeldBy(a2, t)  BY <1>6, AddFeeHeld
<1> HIDE DEF a3
<1>8. ck.vault[t].balance[x] =
        bk.vault[t].balance[x] + OnAt(t, x, m.token, m.from, a)
                               - OnAt(t, x, m.token, m.to, b)
  <2>1. CASE t = m.token
    <3>1. ck.vault[t] = V!UpdateVault(bk.vault[t], m.from, a, m.to, b, h)
      BY <1>2, <1>3, <2>1
    <3>2. ck.vault[t].balance[x] =
            bk.vault[t].balance[x] + On(x, m.from, a) - On(x, m.to, b)
      <4>1. bk.vault[t] \in V!Vault  BY <1>2
      <4>2. VaultUpdates(bk.vault[t], m.from, a, m.to, b, h, x)
        BY <1>1, <1>2, <4>1, UpdateVaultBalance
      <4> QED  BY <3>1, <4>2 DEF VaultUpdates
    <3> QED  BY <2>1, <3>2 DEF On, OnAt
  <2>2. CASE t # m.token
    <3>1. ck.vault[t] = bk.vault[t] /\ bk.vault[t].balance[x] \in Int
      BY <1>2, <1>3, <2>2 DEF V!Vault
    <3> QED  BY <2>2, <3>1 DEF On, OnAt
  <2> QED  BY <2>1, <2>2
<1> QED  BY <1>3, <1>5, <1>6, <1>7, <1>8 DEF FeeMoves, ck

LEMMA RestNat ==
    ASSUME OrdersOK, FiniteInv, NEW o, NEW t
    PROVE  Rest(o, t) \in Nat
BY KeptFinite

LEMMA InHandNat ==
    ASSUME NEW m \in MessageInEvent, NEW t
    PROVE  InHand(m, t) \in Nat
BY DEF InHand, MessageInEvent

LEMMA FromFeeBooks ==
    ASSUME NEW bk \in BooksType, NEW m \in TokenEvent, NEW t \in Tokens, NEW c \in LeafChains
    PROVE  /\ HeldBy(CollectFromFee(bk, m).acct, t) = HeldBy(bk.acct, t)
           /\ CollectFromFee(bk, m).vault[t].balance[c] =
                bk.vault[t].balance[c] + OnAt(t, c, m.token, m.from, m.amount)
<1> DEFINE fee == FromFeeOf(m)
           a == IF m.from = Relay THEN 0 ELSE m.amount
           ck == CollectBridgeFee(bk, m, 0, fee, a, 0)
<1>1. fee \in Nat /\ m.amount \in Nat /\ m.from \in Chains /\ c \in Chains /\ c # Relay
  BY FromFeeType, TokenEventFields DEF LeafChains
<1>2. a \in Nat /\ 0 \in Nat  BY <1>1
<1>3. CollectFromFee(bk, m) = ck  BY DEF CollectFromFee
<1>4. OnAt(t, c, m.token, m.from, a) = OnAt(t, c, m.token, m.from, m.amount)
  BY <1>1 DEF OnAt
<1>5. OnAt(t, c, m.token, m.to, 0) = 0 /\ OnAt(t, c, m.token, m.from, a) \in Nat
  BY <1>2, OnNat DEF OnAt
<1>6. bk.vault[t].balance[c] \in Int  BY <1>1 DEF BooksType, V!Vault
<1> HIDE DEF fee, a
<1>7. /\ HeldBy(ck.acct, t) = HeldBy(bk.acct, t)
      /\ ck.vault[t].balance[c] =
           bk.vault[t].balance[c] + OnAt(t, c, m.token, m.from, a)
                                  - OnAt(t, c, m.token, m.to, 0)
  <2>1. FeeMoves(bk, m, 0, fee, a, 0, t, c)  BY <1>1, <1>2, BridgeFeeMoves
  <2> QED  BY <2>1 DEF FeeMoves
<1> HIDE DEF ck
<1> QED  BY <1>3, <1>4, <1>5, <1>6, <1>7

LEMMA TochainFeeBooks ==
    ASSUME NEW bk \in BooksType, NEW m \in TokenEvent, NEW t \in Tokens, NEW c \in LeafChains
    PROVE  /\ HeldBy(CollectTochainFee(bk, m).acct, t) = HeldBy(bk.acct, t)
           /\ CollectTochainFee(bk, m).vault[t].balance[c] =
                bk.vault[t].balance[c] - OnAt(t, c, m.token, m.to, AfterTochainFee(m))
<1> DEFINE base == TochainFeesOf(m).base
           prop == TochainFeesOf(m).prop
           a == IF m.from = Relay THEN m.amount ELSE 0
           left == AfterTochainFee(m)
           ck == CollectBridgeFee(bk, m, base, prop, a, left)
<1>1. /\ base \in Nat /\ prop \in Nat /\ left \in Nat /\ m.amount \in Nat
      /\ m.from \in Chains /\ c \in Chains /\ c # Relay
  BY TochainFeesNat, TokenEventFields DEF LeafChains
<1>2. a \in Nat  BY <1>1
<1>3. CollectTochainFee(bk, m) = ck  BY DEF CollectTochainFee
<1>4. OnAt(t, c, m.token, m.from, a) = 0  BY <1>1 DEF OnAt
<1>5. OnAt(t, c, m.token, m.to, left) \in Nat  BY <1>1, OnNat
<1>6. bk.vault[t].balance[c] \in Int  BY <1>1 DEF BooksType, V!Vault
<1> HIDE DEF base, prop, a, left
<1>7. /\ HeldBy(ck.acct, t) = HeldBy(bk.acct, t)
      /\ ck.vault[t].balance[c] =
           bk.vault[t].balance[c] + OnAt(t, c, m.token, m.from, a)
                                  - OnAt(t, c, m.token, m.to, left)
  <2>1. FeeMoves(bk, m, base, prop, a, left, t, c)  BY <1>1, <1>2, BridgeFeeMoves
  <2> QED  BY <2>1 DEF FeeMoves
<1> HIDE DEF ck
<1> QED  BY <1>3, <1>4, <1>5, <1>6, <1>7 DEF left

LEMMA CutType ==
    ASSUME NEW m \in TokenEvent, NEW a \in Nat, NEW n, n = [m EXCEPT !.amount = a]
    PROVE  /\ n \in TokenEvent /\ n \in MessageInEvent /\ n.amount = a /\ n.order = m.order
           /\ n.token = m.token /\ n.type = m.type /\ n.from = m.from /\ n.to = m.to
<1>1. m \in MessageInEvent /\ m.token \in Tokens  BY TokenEventFields
<1> DEFINE k == [m EXCEPT !.amount = a]
<1>2. /\ k \in MessageInEvent /\ k.amount = a /\ k.order = m.order
      /\ k.token = m.token /\ k.type = m.type /\ k.from = m.from /\ k.to = m.to
  BY <1>1, AmountType
<1>3. n = k  OBVIOUS
<1> HIDE DEF k
<1> QED  BY <1>1, <1>2, <1>3 DEF TokenEvent

\* The source chain's fee: what it was charged is still there, and the book of the
\* source chain gains the whole amount.
LEMMA FromFeeMoves ==
    ASSUME OrdersOK, FiniteInv, NEW bk \in BooksType, NEW m \in TokenEvent, NEW t \in Tokens,
           NEW n \in TokenEvent, n.amount = m.amount - FromFeeOf(m), n.token = m.token,
           n.order = m.order
    PROVE  WealthOf(CollectFromFee(bk, m), n, t) = WealthOf(bk, m, t)
<1> DEFINE fee == FromFeeOf(m)
           ck == CollectFromFee(bk, m)
<1>1. fee \in Nat /\ fee <= m.amount /\ m.amount \in Nat
  BY FromFeeType, TokenEventFields
<1>2. PICK c \in Chains : TRUE  BY TokenEventFields
<1>3. Owes(ck, t) = Owes(bk, t) + (IF t = m.token THEN fee ELSE 0)
  BY FromFeeOwes
<1>4. HeldBy(ck.acct, t) = HeldBy(bk.acct, t)
  <2> DEFINE a == IF m.from = Relay THEN 0 ELSE m.amount
  <2>1. a \in Nat /\ 0 \in Nat  BY <1>1
  <2>2. ck = CollectBridgeFee(bk, m, 0, fee, a, 0)  BY DEF CollectFromFee
  <2> HIDE DEF a, fee, ck
  <2>3. FeeMoves(bk, m, 0, fee, a, 0, t, c)  BY <1>1, <1>2, <2>1, BridgeFeeMoves
  <2> QED  BY <2>2, <2>3 DEF FeeMoves
<1>5. Owes(bk, t) \in Nat /\ Rest(m.order, t) \in Nat /\ HeldBy(bk.acct, t) \in Nat
  BY OwesNat, RestNat, HeldNat DEF BooksType
<1> HIDE DEF fee, ck
<1>6. InHand(n, t) = InHand(m, t) - (IF t = m.token THEN fee ELSE 0)
      /\ InHand(m, t) \in Nat
  BY <1>1 DEF InHand, fee
<1>7. WealthOf(ck, n, t) = WealthOf(bk, m, t)
  BY <1>1, <1>3, <1>4, <1>5, <1>6 DEF WealthOf
<1> QED  BY <1>7 DEF ck

\* The target chain's fees: the same, and the book of the target chain loses what
\* they leave.
LEMMA TochainFeeMoves ==
    ASSUME OrdersOK, FiniteInv, NEW bk \in BooksType, NEW m \in TokenEvent, NEW t \in Tokens,
           NEW n \in TokenEvent, n.amount = AfterTochainFee(m), n.token = m.token,
           n.order = m.order
    PROVE  WealthOf(CollectTochainFee(bk, m), n, t) = WealthOf(bk, m, t)
<1> DEFINE base == TochainFeesOf(m).base
           prop == TochainFeesOf(m).prop
           fee == base + prop
           ck == CollectTochainFee(bk, m)
<1>1. /\ base \in Nat /\ prop \in Nat /\ AfterTochainFee(m) \in Nat /\ m.amount \in Nat
      /\ AfterTochainFee(m) = m.amount - base - prop
  BY TochainFeesNat, TokenEventFields DEF AfterTochainFee
<1>2. PICK c \in Chains : TRUE  BY TokenEventFields
<1>3. Owes(ck, t) = Owes(bk, t) + (IF t = m.token THEN fee ELSE 0)
  BY TochainFeeOwes
<1>4. HeldBy(ck.acct, t) = HeldBy(bk.acct, t)
  <2> DEFINE a == IF m.from = Relay THEN m.amount ELSE 0
             left == AfterTochainFee(m)
  <2>1. a \in Nat /\ left \in Nat  BY <1>1
  <2>2. ck = CollectBridgeFee(bk, m, base, prop, a, left)  BY DEF CollectTochainFee
  <2> HIDE DEF a, left, base, prop, ck
  <2>3. FeeMoves(bk, m, base, prop, a, left, t, c)  BY <1>1, <1>2, <2>1, BridgeFeeMoves
  <2> QED  BY <2>2, <2>3 DEF FeeMoves
<1>5. Owes(bk, t) \in Nat /\ Rest(m.order, t) \in Nat /\ HeldBy(bk.acct, t) \in Nat
  BY OwesNat, RestNat, HeldNat DEF BooksType
<1> HIDE DEF base, prop, ck
<1>6. fee \in Nat /\ AfterTochainFee(m) = m.amount - fee  BY <1>1
<1> HIDE DEF fee
<1>7. InHand(n, t) = InHand(m, t) - (IF t = m.token THEN fee ELSE 0)
      /\ InHand(m, t) \in Nat
  BY <1>1, <1>6 DEF InHand
<1>8. WealthOf(ck, n, t) = WealthOf(bk, m, t)
  BY <1>3, <1>4, <1>5, <1>6, <1>7 DEF WealthOf
<1> QED  BY <1>8 DEF ck

-----------------------------------------------------------------------------
(* How the processing of an order ends.                                    *)

RelaysTo(n, m, d, u, a) ==
    /\ n.order = m.order /\ n.type = m.type
    /\ n.token = u /\ n.to = d /\ n.amount = TargetAmount(u, Relay, d, a)

\* All the value is still on the relay chain, or an amount of it is relayed.
Outcome(m, bk, d, u, a) ==
    /\ \A c \in LeafChains : acct'[c] = acct[c]
    /\ \A t \in Tokens : AtRelay(t)' = WealthOf(bk, m, t) - On(t, u, a)
    /\ \A t \in Tokens, c \in LeafChains :
        vault'[t].balance[c] = bk.vault[t].balance[c] - OnAt(t, c, u, d, a)
    /\ \/ a = 0 /\ relayed' = relayed
       \/ d # Relay /\ \E n : RelaysTo(n, m, d, u, a) /\ relayed' = relayed \cup {n}

EndsWell(m, bk) == \E d \in Chains, u \in Tokens, a \in Nat : Outcome(m, bk, d, u, a)

LEMMA AtRelayEnds ==
    ASSUME NEW bk \in BooksType, acct'[Relay] = bk.acct, vault' = bk.vault, NEW t \in Tokens
    PROVE  AtRelay(t)' = HeldBy(bk.acct, t) + Owes(bk, t) + AmountSum(Kept(t)')
<1>1. AtRelay(t)' = HeldBy(bk.acct, t) + bk.vault[t].total + FeeSum(bk.acct, t)
                    + AmountSum(Kept(t)')
  BY DEF AtRelay, HeldBy, FeeSum
<1>2. /\ HeldBy(bk.acct, t) \in Nat /\ FeeSum(bk.acct, t) \in Nat
      /\ bk.vault[t].total \in Nat
  BY HeldNat, FeeSumNat DEF BooksType, V!Vault
<1> QED  BY <1>1, <1>2 DEF Owes

LEMMA WealthNat ==
    ASSUME OrdersOK, FiniteInv, NEW bk \in BooksType, NEW m \in MessageInEvent, NEW t \in Tokens
    PROVE  WealthOf(bk, m, t) \in Nat
<1>1. /\ HeldBy(bk.acct, t) \in Nat /\ Owes(bk, t) \in Nat
      /\ Rest(m.order, t) \in Nat /\ InHand(m, t) \in Nat
  BY HeldNat, OwesNat, RestNat, InHandNat DEF BooksType
<1> QED  BY <1>1 DEF WealthOf

LEMMA LeavesOfSetBooks ==
    ASSUME NEW bk, MoneyOK, SetBooks(bk)
    PROVE  /\ acct'[Relay] = bk.acct /\ vault' = bk.vault
           /\ \A c \in LeafChains : acct'[c] = acct[c]
BY RelayIsChain DEF SetBooks, MoneyOK, LeafChains

\* What is kept for a retry keeps its value.
LEMMA KeepForRetryEndsWell ==
    ASSUME OrdersOK, MoneyOK, FiniteInv, NEW bk \in BooksType, NEW m \in TokenEvent,
           KeepForRetry(m, bk)
    PROVE  EndsWell(m, bk)
<1>1. m \in MessageInEvent /\ m.token \in Tokens /\ m.to \in Chains  BY TokenEventFields
<1>2. SetBooks(bk) /\ StoreMessageData(Relay, m) /\ relayed' = relayed
  BY DEF KeepForRetry
<1>3. /\ acct'[Relay] = bk.acct /\ vault' = bk.vault
      /\ \A c \in LeafChains : acct'[c] = acct[c]
  BY <1>2, LeavesOfSetBooks
<1>4. ASSUME NEW t \in Tokens
      PROVE  AtRelay(t)' = WealthOf(bk, m, t) - On(t, m.token, 0)
  <2>1. AmountSum(Kept(t)') = Rest(m.order, t) + InHand(m, t)  BY <1>1, <1>2, RestStored
  <2>2. AtRelay(t)' = HeldBy(bk.acct, t) + Owes(bk, t) + AmountSum(Kept(t)')
    BY <1>3, AtRelayEnds
  <2>3. /\ HeldBy(bk.acct, t) \in Nat /\ Owes(bk, t) \in Nat
        /\ Rest(m.order, t) \in Nat /\ InHand(m, t) \in Nat
    BY <1>1, HeldNat, OwesNat, RestNat, InHandNat DEF BooksType
  <2>4. On(t, m.token, 0) = 0  BY DEF On
  <2> QED  BY <2>1, <2>2, <2>3, <2>4 DEF WealthOf
<1>5. ASSUME NEW t \in Tokens, NEW c \in LeafChains
      PROVE  vault'[t].balance[c] = bk.vault[t].balance[c] - OnAt(t, c, m.token, m.to, 0)
  <2>1. bk.vault[t].balance[c] \in Int  BY DEF BooksType, V!Vault, LeafChains
  <2>2. OnAt(t, c, m.token, m.to, 0) = 0  BY DEF OnAt
  <2> QED  BY <1>3, <2>1, <2>2
<1>6. Outcome(m, bk, m.to, m.token, 0)  BY <1>2, <1>3, <1>4, <1>5 DEF Outcome
<1> QED  BY <1>1, <1>6 DEF EndsWell

\* What was in hand is paid out.
LEMMA SwapInEndsWell ==
    ASSUME OrdersOK, MoneyOK, FiniteInv, NEW bk \in BooksType, NEW m \in TokenEvent,
           SwapIn(Relay, m, bk.acct), vault' = bk.vault, UNCHANGED relayed
    PROVE  EndsWell(m, bk)
<1> USE RelayIsChain
<1>1. m \in MessageInEvent /\ m.token \in Tokens /\ m.amount \in Nat /\ m.order \in OrderIds
      /\ m.to \in Chains /\ bk.acct \in Account /\ bk.vault \in [Tokens -> V!Vault]
  BY TokenEventFields DEF BooksType
<1> DEFINE ac == acct'[Relay]
<1>2. acct' \in [Chains -> Account]  BY SwapInType, <1>1
<1>3. /\ ac.fee = bk.acct.fee
      /\ \A s \in Tokens : HeldBy(ac, s) = HeldBy(bk.acct, s) + InHand(m, s)
      /\ \A c \in LeafChains : acct'[c] = acct[c]
  <2>0. \A s \in Tokens : InHand(m, s) = On(s, m.token, m.amount)  BY DEF InHand, On
  <2>1. CASE acct' = [acct EXCEPT ![Relay] = TokenTransferOut(bk.acct, m.token, m.amount)]
    <3>1. ac = TokenTransferOut(bk.acct, m.token, m.amount)  BY <2>1 DEF MoneyOK
    <3>2. ac.fee = bk.acct.fee  BY <1>1, <3>1, TransferOutFields
    <3>3. \A s \in Tokens : HeldBy(ac, s) = HeldBy(bk.acct, s) + On(s, m.token, m.amount)
      BY <1>1, <3>1, TransferOutHeld
    <3>4. \A c \in LeafChains : acct'[c] = acct[c]  BY <2>1 DEF MoneyOK, LeafChains
    <3> QED  BY <2>0, <3>2, <3>3, <3>4
  <2>2. CASE acct' = [acct EXCEPT ![Relay] =
                [bk.acct EXCEPT !.bal[m.token] = @ - m.amount,
                                !.parked[m.token] = @ + m.amount]]
    <3>1. ac = Park(bk.acct, m.token, m.amount)  BY <2>2 DEF MoneyOK, Park
    <3>2. ASSUME NEW s \in Tokens
          PROVE  HeldBy(ac, s) = HeldBy(bk.acct, s) + On(s, m.token, m.amount)
                 /\ ac.fee = bk.acct.fee
      <4> HIDE DEF ac
      <4> QED  BY <1>1, <3>1, ParkHeld
    <3>3. \A c \in LeafChains : acct'[c] = acct[c]  BY <2>2 DEF MoneyOK, LeafChains
    <3> QED  BY <1>1, <2>0, <3>2, <3>3
  <2> QED  BY <2>1, <2>2 DEF SwapIn
<1>4. ac \in Account  BY <1>2
<1> DEFINE ck == [acct |-> ac, vault |-> bk.vault]
<1>5. ck \in BooksType /\ ck.acct = ac /\ ck.vault = bk.vault
      /\ acct'[Relay] = ck.acct /\ vault' = ck.vault
  BY <1>1, <1>4 DEF BooksType
<1> HIDE DEF ac, ck
<1>6. Closes(m)  BY DEF SwapIn, EmitMessageIn, MarkProcessed, Closes
<1>7. ASSUME NEW t \in Tokens
      PROVE  AtRelay(t)' = WealthOf(bk, m, t) - On(t, m.token, 0)
  <2>1. AmountSum(Kept(t)') = Rest(m.order, t)  BY <1>1, <1>6, RestSettled DEF Closes
  <2>2. AtRelay(t)' = HeldBy(ck.acct, t) + Owes(ck, t) + AmountSum(Kept(t)')
    BY <1>5, AtRelayEnds
  <2>3. Owes(ck, t) = Owes(bk, t)  BY <1>3, <1>5, SameFees DEF Owes
  <2>4. /\ HeldBy(bk.acct, t) \in Nat /\ Owes(bk, t) \in Nat
        /\ Rest(m.order, t) \in Nat /\ InHand(m, t) \in Nat
    BY <1>1, HeldNat, OwesNat, RestNat, InHandNat
  <2>5. HeldBy(ck.acct, t) = HeldBy(bk.acct, t) + InHand(m, t)  BY <1>3, <1>5
  <2>6. On(t, m.token, 0) = 0  BY DEF On
  <2> QED  BY <2>1, <2>2, <2>3, <2>4, <2>5, <2>6 DEF WealthOf
<1>8. ASSUME NEW t \in Tokens, NEW c \in LeafChains
      PROVE  vault'[t].balance[c] = bk.vault[t].balance[c] - OnAt(t, c, m.token, m.to, 0)
  <2>1. bk.vault[t].balance[c] \in Int  BY <1>1 DEF V!Vault, LeafChains
  <2>2. OnAt(t, c, m.token, m.to, 0) = 0  BY DEF OnAt
  <2> QED  BY <2>1, <2>2
<1>9. Outcome(m, bk, m.to, m.token, 0)  BY <1>3, <1>7, <1>8 DEF Outcome
<1> QED  BY <1>1, <1>9 DEF EndsWell

\* Nothing is gained or lost between two moments of the same transaction.
LEMMA EndsWellFrom ==
    ASSUME NEW m, NEW n, NEW bk, NEW ck, EndsWell(n, ck), n.order = m.order, n.type = m.type,
           \A t \in Tokens : WealthOf(ck, n, t) = WealthOf(bk, m, t),
           \A t \in Tokens, c \in LeafChains :
                ck.vault[t].balance[c] = bk.vault[t].balance[c]
    PROVE  EndsWell(m, bk)
<1>1. PICK d \in Chains, u \in Tokens, a \in Nat : Outcome(n, ck, d, u, a)  BY DEF EndsWell
<1>2. ASSUME NEW k, RelaysTo(k, n, d, u, a)
      PROVE  RelaysTo(k, m, d, u, a)
  BY <1>2 DEF RelaysTo
<1>3. Outcome(m, bk, d, u, a)  BY <1>1, <1>2 DEF Outcome
<1> QED  BY <1>3 DEF EndsWell

\* The event that leaves the relay chain.
LEMMA RelayedEvent ==
    ASSUME NEW m \in TokenEvent, NEW n,
           n = [m EXCEPT !.amount = TargetAmount(m.token, Relay, m.to, @)]
    PROVE  /\ n.order = m.order /\ n.from = m.from
           /\ RelaysTo(n, m, m.to, m.token, m.amount)
<1> DEFINE a == TargetAmount(m.token, Relay, m.to, m.amount)
<1>1. n = [m EXCEPT !.amount = a]  BY DEF TokenEvent, MessageInEvent
<1>2. a \in Nat  BY RelayIsChain, TokenEventFields, TargetAmountNat
<1> HIDE DEF a
<1>3. /\ n.amount = a /\ n.order = m.order /\ n.token = m.token
      /\ n.type = m.type /\ n.from = m.from /\ n.to = m.to
  BY <1>1, <1>2, CutType
<1> QED  BY <1>3 DEF RelaysTo, a

\* What is relayed leaves the relay chain and the book of the target chain.
LEMMA RelayEndsWell ==
    ASSUME OrdersOK, MoneyOK, FiniteInv, NEW bk \in BooksType, NEW m \in TokenEvent, New(m),
           m.to # Relay, CanBurn(Relay, bk.acct, m.token, m.amount),
           NEW ck, ck.acct = CheckAndBurn(Relay, bk.acct, m.token, m.amount),
           ck.vault = bk.vault, SetBooks(ck),
           NEW n, n.order = m.order, n.from = m.from,
           RelaysTo(n, m, m.to, m.token, m.amount), EmitMessageRelay(n)
    PROVE  /\ \A c \in LeafChains : acct'[c] = acct[c]
           /\ \A t \in Tokens : AtRelay(t)' = WealthOf(bk, m, t) - On(t, m.token, m.amount)
           /\ vault' = bk.vault
           /\ \E k : RelaysTo(k, m, m.to, m.token, m.amount) /\ relayed' = relayed \cup {k}
<1>1. m \in MessageInEvent /\ m.token \in Tokens /\ m.amount \in Nat /\ m.order \in OrderIds
      /\ bk.acct \in Account /\ bk.vault \in [Tokens -> V!Vault]
  BY TokenEventFields DEF BooksType
<1>2. /\ acct'[Relay] = ck.acct /\ vault' = ck.vault
      /\ \A c \in LeafChains : acct'[c] = acct[c]
  BY LeavesOfSetBooks
<1>3. Closes(m)  BY EmitMessageRelayCloses
<1> DEFINE ac == CheckAndBurn(Relay, bk.acct, m.token, m.amount)
           dk == [acct |-> ac, vault |-> bk.vault]
<1>4. ac \in Account  BY <1>1, RelayIsChain, BurnType
<1>5. ac.fee = bk.acct.fee /\ \A t \in Tokens : HeldBy(ac, t) = HeldBy(bk.acct, t)
  BY <1>1, BurnHeld
<1> HIDE DEF ac
<1>6. /\ dk \in BooksType /\ dk.acct = ac /\ dk.vault = bk.vault
      /\ acct'[Relay] = dk.acct /\ vault' = dk.vault
  BY <1>1, <1>2, <1>4 DEF BooksType, ac
<1> HIDE DEF dk
<1>7. ASSUME NEW t \in Tokens
      PROVE  AtRelay(t)' = WealthOf(bk, m, t) - On(t, m.token, m.amount)
  <2>1. AmountSum(Kept(t)') = Rest(m.order, t)  BY <1>1, <1>3, RestSettled DEF Closes
  <2>2. AtRelay(t)' = HeldBy(dk.acct, t) + Owes(dk, t) + AmountSum(Kept(t)')
    BY <1>6, AtRelayEnds
  <2>3. Owes(dk, t) = Owes(bk, t)  BY <1>5, <1>6, SameFees DEF Owes
  <2>4. /\ HeldBy(bk.acct, t) \in Nat /\ Owes(bk, t) \in Nat
        /\ Rest(m.order, t) \in Nat /\ InHand(m, t) \in Nat
    BY <1>1, HeldNat, OwesNat, RestNat, InHandNat
  <2>5. HeldBy(dk.acct, t) = HeldBy(bk.acct, t)  BY <1>5, <1>6
  <2>6. On(t, m.token, m.amount) = InHand(m, t)  BY DEF On, InHand
  <2> QED  BY <2>1, <2>2, <2>3, <2>4, <2>5, <2>6 DEF WealthOf
<1>8. relayed' = relayed \cup {n}  BY DEF EmitMessageRelay
<1> QED  BY <1>2, <1>7, <1>8

LEMMA PayOrRelayEndsWell ==
    ASSUME OrdersOK, MoneyOK, FiniteInv, NEW m \in TokenEvent, NEW must \in BOOLEAN,
           NEW bk \in BooksType, New(m), PayOrRelay(m, must, bk)
    PROVE  EndsWell(m, bk)
<1> USE RelayIsChain
<1>1. PICK out \in {[m EXCEPT !.amount = AfterTochainFee(m)]}, ch \in {CollectTochainFee(bk, m)} :
        \/ out.amount = 0 /\ KeepForRetry(out, ch)
        \/ /\ m.to = Relay /\ SwapIn(Relay, out, ch.acct)
           /\ vault' = ch.vault /\ UNCHANGED relayed
        \/ /\ m.to # Relay
           /\ CanBurn(Relay, ch.acct, m.token, out.amount)
           /\ SetBooks([ch EXCEPT !.acct = CheckAndBurn(Relay, @, m.token, out.amount)])
           /\ EmitMessageRelay([out EXCEPT !.amount = TargetAmount(m.token, Relay, m.to, @)])
  BY DEF PayOrRelay
<1>2. AfterTochainFee(m) \in Nat /\ ch \in BooksType /\ ch = CollectTochainFee(bk, m)
  BY <1>1, TochainFeeType
<1>3. /\ out \in TokenEvent /\ out.amount = AfterTochainFee(m) /\ out.order = m.order
      /\ out.token = m.token /\ out.type = m.type /\ out.from = m.from /\ out.to = m.to
  <2>1. out = [m EXCEPT !.amount = AfterTochainFee(m)]  BY <1>1
  <2> QED  BY <1>2, <2>1, CutType
<1>4. \A t \in Tokens : WealthOf(ch, out, t) = WealthOf(bk, m, t)
  BY <1>2, <1>3, TochainFeeMoves
<1>5. \A t \in Tokens, c \in LeafChains :
        /\ ch.vault[t].balance[c] =
             bk.vault[t].balance[c] - OnAt(t, c, m.token, m.to, out.amount)
        /\ bk.vault[t].balance[c] \in Int
  BY <1>2, <1>3, TochainFeeBooks, BalanceInt
<1>6. CASE \/ out.amount = 0 /\ KeepForRetry(out, ch)
           \/ /\ m.to = Relay /\ SwapIn(Relay, out, ch.acct)
              /\ vault' = ch.vault /\ UNCHANGED relayed
  <2>1. EndsWell(out, ch)  BY <1>2, <1>3, <1>6, KeepForRetryEndsWell, SwapInEndsWell
  <2>2. \A t \in Tokens, c \in LeafChains : OnAt(t, c, m.token, m.to, out.amount) = 0
    BY <1>6 DEF OnAt, LeafChains
  <2>3. \A t \in Tokens, c \in LeafChains :
            ch.vault[t].balance[c] = bk.vault[t].balance[c]
    BY <1>5, <2>2
  <2> QED  BY <1>3, <1>4, <2>1, <2>3, EndsWellFrom
<1>7. CASE /\ m.to # Relay
           /\ CanBurn(Relay, ch.acct, m.token, out.amount)
           /\ SetBooks([ch EXCEPT !.acct = CheckAndBurn(Relay, @, m.token, out.amount)])
           /\ EmitMessageRelay([out EXCEPT !.amount = TargetAmount(m.token, Relay, m.to, @)])
  <2> DEFINE ck == [ch EXCEPT !.acct = CheckAndBurn(Relay, @, m.token, out.amount)]
             n == [out EXCEPT !.amount = TargetAmount(m.token, Relay, m.to, @)]
  <2>1. ck.acct = CheckAndBurn(Relay, ch.acct, out.token, out.amount) /\ ck.vault = ch.vault
    BY <1>2, <1>3 DEF BooksType
  <2>2. n = [out EXCEPT !.amount = TargetAmount(out.token, Relay, out.to, @)]  BY <1>3
  <2>3. SetBooks(ck) /\ EmitMessageRelay(n) /\ CanBurn(Relay, ch.acct, out.token, out.amount)
        /\ out.to # Relay
    BY <1>3, <1>7
  <2> HIDE DEF ck, n
  <2>4. n.order = out.order /\ n.from = out.from
        /\ RelaysTo(n, out, out.to, out.token, out.amount)
    BY <1>3, <2>2, RelayedEvent
  <2>5. New(out)  BY <1>3 DEF New
  <2>6. /\ \A c \in LeafChains : acct'[c] = acct[c]
        /\ \A t \in Tokens : AtRelay(t)' = WealthOf(ch, out, t) - On(t, out.token, out.amount)
        /\ vault' = ch.vault
        /\ \E k : RelaysTo(k, out, out.to, out.token, out.amount) /\ relayed' = relayed \cup {k}
    BY <1>2, <1>3, <2>1, <2>3, <2>4, <2>5, RelayEndsWell
  <2>7. Outcome(m, bk, m.to, m.token, out.amount)
    <3>1. PICK k : RelaysTo(k, out, out.to, out.token, out.amount) /\ relayed' = relayed \cup {k}
      BY <2>6
    <3>2. RelaysTo(k, m, m.to, m.token, out.amount)  BY <1>3, <3>1 DEF RelaysTo
    <3> QED  BY <1>3, <1>4, <1>5, <1>7, <2>6, <3>1, <3>2 DEF Outcome
  <2>8. m.to \in Chains /\ m.token \in Tokens /\ out.amount \in Nat
    BY <1>2, <1>3, TokenEventFields
  <2> QED  BY <2>7, <2>8 DEF EndsWell
<1> QED  BY <1>1, <1>6, <1>7

\* The executor takes what is in hand, and what it returns is in hand.
LEMMA ExecutorWealth ==
    ASSUME OrdersOK, FiniteInv, NEW bk \in BooksType, NEW m \in TokenEvent,
           NEW paid, paid = TokenTransferOut(bk.acct, m.token, m.amount),
           m.amount <= bk.acct.bal[m.token],
           NEW u \in Tokens, NEW a \in Nat, a <= paid.held[u],
           NEW ck, ck.acct = TokenTransferIn(paid, u, a), ck.vault = bk.vault,
           NEW n \in TokenEvent, n.order = m.order, n.token = u, n.amount = a,
           NEW t \in Tokens
    PROVE  WealthOf(ck, n, t) = WealthOf(bk, m, t)
<1>1. /\ m \in MessageInEvent /\ m.token \in Tokens /\ m.amount \in Nat
      /\ bk.acct \in Account
  BY TokenEventFields DEF BooksType
<1>2. /\ paid \in Account /\ paid.fee = bk.acct.fee
      /\ HeldBy(paid, t) = HeldBy(bk.acct, t) + On(t, m.token, m.amount)
  BY <1>1, TransferOutType, TransferOutFields, TransferOutHeld
<1>3. /\ ck.acct.fee = paid.fee /\ HeldBy(ck.acct, t) = HeldBy(paid, t) - On(t, u, a)
  BY <1>2, TransferInFields, TransferInHeld
<1>4. Owes(ck, t) = Owes(bk, t)  BY <1>2, <1>3, SameFees DEF Owes
<1>5. On(t, m.token, m.amount) = InHand(m, t) /\ On(t, u, a) = InHand(n, t)
  BY DEF On, InHand
<1>6. /\ HeldBy(bk.acct, t) \in Nat /\ Owes(bk, t) \in Nat
      /\ Rest(m.order, t) \in Nat /\ InHand(m, t) \in Nat /\ InHand(n, t) \in Nat
  BY SMTT(30), <1>1, HeldNat, OwesNat, RestNat, InHandNat, TokenEventFields
<1> QED  BY <1>2, <1>3, <1>4, <1>5, <1>6 DEF WealthOf

LEMMA SwapRelayEndsWell ==
    ASSUME OrdersOK, MoneyOK, FiniteInv, NEW m \in TokenEvent, NEW relay \in BOOLEAN,
           NEW must \in BOOLEAN, NEW bk \in BooksType, New(m),
           SwapRelay(m, relay, must, bk)
    PROVE  EndsWell(m, bk)
<1>1. /\ m \in MessageInEvent /\ m.token \in Tokens /\ m.amount \in Nat
      /\ bk.acct \in Account /\ bk.vault \in [Tokens -> V!Vault]
  BY TokenEventFields DEF BooksType
<1>2. CASE PayOrRelay(m, must, bk)  BY <1>2, PayOrRelayEndsWell
<1>3. CASE KeepForRetry(m, bk)  BY <1>3, KeepForRetryEndsWell
<1>4. ASSUME m.amount <= bk.acct.bal[m.token],
             NEW paid \in {TokenTransferOut(bk.acct, m.token, m.amount)},
             NEW t \in Tokens, NEW amount \in ExecutorAmounts, NEW swap \in BOOLEAN,
             amount <= paid.held[t],
             PayOrRelay([m EXCEPT !.token = t, !.amount = amount, !.swap = swap], must,
                        [bk EXCEPT !.acct = TokenTransferIn(paid, t, amount)])
      PROVE  EndsWell(m, bk)
  <2> DEFINE n == [m EXCEPT !.token = t, !.amount = amount, !.swap = swap]
             back == TokenTransferIn(paid, t, amount)
             ck == [bk EXCEPT !.acct = back]
  <2>1. amount \in Nat  BY <1>4, RelayAssumption
  <2>2. paid \in Account  BY <1>1, <1>4, TransferOutType
  <2>3. back \in Account  BY <1>4, <2>1, <2>2, TransferInType
  <2>4. n \in TokenEvent /\ n.order = m.order /\ n.from = m.from
        /\ n.token = t /\ n.amount = amount /\ n.type = m.type
    BY <1>1, <1>4, <2>1 DEF TokenEvent, MessageInEvent
  <2>5. PayOrRelay(n, must, ck)  BY <1>4
  <2> HIDE DEF back
  <2>6. ck \in BooksType /\ ck.vault = bk.vault /\ ck.acct = back
    BY <2>3 DEF BooksType
  <2> HIDE DEF n, ck
  <2>7. EndsWell(n, ck)
    <3>1. New(n)  BY <2>4 DEF New
    <3> QED  BY <2>4, <2>5, <2>6, <3>1, PayOrRelayEndsWell
  <2>8. ASSUME NEW s \in Tokens PROVE WealthOf(ck, n, s) = WealthOf(bk, m, s)
    <3>1. paid = TokenTransferOut(bk.acct, m.token, m.amount)  BY <1>4
    <3>2. ck.acct = TokenTransferIn(paid, t, amount)  BY <2>6 DEF back
    <3> QED  BY <1>4, <2>1, <2>4, <2>6, <3>1, <3>2, ExecutorWealth
  <2> QED  BY <2>4, <2>6, <2>7, <2>8, EndsWellFrom
<1> QED  BY <1>2, <1>3, <1>4 DEF SwapRelay

\* What an order from another chain brings is added to the book of that chain.
EndsCharged(m, bk) ==
    \E rest \in TokenEvent, ck \in BooksType :
        /\ rest.order = m.order /\ rest.type = m.type
        /\ \A t \in Tokens : WealthOf(ck, rest, t) = WealthOf(bk, m, t)
        /\ \A t \in Tokens, c \in LeafChains :
            ck.vault[t].balance[c] =
                bk.vault[t].balance[c] + OnAt(t, c, m.token, m.from, m.amount)
        /\ EndsWell(rest, ck)

LEMMA ChargeSourceEndsCharged ==
    ASSUME OrdersOK, MoneyOK, FiniteInv, NEW m \in TokenEvent, NEW relay \in BOOLEAN,
           NEW must \in BOOLEAN, NEW bk \in BooksType, New(m),
           ChargeSource(m, relay, must, bk)
    PROVE  EndsCharged(m, bk)
<1> DEFINE left == m.amount - FromFeeOf(m)
<1>1. left \in Nat /\ CollectFromFee(bk, m) \in BooksType
  BY FromFeeType, TokenEventFields
<1>2. PICK rest \in {[m EXCEPT !.amount = @ - FromFeeOf(m)]}, ch \in {CollectFromFee(bk, m)} :
        \/ KeepForRetry(rest, ch)
        \/ SwapRelay(rest, relay, must, ch)
  BY DEF ChargeSource
<1>3. rest = [m EXCEPT !.amount = left] /\ ch = CollectFromFee(bk, m)
  BY <1>2, TokenEventFields DEF MessageInEvent
<1>4. /\ rest \in TokenEvent /\ rest.amount = left /\ rest.order = m.order
      /\ rest.token = m.token /\ rest.type = m.type /\ rest.from = m.from
  <2> HIDE DEF left
  <2> QED  BY <1>1, <1>3, CutType
<1>5. ch \in BooksType /\ New(rest)  BY <1>1, <1>3, <1>4 DEF New
<1>6. \A t \in Tokens : WealthOf(ch, rest, t) = WealthOf(bk, m, t)
  BY <1>3, <1>4, FromFeeMoves
<1>7. \A t \in Tokens, c \in LeafChains :
        ch.vault[t].balance[c] = bk.vault[t].balance[c] + OnAt(t, c, m.token, m.from, m.amount)
  BY <1>3, FromFeeBooks
<1>8. EndsWell(rest, ch)
  BY <1>2, <1>4, <1>5, KeepForRetryEndsWell, SwapRelayEndsWell
<1> QED  BY <1>4, <1>5, <1>6, <1>7, <1>8 DEF EndsCharged

\* A deposit is in the vault and in the book, or it was paid out.
DepositEnds(m, bk) ==
    /\ \A c \in LeafChains : acct'[c] = acct[c]
    /\ relayed' = relayed
    /\ \A t \in Tokens : AtRelay(t)' = WealthOf(bk, m, t)
    /\ \/ /\ depositIn' = depositIn \cup {m.order}
          /\ \A t \in Tokens, c \in LeafChains :
                vault'[t].balance[c] =
                    bk.vault[t].balance[c] + OnAt(t, c, m.token, m.from, m.amount)
       \/ depositIn' = depositIn /\ vault' = bk.vault

LEMMA DepositFields ==
    ASSUME NEW v \in V!Vault, NEW c \in Chains, NEW a \in Nat, NEW x \in Chains
    PROVE  /\ V!Deposit(v, c, a).total = v.total + a
           /\ V!Deposit(v, c, a).balance[x] = v.balance[x] + On(x, c, a)
<1>1. v.balance \in [Chains -> Int] /\ v.balance[x] \in Int  BY DEF V!Vault
<1>2. /\ V!Deposit(v, c, a).total = v.total + a
      /\ V!Deposit(v, c, a).balance = [v.balance EXCEPT ![c] = @ + a]
  BY DEF V!Deposit, V!Vault
<1>3. [v.balance EXCEPT ![c] = @ + a][x] = v.balance[x] + On(x, c, a)  BY <1>1 DEF On
<1> QED  BY <1>2, <1>3

\* The handler settles the order with books of the same wealth.
LEMMA SettlesAt ==
    ASSUME OrdersOK, FiniteInv, NEW bk \in BooksType, NEW m \in MessageInEvent, Closes(m),
           NEW ck \in BooksType, acct'[Relay] = ck.acct, vault' = ck.vault, NEW t \in Tokens,
           HeldBy(ck.acct, t) + Owes(ck, t) = HeldBy(bk.acct, t) + Owes(bk, t) + InHand(m, t)
    PROVE  AtRelay(t)' = WealthOf(bk, m, t)
<1>1. m.order \in OrderIds  BY DEF MessageInEvent
<1>2. AmountSum(Kept(t)') = Rest(m.order, t)  BY <1>1, RestSettled DEF Closes
<1>3. AtRelay(t)' = HeldBy(ck.acct, t) + Owes(ck, t) + AmountSum(Kept(t)')
  BY AtRelayEnds
<1>4. /\ HeldBy(bk.acct, t) \in Nat /\ Owes(bk, t) \in Nat
      /\ Rest(m.order, t) \in Nat /\ InHand(m, t) \in Nat
      /\ HeldBy(ck.acct, t) \in Nat /\ Owes(ck, t) \in Nat
  BY HeldNat, OwesNat, RestNat, InHandNat DEF BooksType
<1> QED  BY <1>2, <1>3, <1>4 DEF WealthOf

LEMMA DepositInEnds ==
    ASSUME OrdersOK, MoneyOK, FiniteInv, NEW m \in TokenEvent, NEW bk \in BooksType,
           DepositIn(m, bk)
    PROVE  DepositEnds(m, bk)
<1> USE RelayIsChain
<1>1. m \in MessageInEvent /\ m.token \in Tokens /\ m.amount \in Nat /\ m.from \in Chains
      /\ bk.acct \in Account /\ bk.vault \in [Tokens -> V!Vault]
  BY TokenEventFields DEF BooksType
<1>2. Closes(m) /\ relayed' = relayed
  BY DEF DepositIn, EmitMessageIn, MarkProcessed, Closes
<1>3. CASE /\ V!CanDeposit(bk.vault[m.token])
           /\ SetBooks([bk EXCEPT !.vault[m.token] = V!Deposit(@, m.from, m.amount)])
           /\ depositIn' = depositIn \cup {m.order}
  <2> DEFINE w == V!Deposit(bk.vault[m.token], m.from, m.amount)
             ws == [bk.vault EXCEPT ![m.token] = w]
             ck == [bk EXCEPT !.vault = ws]
  <2>1. w \in V!Vault  BY <1>1, <1>3, DepositType
  <2>2. /\ w.total = bk.vault[m.token].total + m.amount
        /\ \A c \in LeafChains :
            w.balance[c] = bk.vault[m.token].balance[c] + On(c, m.from, m.amount)
    <3>1. bk.vault[m.token] \in V!Vault  BY <1>1
    <3>2. ASSUME NEW c \in Chains
          PROVE  /\ w.total = bk.vault[m.token].total + m.amount
                 /\ w.balance[c] = bk.vault[m.token].balance[c] + On(c, m.from, m.amount)
      BY <1>1, <3>1, DepositFields
    <3> HIDE DEF w
    <3> QED  BY <1>1, <3>2
  <2>3. SetBooks(ck)  BY <1>3 DEF BooksType
  <2> HIDE DEF w
  <2>4. ws \in [Tokens -> V!Vault]  BY <1>1, <2>1
  <2>5. ck \in BooksType /\ ck.acct = bk.acct /\ ck.vault = ws  BY <2>4 DEF BooksType
  <2>6. ASSUME NEW s \in Tokens
        PROVE  AtRelay(s)' = WealthOf(bk, m, s)
    <3>1. ws[s].total = bk.vault[s].total + InHand(m, s)
      <4>1. CASE s = m.token  BY <1>1, <2>2, <4>1 DEF InHand
      <4>2. CASE s # m.token
        <5>1. ws[s] = bk.vault[s] /\ bk.vault[s].total \in Nat  BY <1>1, <4>2 DEF V!Vault
        <5> QED  BY <4>2, <5>1 DEF InHand
      <4> QED  BY <4>1, <4>2
    <3>2. Owes(ck, s) = ws[s].total + FeeSum(bk.acct, s)  BY <2>5 DEF Owes
    <3>3. Owes(bk, s) = bk.vault[s].total + FeeSum(bk.acct, s)  BY DEF Owes
    <3>4. bk.vault[s].total \in Nat /\ FeeSum(bk.acct, s) \in Nat /\ InHand(m, s) \in Nat
          /\ HeldBy(bk.acct, s) \in Nat
      BY <1>1, FeeSumNat, HeldNat DEF V!Vault, InHand
    <3>5. acct'[Relay] = ck.acct /\ vault' = ck.vault  BY <2>3, LeavesOfSetBooks
    <3> HIDE DEF ws, ck
    <3>6. HeldBy(ck.acct, s) + Owes(ck, s) = HeldBy(bk.acct, s) + Owes(bk, s) + InHand(m, s)
      BY <2>5, <3>1, <3>2, <3>3, <3>4
    <3> QED  BY <1>1, <1>2, <2>5, <3>5, <3>6, SettlesAt
  <2>7. vault' = ws /\ \A c \in LeafChains : acct'[c] = acct[c]
    BY <2>3, <2>5, LeavesOfSetBooks
  <2>8. ASSUME NEW t \in Tokens, NEW c \in LeafChains
        PROVE  vault'[t].balance[c] =
                  bk.vault[t].balance[c] + OnAt(t, c, m.token, m.from, m.amount)
    <3>1. CASE t = m.token
      <4>1. vault'[t] = w  BY <1>1, <2>7, <3>1
      <4> QED  BY <2>2, <3>1, <4>1 DEF On, OnAt
    <3>2. CASE t # m.token
      <4>1. vault'[t] = bk.vault[t] /\ bk.vault[t].balance[c] \in Int
        BY <1>1, <2>7, <3>2, BalanceInt
      <4> QED  BY <3>2, <4>1 DEF OnAt
    <3> QED  BY <3>1, <3>2
  <2> QED  BY <1>2, <1>3, <2>6, <2>7, <2>8 DEF DepositEnds
<1>4. CASE /\ m.amount <= bk.acct.bal[m.token]
           /\ SetBooks([bk EXCEPT !.acct = TokenTransferOut(@, m.token, m.amount)])
           /\ UNCHANGED depositIn
  <2> DEFINE ac == TokenTransferOut(bk.acct, m.token, m.amount)
             ck == [bk EXCEPT !.acct = ac]
  <2>1. ac \in Account  BY <1>1, <1>4, TransferOutType
  <2>2. SetBooks(ck)  BY <1>4
  <2>3. ASSUME NEW s \in Tokens
        PROVE  ac.fee = bk.acct.fee /\ HeldBy(ac, s) = HeldBy(bk.acct, s) + InHand(m, s)
    <3>1. HeldBy(ac, s) = HeldBy(bk.acct, s) + On(s, m.token, m.amount)
      BY <1>1, TransferOutHeld
    <3>2. ac.fee = bk.acct.fee  BY <1>1, TransferOutFields
    <3>3. On(s, m.token, m.amount) = InHand(m, s)  BY DEF On, InHand
    <3> QED  BY <3>1, <3>2, <3>3
  <2> HIDE DEF ac
  <2>4. ck \in BooksType /\ ck.acct = ac /\ ck.vault = bk.vault  BY <2>1 DEF BooksType
  <2> HIDE DEF ck
  <2>5. /\ acct'[Relay] = ck.acct /\ vault' = ck.vault
        /\ \A c \in LeafChains : acct'[c] = acct[c]
    BY <2>2, LeavesOfSetBooks
  <2>6. ASSUME NEW s \in Tokens
        PROVE  AtRelay(s)' = WealthOf(bk, m, s)
    <3>1. Owes(ck, s) = Owes(bk, s)  BY <2>3, <2>4, SameFees DEF Owes
    <3>2. HeldBy(bk.acct, s) \in Nat /\ Owes(bk, s) \in Nat /\ InHand(m, s) \in Nat
      BY <1>1, HeldNat, OwesNat, InHandNat
    <3>3. HeldBy(ck.acct, s) + Owes(ck, s) = HeldBy(bk.acct, s) + Owes(bk, s) + InHand(m, s)
      BY <2>3, <2>4, <3>1, <3>2
    <3> QED  BY <1>1, <1>2, <2>4, <2>5, <3>3, SettlesAt
  <2> QED  BY <1>2, <1>4, <2>4, <2>5, <2>6 DEF DepositEnds
<1> QED  BY <1>3, <1>4 DEF DepositIn

-----------------------------------------------------------------------------
(* Messages.                                                               *)

\* A message leaves the books alone; its executor may leave tokens behind.
MessageEnds(m) ==
    /\ \A c \in LeafChains : acct'[c] = acct[c]
    /\ vault' = vault
    /\ \A t \in Tokens : AtRelay(t)' <= AtRelay(t)
    /\ relayed' = relayed \/ relayed' = relayed \cup {m}

LEMMA AtRelayIs ==
    ASSUME MoneyOK, NEW t \in Tokens
    PROVE  /\ AtRelay(t) = HeldBy(Books.acct, t) + Owes(Books, t) + AmountSum(Kept(t))
           /\ Books \in BooksType /\ Books.acct = acct[Relay] /\ Books.vault = vault
<1>1. Books \in BooksType /\ Books.acct = acct[Relay] /\ Books.vault = vault
  BY BooksOK DEF Books
<1>2. /\ HeldBy(Books.acct, t) \in Nat /\ FeeSum(Books.acct, t) \in Nat
      /\ Books.vault[t].total \in Nat
  BY <1>1, HeldNat, FeeSumNat DEF BooksType, V!Vault
<1>3. AtRelay(t) = HeldBy(Books.acct, t) + Books.vault[t].total + FeeSum(Books.acct, t)
                   + AmountSum(Kept(t))
  BY <1>1 DEF AtRelay
<1> QED  BY <1>1, <1>2, <1>3 DEF Owes

LEMMA MessageAtRelay ==
    ASSUME OrdersOK, MoneyOK, FiniteInv, NEW ck \in BooksType, SetBooks(ck), ck.vault = vault,
           ck.acct.fee = acct[Relay].fee, NEW t \in Tokens,
           HeldBy(ck.acct, t) <= HeldBy(acct[Relay], t),
           AmountSum(Kept(t)') = AmountSum(Kept(t))
    PROVE  AtRelay(t)' <= AtRelay(t)
<1>1. AtRelay(t) = HeldBy(Books.acct, t) + Owes(Books, t) + AmountSum(Kept(t))
      /\ Books \in BooksType /\ Books.acct = acct[Relay] /\ Books.vault = vault
  BY AtRelayIs
<1>2. acct'[Relay] = ck.acct /\ vault' = ck.vault  BY LeavesOfSetBooks
<1>3. AtRelay(t)' = HeldBy(ck.acct, t) + Owes(ck, t) + AmountSum(Kept(t)')
  BY <1>2, AtRelayEnds
<1>4. Owes(ck, t) = Owes(Books, t)  BY <1>1, SameFees DEF Owes
<1>5. /\ HeldBy(Books.acct, t) \in Nat /\ Owes(Books, t) \in Nat
      /\ HeldBy(ck.acct, t) \in Nat /\ AmountSum(Kept(t)) \in Nat
  BY <1>1, HeldNat, OwesNat, KeptFinite, AmountSumNat DEF BooksType
<1> QED  BY <1>1, <1>3, <1>4, <1>5

LEMMA TransferRelayEndsWell ==
    ASSUME OrdersOK, MoneyOK, FiniteInv, NEW m \in MessageInEvent, NEW relay \in BOOLEAN,
           NEW must \in BOOLEAN, New(m), m.token = NoToken,
           \A t \in Tokens : AmountSum(Kept(t)) = Rest(m.order, t),
           TransferRelay(m, relay, must)
    PROVE  MessageEnds(m)
<1> USE RelayIsChain
<1>1. Books \in BooksType /\ Books.acct = acct[Relay] /\ Books.vault = vault
      /\ acct[Relay] \in Account /\ m.order \in OrderIds
  BY BooksOK DEF Books, MoneyOK, MessageInEvent
<1>2. \A t \in Tokens : InHand(m, t) = 0  BY BridgeAssumption DEF InHand
<1>3. ASSUME Closes(m)
      PROVE  \A t \in Tokens : AmountSum(Kept(t)') = AmountSum(Kept(t))
  BY <1>1, <1>3, RestSettled DEF Closes
<1>4. ASSUME StoreMessageData(Relay, m)
      PROVE  \A t \in Tokens : AmountSum(Kept(t)') = AmountSum(Kept(t))
  <2>1. \A t \in Tokens : AmountSum(Kept(t)') = Rest(m.order, t) + InHand(m, t)
    BY <1>4, RestStored
  <2>2. \A t \in Tokens : Rest(m.order, t) \in Nat  BY RestNat
  <2> QED  BY <1>2, <2>1, <2>2
<1>5. ASSUME SetBooks(Books), \A t \in Tokens : AmountSum(Kept(t)') = AmountSum(Kept(t))
      PROVE  /\ \A c \in LeafChains : acct'[c] = acct[c]
             /\ vault' = vault
             /\ \A t \in Tokens : AtRelay(t)' <= AtRelay(t)
  <2>1. \A t \in Tokens : HeldBy(Books.acct, t) <= HeldBy(acct[Relay], t)
    BY <1>1, HeldNat
  <2> QED  BY <1>1, <1>5, <2>1, LeavesOfSetBooks, MessageAtRelay
<1>6. CASE EmitMessageIn(Relay, m) /\ SetBooks(Books) /\ UNCHANGED relayed
  <2>1. Closes(m)  BY <1>6 DEF EmitMessageIn, MarkProcessed, Closes
  <2> QED  BY <1>3, <1>5, <1>6, <2>1 DEF MessageEnds
<1>7. CASE StoreMessageData(Relay, m) /\ SetBooks(Books) /\ UNCHANGED relayed
  BY <1>4, <1>5, <1>7 DEF MessageEnds
<1>8. ASSUME NEW u \in Tokens, NEW a \in Nat, a <= acct[Relay].held[u],
             SetBooks([Books EXCEPT !.acct = TokenTransferIn(@, u, a)]), EmitMessageRelay(m)
      PROVE  MessageEnds(m)
  <2> DEFINE ac == TokenTransferIn(acct[Relay], u, a)
             ck == [Books EXCEPT !.acct = ac]
  <2>1. ac \in Account  BY <1>1, <1>8, TransferInType
  <2>2. SetBooks(ck)  BY <1>8 DEF Books
  <2>3. ac.fee = acct[Relay].fee  BY <1>1, TransferInFields
  <2>4. ASSUME NEW s \in Tokens PROVE HeldBy(ac, s) <= HeldBy(acct[Relay], s)
    <3>1. HeldBy(ac, s) = HeldBy(acct[Relay], s) - On(s, u, a)  BY <1>1, TransferInHeld
    <3>2. HeldBy(acct[Relay], s) \in Nat /\ On(s, u, a) \in Nat  BY <1>1, HeldNat, OnNat
    <3> QED  BY <3>1, <3>2
  <2> HIDE DEF ac
  <2>5. ck \in BooksType /\ ck.acct = ac /\ ck.vault = vault
    BY <1>1, <2>1 DEF BooksType, Books
  <2> HIDE DEF ck
  <2>6. Closes(m)  BY <1>8, EmitMessageRelayCloses
  <2>7. \A t \in Tokens : AtRelay(t)' <= AtRelay(t)
    BY <1>3, <2>2, <2>3, <2>4, <2>5, <2>6, MessageAtRelay
  <2>8. (\A c \in LeafChains : acct'[c] = acct[c]) /\ vault' = vault
    BY <2>2, <2>5, LeavesOfSetBooks
  <2>9. relayed' = relayed \cup {m}  BY <1>8 DEF EmitMessageRelay
  <2> QED  BY <2>7, <2>8, <2>9 DEF MessageEnds
<1>9. {0} \cup ExecutorAmounts \subseteq Nat  BY RelayAssumption
<1> QED  BY <1>6, <1>7, <1>8, <1>9 DEF TransferRelay, TransferIn, KeepForRetry

-----------------------------------------------------------------------------
(* Orders on their way: what a chain sent and the relay chain has not seen, *)
(* what was relayed and the target has not seen, and refused deposits.     *)

SameEntries(c) == \A o \in OrderIds : CheckOrder(c, o)' <=> CheckOrder(c, o)

\* The chain c sees the order o for the first time.
Sees(c, o) ==
    /\ CheckOrder(c, o)
    /\ \A p \in OrderIds : CheckOrder(c, p)' <=> (CheckOrder(c, p) /\ p # o)

LEMMA ToRelayFinite ==
    ASSUME LogsOK, LogsFinite, NEW t, NEW c
    PROVE  /\ IsFiniteSet(ToRelay(t, c)) /\ IsFiniteSet(Refused(t, c))
           /\ \A e \in ToRelay(t, c) \cup Refused(t, c) : e.amount \in Nat
           /\ Going(t, c) \in Nat /\ Denied(t, c) \in Nat
<1>1. ToRelay(t, c) \subseteq sent /\ Refused(t, c) \subseteq sent  BY DEF ToRelay, Refused
<1>2. IsFiniteSet(ToRelay(t, c)) /\ IsFiniteSet(Refused(t, c))
  BY <1>1, FS_Subset DEF LogsFinite
<1>3. \A e \in ToRelay(t, c) \cup Refused(t, c) : e.amount \in Nat
  BY <1>1 DEF LogsOK, MessageOutEvent
<1>4. AmountSum(ToRelay(t, c)) \in Nat /\ AmountSum(Refused(t, c)) \in Nat
  BY <1>2, <1>3, AmountSumNat
<1> QED  BY <1>2, <1>3, <1>4 DEF Going, Denied

LEMMA ToLeafFinite ==
    ASSUME LogOK, LogsFinite, NEW t, NEW c
    PROVE  /\ IsFiniteSet(ToLeaf(t, c))
           /\ \A m \in ToLeaf(t, c) : m.amount \in Nat
           /\ Coming(t, c) \in Nat
<1>1. ToLeaf(t, c) \subseteq relayed  BY DEF ToLeaf
<1>2. IsFiniteSet(ToLeaf(t, c))  BY <1>1, FS_Subset DEF LogsFinite
<1>3. \A m \in ToLeaf(t, c) : m.amount \in Nat  BY <1>1 DEF LogOK, MessageInEvent
<1>4. AmountSum(ToLeaf(t, c)) \in Nat  BY <1>2, <1>3, AmountSumNat
<1> QED  BY <1>2, <1>3, <1>4 DEF Coming

LEMMA GoingSame ==
    ASSUME LogsOK, sent' = sent, SameEntries(Relay), NEW t, NEW c
    PROVE  Going(t, c)' = Going(t, c)
<1>1. \A e \in sent : e.order \in OrderIds  BY DEF LogsOK, MessageOutEvent
<1>2. ToRelay(t, c)' = ToRelay(t, c)  BY <1>1 DEF ToRelay, SameEntries
<1> QED  BY <1>2 DEF Going

\* What a chain sends is on its way.
LEMMA GoingSent ==
    ASSUME LogsOK, LogsFinite, SeenInv, NEW e \in MessageOutEvent,
           sent' = sent \cup {e}, \A f \in sent : f.order # e.order, SameEntries(Relay),
           NEW t, NEW c \in LeafChains
    PROVE  Going(t, c)' = Going(t, c) + OnAt(t, c, e.token, e.from, e.amount)
<1>1. /\ \A f \in sent : f.order \in OrderIds
      /\ e.order \in OrderIds /\ e.amount \in Nat
  BY DEF LogsOK, MessageOutEvent
<1>2. CheckOrder(Relay, e.order)' /\ c # Relay
  BY <1>1 DEF SeenInv, SameEntries, LeafChains
<1>3. e \notin ToRelay(t, c)  BY DEF ToRelay
<1>4. /\ IsFiniteSet(ToRelay(t, c)) /\ Going(t, c) \in Nat
      /\ \A f \in ToRelay(t, c) : f.amount \in Nat
  BY ToRelayFinite
<1>5. CASE e.token = t /\ e.from = c
  <2>1. ToRelay(t, c)' = ToRelay(t, c) \cup {e}  BY <1>1, <1>2, <1>5 DEF ToRelay, SameEntries
  <2>2. AmountSum(ToRelay(t, c) \cup {e}) = AmountSum(ToRelay(t, c)) + e.amount
    BY <1>1, <1>3, <1>4, AmountSumAdd
  <2> QED  BY <1>5, <2>1, <2>2 DEF Going, OnAt
<1>6. CASE ~(e.token = t /\ e.from = c)
  <2>1. ToRelay(t, c)' = ToRelay(t, c)  BY <1>1, <1>6 DEF ToRelay, SameEntries
  <2>2. Going(t, c)' = Going(t, c)  BY <2>1 DEF Going
  <2>3. OnAt(t, c, e.token, e.from, e.amount) = 0  BY <1>6 DEF OnAt
  <2> QED  BY <1>4, <2>2, <2>3
<1> QED  BY <1>5, <1>6

\* What the relay chain sees is on its way no longer.
LEMMA GoingSeen ==
    ASSUME LogsOK, LogsFinite, SentOnce, NEW e \in sent, sent' = sent, Sees(Relay, e.order),
           NEW t, NEW c \in LeafChains
    PROVE  Going(t, c)' = Going(t, c) - OnAt(t, c, e.token, e.from, e.amount)
<1>1. /\ \A f \in sent : f.order \in OrderIds
      /\ e.order \in OrderIds /\ e.amount \in Nat /\ c # Relay
  BY DEF LogsOK, MessageOutEvent, LeafChains
<1> DEFINE S == ToRelay(t, c)'
<1>2. S = ToRelay(t, c) \ {e}  BY <1>1 DEF ToRelay, Sees, SentOnce
<1>3. /\ IsFiniteSet(ToRelay(t, c)) /\ Going(t, c) \in Nat
      /\ \A f \in ToRelay(t, c) : f.amount \in Nat
  BY ToRelayFinite
<1>4. Going(t, c)' = AmountSum(S) /\ Going(t, c) = AmountSum(ToRelay(t, c))  BY DEF Going
<1>5. e \in ToRelay(t, c) <=> (e.token = t /\ e.from = c)
  BY <1>1 DEF ToRelay, Sees
<1> HIDE DEF S
<1>6. CASE e.token = t /\ e.from = c
  <2>1. IsFiniteSet(S)  BY <1>2, <1>3, FS_Subset
  <2>2. e \notin S /\ S \cup {e} = ToRelay(t, c)  BY <1>2, <1>5, <1>6
  <2>3. \A f \in S \cup {e} : f.amount \in Nat  BY <1>3, <2>2
  <2>4. AmountSum(S \cup {e}) = AmountSum(S) + e.amount /\ AmountSum(S) \in Nat
    BY <2>1, <2>2, <2>3, AmountSumAdd, AmountSumNat
  <2>5. AmountSum(ToRelay(t, c)) = AmountSum(S) + e.amount  BY <2>2, <2>4
  <2>6. OnAt(t, c, e.token, e.from, e.amount) = e.amount  BY <1>6 DEF OnAt
  <2> QED  BY <1>1, <1>4, <2>4, <2>5, <2>6
<1>7. CASE ~(e.token = t /\ e.from = c)
  <2>1. S = ToRelay(t, c)  BY <1>2, <1>5, <1>7
  <2>2. OnAt(t, c, e.token, e.from, e.amount) = 0  BY <1>7 DEF OnAt
  <2> QED  BY <1>3, <1>4, <2>1, <2>2
<1> QED  BY <1>6, <1>7

LEMMA ComingSame ==
    ASSUME LogOK, relayed' = relayed, NEW t, NEW c, SameEntries(c)
    PROVE  Coming(t, c)' = Coming(t, c)
<1>1. \A m \in relayed : m.order \in OrderIds  BY DEF LogOK, MessageInEvent
<1>2. ToLeaf(t, c)' = ToLeaf(t, c)  BY <1>1 DEF ToLeaf, SameEntries
<1> QED  BY <1>2 DEF Coming

\* What is relayed is on its way.
LEMMA ComingRelayed ==
    ASSUME LogOK, LogsFinite, SeenInv, NEW n, n.order \in OrderIds, n.amount \in Nat,
           relayed' = relayed \cup {n}, \A r \in relayed : r.order # n.order,
           NEW t, NEW c \in LeafChains, SameEntries(c)
    PROVE  Coming(t, c)' = Coming(t, c) + OnAt(t, c, n.token, n.to, n.amount)
<1>1. \A r \in relayed : r.order \in OrderIds  BY DEF LogOK, MessageInEvent
<1>2. CheckOrder(c, n.order)'  BY <1>1 DEF SeenInv, SameEntries
<1>3. n \notin ToLeaf(t, c)  BY DEF ToLeaf
<1>4. /\ IsFiniteSet(ToLeaf(t, c)) /\ Coming(t, c) \in Nat
      /\ \A f \in ToLeaf(t, c) : f.amount \in Nat
  BY ToLeafFinite
<1>5. CASE n.token = t /\ n.to = c
  <2>1. ToLeaf(t, c)' = ToLeaf(t, c) \cup {n}  BY <1>1, <1>2, <1>5 DEF ToLeaf, SameEntries
  <2>2. AmountSum(ToLeaf(t, c) \cup {n}) = AmountSum(ToLeaf(t, c)) + n.amount
    BY <1>3, <1>4, AmountSumAdd
  <2> QED  BY <1>5, <2>1, <2>2 DEF Coming, OnAt
<1>6. CASE ~(n.token = t /\ n.to = c)
  <2>1. ToLeaf(t, c)' = ToLeaf(t, c)  BY <1>1, <1>6 DEF ToLeaf, SameEntries
  <2>2. Coming(t, c)' = Coming(t, c)  BY <2>1 DEF Coming
  <2>3. OnAt(t, c, n.token, n.to, n.amount) = 0  BY <1>6 DEF OnAt
  <2> QED  BY <1>4, <2>2, <2>3
<1> QED  BY <1>5, <1>6

\* What its target sees is on its way no longer.
LEMMA ComingSeen ==
    ASSUME LogOK, LogsFinite, RelayedOnce, NEW m \in relayed, relayed' = relayed,
           Sees(m.to, m.order), NEW t
    PROVE  Coming(t, m.to)' = Coming(t, m.to) - On(t, m.token, m.amount)
<1> DEFINE c == m.to
<1>1. /\ \A f \in relayed : f.order \in OrderIds
      /\ m.order \in OrderIds /\ m.amount \in Nat
  BY DEF LogOK, MessageInEvent
<1> DEFINE S == ToLeaf(t, c)'
<1>2. S = ToLeaf(t, c) \ {m}  BY <1>1 DEF ToLeaf, Sees, RelayedOnce
<1>3. /\ IsFiniteSet(ToLeaf(t, c)) /\ Coming(t, c) \in Nat
      /\ \A f \in ToLeaf(t, c) : f.amount \in Nat
  BY ToLeafFinite
<1>4. Coming(t, c)' = AmountSum(S) /\ Coming(t, c) = AmountSum(ToLeaf(t, c))  BY DEF Coming
<1>5. m \in ToLeaf(t, c) <=> m.token = t
  BY <1>1 DEF ToLeaf, Sees
<1> HIDE DEF S
<1>6. CASE m.token = t
  <2>1. IsFiniteSet(S)  BY <1>2, <1>3, FS_Subset
  <2>2. m \notin S /\ S \cup {m} = ToLeaf(t, c)  BY <1>2, <1>5, <1>6
  <2>3. \A f \in S \cup {m} : f.amount \in Nat  BY <1>3, <2>2
  <2>4. AmountSum(S \cup {m}) = AmountSum(S) + m.amount /\ AmountSum(S) \in Nat
    BY <2>1, <2>2, <2>3, AmountSumAdd, AmountSumNat
  <2>5. AmountSum(ToLeaf(t, c)) = AmountSum(S) + m.amount  BY <2>2, <2>4
  <2>6. On(t, m.token, m.amount) = m.amount  BY <1>6 DEF On
  <2> QED  BY <1>1, <1>4, <2>4, <2>5, <2>6
<1>7. CASE m.token # t
  <2>1. S = ToLeaf(t, c)  BY <1>2, <1>5, <1>7
  <2>2. On(t, m.token, m.amount) = 0  BY <1>7 DEF On
  <2> QED  BY <1>3, <1>4, <2>1, <2>2
<1> QED  BY <1>6, <1>7

\* A deposit that was not seen yet was not refused either.
LEMMA DeniedSame ==
    ASSUME LogsOK, sent \subseteq sent', sent' \subseteq MessageOutEvent,
           \A f \in sent' : f \in sent \/ CheckOrder(Relay, f.order),
           SameEntries(Relay), depositIn' = depositIn, NEW t, NEW c
    PROVE  Denied(t, c)' = Denied(t, c)
<1>1. \A f \in sent' : f.order \in OrderIds  BY DEF MessageOutEvent
<1>2. Refused(t, c)' = Refused(t, c)  BY <1>1 DEF Refused, SameEntries
<1> QED  BY <1>2 DEF Denied

LEMMA DeniedSeen ==
    ASSUME LogsOK, SentOnce, NEW e \in sent, sent' = sent, Sees(Relay, e.order),
           \/ e.type # "DEPOSIT" /\ depositIn' = depositIn
           \/ depositIn' = depositIn \cup {e.order},
           NEW t, NEW c
    PROVE  Denied(t, c)' = Denied(t, c)
<1>1. \A f \in sent : f.order \in OrderIds  BY DEF LogsOK, MessageOutEvent
<1>2. Refused(t, c)' = Refused(t, c)  BY <1>1 DEF Refused, Sees, SentOnce
<1> QED  BY <1>2 DEF Denied

LEMMA DeniedRefused ==
    ASSUME LogsOK, LogsFinite, DepositsOK, DepositsSeen, SentOnce, NEW e \in sent, sent' = sent,
           Sees(Relay, e.order), e.type = "DEPOSIT", depositIn' = depositIn,
           NEW t, NEW c
    PROVE  Denied(t, c)' = Denied(t, c) + OnAt(t, c, e.token, e.from, e.amount)
<1>1. /\ \A f \in sent : f.order \in OrderIds
      /\ e.order \in OrderIds /\ e.amount \in Nat
  BY DEF LogsOK, MessageOutEvent
<1>2. CheckOrder(Relay, e.order) /\ ~CheckOrder(Relay, e.order)' /\ e.order \notin depositIn
  BY <1>1 DEF Sees, DepositsSeen
<1>3. e \notin Refused(t, c)  BY <1>2 DEF Refused
<1>4. /\ IsFiniteSet(Refused(t, c)) /\ Denied(t, c) \in Nat
      /\ \A f \in Refused(t, c) : f.amount \in Nat
  BY ToRelayFinite
<1>5. CASE e.token = t /\ e.from = c
  <2>1. Refused(t, c)' = Refused(t, c) \cup {e}
    BY <1>1, <1>2, <1>5 DEF Refused, Sees, SentOnce
  <2>2. AmountSum(Refused(t, c) \cup {e}) = AmountSum(Refused(t, c)) + e.amount
    BY <1>1, <1>3, <1>4, AmountSumAdd
  <2> QED  BY <1>5, <2>1, <2>2 DEF Denied, OnAt
<1>6. CASE ~(e.token = t /\ e.from = c)
  <2>1. Refused(t, c)' = Refused(t, c)  BY <1>1, <1>6 DEF Refused, Sees, SentOnce
  <2>2. Denied(t, c)' = Denied(t, c)  BY <2>1 DEF Denied
  <2>3. OnAt(t, c, e.token, e.from, e.amount) = 0  BY <1>6 DEF OnAt
  <2> QED  BY <1>4, <2>2, <2>3
<1> QED  BY <1>5, <1>6

\* An entry that is written is known from then on.
LEMMA EntryWritten ==
    ASSUME OrdersOK, NEW c \in Chains, NEW o \in OrderIds, NEW x, x # Unknown,
           orderList' = [orderList EXCEPT ![c][o] = x]
    PROVE  /\ \A d \in Chains : d # c => SameEntries(d)
           /\ CheckOrder(c, o) => Sees(c, o)
           /\ ~CheckOrder(c, o) => SameEntries(c)
<1>1. \A d \in Chains, p \in OrderIds :
        orderList'[d][p] = IF d = c /\ p = o THEN x ELSE orderList[d][p]
  BY DEF OrdersOK
<1> QED  BY <1>1 DEF SameEntries, Sees, CheckOrder

\* Whatever the relay chain does with an order of another chain, it has seen it.
LEMMA HandledEntries ==
    ASSUME OrdersOK, NEW m, m.order \in OrderIds, NEW relay, NEW must, Handled(m, relay, must),
           m.from # Relay
    PROVE  /\ \A c \in LeafChains : SameEntries(c)
           /\ CheckOrder(Relay, m.order) => Sees(Relay, m.order)
           /\ ~CheckOrder(Relay, m.order) => SameEntries(Relay)
<1>1. PICK n : SameOrder(n, m) /\ Ends(n, m.to, must)  BY DEF Handled
<1>2. \E x : x # Unknown /\ orderList' = [orderList EXCEPT ![Relay][m.order] = x]
  <2>1. n.order = m.order /\ n.from = m.from  BY <1>1 DEF SameOrder
  <2>2. CASE EmitMessageIn(Relay, n)
    BY <2>1, <2>2, StagesDiffer DEF EmitMessageIn, MarkProcessed
  <2>3. CASE StoreMessageData(Relay, n)
    <3>1. Stored(n) # Unknown  BY DEF Stored, Unknown
    <3> QED  BY <2>1, <2>3, <3>1 DEF StoreMessageData
  <2>4. CASE EmitMessageRelay(n)
    BY <2>1, <2>4, StagesDiffer DEF EmitMessageRelay, RecordRelayed, MarkProcessed
  <2> QED  BY <1>1, <2>2, <2>3, <2>4 DEF Ends
<1> QED  BY <1>2, EntryWritten, RelayIsChain DEF LeafChains

\* An order that starts on the relay chain leaves no entry there.
LEMMA HandledHere ==
    ASSUME NEW m, m.from = Relay, m.to # Relay, NEW relay, Handled(m, relay, TRUE)
    PROVE  orderList' = orderList
BY DEF Handled, SameOrder, Ends, EmitMessageRelay, RecordRelayed

LEMMA TargetOfNone ==
    ASSUME NEW t \in Tokens, NEW c \in Chains, NEW d \in Chains
    PROVE  TargetAmount(t, c, d, 0) = 0
<1>1. Scale[t][c] \in Nat \ {0} /\ Scale[t][d] \in Nat  BY RegisterAssumption
<1>2. 0 * Scale[t][d] = 0  BY <1>1
<1>3. 0 \div Scale[t][c] = 0  BY <1>1
<1> QED  BY <1>2, <1>3 DEF TargetAmount

LEMMA AtRelayNat ==
    ASSUME OrdersOK, MoneyOK, FiniteInv, NEW t \in Tokens
    PROVE  AtRelay(t) \in Nat
<1>1. AtRelay(t) = HeldBy(Books.acct, t) + Owes(Books, t) + AmountSum(Kept(t))
      /\ Books \in BooksType
  BY AtRelayIs
<1>2. /\ HeldBy(Books.acct, t) \in Nat /\ Owes(Books, t) \in Nat
      /\ AmountSum(Kept(t)) \in Nat
  BY <1>1, HeldNat, OwesNat, KeptFinite, AmountSumNat DEF BooksType
<1> QED  BY <1>1, <1>2

\* What another chain is worth, apart from what is on its way.
OnLeaf(ac, t) == HeldBy(ac, t) + FeeSum(ac, t)

LEMMA AtLeafIs ==
    ASSUME MoneyOK, LogOK, LogsOK, LogsFinite, NEW t \in Tokens, NEW c \in LeafChains
    PROVE  /\ OnLeaf(acct[c], t) \in Nat
           /\ AtLeaf(t, c) = OnLeaf(acct[c], t) + (Going(t, c) + Coming(t, c))
           /\ Going(t, c) \in Nat /\ Coming(t, c) \in Nat /\ Denied(t, c) \in Nat
           /\ vault[t].balance[c] \in Int
<1>1. c \in Chains  BY DEF LeafChains
<1>2. HeldBy(acct[c], t) \in Nat /\ FeeSum(acct[c], t) \in Nat
  BY <1>1, HeldNat, FeeSumNat DEF MoneyOK
<1>3. Going(t, c) \in Nat /\ Coming(t, c) \in Nat /\ Denied(t, c) \in Nat
  BY ToRelayFinite, ToLeafFinite
<1>4. AtLeaf(t, c) = OnLeaf(acct[c], t) + (Going(t, c) + Coming(t, c))
  BY <1>2, <1>3 DEF AtLeaf, OnLeaf
<1>5. vault[t].balance[c] \in Int  BY <1>1 DEF MoneyOK, V!Vault
<1> QED  BY <1>2, <1>3, <1>4, <1>5 DEF OnLeaf

LEMMA AtLeafNext ==
    ASSUME NEW t \in Tokens, NEW c, acct'[c] \in Account, Going(t, c)' \in Int,
           Coming(t, c)' \in Int
    PROVE  AtLeaf(t, c)' = OnLeaf(acct'[c], t) + (Going(t, c)' + Coming(t, c)')
<1>1. HeldBy(acct'[c], t) \in Nat /\ FeeSum(acct'[c], t) \in Nat
  BY HeldNat, FeeSumNat
<1>2. AtLeaf(t, c)' = HeldBy(acct'[c], t) + FeeSum(acct'[c], t) + Going(t, c)' + Coming(t, c)'
  BY DEF AtLeaf, HeldBy, FeeSum
<1> QED  BY <1>1, <1>2 DEF OnLeaf

LEMMA LeafKept ==
    ASSUME MoneyOK, LogOK, LogsOK, LogsFinite, NEW t \in Tokens, NEW c \in LeafChains,
           OnLeaf(acct'[c], t) = OnLeaf(acct[c], t), acct'[c] \in Account,
           NEW x \in Int, NEW y \in Int,
           Going(t, c)' = Going(t, c) - x, Coming(t, c)' = Coming(t, c) + y
    PROVE  AtLeaf(t, c)' = AtLeaf(t, c) - x + y
<1>1. /\ OnLeaf(acct[c], t) \in Nat
      /\ AtLeaf(t, c) = OnLeaf(acct[c], t) + (Going(t, c) + Coming(t, c))
      /\ Going(t, c) \in Nat /\ Coming(t, c) \in Nat
  BY AtLeafIs
<1>2. Going(t, c)' \in Int /\ Coming(t, c)' \in Int  BY <1>1
<1>3. AtLeaf(t, c)' = OnLeaf(acct'[c], t) + (Going(t, c)' + Coming(t, c)')
  BY <1>2, AtLeafNext
<1> QED  BY <1>1, <1>3

\* What is relayed is on its way to its target.
LEMMA OutcomeComing ==
    ASSUME LogOK, LogsFinite, SeenInv, NEW m, m.order \in OrderIds,
           \A r \in relayed : r.order # m.order,
           NEW d \in Chains, NEW u \in Tokens, NEW a \in Nat,
           \/ a = 0 /\ relayed' = relayed
           \/ \E n : RelaysTo(n, m, d, u, a) /\ relayed' = relayed \cup {n},
           NEW t \in Tokens, NEW c \in LeafChains, SameEntries(c)
    PROVE  Coming(t, c)' = Coming(t, c) + OnAt(t, c, u, d, TargetAmount(u, Relay, d, a))
<1>1. CASE a = 0 /\ relayed' = relayed
  <2>1. Coming(t, c)' = Coming(t, c)  BY <1>1, ComingSame
  <2>2. OnAt(t, c, u, d, TargetAmount(u, Relay, d, a)) = 0
    BY <1>1, TargetOfNone, RelayIsChain DEF OnAt
  <2>3. Coming(t, c) \in Nat  BY ToLeafFinite
  <2> QED  BY <2>1, <2>2, <2>3
<1>2. ASSUME NEW n, RelaysTo(n, m, d, u, a), relayed' = relayed \cup {n}
      PROVE  Coming(t, c)' = Coming(t, c) + OnAt(t, c, u, d, TargetAmount(u, Relay, d, a))
  <2>1. /\ n.order = m.order /\ n.token = u /\ n.to = d
        /\ n.amount = TargetAmount(u, Relay, d, a)
    BY <1>2 DEF RelaysTo
  <2>2. n.amount \in Nat  BY <2>1, TargetAmountNat, RelayIsChain
  <2>3. Coming(t, c)' = Coming(t, c) + OnAt(t, c, n.token, n.to, n.amount)
    BY <1>2, <2>1, <2>2, ComingRelayed
  <2> QED  BY <2>1, <2>3
<1> QED  BY <1>1, <1>2

\* The processing of an order exchanges what it brought for what it relays.
LEMMA OutcomeExchanges ==
    ASSUME OrdersOK, MoneyOK, LogOK, LogsOK, FiniteInv, LogsFinite, SeenInv,
           NEW s \in Tokens, NEW f \in Chains, NEW b \in Nat, f = Relay => b = 0,
           NEW m, m.order \in OrderIds, \A r \in relayed : r.order # m.order,
           NEW ck \in BooksType, EndsWell(m, ck), \A c \in LeafChains : SameEntries(c),
           \A t \in Tokens : WealthOf(ck, m, t) = AtRelay(t) + On(t, s, TargetAmount(s, f, Relay, b)),
           \A t \in Tokens, c \in LeafChains :
                /\ Going(t, c)' = Going(t, c) - OnAt(t, c, s, f, b)
                /\ Denied(t, c)' = Denied(t, c)
                /\ Scale[t][c] = Scale[t][Relay] =>
                    ck.vault[t].balance[c] = vault[t].balance[c] + OnAt(t, c, s, f, b)
    PROVE  Exchanges
<1>1. PICK d \in Chains, u \in Tokens, a \in Nat : Outcome(m, ck, d, u, a)  BY DEF EndsWell
<1>2. d = Relay => a = 0  BY <1>1 DEF Outcome
<1>3. TargetAmount(s, f, Relay, b) \in Nat /\ TargetAmount(u, Relay, d, a) \in Nat
  BY TargetAmountNat, RelayIsChain
<1>4. ASSUME NEW t \in Tokens
      PROVE  AtRelay(t)' = AtRelay(t) + On(t, s, TargetAmount(s, f, Relay, b)) - On(t, u, a)
  <2>1. AtRelay(t)' = WealthOf(ck, m, t) - On(t, u, a)  BY <1>1 DEF Outcome
  <2>2. /\ On(t, s, TargetAmount(s, f, Relay, b)) \in Nat /\ On(t, u, a) \in Nat
        /\ AtRelay(t) \in Nat
    BY <1>3, OnNat, AtRelayNat
  <2> QED  BY <2>1, <2>2
<1>5. ASSUME NEW t \in Tokens, NEW c \in LeafChains
      PROVE  AtLeaf(t, c)' = AtLeaf(t, c) - OnAt(t, c, s, f, b)
                             + OnAt(t, c, u, d, TargetAmount(u, Relay, d, a))
  <2>1. Coming(t, c)' = Coming(t, c) + OnAt(t, c, u, d, TargetAmount(u, Relay, d, a))
    <3>1. \/ a = 0 /\ relayed' = relayed
          \/ \E n : RelaysTo(n, m, d, u, a) /\ relayed' = relayed \cup {n}
      BY <1>1 DEF Outcome
    <3> QED  BY <3>1, OutcomeComing
  <2>2. OnAt(t, c, s, f, b) \in Int /\ OnAt(t, c, u, d, TargetAmount(u, Relay, d, a)) \in Int
    BY <1>3, OnNat
  <2>3. acct'[c] = acct[c] /\ acct[c] \in Account
    BY <1>1, RelayIsChain DEF Outcome, MoneyOK
  <2> QED  BY <2>1, <2>2, <2>3, LeafKept
<1>6. ASSUME NEW t \in Tokens, NEW c \in LeafChains, Scale[t][c] = Scale[t][Relay]
      PROVE  Book(t, c)' = Book(t, c) + OnAt(t, c, s, f, b) - OnAt(t, c, u, d, a)
  <2>1. vault'[t].balance[c] = ck.vault[t].balance[c] - OnAt(t, c, u, d, a)
    BY <1>1 DEF Outcome
  <2>2. ck.vault[t].balance[c] = vault[t].balance[c] + OnAt(t, c, s, f, b)  BY <1>6
  <2>3. /\ OnAt(t, c, s, f, b) \in Nat /\ OnAt(t, c, u, d, a) \in Nat
        /\ Denied(t, c) \in Nat /\ vault[t].balance[c] \in Int
    BY OnNat, AtLeafIs
  <2>4. Book(t, c)' = vault'[t].balance[c] + Denied(t, c)'  BY DEF Book
  <2>5. Book(t, c) = vault[t].balance[c] + Denied(t, c)  BY DEF Book
  <2> QED  BY <2>1, <2>2, <2>3, <2>4, <2>5
<1>7. Exchange(s, f, b, u, d, a)  BY <1>2, <1>4, <1>5, <1>6 DEF Exchange
<1> QED  BY <1>7 DEF Exchanges

-----------------------------------------------------------------------------
(* The operations of the relay chain on orders.                            *)

ValueInv == TypeOK /\ OrdersInv /\ FundsInv /\ BooksInv

\* An event of another chain, and what the relay chain makes of it.
Comes(m, e) ==
    /\ e \in MessageOutEvent /\ e.from \in LeafChains /\ e.relay \in BOOLEAN
    /\ m \in MessageInEvent /\ Tells(m, e) /\ m.token = e.token
    /\ e.type # "MESSAGE" =>
        m \in TokenEvent /\ m.amount = TargetAmount(e.token, e.from, Relay, e.amount)
    /\ CheckOrder(Relay, m.order) /\ sent' = sent
    /\ \A r \in relayed : r.order # m.order
    /\ e.type # "DEPOSIT" => depositIn' = depositIn
    /\ \/ e.type = "MESSAGE" /\ TransferRelay(m, e.relay, FALSE)
       \/ e.type = "DEPOSIT" /\ DepositIn(m, Minted(m))
       \/ e.type = "BRIDGE" /\ ChargeSource(m, e.relay, FALSE, Minted(m))
    /\ \E relay, must : Handled(m, relay, must)

LEMMA MessageComes ==
    ASSUME TypeOK, OrdersInv, NEW e \in sent, RelayMessageIn(e)
    PROVE  \E m : Comes(m, e)
<1> DEFINE m == SwapInToken(e)
<1>1. e \in MessageOutEvent /\ e.relay \in BOOLEAN /\ e.from \in LeafChains /\ e.from # Relay
  BY DEF TypeOK, MessageOutEvent, RelayMessageIn, LeafChains
<1>2. m \in MessageInEvent /\ (e.type # "MESSAGE" => m \in TokenEvent)
  BY <1>1, SwapInTokenType
<1>3. /\ Tells(m, e) /\ m.token = e.token /\ m.order = e.order /\ m.to = e.to /\ m.from = e.from
      /\ e.type # "MESSAGE" => m.amount = TargetAmount(e.token, e.from, Relay, e.amount)
  <2>1. Tells(InEvent(e), e) /\ InEvent(e).token = e.token /\ InEvent(e) \in MessageInEvent
        /\ InEvent(e).amount = e.amount
    BY <1>1, InEventType DEF Tells, InEvent
  <2> QED  BY <2>1 DEF SwapInToken, Tells, MessageInEvent
<1>4. /\ CheckOrder(Relay, e.order) /\ orderList[Relay][e.order] = Unknown
      /\ UNCHANGED <<nonce, sent>> /\ (e.type # "DEPOSIT" => depositIn' = depositIn)
  BY DEF RelayMessageIn, CheckOrder
<1>5. \/ e.type = "MESSAGE" /\ TransferRelay(m, e.relay, FALSE)
      \/ e.type = "DEPOSIT" /\ DepositIn(m, Minted(m))
      \/ e.type = "BRIDGE" /\ ChargeSource(m, e.relay, FALSE, Minted(m))
  <2>1. PICK n \in {SwapInToken(e)} :
          \/ e.type = "MESSAGE" /\ TransferRelay(n, e.relay, FALSE)
          \/ e.type = "DEPOSIT" /\ DepositIn(n, Minted(n))
          \/ e.type = "BRIDGE" /\ ChargeSource(n, e.relay, FALSE, Minted(n))
    BY Zenon DEF RelayMessageIn
  <2>2. n = m  BY <2>1
  <2> QED  BY <2>1, <2>2
<1> HIDE DEF m
<1>6. Handled(m, e.relay, FALSE)
  <2>1. CASE TransferRelay(m, e.relay, FALSE)  BY <1>1, <2>1, TransferRelayEnds
  <2>2. CASE e.type = "DEPOSIT" /\ DepositIn(m, Minted(m))
    <3>1. m.to = Relay  BY <1>3, <2>2 DEF OrdersInv, SentInv
    <3> QED  BY <2>2, <3>1 DEF DepositIn, Handled, SameOrder, Ends
  <2>3. CASE e.type = "BRIDGE" /\ ChargeSource(m, e.relay, FALSE, Minted(m))
    <3>1. m \in TokenEvent /\ Minted(m) \in BooksType
      BY <1>2, <2>3, MintedType, TypeParts
    <3> QED  BY <1>1, <2>3, <3>1, ChargeSourceEnds
  <2> QED  BY <1>5, <2>1, <2>2, <2>3
<1>7. \A r \in relayed : r.order # m.order
  <2> SUFFICES ASSUME NEW r \in relayed, r.order = e.order PROVE FALSE  BY <1>3
  <2>1. PICK f \in sent : Tells(r, f)  BY DEF OrdersInv, TracedInv, Traced
  <2>2. r.from # Relay  BY <1>1, <2>1 DEF Tells, OrdersInv, SentOnce
  <2> QED  BY <1>4, <2>2, StagesDiffer DEF OrdersInv, RelayedInv
<1>8. Comes(m, e)  BY <1>1, <1>2, <1>3, <1>4, <1>5, <1>6, <1>7 DEF Comes
<1> QED  BY <1>8

\* The relay chain sees the order, and no other chain sees anything.
LEMMA ComesSees ==
    ASSUME ValueInv, NEW e \in sent, NEW m, Comes(m, e)
    PROVE  /\ m.order = e.order /\ m.order \in OrderIds /\ m.from = e.from
           /\ Sees(Relay, e.order)
           /\ \A c \in LeafChains : SameEntries(c)
<1>1. m.order = e.order /\ m.order \in OrderIds /\ m.from = e.from /\ m.from # Relay
  BY DEF Comes, Tells, MessageInEvent, LeafChains
<1>2. PICK relay, must : Handled(m, relay, must)  BY DEF Comes
<1> QED  BY <1>1, <1>2, HandledEntries, TypeParts DEF ValueInv, Comes

\* What an order brings is in hand once it is minted.
LEMMA MintedWealth ==
    ASSUME OrdersOK, MoneyOK, FiniteInv, NEW m \in TokenEvent, NEW t \in Tokens,
           Rest(m.order, t) = AmountSum(Kept(t))
    PROVE  /\ WealthOf(Minted(m), m, t) = AtRelay(t) + InHand(m, t)
           /\ Minted(m).vault = vault
<1>1. AtRelay(t) = HeldBy(Books.acct, t) + Owes(Books, t) + AmountSum(Kept(t))
      /\ Books \in BooksType /\ Books.acct = acct[Relay] /\ Books.vault = vault
  BY AtRelayIs
<1> DEFINE bk == Minted(m)
<1>2. /\ bk.acct = CheckAndMint(Relay, acct[Relay], m.token, m.amount)
      /\ bk.vault = vault
  BY DEF Minted, Books
<1>3. acct[Relay] \in Account  BY RelayIsChain DEF MoneyOK
<1> HIDE DEF bk
<1>4. HeldBy(bk.acct, t) = HeldBy(Books.acct, t) /\ bk.acct.fee = Books.acct.fee
  BY <1>1, <1>2, <1>3, MintHeld
<1>5. Owes(bk, t) = Owes(Books, t)  BY <1>1, <1>2, <1>4, SameFees DEF Owes
<1>6. /\ HeldBy(Books.acct, t) \in Nat /\ Owes(Books, t) \in Nat
      /\ AmountSum(Kept(t)) \in Nat /\ InHand(m, t) \in Nat
  BY <1>1, HeldNat, OwesNat, KeptFinite, AmountSumNat, InHandNat, TokenEventFields
     DEF BooksType
<1>7. WealthOf(bk, m, t) = AtRelay(t) + InHand(m, t)
  BY <1>1, <1>4, <1>5, <1>6 DEF WealthOf
<1> QED  BY <1>2, <1>7 DEF bk

LEMMA ComesWealth ==
    ASSUME ValueInv, NEW e \in sent, NEW m, Comes(m, e), e.type # "MESSAGE", NEW t \in Tokens
    PROVE  /\ m \in TokenEvent /\ Minted(m) \in BooksType /\ Minted(m).vault = vault
           /\ WealthOf(Minted(m), m, t) =
                AtRelay(t) + On(t, e.token, TargetAmount(e.token, e.from, Relay, e.amount))
<1> USE TypeParts DEF ValueInv, FundsInv
<1>1. m \in TokenEvent /\ m.token = e.token
      /\ m.amount = TargetAmount(e.token, e.from, Relay, e.amount)
  BY DEF Comes
<1>2. Rest(m.order, t) = AmountSum(Kept(t))
  <2>1. orderList[Relay][m.order].status # "stored"
    BY StagesDiffer DEF Comes, CheckOrder
  <2> QED  BY <2>1, RestUnknown
<1>3. InHand(m, t) = On(t, e.token, TargetAmount(e.token, e.from, Relay, e.amount))
  BY <1>1 DEF InHand, On
<1> QED  BY <1>1, <1>2, <1>3, MintedWealth, MintedType

\* A message may leave the executor's tokens behind, and nothing else.
LEMMA MessageLeavesBehind ==
    ASSUME MoneyOK, LogOK, LogsOK, LogsFinite, SeenInv, NEW m, MessageEnds(m),
           m.order \in OrderIds, m.amount \in Nat, m.token = NoToken,
           \A r \in relayed : r.order # m.order,
           \E e \in sent : e.type = "MESSAGE", \A c \in LeafChains : SameEntries(c),
           \A t \in Tokens, c \in LeafChains :
                Going(t, c)' = Going(t, c) /\ Denied(t, c)' = Denied(t, c)
    PROVE  LeavesBehind
<1>1. ASSUME NEW t \in Tokens, NEW c \in LeafChains
      PROVE  AtLeaf(t, c)' = AtLeaf(t, c) /\ Book(t, c)' = Book(t, c)
  <2>1. Coming(t, c)' = Coming(t, c)
    <3>1. CASE relayed' = relayed  BY <3>1, ComingSame
    <3>2. CASE relayed' = relayed \cup {m}
      <4>1. Coming(t, c)' = Coming(t, c) + OnAt(t, c, m.token, m.to, m.amount)
        BY <3>2, ComingRelayed
      <4>2. OnAt(t, c, m.token, m.to, m.amount) = 0  BY BridgeAssumption DEF OnAt
      <4> QED  BY <4>1, <4>2, ToLeafFinite
    <3> QED  BY <3>1, <3>2 DEF MessageEnds
  <2>2. /\ Going(t, c) \in Nat /\ Coming(t, c) \in Nat
        /\ OnLeaf(acct[c], t) \in Nat
        /\ AtLeaf(t, c) = OnLeaf(acct[c], t) + (Going(t, c) + Coming(t, c))
    BY AtLeafIs
  <2>3. acct'[c] = acct[c] /\ acct'[c] \in Account
    BY RelayIsChain DEF MessageEnds, MoneyOK
  <2>4. Going(t, c)' \in Int /\ Coming(t, c)' \in Int  BY <2>1, <2>2
  <2>5. AtLeaf(t, c)' = OnLeaf(acct'[c], t) + (Going(t, c)' + Coming(t, c)')
    BY <2>3, <2>4, AtLeafNext
  <2>6. Book(t, c)' = Book(t, c)  BY DEF Book, MessageEnds
  <2> QED  BY <2>1, <2>2, <2>3, <2>5, <2>6
<1> QED  BY <1>1 DEF LeavesBehind, LeavesKept, MessageEnds

LEMMA RelayMessageInOfMessage ==
    ASSUME ValueInv, NEW e \in sent, NEW m, Comes(m, e), e.type = "MESSAGE",
           TransferRelay(m, e.relay, FALSE)
    PROVE  LeavesBehind
<1> USE TypeParts DEF ValueInv, FundsInv, BooksInv
<1>1. /\ m.order = e.order /\ m.order \in OrderIds /\ m.from = e.from
      /\ Sees(Relay, e.order) /\ \A c \in LeafChains : SameEntries(c)
  BY ComesSees
<1>2. /\ m \in MessageInEvent /\ m.token = NoToken /\ m.amount \in Nat /\ e.token = NoToken
      /\ e.relay \in BOOLEAN /\ sent' = sent /\ depositIn' = depositIn
      /\ \A r \in relayed : r.order # m.order
  BY DEF Comes, PlainInv, MessageInEvent
<1>3. New(m)  BY <1>1 DEF New, Comes, LeafChains
<1>4. \A t \in Tokens : AmountSum(Kept(t)) = Rest(m.order, t)
  <2>1. orderList[Relay][m.order].status # "stored"
    BY StagesDiffer DEF Comes, CheckOrder
  <2> QED  BY <2>1, RestUnknown
<1>5. MessageEnds(m)  BY <1>2, <1>3, <1>4, TransferRelayEndsWell
<1>6. ASSUME NEW t \in Tokens, NEW c \in LeafChains
      PROVE  Going(t, c)' = Going(t, c) /\ Denied(t, c)' = Denied(t, c)
  <2>1. Going(t, c)' = Going(t, c) - OnAt(t, c, e.token, e.from, e.amount)
    BY <1>1, <1>2, GoingSeen DEF OrdersInv
  <2>2. OnAt(t, c, e.token, e.from, e.amount) = 0  BY <1>2, BridgeAssumption DEF OnAt
  <2>3. Going(t, c) \in Nat  BY ToRelayFinite
  <2>4. Denied(t, c)' = Denied(t, c)  BY <1>1, <1>2, DeniedSeen DEF OrdersInv
  <2> QED  BY <2>1, <2>2, <2>3, <2>4
<1> QED  BY <1>1, <1>2, <1>5, <1>6, MessageLeavesBehind

LEMMA RelayMessageInOfDeposit ==
    ASSUME ValueInv, NEW e \in sent, NEW m, Comes(m, e), e.type = "DEPOSIT",
           DepositIn(m, Minted(m))
    PROVE  Exchanges
<1> USE TypeParts DEF ValueInv, FundsInv, BooksInv
<1>1. /\ m.order = e.order /\ m.order \in OrderIds /\ m.from = e.from
      /\ Sees(Relay, e.order) /\ \A c \in LeafChains : SameEntries(c)
  BY ComesSees
<1> DEFINE s == e.token
           f == e.from
           b == e.amount
<1>2. /\ s \in Tokens /\ f \in Chains /\ f # Relay /\ b \in Nat /\ m \in TokenEvent
      /\ m.token = s /\ m.amount = TargetAmount(s, f, Relay, b) /\ sent' = sent
  BY TokenEventFields DEF Comes, LeafChains, MessageOutEvent
<1>3. Minted(m) \in BooksType /\ Minted(m).vault = vault
      /\ \A t \in Tokens :
            WealthOf(Minted(m), m, t) = AtRelay(t) + On(t, s, TargetAmount(s, f, Relay, b))
  BY <1>2, ComesWealth
<1>4. DepositEnds(m, Minted(m))  BY <1>2, <1>3, DepositInEnds
<1>5. TargetAmount(s, f, Relay, b) \in Nat /\ TargetAmount(s, Relay, f, 0) = 0
  BY <1>2, TargetAmountNat, TargetOfNone, RelayIsChain
<1> HIDE DEF s, f, b
<1>6. ASSUME NEW t \in Tokens
      PROVE  AtRelay(t)' = AtRelay(t) + On(t, s, TargetAmount(s, f, Relay, b)) - On(t, s, 0)
  <2>1. AtRelay(t)' = AtRelay(t) + On(t, s, TargetAmount(s, f, Relay, b))
    BY <1>3, <1>4 DEF DepositEnds
  <2>2. On(t, s, 0) = 0  BY DEF On
  <2>3. AtRelay(t) \in Nat /\ On(t, s, TargetAmount(s, f, Relay, b)) \in Nat
    BY <1>5, AtRelayNat, OnNat
  <2> QED  BY <2>1, <2>2, <2>3
<1>7. ASSUME NEW t \in Tokens, NEW c \in LeafChains
      PROVE  /\ AtLeaf(t, c)' = AtLeaf(t, c) - OnAt(t, c, s, f, b)
                                + OnAt(t, c, s, f, TargetAmount(s, Relay, f, 0))
             /\ Scale[t][c] = Scale[t][Relay] =>
                  Book(t, c)' = Book(t, c) + OnAt(t, c, s, f, b) - OnAt(t, c, s, f, 0)
  <2>1. Going(t, c)' = Going(t, c) - OnAt(t, c, s, f, b)
    BY <1>1, <1>2, GoingSeen DEF OrdersInv, s, f, b
  <2>2. Coming(t, c)' = Coming(t, c) + OnAt(t, c, s, f, 0)
    <3>1. Coming(t, c)' = Coming(t, c) /\ Coming(t, c) \in Nat
      BY <1>1, <1>4, ComingSame, ToLeafFinite DEF DepositEnds
    <3> QED  BY <3>1 DEF OnAt
  <2>3. OnAt(t, c, s, f, b) \in Nat /\ OnAt(t, c, s, f, 0) \in Nat  BY <1>2, OnNat
  <2>4. acct'[c] = acct[c] /\ acct[c] \in Account
    BY <1>4, RelayIsChain DEF DepositEnds, MoneyOK
  <2>5. AtLeaf(t, c)' = AtLeaf(t, c) - OnAt(t, c, s, f, b) + OnAt(t, c, s, f, 0)
    BY <2>1, <2>2, <2>3, <2>4, LeafKept
  <2>6. ASSUME Scale[t][c] = Scale[t][Relay]
        PROVE  Book(t, c)' = Book(t, c) + OnAt(t, c, s, f, b) - OnAt(t, c, s, f, 0)
    <3>0. OnAt(t, c, s, f, 0) = 0  BY DEF OnAt
    <3>1. OnAt(t, c, m.token, m.from, m.amount) = OnAt(t, c, s, f, b)
      BY <1>1, <1>2, <2>6 DEF OnAt, TargetAmount, f
    <3>2. Denied(t, c) \in Nat /\ vault[t].balance[c] \in Int  BY AtLeafIs
    <3>3. CASE /\ depositIn' = depositIn \cup {m.order}
               /\ vault'[t].balance[c] =
                    vault[t].balance[c] + OnAt(t, c, m.token, m.from, m.amount)
      <4>1. Denied(t, c)' = Denied(t, c)
        BY <1>1, <1>2, <3>3, DeniedSeen DEF OrdersInv
      <4> QED  BY <2>3, <3>0, <3>1, <3>2, <3>3, <4>1 DEF Book
    <3>4. CASE depositIn' = depositIn /\ vault' = vault
      <4>1. Denied(t, c)' = Denied(t, c) + OnAt(t, c, s, f, b)
        BY <1>1, <1>2, <3>4, DeniedRefused DEF OrdersInv, s, f, b
      <4> QED  BY <2>3, <3>0, <3>2, <3>4, <4>1 DEF Book
    <3> QED  BY <1>3, <1>4, <3>3, <3>4 DEF DepositEnds
  <2> QED  BY <1>5, <2>5, <2>6
<1>8. 0 \in Nat /\ Exchange(s, f, b, s, f, 0)  BY <1>2, <1>6, <1>7 DEF Exchange
<1> QED  BY <1>2, <1>8 DEF Exchanges

LEMMA RelayMessageInOfBridge ==
    ASSUME ValueInv, NEW e \in sent, NEW m, Comes(m, e), e.type = "BRIDGE",
           ChargeSource(m, e.relay, FALSE, Minted(m))
    PROVE  Exchanges
<1> USE TypeParts DEF ValueInv, FundsInv, BooksInv
<1>1. /\ m.order = e.order /\ m.order \in OrderIds /\ m.from = e.from
      /\ Sees(Relay, e.order) /\ \A c \in LeafChains : SameEntries(c)
  BY ComesSees
<1> DEFINE s == e.token
           f == e.from
           b == e.amount
<1>2. /\ s \in Tokens /\ f \in Chains /\ f # Relay /\ b \in Nat /\ m \in TokenEvent
      /\ m.token = s /\ m.amount = TargetAmount(s, f, Relay, b) /\ sent' = sent
      /\ e.relay \in BOOLEAN /\ depositIn' = depositIn
      /\ \A r \in relayed : r.order # m.order
  BY TokenEventFields DEF Comes, LeafChains, MessageOutEvent
<1>3. Minted(m) \in BooksType /\ Minted(m).vault = vault
      /\ \A t \in Tokens :
            WealthOf(Minted(m), m, t) = AtRelay(t) + On(t, s, TargetAmount(s, f, Relay, b))
  BY <1>2, ComesWealth
<1>4. New(m)  BY <1>1, <1>2 DEF New
<1>5. EndsCharged(m, Minted(m))
  <2> HIDE DEF f
  <2> QED  BY <1>2, <1>3, <1>4, ChargeSourceEndsCharged
<1>6. PICK rest \in TokenEvent, ck \in BooksType :
        /\ rest.order = m.order
        /\ \A t \in Tokens : WealthOf(ck, rest, t) = WealthOf(Minted(m), m, t)
        /\ \A t \in Tokens, c \in LeafChains :
            ck.vault[t].balance[c] =
                Minted(m).vault[t].balance[c] + OnAt(t, c, m.token, m.from, m.amount)
        /\ EndsWell(rest, ck)
  BY <1>5 DEF EndsCharged
<1>7. ASSUME NEW t \in Tokens, NEW c \in LeafChains
      PROVE  /\ Going(t, c)' = Going(t, c) - OnAt(t, c, s, f, b)
             /\ Denied(t, c)' = Denied(t, c)
             /\ Scale[t][c] = Scale[t][Relay] =>
                  ck.vault[t].balance[c] = vault[t].balance[c] + OnAt(t, c, s, f, b)
  <2>1. Going(t, c)' = Going(t, c) - OnAt(t, c, s, f, b)
    BY <1>1, <1>2, GoingSeen DEF OrdersInv
  <2>2. Denied(t, c)' = Denied(t, c)  BY <1>1, <1>2, DeniedSeen DEF OrdersInv
  <2>3. ck.vault[t].balance[c] = vault[t].balance[c] + OnAt(t, c, m.token, m.from, m.amount)
    BY <1>3, <1>6
  <2>4. Scale[t][c] = Scale[t][Relay] =>
            OnAt(t, c, m.token, m.from, m.amount) = OnAt(t, c, s, f, b)
    BY <1>1, <1>2 DEF OnAt, TargetAmount
  <2> HIDE DEF s, f, b
  <2> QED  BY <2>1, <2>2, <2>3, <2>4
<1> HIDE DEF s, f, b
<1>8. \A t \in Tokens :
        WealthOf(ck, rest, t) = AtRelay(t) + On(t, s, TargetAmount(s, f, Relay, b))
  BY <1>3, <1>6
<1>9. rest.order \in OrderIds /\ \A r \in relayed : r.order # rest.order  BY <1>1, <1>2, <1>6
<1>10. f = Relay => b = 0  BY <1>2
<1> QED  BY <1>1, <1>2, <1>6, <1>7, <1>8, <1>9, <1>10, OutcomeExchanges

LEMMA RelayMessageInValue ==
    ASSUME ValueInv, NEW e \in sent, RelayMessageIn(e)
    PROVE  ValueStep
<1>1. PICK m : Comes(m, e)  BY MessageComes DEF ValueInv
<1>2. CASE e.type = "MESSAGE" /\ TransferRelay(m, e.relay, FALSE)
  BY <1>1, <1>2, RelayMessageInOfMessage DEF ValueStep
<1>3. CASE e.type = "DEPOSIT" /\ DepositIn(m, Minted(m))
  BY <1>1, <1>3, RelayMessageInOfDeposit DEF ValueStep
<1>4. CASE e.type = "BRIDGE" /\ ChargeSource(m, e.relay, FALSE, Minted(m))
  BY <1>1, <1>4, RelayMessageInOfBridge DEF ValueStep
<1> QED  BY <1>1, <1>2, <1>3, <1>4 DEF Comes

\* A retry takes what was kept in hand, and the order brings nothing new.
LEMMA RelayRetryValue ==
    ASSUME ValueInv, NEW m \in failed[Relay], RelayRetryMessageIn(m)
    PROVE  ValueStep
<1> USE TypeParts, RelayIsChain DEF ValueInv, FundsInv, BooksInv
<1>1. /\ m \in MessageInEvent /\ m.from # Relay /\ m.order \in OrderIds /\ m.amount \in Nat
      /\ New(m)
  BY DEF OrdersOK, OrdersInv, FailedInv, MessageInEvent, New
<1>2. /\ orderList[Relay][m.order] = Stored(m) /\ ~CheckOrder(Relay, m.order)
      /\ sent' = sent /\ depositIn' = depositIn
      /\ \/ m.type = "MESSAGE" /\ TransferRelay(m, TRUE, TRUE)
         \/ m.type # "MESSAGE" /\ SwapRelay(m, TRUE, TRUE, Books)
  <2>1. Stored(m) # Unknown  BY DEF Stored, Unknown
  <2> QED  BY <2>1 DEF RelayRetryMessageIn, GetStoredMessage, CheckOrder
<1>3. Handled(m, TRUE, TRUE)
  <2>1. CASE TransferRelay(m, TRUE, TRUE)  BY <2>1, TransferRelayEnds
  <2>2. CASE m.type # "MESSAGE" /\ SwapRelay(m, TRUE, TRUE, Books)
    <3>1. m \in TokenEvent  BY <1>1, <2>2, IsTokenEvent
    <3> QED  BY <2>2, <3>1, SwapRelayEnds
  <2> QED  BY <1>2, <2>1, <2>2
<1>4. SameEntries(Relay) /\ \A c \in LeafChains : SameEntries(c)
  BY <1>1, <1>2, <1>3, HandledEntries
<1>5. PICK e \in sent : Tells(m, e)
  BY DEF OrdersInv, TracedInv, Traced
<1>6. \A r \in relayed : r.order # m.order
  <2> SUFFICES ASSUME NEW r \in relayed, r.order = m.order PROVE FALSE  OBVIOUS
  <2>1. PICK g \in sent : Tells(r, g)  BY DEF OrdersInv, TracedInv, Traced
  <2>2. r.from # Relay  BY <1>1, <1>5, <2>1 DEF Tells, OrdersInv, SentOnce
  <2> QED  BY <1>2, <2>2, StagesDiffer DEF OrdersInv, RelayedInv
<1>7. \A t \in Tokens : AmountSum(Kept(t)) = Rest(m.order, t) + InHand(m, t)
  BY RestRetried DEF RelayRetryMessageIn
<1>8. ASSUME NEW t \in Tokens, NEW c \in LeafChains
      PROVE  /\ Going(t, c)' = Going(t, c) /\ Denied(t, c)' = Denied(t, c)
             /\ Going(t, c) \in Nat
  <2>1. Going(t, c)' = Going(t, c)  BY <1>2, <1>4, GoingSame
  <2>2. Denied(t, c)' = Denied(t, c)  BY <1>2, <1>4, DeniedSame DEF LogsOK
  <2> QED  BY <2>1, <2>2, ToRelayFinite
<1>9. CASE m.type = "MESSAGE" /\ TransferRelay(m, TRUE, TRUE)
  <2>1. m.token = NoToken /\ e.type = "MESSAGE"  BY <1>5, <1>9 DEF PlainLog, Tells
  <2>2. \A t \in Tokens : AmountSum(Kept(t)) = Rest(m.order, t)
    <3>1. \A t \in Tokens : InHand(m, t) = 0  BY <2>1, BridgeAssumption DEF InHand
    <3>2. \A t \in Tokens : Rest(m.order, t) \in Nat  BY RestNat
    <3> QED  BY <1>7, <3>1, <3>2
  <2>3. MessageEnds(m)  BY <1>1, <1>9, <2>1, <2>2, TransferRelayEndsWell
  <2>4. LeavesBehind  BY <1>1, <1>4, <1>6, <1>8, <2>1, <2>3, MessageLeavesBehind
  <2> QED  BY <2>4 DEF ValueStep
<1>10. CASE m.type # "MESSAGE" /\ SwapRelay(m, TRUE, TRUE, Books)
  <2>1. m \in TokenEvent /\ m.token \in Tokens  BY <1>1, <1>10, IsTokenEvent, TokenEventFields
  <2>2. Books \in BooksType /\ Books.vault = vault  BY BooksOK DEF Books
  <2>3. EndsWell(m, Books)  BY <1>1, <1>10, <2>1, <2>2, SwapRelayEndsWell
  <2> DEFINE s == m.token
  <2>4. TargetAmount(s, Relay, Relay, 0) = 0  BY <2>1, TargetOfNone
  <2>5. ASSUME NEW t \in Tokens
        PROVE  WealthOf(Books, m, t) = AtRelay(t) + On(t, s, TargetAmount(s, Relay, Relay, 0))
    <3>1. AtRelay(t) = HeldBy(Books.acct, t) + Owes(Books, t) + AmountSum(Kept(t))
      BY AtRelayIs
    <3>2. /\ HeldBy(Books.acct, t) \in Nat /\ Owes(Books, t) \in Nat
          /\ Rest(m.order, t) \in Nat /\ InHand(m, t) \in Nat
      BY <1>1, <2>2, HeldNat, OwesNat, RestNat, InHandNat DEF BooksType
    <3>3. On(t, s, TargetAmount(s, Relay, Relay, 0)) = 0  BY <2>4 DEF On
    <3>4. AmountSum(Kept(t)) = Rest(m.order, t) + InHand(m, t)  BY <1>7
    <3> QED  BY <3>1, <3>2, <3>3, <3>4 DEF WealthOf
  <2>6. ASSUME NEW t \in Tokens, NEW c \in LeafChains
        PROVE  /\ Going(t, c)' = Going(t, c) - OnAt(t, c, s, Relay, 0)
               /\ Denied(t, c)' = Denied(t, c)
               /\ Books.vault[t].balance[c] = vault[t].balance[c] + OnAt(t, c, s, Relay, 0)
    <3>1. OnAt(t, c, s, Relay, 0) = 0  BY DEF OnAt
    <3>2. vault[t].balance[c] \in Int  BY <2>2, BalanceInt
    <3> QED  BY <1>8, <2>2, <3>1, <3>2
  <2> HIDE DEF s
  <2>7. 0 \in Nat /\ s \in Tokens  BY <2>1 DEF s
  <2>8. Exchanges
    BY <1>1, <1>4, <1>6, <2>2, <2>3, <2>5, <2>6, <2>7, OutcomeExchanges
  <2> QED  BY <2>8 DEF ValueStep
<1> QED  BY <1>2, <1>9, <1>10

\* The account that pays for an order has it in hand.
LEMMA PaidWealth ==
    ASSUME OrdersOK, MoneyOK, FiniteInv, NEW t \in Tokens, NEW a \in Nat,
           a <= acct[Relay].held[t], NEW ck, ck.acct = TokenTransferIn(acct[Relay], t, a),
           ck.vault = vault, NEW m \in TokenEvent, m.token = t, m.amount = a, NEW s \in Tokens,
           Rest(m.order, s) = AmountSum(Kept(s))
    PROVE  WealthOf(ck, m, s) = AtRelay(s)
<1>1. AtRelay(s) = HeldBy(Books.acct, s) + Owes(Books, s) + AmountSum(Kept(s))
      /\ Books \in BooksType /\ Books.acct = acct[Relay] /\ Books.vault = vault
  BY AtRelayIs
<1>2. acct[Relay] \in Account  BY RelayIsChain DEF MoneyOK
<1>3. HeldBy(ck.acct, s) = HeldBy(Books.acct, s) - On(s, t, a)
      /\ ck.acct.fee = Books.acct.fee
  BY <1>1, <1>2, TransferInHeld, TransferInFields
<1>4. Owes(ck, s) = Owes(Books, s)  BY <1>1, <1>3, SameFees DEF Owes
<1>5. InHand(m, s) = On(s, t, a) /\ On(s, t, a) \in Nat  BY DEF InHand, On
<1>6. /\ HeldBy(Books.acct, s) \in Nat /\ Owes(Books, s) \in Nat
      /\ AmountSum(Kept(s)) \in Nat
  BY <1>1, HeldNat, OwesNat, KeptFinite, AmountSumNat DEF BooksType
<1> QED  BY <1>1, <1>3, <1>4, <1>5, <1>6 DEF WealthOf

\* An order that starts on the relay chain is paid for by what was held there.
LEMMA RelaySwapOutTokenValue ==
    ASSUME ValueInv, NEW to \in Chains, NEW t \in Tokens, NEW a \in Amounts,
           NEW relay \in BOOLEAN, NEW swap \in BOOLEAN, NEW i \in Callers,
           RelaySwapOutToken(to, t, a, relay, swap, i)
    PROVE  ValueStep
<1> USE TypeParts, RelayIsChain DEF ValueInv, FundsInv, BooksInv
<1> DEFINE e == [order |-> GetOrderId(Relay), type |-> "BRIDGE", from |-> Relay,
                 to |-> to, token |-> t, amount |-> a,
                 initiator |-> i, swap |-> swap, relay |-> relay]
           m == InEvent(e)
           ac == TokenTransferIn(acct[Relay], t, a)
           ck == [Books EXCEPT !.acct = ac]
<1>1. /\ MessageOut(Relay, e) /\ ChargeSource(m, relay, TRUE, ck)
      /\ a <= acct[Relay].held[t] /\ a \in Nat /\ depositIn' = depositIn /\ to # Relay
  BY BridgeAssumption DEF RelaySwapOutToken, Books, MessageOut
<1>2. GetOrderId(Relay) \in OrderIds  BY <1>1, GetOrderIdType DEF MessageOut
<1>3. /\ e \in MessageOutEvent /\ e.from = Relay /\ e.type # "DEPOSIT" /\ e.token \in Tokens
      /\ m.token = t /\ m.amount = a /\ m.order = e.order /\ m.from = Relay /\ m.to = to
  BY <1>1, <1>2 DEF MessageOutEvent, MessageTypes, InEvent
<1>4. ac \in Account  BY <1>1, TransferInType DEF MoneyOK
<1>5. Sends(e) /\ sent' = sent \cup {e}  BY <1>1, <1>3, MessageOutInv DEF Sends
<1> HIDE DEF e, ac
<1>6. m \in TokenEvent /\ m.order \in OrderIds
  <2>1. m \in TokenEvent  BY <1>3, InEventType DEF TokenEvent
  <2> QED  BY <2>1, TokenEventFields
<1>7. ck \in BooksType /\ ck.acct = ac /\ ck.vault = vault  BY <1>4, BooksOK DEF BooksType, Books
<1>8. \A n \in failed[Relay] : n.order # m.order  BY <1>1, <1>3, FreshOrder
<1>9. \A r \in relayed : r.order # m.order
  BY <1>3, <1>5 DEF Sends, OrdersInv, TracedInv, Traced, Tells
<1> HIDE DEF m, ck
<1>10. \A s : Rest(m.order, s) = AmountSum(Kept(s))  BY <1>8, RestUnknown
<1>11. New(m)  BY <1>8 DEF New
<1>12. EndsCharged(m, ck)  BY <1>1, <1>6, <1>7, <1>11, ChargeSourceEndsCharged
<1>13. orderList' = orderList
  <2>1. Handled(m, relay, TRUE)  BY <1>1, <1>6, <1>7, ChargeSourceEnds
  <2> QED  BY <1>1, <1>3, <2>1, HandledHere
<1>14. SameEntries(Relay) /\ \A c \in LeafChains : SameEntries(c)
  BY <1>13 DEF SameEntries, CheckOrder
<1>15. PICK rest \in TokenEvent, dk \in BooksType :
        /\ rest.order = m.order
        /\ \A s \in Tokens : WealthOf(dk, rest, s) = WealthOf(ck, m, s)
        /\ \A s \in Tokens, c \in LeafChains :
            dk.vault[s].balance[c] =
                ck.vault[s].balance[c] + OnAt(s, c, m.token, m.from, m.amount)
        /\ EndsWell(rest, dk)
  BY <1>12 DEF EndsCharged
<1>16. ASSUME NEW s \in Tokens, NEW c \in LeafChains
       PROVE  /\ Going(s, c)' = Going(s, c) - OnAt(s, c, t, Relay, 0)
              /\ Denied(s, c)' = Denied(s, c)
              /\ dk.vault[s].balance[c] = vault[s].balance[c] + OnAt(s, c, t, Relay, 0)
  <2>1. Going(s, c)' = Going(s, c) + OnAt(s, c, e.token, e.from, e.amount)
    BY <1>3, <1>5, <1>14, GoingSent DEF Sends
  <2>2. Denied(s, c)' = Denied(s, c)
    <3>1. CheckOrder(Relay, e.order)
      BY <1>3, <1>5 DEF SeenInv, Sends, MessageOutEvent
    <3> QED  BY <1>1, <1>3, <1>5, <1>14, <3>1, DeniedSame DEF LogsOK
  <2>3. OnAt(s, c, e.token, e.from, e.amount) = 0 /\ OnAt(s, c, t, Relay, 0) = 0
        /\ OnAt(s, c, m.token, m.from, m.amount) = 0
    BY <1>3 DEF OnAt, LeafChains
  <2>4. Going(s, c) \in Nat /\ vault[s].balance[c] \in Int  BY AtLeafIs
  <2>5. dk.vault[s].balance[c] =
            vault[s].balance[c] + OnAt(s, c, m.token, m.from, m.amount)
    BY <1>7, <1>15
  <2> QED  BY <2>1, <2>2, <2>3, <2>4, <2>5
<1>17. ASSUME NEW s \in Tokens
       PROVE  WealthOf(dk, rest, s) = AtRelay(s) + On(s, t, TargetAmount(t, Relay, Relay, 0))
  <2>1. WealthOf(ck, m, s) = AtRelay(s)
    BY <1>1, <1>3, <1>6, <1>7, <1>10, PaidWealth DEF ac
  <2>2. TargetAmount(t, Relay, Relay, 0) = 0  BY TargetOfNone
  <2>3. On(s, t, TargetAmount(t, Relay, Relay, 0)) = 0  BY <2>2 DEF On
  <2>4. AtRelay(s) \in Nat  BY AtRelayNat
  <2> QED  BY <1>15, <2>1, <2>3, <2>4
<1>18. rest.order \in OrderIds /\ \A r \in relayed : r.order # rest.order
  BY <1>6, <1>9, <1>15
<1>19. 0 \in Nat  OBVIOUS
<1>20. Exchanges
  BY <1>14, <1>15, <1>16, <1>17, <1>18, <1>19, OutcomeExchanges
<1> QED  BY <1>20 DEF ValueStep

-----------------------------------------------------------------------------
(* Everything else leaves every chain worth what it was.                   *)

LEMMA AtRelaySame ==
    ASSUME MoneyOK, MoneyOK', OrdersOK, FiniteInv, orderList'[Relay] = orderList[Relay],
           failed'[Relay] = failed[Relay], NEW t \in Tokens,
           OnLeaf(acct'[Relay], t) + vault'[t].total = OnLeaf(acct[Relay], t) + vault[t].total
    PROVE  AtRelay(t)' = AtRelay(t)
<1> USE RelayIsChain
<1>1. /\ HeldBy(acct'[Relay], t) \in Nat /\ FeeSum(acct'[Relay], t) \in Nat
      /\ HeldBy(acct[Relay], t) \in Nat /\ FeeSum(acct[Relay], t) \in Nat
      /\ vault'[t].total \in Nat /\ vault[t].total \in Nat
  BY HeldNat, FeeSumNat DEF MoneyOK, V!Vault
<1>2. Kept(t)' = Kept(t)  BY DEF Kept, KeptAt
<1>3. AmountSum(Kept(t)) \in Nat  BY KeptFinite, AmountSumNat
<1>4. AtRelay(t) = HeldBy(acct[Relay], t) + vault[t].total + FeeSum(acct[Relay], t)
                   + AmountSum(Kept(t))
  BY DEF AtRelay
<1>5. AtRelay(t)' = HeldBy(acct'[Relay], t) + vault'[t].total + FeeSum(acct'[Relay], t)
                    + AmountSum(Kept(t))
  BY <1>2 DEF AtRelay, HeldBy, FeeSum
<1> QED  BY <1>1, <1>3, <1>4, <1>5 DEF OnLeaf

LEMMA QuietBy ==
    ASSUME ValueInv, TypeOK',
           orderList'[Relay] = orderList[Relay], failed'[Relay] = failed[Relay],
           \A t \in Tokens : OnLeaf(acct'[Relay], t) + vault'[t].total
                                = OnLeaf(acct[Relay], t) + vault[t].total,
           \A t \in Tokens, c \in LeafChains :
                /\ Going(t, c)' \in Int /\ Coming(t, c)' \in Int
                /\ OnLeaf(acct'[c], t) + (Going(t, c)' + Coming(t, c)')
                    = OnLeaf(acct[c], t) + (Going(t, c) + Coming(t, c))
                /\ Denied(t, c)' = Denied(t, c)
                /\ vault'[t].balance[c] = vault[t].balance[c]
    PROVE  ValueStep
<1> USE TypeParts, RelayIsChain DEF ValueInv, FundsInv, BooksInv
<1>1. \A t \in Tokens : AtRelay(t)' = AtRelay(t)  BY AtRelaySame
<1>2. ASSUME NEW t \in Tokens, NEW c \in LeafChains
      PROVE  AtLeaf(t, c)' = AtLeaf(t, c) /\ Book(t, c)' = Book(t, c)
  <2>1. acct'[c] \in Account  BY DEF MoneyOK
  <2>2. AtLeaf(t, c)' = OnLeaf(acct'[c], t) + (Going(t, c)' + Coming(t, c)')
    BY <2>1, AtLeafNext
  <2>3. AtLeaf(t, c) = OnLeaf(acct[c], t) + (Going(t, c) + Coming(t, c))  BY AtLeafIs
  <2>4. Book(t, c)' = Book(t, c)  BY DEF Book
  <2> QED  BY <2>2, <2>3, <2>4
<1> QED  BY <1>1, <1>2 DEF ValueStep, Quiet, LeavesKept

\* What a step leaves alone.
LEMMA LogsKept ==
    ASSUME ValueInv, UNCHANGED <<sent, relayed, depositIn, orderList>>,
           NEW t \in Tokens, NEW c \in LeafChains
    PROVE  /\ Going(t, c)' = Going(t, c) /\ Coming(t, c)' = Coming(t, c)
           /\ Denied(t, c)' = Denied(t, c)
           /\ Going(t, c) \in Int /\ Coming(t, c) \in Int
<1> USE TypeParts DEF ValueInv, BooksInv
<1>1. SameEntries(Relay) /\ SameEntries(c)  BY DEF SameEntries, CheckOrder
<1>2. Going(t, c)' = Going(t, c)  BY <1>1, GoingSame
<1>3. Coming(t, c)' = Coming(t, c)  BY <1>1, ComingSame
<1>4. Denied(t, c)' = Denied(t, c)  BY <1>1, DeniedSame DEF LogsOK
<1>5. Going(t, c) \in Int /\ Coming(t, c) \in Int  BY AtLeafIs
<1> QED  BY <1>2, <1>3, <1>4, <1>5

LEMMA IdleValue ==
    ASSUME ValueInv, TypeOK', UNCHANGED <<sent, relayed, depositIn, orderList, failed, vault>>,
           \A t \in Tokens, c \in Chains : OnLeaf(acct'[c], t) = OnLeaf(acct[c], t)
    PROVE  ValueStep
BY LogsKept, QuietBy, RelayIsChain

FeePaid(ac, r, t) == [TokenTransferOut(ac, t, ac.fee[r][t]) EXCEPT !.fee[r][t] = 0]

LEMMA FeePaidFields ==
    ASSUME NEW ac \in Account, NEW r \in FeeReceivers, NEW t \in Tokens
    PROVE  LET ad == FeePaid(ac, r, t)
               out == TokenTransferOut(ac, t, ac.fee[r][t]) IN
           /\ ad.held = out.held /\ ad.parked = out.parked
           /\ \A q \in FeeReceivers, u \in Tokens :
                 ad.fee[q][u] = IF q = r /\ u = t THEN 0 ELSE ac.fee[q][u]
BY SMTT(30) DEF FeePaid, TokenTransferOut, Account

LEMMA WithdrawFeeHeld ==
    ASSUME NEW ac \in Account, NEW r \in FeeReceivers, NEW t \in Tokens,
           ac.fee[r][t] <= ac.bal[t], NEW s \in Tokens
    PROVE  OnLeaf(FeePaid(ac, r, t), s) = OnLeaf(ac, s)
<1> DEFINE a == ac.fee[r][t]
           ad == FeePaid(ac, r, t)
           out == TokenTransferOut(ac, t, a)
<1>2. a \in Nat  BY SMTT(30) DEF Account
<1>7. HeldBy(out, s) = HeldBy(ac, s) + On(s, t, a)
  BY <1>2, TransferOutHeld
<1>8. /\ ad.held = out.held /\ ad.parked = out.parked
      /\ \A q \in FeeReceivers, u \in Tokens :
            ad.fee[q][u] = IF q = r /\ u = t THEN 0 ELSE ac.fee[q][u]
  BY FeePaidFields
<1> HIDE DEF out, ad
<1>9. FeeSum(ad, s) = FeeSum(ac, s) - On(s, t, a)
  <2> DEFINE f == [q \in FeeReceivers |-> ac.fee[q][s]]
             g == [q \in FeeReceivers |-> ad.fee[q][s]]
  <2>1. \A q \in FeeReceivers : f[q] \in Nat /\ g[q] \in Nat
    <3>1. \A q \in FeeReceivers : ac.fee[q][s] \in Nat  BY DEF Account
    <3> QED  BY <1>7, <1>8, <3>1
  <2>2. \A q \in FeeReceivers \ {r} : f[q] = g[q]  BY <1>7, <1>8
  <2>3. g[r] = IF s = t THEN 0 ELSE f[r]  BY <1>7, <1>8
  <2>4. s = t => f[r] = a  OBVIOUS
  <2>5. FeeSum(ad, s) = SumFunctionOnSet(g, FeeReceivers)
        /\ FeeSum(ac, s) = SumFunctionOnSet(f, FeeReceivers)
    BY DEF FeeSum
  <2> HIDE DEF f, g, a
  <2>6. SumFunctionOnSet(g, FeeReceivers) = SumFunctionOnSet(f, FeeReceivers) + g[r] - f[r]
    BY <2>1, <2>2, ReceiversFinite, SumChange
  <2>7. SumFunctionOnSet(f, FeeReceivers) \in Int  BY <2>1, ReceiversFinite, SumInt
  <2> QED  BY <1>2, <2>1, <2>3, <2>4, <2>5, <2>6, <2>7 DEF On
<1>10. HeldBy(ad, s) = HeldBy(out, s)  BY <1>8 DEF HeldBy
<1> HIDE DEF a
<1>11. /\ HeldBy(ac, s) \in Nat /\ FeeSum(ac, s) \in Nat /\ On(s, t, a) \in Nat
  BY <1>2, HeldNat, FeeSumNat, OnNat
<1> QED  BY <1>7, <1>9, <1>10, <1>11 DEF OnLeaf, ad

\* Operations of the administrators, and withdrawals of fees.
LEMMA CommonNextValue ==
    ASSUME ValueInv, TypeOK', NEW c \in Chains, CommonNext(c), UNCHANGED relayVars
    PROVE  ValueStep
<1> USE TypeParts DEF ValueInv, relayVars
<1>1. ASSUME Trigger(c) PROVE ValueStep
  BY <1>1, IdleValue DEF Trigger
<1>2. ASSUME NEW t, NEW to, NEW enable, RegisterTokenChains(c, t, to, enable)
      PROVE  ValueStep
  BY <1>2, IdleValue DEF RegisterTokenChains
<1>3. ASSUME SetFailedReceiver(c) PROVE ValueStep
  BY <1>3, IdleValue DEF SetFailedReceiver
<1>4. ASSUME NEW r \in FeeReceivers, NEW t \in Tokens, WithdrawFee(c, r, t)
      PROVE  ValueStep
  <2> DEFINE a == acct[c].fee[r][t]
             ad == FeePaid(acct[c], r, t)
  <2>1. acct[c] \in Account /\ a <= acct[c].bal[t]  BY SMTT(30), <1>4 DEF WithdrawFee, MoneyOK
  <2>2. /\ acct' = [acct EXCEPT ![c] = ad]
        /\ UNCHANGED <<sent, relayed, depositIn, orderList, failed, vault>>
    BY SMTT(30), <1>4 DEF WithdrawFee, FeePaid, MoneyOK
  <2>3. \A s \in Tokens : OnLeaf(ad, s) = OnLeaf(acct[c], s)  BY <2>1, WithdrawFeeHeld
  <2> HIDE DEF ad
  <2>4. \A d \in Chains : acct'[d] = IF d = c THEN ad ELSE acct[d]  BY <2>2 DEF MoneyOK
  <2>5. \A s \in Tokens, d \in Chains : OnLeaf(acct'[d], s) = OnLeaf(acct[d], s)
    BY <2>3, <2>4
  <2> QED  BY SMTT(30), <2>2, <2>5, IdleValue
<1> QED  BY <1>1, <1>2, <1>3, <1>4 DEF CommonNext

\* Deposits and withdrawals of the relay chain's own users.
VaultMoves(t, w, ac) ==
    /\ UNCHANGED <<sent, relayed, depositIn, orderList, failed>>
    /\ vault' = [vault EXCEPT ![t] = w] /\ acct' = [acct EXCEPT ![Relay] = ac]
    /\ \A s \in Tokens : OnLeaf(ac, s) + (IF s = t THEN w.total ELSE vault[s].total)
                            = OnLeaf(acct[Relay], s) + vault[s].total
    /\ \A c \in LeafChains : w.balance[c] = vault[t].balance[c]

LEMMA VaultValue ==
    ASSUME ValueInv, TypeOK', NEW t \in Tokens, NEW w, NEW ac, VaultMoves(t, w, ac)
    PROVE  ValueStep
<1> USE TypeParts, RelayIsChain DEF ValueInv, VaultMoves
<1>1. \A c \in Chains : acct'[c] = IF c = Relay THEN ac ELSE acct[c]  BY DEF MoneyOK
<1>2. \A s \in Tokens : vault'[s] = IF s = t THEN w ELSE vault[s]  BY DEF MoneyOK
<1>3. \A s \in Tokens : OnLeaf(acct'[Relay], s) + vault'[s].total
                            = OnLeaf(acct[Relay], s) + vault[s].total
  BY <1>1, <1>2
<1>4. \A s \in Tokens, c \in LeafChains :
        vault'[s].balance[c] = vault[s].balance[c] /\ acct'[c] = acct[c]
  BY <1>1, <1>2 DEF LeafChains
<1> QED  BY <1>3, <1>4, LogsKept, QuietBy

LEMMA RelayDepositTokenValue ==
    ASSUME ValueInv, TypeOK', NEW t \in Tokens, NEW a \in Amounts, RelayDepositToken(t, a)
    PROVE  ValueStep
<1> USE TypeParts, RelayIsChain DEF ValueInv
<1> DEFINE w == V!Deposit(vault[t], Relay, a)
           ac == TokenTransferIn(acct[Relay], t, a)
<1>1. /\ a \in Nat /\ acct' = [acct EXCEPT ![Relay] = ac] /\ vault' = [vault EXCEPT ![t] = w]
      /\ UNCHANGED <<sent, relayed, depositIn, orderList, failed>>
  BY BridgeAssumption DEF RelayDepositToken, SetBooks
<1>2. acct[Relay] \in Account /\ vault[t] \in V!Vault  BY DEF MoneyOK
<1>3. w.total = vault[t].total + a
      /\ \A c \in LeafChains : w.balance[c] = vault[t].balance[c] + On(c, Relay, a)
  BY <1>1, <1>2, DepositFields
<1>4. \A c \in LeafChains : On(c, Relay, a) = 0 /\ vault[t].balance[c] \in Int
  BY <1>2 DEF On, LeafChains, V!Vault
<1>5. ac.fee = acct[Relay].fee  BY <1>1, <1>2, TransferInFields
<1>6. \A s \in Tokens : HeldBy(ac, s) = HeldBy(acct[Relay], s) - On(s, t, a)
  BY <1>1, <1>2, TransferInHeld
<1> HIDE DEF w, ac
<1>7. ASSUME NEW s \in Tokens
      PROVE  OnLeaf(ac, s) + (IF s = t THEN w.total ELSE vault[s].total)
                = OnLeaf(acct[Relay], s) + vault[s].total
  <2>1. FeeSum(ac, s) = FeeSum(acct[Relay], s) /\ FeeSum(acct[Relay], s) \in Nat
    BY <1>2, <1>5, SameFees, FeeSumNat
  <2>2. HeldBy(acct[Relay], s) \in Nat /\ vault[s].total \in Nat
    BY <1>2, HeldNat DEF MoneyOK, V!Vault
  <2> QED  BY <1>1, <1>3, <1>6, <2>1, <2>2 DEF OnLeaf, On
<1>8. \A c \in LeafChains : w.balance[c] = vault[t].balance[c]  BY <1>3, <1>4
<1>9. VaultMoves(t, w, ac)  BY <1>1, <1>7, <1>8 DEF VaultMoves
<1> QED  BY <1>9, VaultValue

LEMMA WithdrawFields ==
    ASSUME NEW v \in V!Vault, NEW c \in Chains, NEW a \in Nat, NEW x \in Chains
    PROVE  /\ V!Withdraw(v, c, a).total = v.total - V!GetTokenAmount(v, a)
           /\ x # c => V!Withdraw(v, c, a).balance[x] = v.balance[x]
BY DEF V!Withdraw, V!Vault

LEMMA WithdrawValue ==
    ASSUME ValueInv, TypeOK', NEW t \in Tokens, NEW a \in Nat, a > 0, Withdraw(t, a)
    PROVE  ValueStep
<1> USE TypeParts, RelayIsChain DEF ValueInv
<1> DEFINE out == V!GetTokenAmount(vault[t], a)
           w == V!Withdraw(vault[t], Relay, a)
           ac == TokenTransferOut(acct[Relay], t, out)
<1>1. /\ a <= vault[t].shares /\ out <= acct[Relay].bal[t]
      /\ acct' = [acct EXCEPT ![Relay] = ac] /\ vault' = [vault EXCEPT ![t] = w]
      /\ UNCHANGED <<sent, relayed, depositIn, orderList, failed>>
  BY DEF Withdraw, SetBooks
<1>2. acct[Relay] \in Account /\ vault[t] \in V!Vault  BY DEF MoneyOK
<1>3. out \in Nat /\ out <= vault[t].total  BY <1>1, <1>2, TokenAmountWithin
<1>4. w.total = vault[t].total - out
      /\ \A c \in LeafChains : w.balance[c] = vault[t].balance[c]
  <2>1. \A x \in Chains : w.total = vault[t].total - out
                          /\ (x # Relay => w.balance[x] = vault[t].balance[x])
    BY <1>2, WithdrawFields
  <2> QED  BY <2>1 DEF LeafChains
<1> HIDE DEF out, w
<1>5. ac.fee = acct[Relay].fee
      /\ \A s \in Tokens : HeldBy(ac, s) = HeldBy(acct[Relay], s) + On(s, t, out)
  BY <1>2, <1>3, TransferOutFields, TransferOutHeld
<1> HIDE DEF ac
<1>6. ASSUME NEW s \in Tokens
      PROVE  OnLeaf(ac, s) + (IF s = t THEN w.total ELSE vault[s].total)
                = OnLeaf(acct[Relay], s) + vault[s].total
  <2>1. FeeSum(ac, s) = FeeSum(acct[Relay], s) /\ FeeSum(acct[Relay], s) \in Nat
    BY <1>2, <1>5, SameFees, FeeSumNat
  <2>2. HeldBy(acct[Relay], s) \in Nat /\ vault[s].total \in Nat
    BY <1>2, HeldNat DEF MoneyOK, V!Vault
  <2> QED  BY <1>3, <1>4, <1>5, <2>1, <2>2 DEF OnLeaf, On
<1>7. VaultMoves(t, w, ac)  BY <1>1, <1>4, <1>6 DEF VaultMoves
<1> QED  BY <1>7, VaultValue

\* The fee of a message goes from its sender to the service's account of fees.
LEMMA MessageFeePaid ==
    ASSUME MoneyOK, NEW c \in Chains, NEW to \in Chains, NEW t \in Tokens,
           CollectMessageFee(c, to, t), NEW s \in Tokens
    PROVE  /\ OnLeaf(acct'[c], s) = OnLeaf(acct[c], s)
           /\ \A d \in Chains : d # c => acct'[d] = acct[d]
<1> DEFINE f == MessageFee[to]
           ad == AddFee(TokenTransferIn(acct[c], t, f), "service", t, f)
<1>1. /\ f \in Nat /\ f <= acct[c].held[t] /\ acct[c] \in Account
      /\ acct' = [acct EXCEPT ![c] = ad]
  BY BridgeAssumption DEF CollectMessageFee, MoneyOK
<1>2. HeldBy(ad, s) + FeeSum(ad, s) = HeldBy(acct[c], s) + FeeSum(acct[c], s)
  BY <1>1, MessageFeeHeld
<1> HIDE DEF ad
<1>3. \A d \in Chains : acct'[d] = IF d = c THEN ad ELSE acct[d]  BY <1>1 DEF MoneyOK
<1> QED  BY <1>2, <1>3 DEF OnLeaf

\* A chain sends an order: what it takes from its sender is on the way.
SendsFrom(c, e) ==
    /\ e \in MessageOutEvent /\ e.from = c /\ Sends(e)
    /\ e.token \in Tokens => c # Relay
    /\ UNCHANGED <<orderList, failed, depositIn, vault>>
    /\ \A d \in Chains : d # c => acct'[d] = acct[d]
    /\ \A s \in Tokens : OnLeaf(acct'[c], s) = OnLeaf(acct[c], s) - On(s, e.token, e.amount)
    /\ \A s \in Tokens, d \in LeafChains : Coming(s, d)' = Coming(s, d)

LEMMA SendValue ==
    ASSUME ValueInv, TypeOK', NEW c \in Chains, NEW e, SendsFrom(c, e)
    PROVE  ValueStep
<1> USE TypeParts, RelayIsChain DEF ValueInv, BooksInv, SendsFrom
<1>1. e.amount \in Nat  BY DEF MessageOutEvent
<1>2. SameEntries(Relay)  BY DEF SameEntries, CheckOrder
<1>3. ASSUME NEW s \in Tokens, NEW d \in LeafChains
      PROVE  /\ Going(s, d)' = Going(s, d) + OnAt(s, d, e.token, e.from, e.amount)
             /\ Denied(s, d)' = Denied(s, d)
  <2>1. sent' = sent \cup {e} /\ \A f \in sent : f.order # e.order  BY DEF Sends
  <2>2. Going(s, d)' = Going(s, d) + OnAt(s, d, e.token, e.from, e.amount)
    BY <1>2, <2>1, GoingSent
  <2>3. CheckOrder(Relay, e.order)  BY <2>1 DEF SeenInv, MessageOutEvent
  <2>4. Denied(s, d)' = Denied(s, d)  BY <1>2, <2>1, <2>3, DeniedSame DEF LogsOK
  <2> QED  BY <2>2, <2>4
<1>4. ASSUME NEW s \in Tokens
      PROVE  /\ OnLeaf(acct[Relay], s) \in Int /\ vault[s].total \in Int
             /\ OnLeaf(acct'[Relay], s) = OnLeaf(acct[Relay], s)
  <2>1. acct[Relay] \in Account  BY DEF MoneyOK
  <2>2. OnLeaf(acct[Relay], s) \in Int  BY <2>1, HeldNat, FeeSumNat DEF OnLeaf
  <2>3. vault[s].total \in Int  BY DEF MoneyOK, V!Vault
  <2>4. c = Relay => On(s, e.token, e.amount) = 0  BY DEF On
  <2> QED  BY <2>2, <2>3, <2>4
<1>5. ASSUME NEW s \in Tokens, NEW d \in LeafChains
      PROVE  /\ Going(s, d)' \in Int /\ Coming(s, d)' \in Int
             /\ OnLeaf(acct'[d], s) + (Going(s, d)' + Coming(s, d)')
                    = OnLeaf(acct[d], s) + (Going(s, d) + Coming(s, d))
  <2>1. OnLeaf(acct[d], s) \in Nat /\ Going(s, d) \in Nat /\ Coming(s, d) \in Nat
    BY AtLeafIs
  <2>2. On(s, e.token, e.amount) \in Nat
        /\ OnAt(s, d, e.token, e.from, e.amount) = IF d = c THEN On(s, e.token, e.amount) ELSE 0
    BY <1>1, OnNat DEF On, OnAt
  <2>3. OnLeaf(acct'[d], s) =
            OnLeaf(acct[d], s) - (IF d = c THEN On(s, e.token, e.amount) ELSE 0)
    BY <2>1
  <2> QED  BY <1>3, <2>1, <2>2, <2>3
<1> QED  BY <1>3, <1>4, <1>5, QuietBy

\* Messages carry no token, whichever chain they leave.
LEMMA MessageSentBy ==
    ASSUME ValueInv, NEW c \in Chains, NEW to \in Chains, NEW relay \in BOOLEAN,
           NEW i \in Callers,
           NEW e, e = [order |-> GetOrderId(c), type |-> "MESSAGE", from |-> c,
                       to |-> to, token |-> NoToken, amount |-> 0,
                       initiator |-> i, swap |-> FALSE, relay |-> relay],
           MessageOut(c, e)
    PROVE  /\ e \in MessageOutEvent /\ e.from = c /\ Sends(e) /\ e.token = NoToken
           /\ e.amount = 0 /\ e.type = "MESSAGE"
<1> USE TypeParts DEF ValueInv
<1>1. GetOrderId(c) \in OrderIds  BY GetOrderIdType DEF MessageOut
<1>2. e \in MessageOutEvent /\ e.from = c /\ e.type = "MESSAGE" /\ e.token = NoToken
      /\ e.amount = 0
  BY <1>1 DEF MessageOutEvent, MessageTypes
<1>3. Sends(e)  BY <1>2, MessageOutInv
<1> QED  BY <1>2, <1>3

LEMMA ComingKept ==
    ASSUME ValueInv, relayed' = relayed, orderList' = orderList, NEW s, NEW d
    PROVE  Coming(s, d)' = Coming(s, d)
<1>1. SameEntries(d)  BY DEF SameEntries, CheckOrder
<1> QED  BY <1>1, TypeParts, ComingSame DEF ValueInv

LEMMA TransferOutValue ==
    ASSUME ValueInv, TypeOK', NEW c \in LeafChains, NEW to \in Chains, NEW t \in Tokens,
           NEW relay \in BOOLEAN, NEW i \in Callers, TransferOut(c, to, t, relay, i),
           UNCHANGED relayVars
    PROVE  ValueStep
<1> USE TypeParts, RelayIsChain
<1> DEFINE e == [order |-> GetOrderId(c), type |-> "MESSAGE", from |-> c,
                 to |-> to, token |-> NoToken, amount |-> 0,
                 initiator |-> i, swap |-> FALSE, relay |-> relay]
<1>1. /\ CollectMessageFee(c, to, t) /\ MessageOut(c, e)
      /\ UNCHANGED <<orderList, failed, depositIn, vault, relayed>>
  BY DEF TransferOut, relayVars
<1>2. e \in MessageOutEvent /\ e.from = c /\ Sends(e) /\ e.token = NoToken
  BY <1>1, MessageSentBy
<1> HIDE DEF e
<1>3. ASSUME NEW s \in Tokens
      PROVE  OnLeaf(acct'[c], s) = OnLeaf(acct[c], s) - On(s, e.token, e.amount)
  <2>1. OnLeaf(acct'[c], s) = OnLeaf(acct[c], s)  BY <1>1, MessageFeePaid DEF ValueInv
  <2>2. On(s, e.token, e.amount) = 0  BY <1>2, BridgeAssumption DEF On
  <2>3. OnLeaf(acct[c], s) \in Nat  BY AtLeafIs DEF ValueInv, BooksInv
  <2> QED  BY <2>1, <2>2, <2>3
<1>4. \A d \in Chains : d # c => acct'[d] = acct[d]
  <2>1. \A s \in Tokens : \A d \in Chains : d # c => acct'[d] = acct[d]
    BY <1>1, MessageFeePaid DEF ValueInv
  <2> QED  BY <2>1
<1>5. SendsFrom(c, e)  BY <1>1, <1>2, <1>3, <1>4, ComingKept DEF SendsFrom, LeafChains
<1> QED  BY <1>5, SendValue

LEMMA RelayTransferOutValue ==
    ASSUME ValueInv, TypeOK', NEW to \in Chains, NEW t \in Tokens,
           NEW relay \in BOOLEAN, NEW i \in Callers, RelayTransferOut(to, t, relay, i)
    PROVE  ValueStep
<1> USE TypeParts, RelayIsChain
<1> DEFINE e == [order |-> GetOrderId(Relay), type |-> "MESSAGE", from |-> Relay,
                 to |-> to, token |-> NoToken, amount |-> 0,
                 initiator |-> i, swap |-> FALSE, relay |-> relay]
           n == InEvent(e)
<1>1. /\ CollectMessageFee(Relay, to, t) /\ MessageOut(Relay, e)
      /\ relayed' = relayed \cup {n}
      /\ UNCHANGED <<orderList, failed, depositIn, vault>>
  BY DEF RelayTransferOut, EmitMessageRelay, RecordRelayed, InEvent, relayVars
<1>2. e \in MessageOutEvent /\ e.from = Relay /\ Sends(e) /\ e.token = NoToken /\ e.amount = 0
  BY <1>1, MessageSentBy
<1>3. n.order = e.order /\ n.token = NoToken /\ n.amount = 0 /\ n.order \in OrderIds
  BY <1>2 DEF InEvent, MessageOutEvent
<1> HIDE DEF e, n
<1>4. ASSUME NEW s \in Tokens
      PROVE  /\ OnLeaf(acct'[Relay], s) = OnLeaf(acct[Relay], s) - On(s, e.token, e.amount)
             /\ \A d \in Chains : d # Relay => acct'[d] = acct[d]
  <2>1. OnLeaf(acct'[Relay], s) = OnLeaf(acct[Relay], s)
        /\ \A d \in Chains : d # Relay => acct'[d] = acct[d]
    BY <1>1, MessageFeePaid DEF ValueInv
  <2>2. On(s, e.token, e.amount) = 0  BY <1>2, BridgeAssumption DEF On
  <2>3. acct[Relay] \in Account  BY DEF MoneyOK, ValueInv
  <2>4. OnLeaf(acct[Relay], s) \in Nat  BY <2>3, HeldNat, FeeSumNat DEF OnLeaf
  <2> QED  BY <2>1, <2>2, <2>4
<1>5. \A d \in Chains : d # Relay => acct'[d] = acct[d]
  <2>1. \A s \in Tokens : \A d \in Chains : d # Relay => acct'[d] = acct[d]  BY <1>4
  <2> QED  BY <2>1
<1>6. ASSUME NEW s \in Tokens, NEW d \in LeafChains
      PROVE  Coming(s, d)' = Coming(s, d)
  <2>1. \A r \in relayed : r.order # n.order
    BY <1>2, <1>3 DEF Sends, ValueInv, OrdersInv, TracedInv, Traced, Tells
  <2>2. SameEntries(d)  BY <1>1 DEF SameEntries, CheckOrder
  <2>3. Coming(s, d)' = Coming(s, d) + OnAt(s, d, n.token, n.to, n.amount)
    BY <1>1, <1>3, <2>1, <2>2, ComingRelayed DEF ValueInv, BooksInv
  <2>4. OnAt(s, d, n.token, n.to, n.amount) = 0  BY <1>3 DEF OnAt
  <2>5. Coming(s, d) \in Nat  BY AtLeafIs DEF ValueInv, BooksInv
  <2> QED  BY <2>3, <2>4, <2>5
<1>7. e.token \notin Tokens  BY <1>2, BridgeAssumption
<1>8. SendsFrom(Relay, e)  BY <1>1, <1>2, <1>4, <1>5, <1>6, <1>7 DEF SendsFrom
<1> QED  BY <1>8, SendValue

\* The tokens of an order leave their holder.
LEMMA TokensTaken ==
    ASSUME MoneyOK, NEW c \in Chains, NEW t \in Tokens, NEW a \in Nat, TakeTokens(c, t, a)
    PROVE  /\ \A s \in Tokens : OnLeaf(acct'[c], s) = OnLeaf(acct[c], s) - On(s, t, a)
           /\ \A d \in Chains : d # c => acct'[d] = acct[d]
<1> DEFINE in == TokenTransferIn(acct[c], t, a)
           ad == CheckAndBurn(c, in, t, a)
<1>1. a <= acct[c].held[t] /\ acct[c] \in Account /\ acct' = [acct EXCEPT ![c] = ad]
  BY DEF TakeTokens, MoneyOK
<1>2. in \in Account /\ in.fee = acct[c].fee  BY <1>1, TransferInType, TransferInFields
<1>3. \A s \in Tokens : HeldBy(in, s) = HeldBy(acct[c], s) - On(s, t, a)
  BY <1>1, TransferInHeld
<1> HIDE DEF in
<1>4. ad.fee = in.fee /\ \A s \in Tokens : HeldBy(ad, s) = HeldBy(in, s)  BY <1>2, BurnHeld
<1> HIDE DEF ad
<1>5. \A d \in Chains : acct'[d] = IF d = c THEN ad ELSE acct[d]  BY <1>1 DEF MoneyOK
<1>6. ASSUME NEW s \in Tokens
      PROVE  OnLeaf(ad, s) = OnLeaf(acct[c], s) - On(s, t, a)
  <2>1. FeeSum(ad, s) = FeeSum(acct[c], s)  BY <1>2, <1>4, SameFees
  <2>2. HeldBy(acct[c], s) \in Nat /\ FeeSum(acct[c], s) \in Nat /\ On(s, t, a) \in Nat
    BY <1>1, HeldNat, FeeSumNat, OnNat
  <2> QED  BY <1>3, <1>4, <2>1, <2>2 DEF OnLeaf
<1> QED  BY <1>5, <1>6

LEMMA TokensSentBy ==
    ASSUME ValueInv, TypeOK', NEW c \in LeafChains, NEW e \in MessageOutEvent, e.from = c,
           e.token \in Tokens, e.type = "DEPOSIT" => e.to = Relay,
           MessageOut(c, e), TakeTokens(c, e.token, e.amount),
           UNCHANGED <<orderList, failed, relayed>>, UNCHANGED relayVars
    PROVE  ValueStep
<1> USE TypeParts, RelayIsChain
<1>1. Sends(e)  BY MessageOutInv DEF ValueInv
<1>2. e.amount \in Nat  BY DEF MessageOutEvent
<1>3. /\ \A s \in Tokens :
            OnLeaf(acct'[c], s) = OnLeaf(acct[c], s) - On(s, e.token, e.amount)
      /\ \A d \in Chains : d # c => acct'[d] = acct[d]
  BY <1>2, TokensTaken DEF ValueInv
<1>4. c # Relay /\ UNCHANGED <<orderList, failed, depositIn, vault, relayed>>
  BY DEF LeafChains, relayVars
<1>5. SendsFrom(c, e)  BY <1>1, <1>3, <1>4, ComingKept DEF SendsFrom
<1> QED  BY <1>5, SendValue

LEMMA SwapOutTokenValue ==
    ASSUME ValueInv, TypeOK', NEW c \in LeafChains, NEW to \in Chains, NEW t \in Tokens,
           NEW a \in Amounts, NEW relay \in BOOLEAN, NEW swap \in BOOLEAN, NEW i \in Callers,
           SwapOutToken(c, to, t, a, relay, swap, i), UNCHANGED relayVars
    PROVE  ValueStep
<1> USE TypeParts, RelayIsChain
<1> DEFINE e == [order |-> GetOrderId(c), type |-> "BRIDGE", from |-> c,
                 to |-> to, token |-> t, amount |-> a,
                 initiator |-> i, swap |-> swap, relay |-> relay]
<1>1. /\ TakeTokens(c, t, a) /\ MessageOut(c, e)
      /\ UNCHANGED <<orderList, failed, relayed>>
  BY DEF SwapOutToken
<1>2. GetOrderId(c) \in OrderIds  BY <1>1, GetOrderIdType DEF MessageOut, ValueInv
<1>3. e \in MessageOutEvent /\ e.from = c /\ e.type # "DEPOSIT" /\ e.token = t /\ e.amount = a
  BY <1>2, BridgeAssumption DEF MessageOutEvent, MessageTypes
<1> HIDE DEF e
<1> QED  BY <1>1, <1>3, TokensSentBy

LEMMA DepositTokenValue ==
    ASSUME ValueInv, TypeOK', NEW c \in LeafChains, NEW t \in Tokens, NEW a \in Amounts,
           NEW i \in Callers, DepositToken(c, t, a, i), UNCHANGED relayVars
    PROVE  ValueStep
<1> USE TypeParts, RelayIsChain
<1> DEFINE e == [order |-> GetOrderId(c), type |-> "DEPOSIT", from |-> c,
                 to |-> Relay, token |-> t, amount |-> a,
                 initiator |-> i, swap |-> FALSE, relay |-> FALSE]
<1>1. /\ TakeTokens(c, t, a) /\ MessageOut(c, e)
      /\ UNCHANGED <<orderList, failed, relayed>>
  BY DEF DepositToken
<1>2. GetOrderId(c) \in OrderIds  BY <1>1, GetOrderIdType DEF MessageOut, ValueInv
<1>3. e \in MessageOutEvent /\ e.from = c /\ e.to = Relay /\ e.token = t /\ e.amount = a
  BY <1>2, BridgeAssumption DEF MessageOutEvent, MessageTypes
<1> HIDE DEF e
<1> QED  BY <1>1, <1>3, TokensSentBy

\* A chain takes an order in: what was on the way to it is there.
TakesIn(c, m, x) ==
    /\ m \in relayed /\ m.to = c /\ CheckOrder(c, m.order) /\ x # Unknown
    /\ orderList' = [orderList EXCEPT ![c][m.order] = x]
    /\ failed'[Relay] = failed[Relay]
    /\ UNCHANGED <<sent, relayed, depositIn, vault>>
    /\ \A d \in Chains : d # c => acct'[d] = acct[d]
    /\ \A s \in Tokens : OnLeaf(acct'[c], s) = OnLeaf(acct[c], s) + On(s, m.token, m.amount)

LEMMA TakesInValue ==
    ASSUME ValueInv, TypeOK', NEW c \in LeafChains, NEW m, NEW x, TakesIn(c, m, x)
    PROVE  ValueStep
<1> USE TypeParts, RelayIsChain DEF ValueInv, BooksInv, TakesIn
<1>1. m.order \in OrderIds /\ m.amount \in Nat  BY DEF LogOK, MessageInEvent
<1>2. /\ \A d \in Chains : d # c => SameEntries(d)
      /\ Sees(c, m.order)
  BY <1>1, EntryWritten
<1>3. c # Relay /\ SameEntries(Relay) /\ orderList'[Relay] = orderList[Relay]
      /\ acct'[Relay] = acct[Relay]
  BY <1>2 DEF LeafChains, OrdersOK
<1>4. ASSUME NEW s \in Tokens, NEW d \in LeafChains
      PROVE  /\ Going(s, d)' \in Int /\ Coming(s, d)' \in Int
             /\ OnLeaf(acct'[d], s) + (Going(s, d)' + Coming(s, d)')
                    = OnLeaf(acct[d], s) + (Going(s, d) + Coming(s, d))
             /\ Denied(s, d)' = Denied(s, d)
  <2>1. Going(s, d)' = Going(s, d)  BY <1>3, GoingSame
  <2>2. Denied(s, d)' = Denied(s, d)  BY <1>3, DeniedSame DEF LogsOK
  <2>3. OnLeaf(acct[d], s) \in Nat /\ Going(s, d) \in Nat /\ Coming(s, d) \in Nat
    BY AtLeafIs
  <2>4. CASE d = c
    <3>1. Coming(s, d)' = Coming(s, d) - On(s, m.token, m.amount)
      BY <1>2, <2>4, ComingSeen DEF OrdersInv
    <3>2. On(s, m.token, m.amount) \in Nat  BY <1>1, OnNat
    <3>3. OnLeaf(acct'[d], s) = OnLeaf(acct[d], s) + On(s, m.token, m.amount)  BY <2>4
    <3> QED  BY <2>1, <2>2, <2>3, <3>1, <3>2, <3>3
  <2>5. CASE d # c
    <3>1. Coming(s, d)' = Coming(s, d)  BY <1>2, <2>5, ComingSame
    <3>2. OnLeaf(acct'[d], s) = OnLeaf(acct[d], s)  BY <2>5
    <3> QED  BY <2>1, <2>2, <2>3, <3>1, <3>2
  <2> QED  BY <2>4, <2>5
<1> QED  BY <1>3, <1>4, QuietBy

LEMMA MessageInValue ==
    ASSUME ValueInv, TypeOK', NEW c \in LeafChains, NEW m \in relayed, MessageIn(c, m),
           UNCHANGED relayVars
    PROVE  ValueStep
<1> USE TypeParts, RelayIsChain DEF ValueInv, BooksInv
<1>1. /\ m.to = c /\ CheckOrder(c, m.order) /\ m \in MessageInEvent /\ m.order \in OrderIds
      /\ UNCHANGED <<sent, relayed, depositIn, vault>> /\ c # Relay
  BY DEF MessageIn, relayVars, LogOK, MessageInEvent, LeafChains
<1>2. CASE m.type = "MESSAGE"
  <2>1. acct' = acct /\ (EmitMessageIn(c, m) \/ StoreMessageData(c, m))
    BY <1>2 DEF MessageIn, TransferIn
  <2>2. PICK x : x # Unknown /\ orderList' = [orderList EXCEPT ![c][m.order] = x]
                 /\ failed'[Relay] = failed[Relay]
    <3>1. Stored(m) # Unknown /\ Processed # Unknown  BY DEF Stored, Unknown, Processed
    <3> QED  BY <1>1, <2>1, <3>1 DEF EmitMessageIn, MarkProcessed, StoreMessageData, OrdersOK
  <2>3. ASSUME NEW s \in Tokens
        PROVE  OnLeaf(acct'[c], s) = OnLeaf(acct[c], s) + On(s, m.token, m.amount)
    <3>1. On(s, m.token, m.amount) = 0  BY <1>2, BridgeAssumption DEF On, PlainLog
    <3>2. OnLeaf(acct[c], s) \in Nat  BY AtLeafIs
    <3> QED  BY <2>1, <3>1, <3>2
  <2>4. TakesIn(c, m, x)  BY <1>1, <2>1, <2>2, <2>3 DEF TakesIn
  <2> QED  BY <2>4, TakesInValue
<1>3. CASE m.type # "MESSAGE"
  <2> DEFINE t == m.token
             a == m.amount
             ac == CheckAndMint(c, acct[c], t, a)
             out == TokenTransferOut(ac, t, a)
  <2>1. SwapIn(c, m, ac)  BY <1>3 DEF MessageIn
  <2>2. t \in Tokens /\ a \in Nat  BY <1>1, <1>3, IsTokenEvent, TokenEventFields
  <2>3. acct[c] \in Account  BY DEF MoneyOK
  <2>4. ac \in Account  BY <2>2, <2>3, MintType
  <2>5. ac.fee = acct[c].fee /\ \A s \in Tokens : HeldBy(ac, s) = HeldBy(acct[c], s)
    BY <2>3, MintHeld
  <2> HIDE DEF ac, t, a
  <2>6. /\ orderList' = [orderList EXCEPT ![c][m.order] = Processed] /\ failed' = failed
        /\ acct' = [acct EXCEPT ![c] = out] \/ acct' = [acct EXCEPT ![c] = Park(ac, t, a)]
    BY <2>1 DEF SwapIn, EmitMessageIn, MarkProcessed, Park, t, a
  <2>7. \A s \in Tokens : HeldBy(out, s) = HeldBy(ac, s) + On(s, t, a)
        /\ HeldBy(Park(ac, t, a), s) = HeldBy(ac, s) + On(s, t, a)
    BY <2>2, <2>4, TransferOutHeld, ParkHeld
  <2>8. \A s \in Tokens : out.fee = ac.fee /\ Park(ac, t, a).fee = ac.fee
    BY <2>2, <2>4, TransferOutFields, ParkHeld
  <2> HIDE DEF out
  <2>9. /\ \A d \in Chains : d # c => acct'[d] = acct[d]
        /\ acct'[c] = out \/ acct'[c] = Park(ac, t, a)
    BY <2>6 DEF MoneyOK
  <2>10. ASSUME NEW s \in Tokens
         PROVE  OnLeaf(acct'[c], s) = OnLeaf(acct[c], s) + On(s, m.token, m.amount)
    <3>1. FeeSum(acct'[c], s) = FeeSum(acct[c], s)  BY <2>5, <2>8, <2>9, SameFees
    <3>2. HeldBy(acct'[c], s) = HeldBy(acct[c], s) + On(s, t, a)  BY <2>5, <2>7, <2>9
    <3>3. HeldBy(acct[c], s) \in Nat /\ FeeSum(acct[c], s) \in Nat /\ On(s, t, a) \in Nat
      BY <2>2, <2>3, HeldNat, FeeSumNat, OnNat
    <3> QED  BY <3>1, <3>2, <3>3 DEF OnLeaf, t, a
  <2>11. Processed # Unknown  BY DEF Unknown, Processed
  <2>12. TakesIn(c, m, Processed)  BY <1>1, <2>6, <2>9, <2>10, <2>11 DEF TakesIn
  <2> QED  BY <2>12, TakesInValue
<1> QED  BY <1>2, <1>3

LEMMA RetryMessageInValue ==
    ASSUME ValueInv, TypeOK', NEW c \in LeafChains, NEW m \in failed[c], RetryMessageIn(c, m),
           UNCHANGED relayVars
    PROVE  ValueStep
<1> USE TypeParts, RelayIsChain DEF ValueInv, BooksInv
<1>1. /\ orderList[c][m.order] = Stored(m) /\ m.order \in OrderIds /\ c # Relay
      /\ orderList' = [orderList EXCEPT ![c][m.order] = Processed] /\ failed' = failed
      /\ acct' = acct /\ UNCHANGED <<sent, relayed, depositIn, vault>>
  BY DEF RetryMessageIn, GetStoredMessage, EmitMessageIn, MarkProcessed, relayVars, OrdersOK,
         MessageInEvent, LeafChains
<1>2. Stored(m) # Unknown /\ Processed # Unknown  BY DEF Stored, Unknown, Processed
<1>3. ~CheckOrder(c, m.order)  BY <1>1, <1>2 DEF CheckOrder
<1>4. \A d \in Chains : SameEntries(d)
  <2>1. /\ \A d \in Chains : d # c => SameEntries(d)
        /\ SameEntries(c)
    BY <1>1, <1>2, <1>3, EntryWritten
  <2> QED  BY <2>1
<1>5. orderList'[Relay] = orderList[Relay]  BY <1>1 DEF OrdersOK
<1>6. \A s \in Tokens, d \in LeafChains :
        /\ Going(s, d)' = Going(s, d) /\ Coming(s, d)' = Coming(s, d)
        /\ Denied(s, d)' = Denied(s, d)
        /\ Going(s, d) \in Nat /\ Coming(s, d) \in Nat
  BY <1>1, <1>4, GoingSame, ComingSame, DeniedSame, AtLeafIs DEF LogsOK
<1> QED  BY <1>1, <1>5, <1>6, QuietBy

LEMMA LeafNextValue ==
    ASSUME ValueInv, TypeOK', NEW c \in LeafChains, LeafNext(c), UNCHANGED relayVars
    PROVE  ValueStep
<1>1. c \in Chains  BY RelayIsChain
<1> QED  BY <1>1, TransferOutValue, SwapOutTokenValue, DepositTokenValue, MessageInValue,
            RetryMessageInValue, CommonNextValue DEF LeafNext

LEMMA NextValue ==
    ASSUME ValueInv, TypeOK', [Next]_vars
    PROVE  ValueStep
<1> USE TypeParts, RelayIsChain
<1>1. ASSUME NEW c, NEW enable, RegisterChain(c, enable) PROVE ValueStep
  BY <1>1, IdleValue DEF RegisterChain
<1>2. ASSUME NEW t \in Tokens, NEW a \in Amounts \cup {vault[t].shares}, a > 0, Withdraw(t, a)
      PROVE  ValueStep
  <2>1. vault[t].shares \in Nat  BY DEF ValueInv, MoneyOK, V!Vault
  <2>2. a \in Nat  BY <2>1, BridgeAssumption
  <2> QED  BY <1>2, <2>2, WithdrawValue
<1>3. CASE RelayNext
  BY <1>1, <1>2, <1>3, RelayTransferOutValue, RelaySwapOutTokenValue, RelayDepositTokenValue,
     RelayMessageInValue, RelayRetryValue, CommonNextValue DEF RelayNext
<1>4. CASE UNCHANGED vars  BY <1>4, IdleValue DEF vars, baseVars, relayVars
<1> QED  BY <1>3, <1>4, LeafNextValue DEF Next

-----------------------------------------------------------------------------
(* The logs the value of a token is counted over.                          *)

LEMMA LogsFiniteStep ==
    ASSUME LogsFinite, OrderMoves
    PROVE  LogsFinite'
<1>1. sent' = sent \/ \E e : sent' = sent \cup {e}  BY DEF OrderMoves, Sends
<1>2. relayed' = relayed \/ \E m : relayed' = relayed \cup {m}
  BY DEF OrderMoves, Relays, EmitMessageRelay, Delivers, Keeps
<1>3. IsFiniteSet(sent')  BY <1>1, FS_AddElement DEF LogsFinite
<1>4. IsFiniteSet(relayed')  BY <1>2, FS_AddElement DEF LogsFinite
<1> QED  BY <1>3, <1>4 DEF LogsFinite

\* An entry is written for an order that was sent, and on a chain other than the
\* relay chain for one that was relayed.
LEMMA SeenStep ==
    ASSUME OrdersOK, SeenInv, OrderMoves
    PROVE  SeenInv'
<1> USE RelayIsChain
<1>1. sent \subseteq sent' /\ relayed \subseteq relayed'
  BY DEF OrderMoves, Sends, Relays, EmitMessageRelay, Delivers, Keeps
<1>2. CASE orderList' = orderList
  BY <1>1, <1>2 DEF SeenInv, CheckOrder
<1>3. ASSUME NEW c \in Chains, NEW p, NEW x, orderList' = [orderList EXCEPT ![c][p] = x],
             \E e \in sent : e.order = p,
             c # Relay => \E r \in relayed : r.order = p
      PROVE  SeenInv'
  <2>1. \A d \in Chains, o \in OrderIds :
            d # c \/ o # p => orderList'[d][o] = orderList[d][o]
    BY <1>3 DEF OrdersOK
  <2>2. \A o \in OrderIds : ~CheckOrder(Relay, o)' => \E e \in sent : e.order = o
    BY <1>3, <2>1 DEF SeenInv, CheckOrder
  <2>3. ASSUME NEW d \in LeafChains, NEW o \in OrderIds, ~CheckOrder(d, o)'
        PROVE  \E r \in relayed : r.order = o
    <3>1. d \in Chains /\ d # Relay  BY DEF LeafChains
    <3>2. CASE d # c \/ o # p  BY <2>1, <2>3, <3>1, <3>2 DEF SeenInv, CheckOrder
    <3>3. CASE d = c /\ o = p  BY <1>3, <3>1, <3>3
    <3> QED  BY <3>2, <3>3
  <2> QED  BY <1>1, <2>2, <2>3 DEF SeenInv
<1>4. ASSUME NEW e \in sent, NEW m, Tells(m, e), NEW c \in Chains, Delivers(c, m) \/ Keeps(c, m)
      PROVE  SeenInv'
  <2>1. e.order = m.order  BY <1>4 DEF Tells
  <2>2. /\ c # Relay => \E r \in relayed : r.order = m.order
        /\ \E x : orderList' = [orderList EXCEPT ![c][m.order] = x]
    BY <1>4 DEF Delivers, EmitMessageIn, MarkProcessed, Keeps, StoreMessageData
  <2> QED  BY <1>3, <2>1, <2>2
<1>5. ASSUME NEW m, m.from = Relay, Relays(m) PROVE orderList' = orderList
  BY <1>5 DEF Relays, EmitMessageRelay, RecordRelayed
<1>6. ASSUME NEW e \in sent, NEW m, Tells(m, e), m.from # Relay, Relays(m) PROVE SeenInv'
  <2>1. e.order = m.order /\ orderList' = [orderList EXCEPT ![Relay][m.order] = Processed]
    BY <1>6 DEF Tells, Relays, EmitMessageRelay, RecordRelayed, MarkProcessed
  <2> QED  BY <1>3, <2>1
<1> QED  BY <1>2, <1>4, <1>5, <1>6 DEF OrderMoves

\* What has an entry keeps one.
LEMMA SeenStays ==
    ASSUME OrdersOK, EntriesStep, NEW c \in Chains, NEW o \in OrderIds, ~CheckOrder(c, o)
    PROVE  ~CheckOrder(c, o)'
<1>1. orderList[c][o] \in OrderState  BY DEF OrdersOK
<1>2. orderList[c][o].status \in {"processed", "stored"}
  BY <1>1 DEF CheckOrder, OrderState, Unknown
<1>3. orderList'[c][o] \in {orderList[c][o], Processed}
  BY <1>2 DEF EntriesStep, Stage
<1>4. Processed # Unknown  BY DEF Processed, Unknown
<1> QED  BY <1>3, <1>4 DEF CheckOrder

\* What a step of the contracts may add to the logs of the relay chain.
Logs(n) ==
    /\ relayed' \subseteq relayed \cup {n} /\ failed'[Relay] \subseteq failed[Relay] \cup {n}
    /\ n.type = "MESSAGE" => n.token = NoToken

LEMMA PlainLogged ==
    ASSUME PlainLog, NEW n, Logs(n)
    PROVE  PlainLog'
BY DEF PlainLog, Logs

LEMMA PlainKept ==
    ASSUME PlainLog, relayed' = relayed, failed'[Relay] = failed[Relay]
    PROVE  PlainLog'
BY DEF PlainLog

LEMMA KeptIn ==
    ASSUME OrdersOK, NEW m, StoreMessageData(Relay, m)
    PROVE  failed'[Relay] = failed[Relay] \cup {m}
BY RelayIsChain DEF StoreMessageData, OrdersOK

LEMMA HandledPlain ==
    ASSUME OrdersOK, PlainLog, NEW m, m.type # "MESSAGE", NEW relay, NEW must,
           Handled(m, relay, must)
    PROVE  PlainLog'
<1>1. PICK n : SameOrder(n, m) /\ Ends(n, m.to, must)  BY DEF Handled
<1>2. n.type # "MESSAGE"  BY <1>1 DEF SameOrder
<1>3. \/ relayed' = relayed /\ failed' = failed
      \/ StoreMessageData(Relay, n) /\ relayed' = relayed
      \/ relayed' = relayed \cup {n} /\ failed' = failed
  BY <1>1 DEF Ends, EmitMessageIn, EmitMessageRelay
<1>4. Logs(n)  BY <1>2, <1>3, KeptIn DEF Logs
<1> QED  BY <1>4, PlainLogged

LEMMA TransferRelayPlain ==
    ASSUME OrdersOK, PlainLog, NEW m, m.token = NoToken, NEW relay, NEW must,
           TransferRelay(m, relay, must)
    PROVE  PlainLog'
<1>1. \/ relayed' = relayed /\ failed' = failed
      \/ StoreMessageData(Relay, m) /\ relayed' = relayed
      \/ relayed' = relayed \cup {m} /\ failed' = failed
  BY DEF TransferRelay, TransferIn, EmitMessageIn, KeepForRetry, EmitMessageRelay
<1>2. Logs(m)  BY <1>1, KeptIn DEF Logs
<1> QED  BY <1>2, PlainLogged

LEMMA RelayMessageInPlain ==
    ASSUME ValueInv, NEW e \in sent, RelayMessageIn(e)
    PROVE  PlainLog'
<1> USE TypeParts DEF ValueInv, BooksInv
<1>1. PICK m : Comes(m, e)  BY MessageComes
<1>2. m.type = e.type /\ m.token = e.token  BY <1>1 DEF Comes, Tells
<1>3. CASE e.type = "MESSAGE"
  <2>1. m.token = NoToken  BY <1>2, <1>3 DEF FundsInv, PlainInv
  <2>2. TransferRelay(m, e.relay, FALSE)  BY <1>1, <1>3 DEF Comes
  <2> QED  BY <2>1, <2>2, TransferRelayPlain
<1>4. CASE e.type # "MESSAGE"
  <2>1. PICK relay, must : Handled(m, relay, must)  BY <1>1 DEF Comes
  <2> QED  BY <1>2, <1>4, <2>1, HandledPlain
<1> QED  BY <1>3, <1>4

LEMMA RelayRetryPlain ==
    ASSUME ValueInv, NEW m \in failed[Relay], RelayRetryMessageIn(m)
    PROVE  PlainLog'
<1> USE TypeParts, RelayIsChain DEF ValueInv, BooksInv
<1>1. CASE m.type = "MESSAGE"
  <2>1. TransferRelay(m, TRUE, TRUE)  BY <1>1 DEF RelayRetryMessageIn
  <2>2. m.token = NoToken  BY <1>1 DEF PlainLog
  <2> QED  BY <2>1, <2>2, TransferRelayPlain
<1>2. CASE m.type # "MESSAGE"
  <2>1. SwapRelay(m, TRUE, TRUE, Books)  BY <1>2 DEF RelayRetryMessageIn
  <2>2. m \in TokenEvent  BY <1>2, IsTokenEvent DEF OrdersOK
  <2>3. Handled(m, TRUE, TRUE)  BY <2>1, <2>2, SwapRelayEnds
  <2> QED  BY <1>2, <2>3, HandledPlain
<1> QED  BY <1>1, <1>2

LEMMA RelaySwapOutTokenPlain ==
    ASSUME ValueInv, NEW to \in Chains, NEW t \in Tokens, NEW a \in Amounts,
           NEW relay \in BOOLEAN, NEW swap \in BOOLEAN, NEW i \in Callers,
           RelaySwapOutToken(to, t, a, relay, swap, i)
    PROVE  PlainLog'
<1> USE TypeParts, RelayIsChain DEF ValueInv, BooksInv
<1> DEFINE e == [order |-> GetOrderId(Relay), type |-> "BRIDGE", from |-> Relay,
                 to |-> to, token |-> t, amount |-> a,
                 initiator |-> i, swap |-> swap, relay |-> relay]
           m == InEvent(e)
           ac == TokenTransferIn(acct[Relay], t, a)
           ck == [Books EXCEPT !.acct = ac]
<1>1. /\ MessageOut(Relay, e) /\ ChargeSource(m, relay, TRUE, ck)
      /\ a <= acct[Relay].held[t] /\ a \in Nat
  BY BridgeAssumption DEF RelaySwapOutToken, Books
<1>2. GetOrderId(Relay) \in OrderIds  BY <1>1, GetOrderIdType DEF MessageOut
<1>3. e \in MessageOutEvent /\ m.type = "BRIDGE" /\ m.token = t
  BY <1>1, <1>2 DEF MessageOutEvent, MessageTypes, InEvent
<1>4. ac \in Account  BY <1>1, TransferInType DEF MoneyOK
<1> HIDE DEF e, ac
<1>5. m \in TokenEvent  BY <1>3, InEventType DEF TokenEvent
<1>6. ck \in BooksType  BY <1>4, BooksOK DEF BooksType, Books
<1> HIDE DEF m, ck
<1>7. Handled(m, relay, TRUE)  BY <1>1, <1>5, <1>6, ChargeSourceEnds
<1> QED  BY <1>3, <1>7, HandledPlain

LEMMA RelayTransferOutPlain ==
    ASSUME PlainLog, NEW to, NEW t, NEW relay, NEW i, RelayTransferOut(to, t, relay, i)
    PROVE  PlainLog'
<1> DEFINE e == [order |-> GetOrderId(Relay), type |-> "MESSAGE", from |-> Relay,
                 to |-> to, token |-> NoToken, amount |-> 0,
                 initiator |-> i, swap |-> FALSE, relay |-> relay]
           n == InEvent(e)
<1>1. relayed' = relayed \cup {n} /\ failed' = failed
  BY DEF RelayTransferOut, EmitMessageRelay
<1>2. n.token = NoToken  BY SMTT(30) DEF InEvent
<1> HIDE DEF n
<1> QED  BY <1>1, <1>2, PlainLogged DEF Logs

LEMMA PlainLogStep ==
    ASSUME ValueInv, [Next]_vars
    PROVE  PlainLog'
<1> USE DEF ValueInv, BooksInv
<1>1. ASSUME NEW t, NEW a, RelayDepositToken(t, a) \/ Withdraw(t, a) PROVE PlainLog'
  BY <1>1, PlainKept DEF RelayDepositToken, Withdraw
<1>2. ASSUME NEW c, NEW enable, RegisterChain(c, enable) PROVE PlainLog'
  BY <1>2, PlainKept DEF RegisterChain
<1>3. CASE RelayNext
  BY <1>1, <1>2, <1>3, RelayTransferOutPlain, RelaySwapOutTokenPlain, RelayMessageInPlain,
     RelayRetryPlain, CommonNextLogs, PlainKept DEF RelayNext
<1>4. CASE UNCHANGED vars  BY <1>4, PlainKept DEF vars, baseVars
<1>5. ASSUME NEW c \in LeafChains, LeafNext(c) PROVE PlainLog'
  BY <1>5, LeafNextLogs, PlainKept
<1> QED  BY <1>3, <1>4, <1>5 DEF Next

\* A deposit is logged in the transaction that settles its order.
LEMMA RelayMessageInDeposits ==
    ASSUME ValueInv, NEW e \in sent, RelayMessageIn(e)
    PROVE  \/ depositIn' = depositIn
           \/ \E o \in OrderIds :
                depositIn' = depositIn \cup {o} /\ orderList' = [orderList EXCEPT ![Relay][o] = Processed]
<1>1. PICK m : Comes(m, e)  BY MessageComes DEF ValueInv
<1>2. m.order \in OrderIds  BY <1>1, ComesSees
<1>3. CASE e.type # "DEPOSIT"  BY <1>1, <1>3 DEF Comes
<1>4. CASE e.type = "DEPOSIT"
  <2>1. DepositIn(m, Minted(m))  BY <1>1, <1>4 DEF Comes
  <2>2. \/ depositIn' = depositIn
        \/ depositIn' = depositIn \cup {m.order}
    BY <2>1 DEF DepositIn
  <2>3. orderList' = [orderList EXCEPT ![Relay][m.order] = Processed]
    BY <2>1 DEF DepositIn, EmitMessageIn, MarkProcessed
  <2> QED  BY <1>2, <2>2, <2>3
<1> QED  BY <1>3, <1>4

LEMMA DepositsLogged ==
    ASSUME ValueInv, [Next]_vars
    PROVE  \/ depositIn' = depositIn
           \/ \E o \in OrderIds :
                depositIn' = depositIn \cup {o} /\ orderList' = [orderList EXCEPT ![Relay][o] = Processed]
<1>1. ASSUME NEW c, LeafNext(c), UNCHANGED relayVars PROVE depositIn' = depositIn
  BY <1>1 DEF relayVars
<1>2. ASSUME NEW to, NEW t, NEW relay, NEW i, RelayTransferOut(to, t, relay, i)
      PROVE  depositIn' = depositIn
  BY <1>2 DEF RelayTransferOut, relayVars
<1>3. ASSUME NEW to, NEW t, NEW a, NEW relay, NEW swap, NEW i,
             RelaySwapOutToken(to, t, a, relay, swap, i)
      PROVE  depositIn' = depositIn
  BY <1>3 DEF RelaySwapOutToken
<1>4. ASSUME NEW t, NEW a, RelayDepositToken(t, a) \/ Withdraw(t, a) PROVE depositIn' = depositIn
  BY <1>4 DEF RelayDepositToken, Withdraw
<1>5. ASSUME NEW m, RelayRetryMessageIn(m) PROVE depositIn' = depositIn
  BY <1>5 DEF RelayRetryMessageIn
<1>6. ASSUME NEW c, NEW enable, RegisterChain(c, enable) PROVE depositIn' = depositIn
  BY <1>6 DEF RegisterChain
<1>7. CASE RelayNext
  BY <1>2, <1>3, <1>4, <1>5, <1>6, <1>7, RelayMessageInDeposits DEF RelayNext, relayVars
<1>8. CASE UNCHANGED vars  BY <1>8 DEF vars, relayVars
<1> QED  BY <1>1, <1>7, <1>8 DEF Next

LEMMA DepositsSeenStep ==
    ASSUME ValueInv, EntriesStep, [Next]_vars
    PROVE  DepositsSeen'
<1> USE TypeParts, RelayIsChain DEF ValueInv, BooksInv
<1>1. \A o \in depositIn : o \in OrderIds /\ ~CheckOrder(Relay, o)'
  BY SeenStays DEF DepositsSeen, DepositsOK
<1>2. CASE depositIn' = depositIn  BY <1>1, <1>2 DEF DepositsSeen
<1>3. ASSUME NEW p \in OrderIds, depositIn' = depositIn \cup {p},
             orderList' = [orderList EXCEPT ![Relay][p] = Processed]
      PROVE  DepositsSeen'
  <2>1. orderList'[Relay][p] = Processed /\ Processed # Unknown
    BY <1>3 DEF OrdersOK, Processed, Unknown
  <2>2. ~CheckOrder(Relay, p)'  BY <2>1 DEF CheckOrder
  <2> QED  BY <1>1, <1>3, <2>2 DEF DepositsSeen
<1> QED  BY <1>2, <1>3, DepositsLogged

LEMMA InitBooks == Init => BooksInv
<1> SUFFICES ASSUME Init PROVE BooksInv  OBVIOUS
<1> USE RelayIsChain
<1>1. sent = {} /\ relayed = {} /\ failed[Relay] = {} /\ depositIn = {}  BY DEF Init
<1>2. \A c \in Chains, o \in OrderIds : CheckOrder(c, o)  BY DEF Init, CheckOrder
<1> QED  BY <1>1, <1>2, FS_EmptySet
      DEF BooksInv, LogsFinite, PlainLog, SeenInv, DepositsSeen

\* The invariant the value of a token is reasoned about from is kept, and every
\* step is one of the three kinds.
LEMMA NextBooks ==
    ASSUME ValueInv, [Next]_vars
    PROVE  ValueInv' /\ ValueStep
<1> USE TypeParts DEF ValueInv
<1>1. TypeOK'  BY NextType
<1>2. OrdersInv' /\ OrderStep  BY NextOrders
<1>3. FundsInv'  BY <1>1, <1>2, NextFunds
<1>4. LogsFinite' /\ SeenInv'  BY <1>2, LogsFiniteStep, SeenStep DEF OrderStep, BooksInv
<1>5. PlainLog'  BY PlainLogStep
<1>6. DepositsSeen'  BY <1>2, DepositsSeenStep DEF OrderStep
<1>7. ValueStep  BY <1>1, NextValue
<1> QED  BY <1>1, <1>2, <1>3, <1>4, <1>5, <1>6, <1>7 DEF BooksInv

LEMMA InitValue == Init => ValueInv
BY InitType, InitOrders, InitFunds, InitBooks DEF ValueInv

-----------------------------------------------------------------------------
(* The vault's book of a chain.                                            *)

LEMMA DepositedNat ==
    ASSUME NEW t \in Tokens, NEW c \in Chains
    PROVE  Deposited(t, c) \in Nat /\ InitHeld[c][t] \in Nat
<1>1. InitLiquidity[c][t] \in Nat /\ InitHeld[c][t] \in Nat  BY BridgeAssumption
<1> QED  BY <1>1, RelayIsChain, TargetAmountNat DEF Deposited

LEMMA NoFeesYet ==
    ASSUME NEW ac \in Account, NEW t \in Tokens, \A r \in FeeReceivers : ac.fee[r][t] = 0
    PROVE  FeeSum(ac, t) = 0
<1> DEFINE f == [r \in FeeReceivers |-> ac.fee[r][t]]
<1>1. \A r \in FeeReceivers : f[r] = 0  OBVIOUS
<1> HIDE DEF f
<1>2. SumFunctionOnSet(f, FeeReceivers) = 0  BY <1>1, ReceiversFinite, SumZero
<1> QED  BY <1>2 DEF FeeSum, f

LEMMA SumNone == AmountSum({}) = 0
BY SumEmpty DEF AmountSum

\* What every chain is worth at the start.
LEMMA InitWorths ==
    ASSUME Init, NEW t \in Tokens
    PROVE  /\ AtRelay(t) = InitHeld[Relay][t] + InitVault(t).total
           /\ InitVault(t).total \in Nat
           /\ \A c \in LeafChains :
                AtLeaf(t, c) = InitHeld[c][t] /\ Book(t, c) = Deposited(t, c)
<1> USE RelayIsChain
<1>1. TypeOK  BY InitType
<1>2. ASSUME NEW c \in Chains
      PROVE  HeldBy(acct[c], t) = InitHeld[c][t] /\ FeeSum(acct[c], t) = 0
             /\ InitHeld[c][t] \in Nat
  <2>1. acct[c].held = InitHeld[c] /\ acct[c].parked[t] = 0
        /\ \A r \in FeeReceivers : acct[c].fee[r][t] = 0
    BY DEF Init
  <2>2. acct[c] \in Account  BY <1>1 DEF TypeOK
  <2>3. FeeSum(acct[c], t) = 0  BY <2>1, <2>2, NoFeesYet
  <2> QED  BY <2>1, <2>3, DepositedNat DEF HeldBy
<1>3. vault[t] = InitVault(t)  BY DEF Init
<1>4. vault[t].total \in Nat  BY <1>1 DEF TypeOK, V!Vault
<1>5. Kept(t) = {}  BY DEF Init, Kept, KeptAt
<1>6. AmountSum(Kept(t)) = 0  BY <1>5, SumNone
<1>7. ASSUME NEW c \in LeafChains
      PROVE  /\ Going(t, c) = 0 /\ Coming(t, c) = 0 /\ Denied(t, c) = 0
             /\ vault[t].balance[c] = Deposited(t, c)
  <2>1. ToRelay(t, c) = {} /\ ToLeaf(t, c) = {} /\ Refused(t, c) = {}
    BY DEF Init, ToRelay, ToLeaf, Refused
  <2>2. vault[t].balance[c] = Deposited(t, c)  BY <1>3 DEF InitVault
  <2> QED  BY <2>1, <2>2, SumNone DEF Going, Coming, Denied
<1>8. AtRelay(t) = InitHeld[Relay][t] + InitVault(t).total
  BY <1>2, <1>3, <1>4, <1>6 DEF AtRelay
<1>9. ASSUME NEW c \in LeafChains
      PROVE  AtLeaf(t, c) = InitHeld[c][t] /\ Book(t, c) = Deposited(t, c)
  BY <1>2, <1>7, DepositedNat DEF AtLeaf, Book
<1> QED  BY <1>3, <1>4, <1>8, <1>9

\* What a chain is worth and what its book holds is, together, what it always was.
Tracked ==
    \A t \in Tokens, c \in LeafChains : Scale[t][c] = Scale[t][Relay] =>
        AtLeaf(t, c) + Book(t, c) = InitHeld[c][t] + Deposited(t, c)

LEMMA LeafNat ==
    ASSUME ValueInv, NEW t \in Tokens, NEW c \in LeafChains
    PROVE  AtLeaf(t, c) \in Nat /\ Book(t, c) \in Int
<1>1. AtLeaf(t, c) = OnLeaf(acct[c], t) + (Going(t, c) + Coming(t, c))
      /\ OnLeaf(acct[c], t) \in Nat /\ Going(t, c) \in Nat /\ Coming(t, c) \in Nat
      /\ Denied(t, c) \in Nat /\ vault[t].balance[c] \in Int
  BY AtLeafIs, TypeParts DEF ValueInv, BooksInv
<1> QED  BY <1>1 DEF Book

LEMMA TrackedStep ==
    ASSUME ValueInv, Tracked, ValueStep
    PROVE  Tracked'
<1> SUFFICES ASSUME NEW t \in Tokens, NEW c \in LeafChains, Scale[t][c] = Scale[t][Relay]
             PROVE  AtLeaf(t, c)' + Book(t, c)' = InitHeld[c][t] + Deposited(t, c)
  BY DEF Tracked, Deposited
<1>1. AtLeaf(t, c) + Book(t, c) = InitHeld[c][t] + Deposited(t, c)  BY DEF Tracked
<1>2. AtLeaf(t, c) \in Nat /\ Book(t, c) \in Int  BY LeafNat
<1>3. CASE LeavesKept  BY <1>1, <1>3 DEF LeavesKept
<1>4. ASSUME NEW s \in Tokens, NEW u \in Tokens, NEW f \in Chains, NEW d \in Chains,
             NEW a \in Nat, NEW b \in Nat, Exchange(s, f, b, u, d, a)
      PROVE  AtLeaf(t, c)' + Book(t, c)' = InitHeld[c][t] + Deposited(t, c)
  <2> DEFINE x == OnAt(t, c, s, f, b)
             y == OnAt(t, c, u, d, TargetAmount(u, Relay, d, a))
             z == OnAt(t, c, u, d, a)
  <2>1. AtLeaf(t, c)' = AtLeaf(t, c) - x + y /\ Book(t, c)' = Book(t, c) + x - z
    BY <1>4 DEF Exchange
  <2>2. y = z  BY DEF OnAt, TargetAmount
  <2>3. x \in Nat /\ z \in Nat  BY OnNat
  <2> HIDE DEF x, y, z
  <2> QED  BY <1>1, <1>2, <2>1, <2>2, <2>3
<1> QED  BY <1>3, <1>4 DEF ValueStep, Quiet, LeavesBehind, Exchanges

LEMMA AmountUnion ==
    ASSUME NEW S, NEW T, IsFiniteSet(S), IsFiniteSet(T), S \cap T = {},
           \A e \in S \cup T : e.amount \in Nat
    PROVE  AmountSum(S \cup T) = AmountSum(S) + AmountSum(T)
<1> DEFINE f == Amounted(S \cup T)
<1>1. /\ \A e \in S \cup T : f[e] \in Int
      /\ \A e \in S : f[e] = Amounted(S)[e]
      /\ \A e \in T : f[e] = Amounted(T)[e]
  BY DEF Amounted
<1>2. AmountSum(S \cup T) = SumFunctionOnSet(f, S \cup T)  BY DEF AmountSum
<1> HIDE DEF f
<1>3. SumFunctionOnSet(f, S \cup T) = SumFunctionOnSet(f, S) + SumFunctionOnSet(f, T)
  BY <1>1, SumUnion
<1>4. SumFunctionOnSet(f, S) = AmountSum(S) /\ SumFunctionOnSet(f, T) = AmountSum(T)
  BY <1>1, SumSame DEF AmountSum
<1> QED  BY <1>2, <1>3, <1>4

LEMMA TracksLeafIs ==
    ASSUME NEW t, NEW c
    PROVE  /\ SumOver(ToRelay(t, c) \cup Refused(t, c), LAMBDA e : e.amount)
                = AmountSum(ToRelay(t, c) \cup Refused(t, c))
           /\ SumOver(ToLeaf(t, c), LAMBDA m : m.amount) = Coming(t, c)
           /\ FeesOf(c, t) = FeeSum(acct[c], t)
BY DEF SumOver, SumFunction, AmountSum, Amounted, Coming, FeesOf, FeeSum

LEMMA TrackedTracks ==
    ASSUME ValueInv, Tracked
    PROVE  VaultTracksLeaf
<1> USE TypeParts, RelayIsChain DEF ValueInv, BooksInv
<1> SUFFICES ASSUME NEW t \in Tokens, NEW c \in LeafChains, Scale[t][c] = Scale[t][Relay]
             PROVE  InitHeld[c][t] - acct[c].held[t] - acct[c].parked[t] =
                        FeesOf(c, t) + vault[t].balance[c] - InitVault(t).balance[c]
                        + SumOver(ToRelay(t, c) \cup Refused(t, c), LAMBDA e : e.amount)
                        + SumOver(ToLeaf(t, c), LAMBDA m : m.amount)
  BY DEF VaultTracksLeaf
<1>1. AtLeaf(t, c) + Book(t, c) = InitHeld[c][t] + Deposited(t, c)  BY DEF Tracked
<1>2. AmountSum(ToRelay(t, c) \cup Refused(t, c)) = Going(t, c) + Denied(t, c)
  <2>1. ToRelay(t, c) \cap Refused(t, c) = {}  BY DEF ToRelay, Refused
  <2>2. /\ IsFiniteSet(ToRelay(t, c)) /\ IsFiniteSet(Refused(t, c))
        /\ \A e \in ToRelay(t, c) \cup Refused(t, c) : e.amount \in Nat
    BY ToRelayFinite
  <2> QED  BY <2>1, <2>2, AmountUnion DEF Going, Denied
<1>3. InitVault(t).balance[c] = Deposited(t, c)  BY DEF InitVault
<1>4. /\ Going(t, c) \in Nat /\ Coming(t, c) \in Nat /\ Denied(t, c) \in Nat
      /\ vault[t].balance[c] \in Int
  BY AtLeafIs
<1>5. acct[c] \in Account  BY DEF MoneyOK
<1>6. FeeSum(acct[c], t) \in Nat /\ acct[c].held[t] \in Nat /\ acct[c].parked[t] \in Nat
  BY <1>5, FeeSumNat DEF Account
<1>7. Deposited(t, c) \in Nat /\ InitHeld[c][t] \in Nat  BY DepositedNat
<1>8. AtLeaf(t, c) = acct[c].held[t] + acct[c].parked[t] + FeeSum(acct[c], t)
                        + Going(t, c) + Coming(t, c)
      /\ Book(t, c) = vault[t].balance[c] + Denied(t, c)
  BY DEF AtLeaf, HeldBy, Book
<1> DEFINE away == SumOver(ToRelay(t, c) \cup Refused(t, c), LAMBDA e : e.amount)
           back == SumOver(ToLeaf(t, c), LAMBDA m : m.amount)
<1>9. /\ away = AmountSum(ToRelay(t, c) \cup Refused(t, c))
      /\ back = Coming(t, c) /\ FeesOf(c, t) = FeeSum(acct[c], t)
  BY ONLY TracksLeafIs
<1>10. SUFFICES InitHeld[c][t] - acct[c].held[t] - acct[c].parked[t] =
                    FeesOf(c, t) + vault[t].balance[c] - InitVault(t).balance[c] + away + back
  OBVIOUS
<1> HIDE DEF away, back, ValueInv, BooksInv
<1> QED  BY ONLY <1>1, <1>2, <1>3, <1>4, <1>6, <1>7, <1>8, <1>9

\* The vault's book of a chain is the truth about that chain: what the chain's
\* bridge took in, less what it paid out, is what the book gained, plus fees kept
\* there, orders on their way either way, and deposits the whitelist refused.  So
\* the book never promises liquidity that is not there, or hides some that is.
THEOREM VaultBooksAreTrue == Spec => []VaultTracksLeaf
<1>1. Init => ValueInv /\ Tracked
  <2> SUFFICES ASSUME Init PROVE Tracked  BY InitValue
  <2> QED  BY InitWorths DEF Tracked
<1>2. ValueInv /\ Tracked /\ [Next]_vars => ValueInv' /\ Tracked'  BY NextBooks, TrackedStep
<1>3. ValueInv /\ Tracked => VaultTracksLeaf  BY TrackedTracks
<1> QED  BY <1>1, <1>2, <1>3, PTL DEF Spec

-----------------------------------------------------------------------------
(* Amounts in the unit all the chains share.                               *)

\* What an amount on a chain is worth, per unit of it.
Rate(t, c) == Unit[t] \div Scale[t][c]

LEMMA ExactDivision ==
    ASSUME NEW u \in Nat, NEW d \in Nat \ {0}, u % d = 0
    PROVE  u \div d \in Nat /\ (u \div d) * d = u
BY SMT

LEMMA RateIs ==
    ASSUME NEW t \in Tokens, NEW c \in Chains
    PROVE  /\ Scale[t][c] \in Nat \ {0} /\ Rate(t, c) \in Nat
           /\ Rate(t, c) * Scale[t][c] = Unit[t]
<1>1. Unit[t] \in Nat /\ Scale[t][c] \in Nat \ {0} /\ Unit[t] % Scale[t][c] = 0
  BY UnitAssumption, RegisterAssumption
<1> QED  BY <1>1, ExactDivision DEF Rate

LEMMA WorthIs ==
    ASSUME NEW t \in Tokens, NEW c \in Chains, NEW a \in Int
    PROVE  Worth(t, c, a) = a * Rate(t, c) /\ Worth(t, c, a) \in Int
<1>1. Rate(t, c) \in Int  BY RateIs
<1>2. a * Rate(t, c) \in Int  BY <1>1
<1> QED  BY <1>2 DEF Worth, Rate

LEMMA TimesAcross ==
    ASSUME NEW b \in Nat, NEW k \in Nat, NEW s \in Nat, NEW x \in Nat, NEW y \in Nat,
           k * s = x * y
    PROVE  (b * k) * s = (b * x) * y
<1>1. (b * k) * s = b * (k * s)  BY SMT
<1>2. (b * x) * y = b * (x * y)  BY SMT
<1> QED  BY <1>1, <1>2

LEMMA TimesApart ==
    ASSUME NEW b \in Nat, NEW k \in Nat, NEW s \in Nat
    PROVE  (b * k) * s = k * (b * s)
BY SMT

\* A conversion never makes an amount worth more, and keeps its worth where the
\* token has as many decimals on either chain.
LEMMA ConvertWorth ==
    ASSUME NEW t \in Tokens, NEW c \in Chains, NEW d \in Chains, NEW a \in Nat
    PROVE  /\ TargetAmount(t, c, d, a) \in Nat
           /\ TargetAmount(t, c, d, a) * Rate(t, d) <= a * Rate(t, c)
           /\ Scale[t][c] = Scale[t][d] =>
                TargetAmount(t, c, d, a) * Rate(t, d) = a * Rate(t, c)
<1> DEFINE b == TargetAmount(t, c, d, a)
           k == Rate(t, c)
           l == Rate(t, d)
           p == Scale[t][c]
           q == Scale[t][d]
<1>1. b \in Nat  BY TargetAmountNat
<1>2. k \in Nat /\ l \in Nat /\ p \in Nat \ {0} /\ q \in Nat \ {0} /\ k * p = l * q
  BY RateIs
<1>3. p = q => b * l = a * k  BY DEF TargetAmount, Rate
<1>4. p # q => b = (a * q) \div p  BY DEF TargetAmount
<1> HIDE DEF b, k, l, p, q
<1>5. ASSUME p # q PROVE b * l <= a * k
  <2>1. b * p <= a * q  BY <1>1, <1>2, <1>4, <1>5, DivNat, MulNat
  <2>2. k * (b * p) <= k * (a * q)  BY <1>1, <1>2, <2>1, MulNat, MulMono
  <2>3. (b * k) * p = k * (b * p) /\ (a * k) * q = k * (a * q)  BY <1>1, <1>2, TimesApart
  <2>4. (b * k) * p = (b * l) * q  BY <1>1, <1>2, TimesAcross
  <2>5. (b * l) * q <= (a * k) * q  BY <2>2, <2>3, <2>4
  <2>6. b * l \in Nat /\ a * k \in Nat  BY <1>1, <1>2, MulNat
  <2> QED  BY <1>2, <2>5, <2>6, CancelMul
<1>6. a * k \in Nat  BY <1>2, MulNat
<1>7. (p = q => b * l = a * k) /\ b * l <= a * k  BY <1>3, <1>5, <1>6
<1> QED  BY <1>1, <1>7 DEF b, k, l, p, q

LEMMA LeafChainsFinite == IsFiniteSet(LeafChains)
BY BridgeAssumption, FS_Subset, RelayIsChain

\* The worth of all the chains together, in the unit they share.
LeafWorth(t) == [c \in LeafChains |-> AtLeaf(t, c) * Rate(t, c)]
RelayWorth(t) == AtRelay(t) * Rate(t, Relay)
Total(t) == RelayWorth(t) + SumFunctionOnSet(LeafWorth(t), LeafChains)

LEMMA WorthTypes ==
    ASSUME ValueInv, NEW t \in Tokens
    PROVE  /\ AtRelay(t) \in Nat /\ Rate(t, Relay) \in Nat
           /\ \A c \in LeafChains :
                AtLeaf(t, c) \in Nat /\ Rate(t, c) \in Nat /\ LeafWorth(t)[c] \in Int
           /\ SumFunctionOnSet(LeafWorth(t), LeafChains) \in Int
           /\ Total(t) \in Int
<1> USE RelayIsChain, TypeParts
<1>1. AtRelay(t) \in Nat  BY AtRelayNat DEF ValueInv, FundsInv
<1>2. Rate(t, Relay) \in Nat  BY RateIs
<1>3. ASSUME NEW c \in LeafChains
      PROVE  AtLeaf(t, c) \in Nat /\ Rate(t, c) \in Nat /\ LeafWorth(t)[c] \in Int
  <2>1. AtLeaf(t, c) \in Nat /\ Rate(t, c) \in Nat  BY LeafNat, RateIs
  <2>2. AtLeaf(t, c) * Rate(t, c) \in Int  BY <2>1, MulNat
  <2> QED  BY <2>1, <2>2 DEF LeafWorth
<1>4. SumFunctionOnSet(LeafWorth(t), LeafChains) \in Int  BY <1>3, LeafChainsFinite, SumInt
<1>5. RelayWorth(t) \in Int  BY <1>1, <1>2, MulNat DEF RelayWorth
<1> QED  BY <1>1, <1>2, <1>3, <1>4, <1>5 DEF Total

LEMMA SameLeafWorth ==
    ASSUME LeavesKept, NEW t \in Tokens
    PROVE  LeafWorth(t)' = LeafWorth(t)
<1>1. \A c \in LeafChains : AtLeaf(t, c)' = AtLeaf(t, c)  BY DEF LeavesKept
<1> QED  BY <1>1 DEF LeafWorth, Rate

\* Sums of products, term by term.
LEMMA MovedProduct ==
    ASSUME NEW a \in Int, NEW x \in Int, NEW y \in Int, NEW k \in Int
    PROVE  (a - x + y) * k = a * k - x * k + y * k
<1>1. (a - x + y) * k = (a - x) * k + y * k  BY SMT
<1>2. (a - x) * k = a * k - x * k  BY SMT
<1> QED  BY <1>1, <1>2

\* What an exchange takes off a chain and what it gives to one, in the shared unit.
Taken(t, s, f, b) == On(t, s, b * Rate(t, f))

LEMMA ExchangedLeaves ==
    ASSUME ValueInv, NEW s \in Tokens, NEW u \in Tokens, NEW f \in Chains, NEW d \in Chains,
           NEW a \in Nat, NEW b \in Nat, Exchange(s, f, b, u, d, a), NEW t \in Tokens
    PROVE  SumFunctionOnSet(LeafWorth(t)', LeafChains) =
                SumFunctionOnSet(LeafWorth(t), LeafChains)
                    - Taken(t, s, f, b) + Taken(t, u, d, TargetAmount(u, Relay, d, a))
<1> USE RelayIsChain
<1> DEFINE y == TargetAmount(u, Relay, d, a)
           v == Taken(t, s, f, b)
           w == Taken(t, u, d, y)
           g == LeafWorth(t)'
<1>1. y \in Nat /\ (d = Relay => y = 0)  BY TargetAmountNat, TargetOfNone DEF Exchange
<1>2. Rate(t, f) \in Nat /\ Rate(t, d) \in Nat  BY RateIs
<1> HIDE DEF y
<1>3. b * Rate(t, f) \in Nat /\ y * Rate(t, d) \in Nat  BY <1>1, <1>2, MulNat
<1>4. v \in Int /\ w \in Int  BY <1>3 DEF Taken, On
<1>5. f \in LeafChains \/ v = 0
  <2>1. f = Relay => b = 0  BY DEF Exchange
  <2>2. b = 0 => b * Rate(t, f) = 0  BY <1>2
  <2> QED  BY <2>1, <2>2 DEF Taken, On, LeafChains
<1>6. d \in LeafChains \/ w = 0
  <2>1. y = 0 => y * Rate(t, d) = 0  BY <1>2
  <2> QED  BY <1>1, <2>1 DEF Taken, On, LeafChains
<1>7. ASSUME NEW c \in LeafChains
      PROVE  /\ LeafWorth(t)[c] \in Int
             /\ g[c] = LeafWorth(t)[c] - (IF c = f THEN v ELSE 0) + (IF c = d THEN w ELSE 0)
  <2> DEFINE k == Rate(t, c)
             p == OnAt(t, c, s, f, b)
             q == OnAt(t, c, u, d, y)
  <2>1. g[c] = AtLeaf(t, c)' * k  BY DEF LeafWorth, Rate
  <2>2. AtLeaf(t, c)' = AtLeaf(t, c) - p + q  BY DEF Exchange, y
  <2>3. AtLeaf(t, c) \in Nat /\ k \in Nat /\ LeafWorth(t)[c] \in Int  BY WorthTypes
  <2>4. p \in Nat /\ q \in Nat  BY <1>1, OnNat
  <2>5. p * k = IF c = f THEN v ELSE 0
    <3>1. 0 * k = 0  BY <2>3
    <3> QED  BY <3>1 DEF OnAt, Taken, On
  <2>6. q * k = IF c = d THEN w ELSE 0
    <3>1. 0 * k = 0  BY <2>3
    <3> QED  BY <3>1 DEF OnAt, Taken, On
  <2>7. LeafWorth(t)[c] = AtLeaf(t, c) * k  BY DEF LeafWorth
  <2> HIDE DEF g, v, w, k, p, q
  <2>8. (AtLeaf(t, c) - p + q) * k = AtLeaf(t, c) * k - p * k + q * k
    BY <2>3, <2>4, MovedProduct
  <2> QED  BY <2>1, <2>2, <2>3, <2>5, <2>6, <2>7, <2>8
<1> DEFINE h == LeafWorth(t)
<1>8. \A c \in LeafChains :
        h[c] \in Int /\ g[c] = h[c] - (IF c = f THEN v ELSE 0) + (IF c = d THEN w ELSE 0)
  BY <1>7
<1> HIDE DEF g, v, w, h
<1>9. Shifted(h, g, LeafChains, f, v, d, w)  BY <1>4, <1>5, <1>6, <1>8 DEF Shifted
<1>10. SumFunctionOnSet(g, LeafChains) = SumFunctionOnSet(h, LeafChains) - v + w
  BY <1>9, LeafChainsFinite, SumShift
<1> QED  BY <1>10 DEF g, v, w, y, h

LEMMA ExchangedRelay ==
    ASSUME ValueInv, NEW s \in Tokens, NEW u \in Tokens, NEW f \in Chains, NEW d \in Chains,
           NEW a \in Nat, NEW b \in Nat, Exchange(s, f, b, u, d, a), NEW t \in Tokens
    PROVE  RelayWorth(t)' =
                RelayWorth(t) + Taken(t, s, Relay, TargetAmount(s, f, Relay, b))
                              - Taken(t, u, Relay, a)
<1> DEFINE k == Rate(t, Relay)
           x == On(t, s, TargetAmount(s, f, Relay, b))
           y == On(t, u, a)
<1>1. AtRelay(t)' = AtRelay(t) + x - y  BY DEF Exchange
<1>2. AtRelay(t) \in Nat /\ k \in Nat  BY WorthTypes
<1>3. x \in Nat /\ y \in Nat  BY OnNat, TargetAmountNat, RelayIsChain
<1>4. x * k = Taken(t, s, Relay, TargetAmount(s, f, Relay, b)) /\ y * k = Taken(t, u, Relay, a)
  <2>1. 0 * k = 0  BY <1>2
  <2> QED  BY <2>1 DEF Taken, On
<1>5. RelayWorth(t)' = AtRelay(t)' * k  BY DEF RelayWorth, Rate
<1>6. RelayWorth(t) = AtRelay(t) * k  BY DEF RelayWorth
<1> HIDE DEF k, x, y
<1>7. (AtRelay(t) - y + x) * k = AtRelay(t) * k - y * k + x * k  BY <1>2, <1>3, MovedProduct
<1>8. x * k \in Int /\ y * k \in Int /\ AtRelay(t) * k \in Int  BY <1>2, <1>3, MulNat
<1>9. AtRelay(t)' = AtRelay(t) - y + x  BY <1>1, <1>2, <1>3
<1> QED  BY <1>4, <1>5, <1>6, <1>7, <1>8, <1>9

\* All chains together never grow worth more, and stay worth the same where no
\* message leaves tokens behind and no conversion rounds.
SameDecimals == \A t \in Tokens, c \in Chains : Scale[t][c] = Scale[t][Relay]

LEMMA TakenWorth ==
    ASSUME NEW t \in Tokens, NEW s \in Tokens, NEW c \in Chains, NEW d \in Chains,
           NEW a \in Nat
    PROVE  LET b == TargetAmount(s, c, d, a) IN
           /\ Taken(t, s, c, a) \in Nat /\ Taken(t, s, d, b) \in Nat
           /\ Taken(t, s, d, b) <= Taken(t, s, c, a)
           /\ SameDecimals => Taken(t, s, d, b) = Taken(t, s, c, a)
<1> DEFINE b == TargetAmount(s, c, d, a)
<1>1. b \in Nat  BY TargetAmountNat
<1>2. Rate(t, c) \in Nat /\ Rate(t, d) \in Nat  BY RateIs
<1>3. a * Rate(t, c) \in Nat /\ b * Rate(t, d) \in Nat  BY <1>1, <1>2, MulNat
<1>4. t = s => /\ b * Rate(t, d) <= a * Rate(t, c)
               /\ SameDecimals => b * Rate(t, d) = a * Rate(t, c)
  BY ConvertWorth DEF SameDecimals
<1> HIDE DEF b
<1>5. /\ Taken(t, s, c, a) \in Nat /\ Taken(t, s, d, b) \in Nat
      /\ Taken(t, s, d, b) <= Taken(t, s, c, a)
      /\ SameDecimals => Taken(t, s, d, b) = Taken(t, s, c, a)
  BY <1>3, <1>4 DEF Taken, On
<1> QED  BY <1>5 DEF b

LEMMA TotalExchanged ==
    ASSUME ValueInv, Exchanges, NEW t \in Tokens
    PROVE  Total(t)' <= Total(t) /\ (SameDecimals => Total(t)' = Total(t))
<1> USE RelayIsChain
<1>1. PICK s \in Tokens, u \in Tokens, f \in Chains, d \in Chains, a \in Nat, b \in Nat :
        Exchange(s, f, b, u, d, a)
  BY DEF Exchanges
<1> DEFINE v == Taken(t, s, f, b)
           p == Taken(t, s, Relay, TargetAmount(s, f, Relay, b))
           q == Taken(t, u, Relay, a)
           w == Taken(t, u, d, TargetAmount(u, Relay, d, a))
           sum == SumFunctionOnSet(LeafWorth(t), LeafChains)
           next == SumFunctionOnSet(LeafWorth(t)', LeafChains)
<1>2. next = sum - v + w  BY <1>1, ExchangedLeaves
<1>3. RelayWorth(t)' = RelayWorth(t) + p - q  BY <1>1, ExchangedRelay
<1>4. Total(t)' = RelayWorth(t)' + next /\ Total(t) = RelayWorth(t) + sum  BY DEF Total
<1>5. v \in Nat /\ p \in Nat /\ p <= v /\ (SameDecimals => p = v)  BY TakenWorth
<1>6. q \in Nat /\ w \in Nat /\ w <= q /\ (SameDecimals => w = q)  BY TakenWorth
<1>7. sum \in Int /\ Total(t) \in Int  BY WorthTypes
<1>8. RelayWorth(t) \in Int
  <2>1. AtRelay(t) \in Nat /\ Rate(t, Relay) \in Nat  BY WorthTypes
  <2> QED  BY <2>1, MulNat DEF RelayWorth
<1> HIDE DEF v, p, q, w, sum, next
<1> QED  BY <1>2, <1>3, <1>4, <1>5, <1>6, <1>7, <1>8

RelayNat == \A t \in Tokens : AtRelay(t) \in Nat

LEMMA RelayNatNow == ValueInv => RelayNat
BY AtRelayNat, TypeParts DEF ValueInv, FundsInv, RelayNat

LEMMA RelayNatNext == ValueInv' => RelayNat'
BY RelayNatNow, PTL

LEMMA TotalStep ==
    ASSUME ValueInv, ValueInv', ValueStep, NEW t \in Tokens
    PROVE  /\ Total(t)' <= Total(t)
           /\ SameDecimals /\ (\A e \in sent : e.type # "MESSAGE") => Total(t)' = Total(t)
<1>1. Total(t) \in Int /\ AtRelay(t) \in Nat /\ Rate(t, Relay) \in Nat
      /\ SumFunctionOnSet(LeafWorth(t), LeafChains) \in Int
  BY WorthTypes
<1>2. CASE Exchanges  BY <1>2, TotalExchanged
<1>3. CASE Quiet
  <2>1. LeafWorth(t)' = LeafWorth(t)  BY <1>3, SameLeafWorth DEF Quiet
  <2>2. RelayWorth(t)' = RelayWorth(t)  BY <1>3 DEF Quiet, RelayWorth, Rate
  <2>3. Total(t)' = Total(t)  BY <2>1, <2>2 DEF Total
  <2> QED  BY <1>1, <2>3
<1>4. CASE LeavesBehind
  <2>1. LeafWorth(t)' = LeafWorth(t)  BY <1>4, SameLeafWorth DEF LeavesBehind
  <2>2. RelayWorth(t)' <= RelayWorth(t)
    <3>1. AtRelay(t)' <= AtRelay(t)  BY <1>4 DEF LeavesBehind
    <3>2. AtRelay(t)' \in Nat  BY RelayNatNext DEF RelayNat
    <3>3. Rate(t, Relay) * AtRelay(t)' <= Rate(t, Relay) * AtRelay(t)
      BY <1>1, <3>1, <3>2, MulMono
    <3>4. /\ Rate(t, Relay) * AtRelay(t)' = AtRelay(t)' * Rate(t, Relay)
          /\ Rate(t, Relay) * AtRelay(t) = AtRelay(t) * Rate(t, Relay)
      BY <1>1, <3>2, TimesSwap
    <3>5. RelayWorth(t)' = AtRelay(t)' * Rate(t, Relay)  BY DEF RelayWorth, Rate
    <3> QED  BY <3>3, <3>4, <3>5 DEF RelayWorth
  <2>3. Total(t)' = RelayWorth(t)' + SumFunctionOnSet(LeafWorth(t)', LeafChains)
        /\ Total(t) = RelayWorth(t) + SumFunctionOnSet(LeafWorth(t), LeafChains)
    BY DEF Total
  <2>4. RelayWorth(t) \in Int  BY <1>1, MulNat DEF RelayWorth
  <2>5. RelayWorth(t)' \in Int
    <3>1. AtRelay(t)' \in Nat  BY RelayNatNext DEF RelayNat
    <3>2. RelayWorth(t)' = AtRelay(t)' * Rate(t, Relay)  BY DEF RelayWorth, Rate
    <3> QED  BY <1>1, <3>1, <3>2, MulNat
  <2> QED  BY <1>1, <1>4, <2>1, <2>2, <2>3, <2>4, <2>5 DEF LeavesBehind
<1> QED  BY <1>2, <1>3, <1>4 DEF ValueStep

-----------------------------------------------------------------------------
(* That worth is what the properties call claims.                          *)

HeldWorth(t) == [c \in Chains |-> Worth(t, c, acct[c].held[t] + acct[c].parked[t])]
TransitWorth(t) ==
    [c \in Chains |-> WorthOf(t, c, ToRelay(t, c)) + WorthOf(t, c, ToLeaf(t, c))]
FeesWorth(t) == [c \in LeafChains |-> Worth(t, c, FeesOf(c, t))]
EachWorth(t, c, S) == [m \in S |-> Worth(t, c, m.amount)]

LEMMA ClaimsAre ==
    ASSUME NEW t
    PROVE  Claims(t) = SumFunctionOnSet(HeldWorth(t), Chains)
                        + SumFunctionOnSet(TransitWorth(t), Chains)
                        + Worth(t, Relay, OwedByRelay(t))
                        + SumFunctionOnSet(FeesWorth(t), LeafChains)
<1>1. Outside(t) = SumFunctionOnSet(HeldWorth(t), Chains)
  BY DEF Outside, SumOver, SumFunction, HeldWorth
<1>2. InTransit(t) = SumFunctionOnSet(TransitWorth(t), Chains)
  BY DEF InTransit, SumOver, SumFunction, TransitWorth
<1>3. SumOver(LeafChains, LAMBDA c : Worth(t, c, FeesOf(c, t)))
        = SumFunctionOnSet(FeesWorth(t), LeafChains)
  BY DEF SumOver, SumFunction, FeesWorth
<1> QED  BY <1>1, <1>2, <1>3 DEF Claims

LEMMA WorthOfIs ==
    ASSUME NEW t \in Tokens, NEW c \in Chains, NEW S, IsFiniteSet(S),
           \A m \in S : m.amount \in Nat
    PROVE  WorthOf(t, c, S) = AmountSum(S) * Rate(t, c)
<1>1. WorthOf(t, c, S) = SumFunctionOnSet(EachWorth(t, c, S), S)
  BY DEF WorthOf, SumOver, SumFunction, EachWorth
<1>2. ASSUME NEW m \in S
      PROVE  Amounted(S)[m] \in Int
             /\ EachWorth(t, c, S)[m] = Amounted(S)[m] * Rate(t, c)
  <2>1. Worth(t, c, m.amount) = m.amount * Rate(t, c)  BY WorthIs
  <2> QED  BY <2>1 DEF Amounted, EachWorth
<1>3. Rate(t, c) \in Int  BY RateIs
<1>4. SumFunctionOnSet(EachWorth(t, c, S), S) =
        SumFunctionOnSet(Amounted(S), S) * Rate(t, c)
  BY <1>2, <1>3, SumScale
<1> QED  BY <1>1, <1>4 DEF AmountSum

\* Nothing is on its way to the relay chain but what other chains sent.
LEMMA TransitIs ==
    ASSUME ValueInv, NEW t \in Tokens
    PROVE  /\ \A c \in LeafChains :
                TransitWorth(t)[c] = Going(t, c) * Rate(t, c) + Coming(t, c) * Rate(t, c)
           /\ TransitWorth(t)[Relay] = 0
<1> USE TypeParts, RelayIsChain DEF ValueInv, BooksInv
<1>1. ASSUME NEW c \in LeafChains
      PROVE  TransitWorth(t)[c] = Going(t, c) * Rate(t, c) + Coming(t, c) * Rate(t, c)
  <2>1. /\ IsFiniteSet(ToRelay(t, c)) /\ \A e \in ToRelay(t, c) : e.amount \in Nat
    BY ToRelayFinite
  <2>2. /\ IsFiniteSet(ToLeaf(t, c)) /\ \A e \in ToLeaf(t, c) : e.amount \in Nat
    BY ToLeafFinite
  <2>3. /\ WorthOf(t, c, ToRelay(t, c)) = Going(t, c) * Rate(t, c)
        /\ WorthOf(t, c, ToLeaf(t, c)) = Coming(t, c) * Rate(t, c)
    BY <2>1, <2>2, WorthOfIs DEF Going, Coming, LeafChains
  <2> QED  BY <2>3 DEF TransitWorth, LeafChains
<1>2. TransitWorth(t)[Relay] = 0
  <2>1. ToRelay(t, Relay) = {}  BY DEF ToRelay
  <2>2. ToLeaf(t, Relay) = {}  BY DEF ToLeaf, OrdersInv, RelayedInv
  <2>3. IsFiniteSet({})  BY FS_EmptySet
  <2>4. WorthOf(t, Relay, {}) = 0 * Rate(t, Relay)  BY <2>3, WorthOfIs, SumNone
  <2>5. 0 * Rate(t, Relay) = 0  BY RateIs
  <2>6. WorthOf(t, Relay, ToRelay(t, Relay)) = 0  BY <2>1, <2>4, <2>5
  <2>7. WorthOf(t, Relay, ToLeaf(t, Relay)) = 0  BY <2>2, <2>4, <2>5
  <2> QED  BY <2>6, <2>7 DEF TransitWorth
<1> QED  BY <1>1, <1>2

\* A sum over the chains is the relay chain's part and the others'.
LEMMA ChainSum ==
    ASSUME NEW f, \A c \in Chains : f[c] \in Int
    PROVE  SumFunctionOnSet(f, Chains) = f[Relay] + SumFunctionOnSet(f, LeafChains)
           /\ SumFunctionOnSet(f, LeafChains) \in Int
<1>1. IsFiniteSet(Chains)  BY BridgeAssumption
<1>2. SumFunctionOnSet(f, Chains) = f[Relay] + SumFunctionOnSet(f, Chains \ {Relay})
  BY <1>1, RelayIsChain, SumRemove
<1>3. \A c \in LeafChains : f[c] \in Int  BY DEF LeafChains
<1> QED  BY <1>2, <1>3, LeafChainsFinite, SumInt DEF LeafChains

LEMMA LeafParts ==
    ASSUME ValueInv, NEW t \in Tokens, NEW c \in LeafChains
    PROVE  /\ HeldWorth(t)[c] \in Int /\ FeesWorth(t)[c] \in Int /\ TransitWorth(t)[c] \in Int
           /\ LeafWorth(t)[c] = HeldWorth(t)[c] + FeesWorth(t)[c] + TransitWorth(t)[c]
<1> USE TypeParts, RelayIsChain DEF ValueInv, BooksInv
<1> DEFINE k == Rate(t, c)
           h == HeldBy(acct[c], t)
           f == FeeSum(acct[c], t)
           g == Going(t, c)
           b == Coming(t, c)
<1>1. c \in Chains  BY DEF LeafChains
<1>2. h \in Nat /\ f \in Nat /\ g \in Nat /\ b \in Nat /\ k \in Nat
  BY <1>1, HeldNat, FeeSumNat, AtLeafIs, RateIs DEF MoneyOK
<1>3. HeldWorth(t)[c] = h * k
  <2>1. Worth(t, c, h) = h * k  BY <1>1, <1>2, WorthIs
  <2> QED  BY <1>1, <2>1 DEF HeldWorth, HeldBy
<1>4. FeesWorth(t)[c] = f * k
  <2>1. FeesOf(c, t) = f  BY ONLY TracksLeafIs DEF f
  <2>2. Worth(t, c, f) = f * k  BY <1>1, <1>2, WorthIs
  <2> QED  BY <2>1, <2>2 DEF FeesWorth
<1>5. TransitWorth(t)[c] = g * k + b * k  BY TransitIs
<1>6. LeafWorth(t)[c] = (h + f + g + b) * k  BY DEF LeafWorth, AtLeaf
<1> HIDE DEF k, h, f, g, b, ValueInv, BooksInv
<1>7. h * k \in Int /\ f * k \in Int /\ g * k \in Int /\ b * k \in Int  BY <1>2, MulNat
<1>8. (h + f + g + b) * k = h * k + f * k + g * k + b * k
  <2>1. (h + f + g + b) * k = (h + f + g) * k + b * k  BY <1>2
  <2>2. (h + f + g) * k = (h + f) * k + g * k  BY <1>2
  <2>3. (h + f) * k = h * k + f * k  BY <1>2
  <2> QED  BY <2>1, <2>2, <2>3
<1> QED  BY <1>3, <1>4, <1>5, <1>6, <1>7, <1>8

LEMMA LeafSums ==
    ASSUME ValueInv, NEW t \in Tokens
    PROVE  SumFunctionOnSet(LeafWorth(t), LeafChains) =
                SumFunctionOnSet(HeldWorth(t), LeafChains)
                + SumFunctionOnSet(FeesWorth(t), LeafChains)
                + SumFunctionOnSet(TransitWorth(t), LeafChains)
<1> DEFINE f == HeldWorth(t)
           g == FeesWorth(t)
           h == TransitWorth(t)
           both == [c \in LeafChains |-> f[c] + g[c]]
           all == LeafWorth(t)
<1>1. \A c \in LeafChains :
        f[c] \in Int /\ g[c] \in Int /\ h[c] \in Int /\ all[c] = f[c] + g[c] + h[c]
  BY LeafParts
<1> HIDE DEF f, g, h, all
<1>2. \A c \in LeafChains : both[c] = f[c] + g[c] /\ both[c] \in Int  BY <1>1
<1>3. \A c \in LeafChains : all[c] = both[c] + h[c]  BY <1>1, <1>2
<1> HIDE DEF both
<1>4. SumFunctionOnSet(both, LeafChains) =
        SumFunctionOnSet(f, LeafChains) + SumFunctionOnSet(g, LeafChains)
  BY <1>1, <1>2, LeafChainsFinite, SumPlus
<1>5. SumFunctionOnSet(all, LeafChains) =
        SumFunctionOnSet(both, LeafChains) + SumFunctionOnSet(h, LeafChains)
  BY <1>1, <1>2, <1>3, LeafChainsFinite, SumPlus
<1> QED  BY <1>4, <1>5 DEF f, g, h, all

LEMMA RelayParts ==
    ASSUME ValueInv, NEW t \in Tokens
    PROVE  /\ HeldWorth(t)[Relay] \in Int /\ Worth(t, Relay, OwedByRelay(t)) \in Int
           /\ RelayWorth(t) = HeldWorth(t)[Relay] + Worth(t, Relay, OwedByRelay(t))
<1> USE TypeParts, RelayIsChain DEF ValueInv, FundsInv
<1> DEFINE k == Rate(t, Relay)
           h == HeldBy(acct[Relay], t)
           o == OwedByRelay(t)
<1>1. h \in Nat /\ k \in Nat  BY HeldNat, RateIs DEF MoneyOK
<1>2. o = vault[t].total + FeeSum(acct[Relay], t) + AmountSum(Kept(t))
  BY OwedIs DEF Owes, Books
<1>3. vault[t].total \in Nat /\ FeeSum(acct[Relay], t) \in Nat
  BY FeeSumNat DEF MoneyOK, V!Vault
<1>4. AtRelay(t) = h + (vault[t].total + FeeSum(acct[Relay], t) + AmountSum(Kept(t)))
      /\ AmountSum(Kept(t)) \in Nat
  <2>1. AmountSum(Kept(t)) \in Nat  BY KeptFinite, AmountSumNat
  <2> QED  BY <1>1, <1>3, <2>1 DEF AtRelay
<1>5. o \in Nat  BY <1>2, <1>3, <1>4
<1>6. HeldWorth(t)[Relay] = h * k
  <2>1. Worth(t, Relay, h) = h * k  BY <1>1, WorthIs
  <2> QED  BY <2>1 DEF HeldWorth, HeldBy
<1>7. Worth(t, Relay, o) = o * k  BY <1>5, WorthIs
<1>8. RelayWorth(t) = (h + o) * k  BY <1>2, <1>4 DEF RelayWorth
<1> HIDE DEF k, h, o, ValueInv, FundsInv
<1>9. (h + o) * k = h * k + o * k  BY <1>1, <1>5
<1>10. h * k \in Int /\ o * k \in Int  BY <1>1, <1>5, MulNat
<1> QED  BY <1>6, <1>7, <1>8, <1>9, <1>10 DEF o

LEMMA ClaimsTotal ==
    ASSUME ValueInv, NEW t \in Tokens
    PROVE  Claims(t) = Total(t)
<1> DEFINE f == HeldWorth(t)
           h == TransitWorth(t)
           owed == Worth(t, Relay, OwedByRelay(t))
           fees == SumFunctionOnSet(FeesWorth(t), LeafChains)
           held == SumFunctionOnSet(HeldWorth(t), LeafChains)
           away == SumFunctionOnSet(TransitWorth(t), LeafChains)
<1>1. /\ f[Relay] \in Int /\ owed \in Int /\ RelayWorth(t) = f[Relay] + owed
  BY RelayParts
<1>2. /\ \A c \in LeafChains : FeesWorth(t)[c] \in Int /\ f[c] \in Int /\ h[c] \in Int
  BY LeafParts
<1>3. h[Relay] = 0  BY TransitIs
<1>4. fees \in Int  BY <1>2, LeafChainsFinite, SumInt
<1>5. \A c \in Chains : f[c] \in Int /\ h[c] \in Int
  <2> HIDE DEF f, h, owed
  <2>1. ASSUME NEW c \in Chains PROVE f[c] \in Int /\ h[c] \in Int
    BY <1>1, <1>2, <1>3 DEF LeafChains
  <2> QED  BY <2>1
<1>6. Claims(t) = SumFunctionOnSet(f, Chains) + SumFunctionOnSet(h, Chains) + owed + fees
  BY ClaimsAre
<1>7. SumFunctionOnSet(LeafWorth(t), LeafChains) = held + fees + away  BY LeafSums
<1>8. Total(t) = RelayWorth(t) + (held + fees + away)  BY <1>7 DEF Total
<1>9. SumFunctionOnSet(f, Chains) = f[Relay] + held /\ held \in Int
  <2> HIDE DEF f, h
  <2>1. SumFunctionOnSet(f, Chains) = f[Relay] + SumFunctionOnSet(f, LeafChains)
        /\ SumFunctionOnSet(f, LeafChains) \in Int
    BY <1>5, ChainSum
  <2> QED  BY <2>1 DEF f
<1>10. SumFunctionOnSet(h, Chains) = h[Relay] + away /\ away \in Int
  <2> HIDE DEF f, h
  <2>1. SumFunctionOnSet(h, Chains) = h[Relay] + SumFunctionOnSet(h, LeafChains)
        /\ SumFunctionOnSet(h, LeafChains) \in Int
    BY <1>5, ChainSum
  <2> QED  BY <2>1 DEF h
<1> HIDE DEF f, h, owed, fees, held, away
<1> QED  BY <1>1, <1>3, <1>4, <1>6, <1>8, <1>9, <1>10

InitHeldWorth(t) == [c \in Chains |-> Worth(t, c, InitHeld[c][t])]

LEMMA InitialClaimsAre ==
    ASSUME NEW t
    PROVE  InitialClaims(t) = SumFunctionOnSet(InitHeldWorth(t), Chains)
                                + Worth(t, Relay, InitVault(t).total)
<1>1. SumOver(Chains, LAMBDA c : Worth(t, c, InitHeld[c][t]))
        = SumFunctionOnSet(InitHeldWorth(t), Chains)
  BY DEF SumOver, SumFunction, InitHeldWorth
<1> QED  BY <1>1 DEF InitialClaims

LEMMA TotalAtInit ==
    ASSUME Init, NEW t \in Tokens
    PROVE  Total(t) = InitialClaims(t)
<1> USE RelayIsChain
<1> DEFINE f == InitHeldWorth(t)
           k == Rate(t, Relay)
           h == InitHeld[Relay][t]
           v == InitVault(t).total
<1>1. AtRelay(t) = h + v /\ v \in Nat /\ \A c \in LeafChains : AtLeaf(t, c) = InitHeld[c][t]
  BY InitWorths
<1>2. h \in Nat /\ k \in Nat /\ \A c \in LeafChains : InitHeld[c][t] \in Nat
  BY DepositedNat, RateIs DEF LeafChains
<1>3. \A c \in Chains : f[c] = InitHeld[c][t] * Rate(t, c) /\ f[c] \in Int
  <2>1. ASSUME NEW c \in Chains
        PROVE  f[c] = InitHeld[c][t] * Rate(t, c) /\ f[c] \in Int
    <3>1. InitHeld[c][t] \in Int  BY DepositedNat
    <3>2. Worth(t, c, InitHeld[c][t]) = InitHeld[c][t] * Rate(t, c)
          /\ Worth(t, c, InitHeld[c][t]) \in Int
      BY <3>1, WorthIs
    <3> QED  BY <3>2 DEF InitHeldWorth
  <2> HIDE DEF f
  <2> QED  BY <2>1
<1>4. \A c \in LeafChains : LeafWorth(t)[c] = f[c]
  BY <1>1, <1>3 DEF LeafWorth, LeafChains
<1>5. SumFunctionOnSet(LeafWorth(t), LeafChains) = SumFunctionOnSet(f, LeafChains)
  BY <1>4, LeafChainsFinite, SumSame
<1>6. SumFunctionOnSet(f, Chains) = f[Relay] + SumFunctionOnSet(f, LeafChains)
      /\ SumFunctionOnSet(f, LeafChains) \in Int
  <2> HIDE DEF f
  <2> QED  BY <1>3, ChainSum
<1>7. Worth(t, Relay, v) = v * k  BY <1>1, WorthIs
<1>8. InitialClaims(t) = SumFunctionOnSet(f, Chains) + Worth(t, Relay, v)
  BY InitialClaimsAre
<1>9. Total(t) = (h + v) * k + SumFunctionOnSet(f, LeafChains)
  BY <1>1, <1>5 DEF Total, RelayWorth
<1>10. f[Relay] = h * k  BY <1>3
<1> HIDE DEF f, h, k, v
<1>11. (h + v) * k = h * k + v * k  BY <1>1, <1>2
<1>12. h * k \in Int /\ v * k \in Int  BY <1>1, <1>2, MulNat
<1> QED  BY <1>6, <1>7, <1>8, <1>9, <1>10, <1>11, <1>12

-----------------------------------------------------------------------------
(* The theorems.                                                           *)

Bounded == \A t \in Tokens : Total(t) <= InitialClaims(t)
Unchanged == \A t \in Tokens : Total(t) = InitialClaims(t)

\* Where users only swap and deposit, no event of the log is a message.
NoMessages == \A e \in sent : e.type # "MESSAGE"

LEMMA InitBounded ==
    ASSUME Init
    PROVE  Bounded /\ Unchanged /\ NoMessages
<1>1. ValueInv  BY InitValue
<1>2. \A t \in Tokens : Total(t) = InitialClaims(t) /\ Total(t) \in Int
  BY <1>1, TotalAtInit, WorthTypes
<1>3. NoMessages  BY DEF Init, NoMessages
<1> QED  BY <1>2, <1>3 DEF Bounded, Unchanged

LEMMA InitialClaimsInt ==
    ASSUME NEW t \in Tokens
    PROVE  InitialClaims(t) \in Int
<1> USE RelayIsChain
<1> DEFINE f == InitHeldWorth(t)
<1>1. ASSUME NEW c \in Chains PROVE f[c] \in Int
  BY DepositedNat, WorthIs DEF InitHeldWorth
<1>2. Worth(t, Relay, InitVault(t).total) \in Int
  <2>1. \A c \in Chains : [d \in Chains |-> Deposited(t, d)][c] \in Nat  BY DepositedNat
  <2>2. InitTotal(t) \in Nat
    BY <2>1, BridgeAssumption, SumNat DEF InitTotal, SumFunction
  <2> QED  BY <2>2, WorthIs DEF InitVault
<1>3. SumFunctionOnSet(f, Chains) \in Int
  <2> HIDE DEF f
  <2> QED  BY <1>1, BridgeAssumption, SumInt
<1>4. InitialClaims(t) = SumFunctionOnSet(f, Chains) + Worth(t, Relay, InitVault(t).total)
  BY InitialClaimsAre
<1> HIDE DEF f
<1> QED  BY <1>2, <1>3, <1>4

WholeTotal == \A t \in Tokens : Total(t) \in Int

LEMMA TotalNow == ValueInv => WholeTotal
BY WorthTypes DEF WholeTotal

LEMMA TotalNext == ValueInv' => WholeTotal'
BY TotalNow, PTL

LEMMA BoundedStep ==
    ASSUME ValueInv, Bounded, [Next]_vars
    PROVE  Bounded'
<1>1. ValueInv' /\ ValueStep  BY NextBooks
<1> SUFFICES ASSUME NEW t \in Tokens PROVE Total(t)' <= InitialClaims(t)
  BY DEF Bounded
<1>2. Total(t)' <= Total(t)  BY <1>1, TotalStep
<1>3. Total(t)' \in Int /\ Total(t) \in Int  BY <1>1, TotalNow, TotalNext DEF WholeTotal
<1>4. Total(t) <= InitialClaims(t)  BY DEF Bounded
<1> QED  BY <1>2, <1>3, <1>4, InitialClaimsInt

LEMMA UnchangedStep ==
    ASSUME ValueInv, Unchanged, NoMessages, SameDecimals, [Next]_vars
    PROVE  Unchanged'
<1>1. ValueInv' /\ ValueStep  BY NextBooks
<1> SUFFICES ASSUME NEW t \in Tokens PROVE Total(t)' = InitialClaims(t)
  BY DEF Unchanged
<1>2. Total(t)' = Total(t)  BY <1>1, TotalStep DEF NoMessages
<1> QED  BY <1>2 DEF Unchanged

LEMMA NoMessagesStep ==
    ASSUME "MESSAGE" \notin Kinds, NoMessages, [Next]_vars
    PROVE  NoMessages'
<1> SUFFICES ASSUME NEW e \in sent', e \notin sent, e.type = "MESSAGE" PROVE FALSE
  BY DEF NoMessages
<1>1. ASSUME NEW c \in LeafChains, LeafNext(c) PROVE FALSE
  <2>1. ASSUME NEW to, NEW t, NEW a, NEW relay, NEW swap, NEW i,
               SwapOutToken(c, to, t, a, relay, swap, i)
        PROVE  FALSE
    BY <2>1 DEF SwapOutToken, MessageOut
  <2>2. ASSUME NEW t, NEW a, NEW i, DepositToken(c, t, a, i) PROVE FALSE
    BY <2>2 DEF DepositToken, MessageOut
  <2>3. ASSUME NEW m, MessageIn(c, m) \/ RetryMessageIn(c, m) PROVE FALSE
    BY SMTT(30), <2>3 DEF MessageIn, RetryMessageIn
  <2>4. ASSUME CommonNext(c) PROVE FALSE
    BY ZenonT(30), <2>4 DEF CommonNext, Trigger, RegisterTokenChains, SetFailedReceiver, WithdrawFee
  <2> QED  BY <1>1, <2>1, <2>2, <2>3, <2>4 DEF LeafNext
<1>2. CASE RelayNext
  <2>1. ASSUME NEW to, NEW t, NEW a, NEW relay, NEW swap, NEW i,
               RelaySwapOutToken(to, t, a, relay, swap, i)
        PROVE  FALSE
    BY <2>1 DEF RelaySwapOutToken, MessageOut
  <2>2. ASSUME NEW t, NEW a, RelayDepositToken(t, a) \/ Withdraw(t, a) PROVE FALSE
    BY <2>2 DEF RelayDepositToken, Withdraw
  <2>3. ASSUME NEW m, RelayMessageIn(m) \/ RelayRetryMessageIn(m) PROVE FALSE
    BY ZenonT(30), <2>3 DEF RelayMessageIn, RelayRetryMessageIn
  <2>4. ASSUME NEW c, NEW enable, RegisterChain(c, enable) PROVE FALSE
    BY <2>4 DEF RegisterChain
  <2>5. ASSUME CommonNext(Relay) PROVE FALSE
    BY ZenonT(30), <2>5 DEF CommonNext, Trigger, RegisterTokenChains, SetFailedReceiver, WithdrawFee
  <2> QED  BY <1>2, <2>1, <2>2, <2>3, <2>4, <2>5 DEF RelayNext
<1>3. CASE UNCHANGED vars  BY <1>3 DEF vars, baseVars
<1> QED  BY <1>1, <1>2, <1>3 DEF Next

\* No token is ever worth more than at the start: what the accounts of all chains
\* hold, what is on its way between them, and what the relay chain owes to vaults,
\* fee receivers and kept orders, in the token's common unit, for any fees, any
\* decimals, any executors and any order of proofs, retries and withdrawals.
THEOREM NothingComesFromNothing == Spec => []NoValueCreated
<1>1. Init => ValueInv /\ Bounded  BY InitValue, InitBounded
<1>2. ValueInv /\ Bounded /\ [Next]_vars => ValueInv' /\ Bounded'  BY NextBooks, BoundedStep
<1>3. ValueInv /\ Bounded => NoValueCreated  BY ClaimsTotal DEF Bounded, NoValueCreated
<1> QED  BY <1>1, <1>2, <1>3, PTL DEF Spec

\* Where a token has as many decimals on every chain and users send no messages
\* (a message's executor on the relay chain may leave tokens behind), nothing is
\* lost on the way either: fees, refused deposits, swaps and retries only move it.
THEOREM NothingIsLost ==
    ASSUME SameDecimals, "MESSAGE" \notin Kinds
    PROVE  Spec => []ValueConserved
<1>1. Init => ValueInv /\ Unchanged /\ NoMessages  BY InitValue, InitBounded
<1>2. ValueInv /\ Unchanged /\ NoMessages /\ [Next]_vars
        => ValueInv' /\ Unchanged' /\ NoMessages'
  BY NextBooks, UnchangedStep, NoMessagesStep
<1>3. ValueInv /\ Unchanged /\ NoMessages => ValueConserved
  BY ClaimsTotal DEF Unchanged, ValueConserved
<1> QED  BY <1>1, <1>2, <1>3, PTL DEF Spec
=============================================================================
