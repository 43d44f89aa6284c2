------------------------- MODULE ProtocolFeeProofs -------------------------
(***************************************************************************)
(* The division of the protocol's fees, for every set of tokens, every     *)
(* amount, every share table and every list of a claim.                    *)
(***************************************************************************)
EXTENDS ProtocolFee, Sums

-----------------------------------------------------------------------------
(* Folds over a list, step by step.                                        *)

\* A set of sets of places that is not empty has a smallest one.
LEMMA SmallestOf ==
    ASSUME NEW T, IsFiniteSet(T), NEW Bad, \A W \in Bad : W \subseteq T, Bad # {}
    PROVE  \E W \in Bad : \A V \in Bad : V \subseteq W => V = W
BY SmallestSubset

\* Induction up to n.
LEMMA UpTo ==
    ASSUME NEW n \in Nat, NEW P, 0 \in P, \A k \in 1..n : k - 1 \in P => k \in P
    PROVE  \A k \in 0..n : k \in P
<1>0. PICK N : N = 1..n /\ IsFiniteSet(N)  BY FS_Interval
<1> DEFINE Bad == {T \in SUBSET N : \E k \in 0..n : T = 1..k /\ k \notin P}
<1>1. ASSUME NEW k \in 0..n, k \notin P PROVE 1..k \in Bad  BY <1>0, <1>1
<1>2. SUFFICES ASSUME Bad # {} PROVE FALSE  BY <1>1
<1>3. \A W \in Bad : W \subseteq N  OBVIOUS
<1>4. PICK T \in Bad : \A W \in Bad : W \subseteq T => W = T
  <2> HIDE DEF Bad
  <2> QED  BY <1>0, <1>2, <1>3, SmallestOf
<1>5. PICK k \in 0..n : T = 1..k /\ k \notin P  OBVIOUS
<1>6. k \in 1..n /\ k - 1 \in 0..n /\ k - 1 \notin P  BY <1>5
<1>7. 1..(k - 1) \in Bad  BY <1>1, <1>6
<1>8. 1..(k - 1) \subseteq T /\ k \in T /\ k \notin 1..(k - 1)  BY <1>5, <1>6
<1> QED  BY <1>4, <1>7, <1>8

\* The maximum of a set of places that is not empty is one of them.
LEMMA MaxIn ==
    ASSUME NEW n \in Nat, NEW s \in SUBSET (1..n), s # {}
    PROVE  Max(s) \in s
<1> DEFINE P == {k \in 0..n : \A r \in SUBSET (1..k) : r # {} => \E x \in r : \A y \in r : x >= y}
<1>1. 0 \in P
  <2>1. \A r \in SUBSET (1..0) : r = {}  OBVIOUS
  <2>2. \A r \in SUBSET (1..0) : r # {} => \E x \in r : \A y \in r : x >= y  BY <2>1
  <2>3. 0 \in 0..n  OBVIOUS
  <2> QED  BY <2>2, <2>3
<1>2. ASSUME NEW k \in 1..n, k - 1 \in P PROVE k \in P
  <2>1. SUFFICES ASSUME NEW r \in SUBSET (1..k), r # {} PROVE \E x \in r : \A y \in r : x >= y
    OBVIOUS
  <2>2. CASE k \in r  BY <2>2
  <2>3. CASE k \notin r
    <3>1. r \in SUBSET (1..(k - 1))  BY <2>3
    <3> QED  BY <1>2, <2>1, <3>1
  <2> QED  BY <2>2, <2>3
<1> HIDE DEF P
<1>3. n \in P  BY <1>1, <1>2, UpTo
<1>4. \E x \in s : \A y \in s : x >= y  BY <1>3 DEF P
<1> QED  BY <1>4 DEF Max

\* The last of the first k places is k, and the others are the first k - 1.
LEMMA MaxUpTo ==
    ASSUME NEW n \in Nat, NEW k \in 1..n
    PROVE  /\ Max(1..k) = k /\ (1..k) \ {Max(1..k)} = 1..(k - 1)
           /\ 1..k \in SUBSET (1..n) /\ 1..k # {}
<1>1. \E x \in 1..k : \A y \in 1..k : x >= y  OBVIOUS
<1>2. Max(1..k) \in 1..k /\ \A y \in 1..k : Max(1..k) >= y  BY <1>1 DEF Max
<1>3. Max(1..k) = k  BY <1>2
<1>4. k \in 1..k /\ \A x \in 1..k : x \in 1..n  OBVIOUS
<1> QED  BY <1>3, <1>4

\* The partial results of a fold, over every subset of the places.
ArePartialFolds(base, step, S, g) ==
    g = [s \in SUBSET S |-> IF s = {} THEN base ELSE step[<<g[s \ {Max(s)}], Max(s)>>]]

\* Partial results over a set and over a part of it are the same on the part.
LEMMA FoldsAgree ==
    ASSUME NEW S, IsFiniteSet(S), \A s \in SUBSET S : s # {} => Max(s) \in s,
           NEW base, NEW step, NEW T \in SUBSET S, NEW g, NEW h, ArePartialFolds(base, step, S, g), ArePartialFolds(base, step, T, h)
    PROVE  g[T] = h[T]
<1> DEFINE Bad == {W \in SUBSET T : g[W] # h[W]}
<1>1. SUFFICES ASSUME Bad # {} PROVE FALSE  OBVIOUS
<1>2. IsFiniteSet(T) /\ \A W \in Bad : W \subseteq T  BY FS_Subset
<1>3. PICK W \in Bad : \A V \in Bad : V \subseteq W => V = W
  <2> HIDE DEF Bad
  <2> QED  BY <1>1, <1>2, SmallestOf
<1>4. W \in SUBSET T /\ W \in SUBSET S /\ g[W] # h[W]  OBVIOUS
<1> DEFINE V == W \ {Max(W)}
<1>5. g[W] = IF W = {} THEN base ELSE step[<<g[V], Max(W)>>]
  BY <1>4 DEF ArePartialFolds
<1>6. h[W] = IF W = {} THEN base ELSE step[<<h[V], Max(W)>>]
  BY <1>4 DEF ArePartialFolds
<1>7. W # {}  BY <1>4, <1>5, <1>6
<1>8. Max(W) \in W  BY <1>4, <1>7
<1>9. V \notin Bad  BY <1>3, <1>8
<1>10. g[V] = h[V]  BY <1>4, <1>9
<1> QED  BY <1>4, <1>5, <1>6, <1>7, <1>10

\* The partial results exist, and stay in the set that the step maps to itself.
LEMMA FoldExists ==
    ASSUME NEW N, IsFiniteSet(N), \A s \in SUBSET N : s # {} => Max(s) \in s,
           NEW U, NEW base \in U, NEW step \in [U \X N -> U]
    PROVE  \E g : /\ ArePartialFolds(base, step, N, g)
                  /\ \A s \in SUBSET N : g[s] \in U
<1> DEFINE Is(T, g) == ArePartialFolds(base, step, T, g) /\ \A s \in SUBSET T : g[s] \in U
           Bad == {T \in SUBSET N : ~\E g : Is(T, g)}
<1>1. SUFFICES ASSUME Bad # {} PROVE FALSE  OBVIOUS
<1>2. \A W \in Bad : W \subseteq N  OBVIOUS
<1>3. PICK T \in Bad : \A W \in Bad : W \subseteq T => W = T
  <2> HIDE DEF Bad
  <2> QED  BY <1>1, <1>2, SmallestOf
<1>4. T \in SUBSET N /\ ~\E g : Is(T, g)  OBVIOUS
<1> DEFINE G(W) == CHOOSE g : Is(W, g)
           h == [s \in SUBSET T |->
                    IF s = {} THEN base ELSE step[<<G(s \ {Max(s)})[s \ {Max(s)}], Max(s)>>]]
<1>5. ASSUME NEW W \in SUBSET T, W # T PROVE Is(W, G(W))
  <2>1. \E g : Is(W, g)  BY <1>3, <1>4, <1>5
  <2> HIDE DEF Is
  <2> QED  BY <2>1
<1>6. ASSUME NEW s \in SUBSET T, s # {}
      PROVE  /\ Max(s) \in s /\ Max(s) \in N
             /\ s \ {Max(s)} \in SUBSET T /\ s \ {Max(s)} # T /\ s \ {Max(s)} # s
  BY <1>4, <1>6
<1> HIDE DEF G
<1>7. ASSUME NEW s \in SUBSET T PROVE h[s] \in U
  <2>1. CASE s = {}  BY <2>1
  <2>2. CASE s # {}
    <3> DEFINE r == s \ {Max(s)}
    <3>1. r \in SUBSET T /\ r # T /\ Max(s) \in N  BY <1>6, <2>2
    <3> HIDE DEF r
    <3>2. G(r)[r] \in U  BY <1>5, <3>1
    <3>3. step[<<G(r)[r], Max(s)>>] \in U  BY <3>1, <3>2
    <3> QED  BY <2>2, <3>3 DEF r
  <2> QED  BY <2>1, <2>2
<1>8. ASSUME NEW s \in SUBSET T, s # T PROVE h[s] = G(s)[s]
  <2> DEFINE r == s \ {Max(s)}
  <2>1. ArePartialFolds(base, step, s, G(s))  BY <1>5, <1>8
  <2>2. G(s)[s] = IF s = {} THEN base ELSE step[<<G(s)[r], Max(s)>>]
    BY <2>1 DEF ArePartialFolds
  <2>3. CASE s = {}  BY <2>2, <2>3
  <2>4. CASE s # {}
    <3>1. r \in SUBSET s /\ r \in SUBSET T /\ r # T  BY <1>6, <2>4
    <3> HIDE DEF r
    <3>2. ArePartialFolds(base, step, r, G(r))  BY <1>5, <3>1
    <3>3. IsFiniteSet(s) /\ \A v \in SUBSET s : v # {} => Max(v) \in v  BY <1>4, FS_Subset
    <3>4. G(s)[r] = G(r)[r]  BY <2>1, <3>1, <3>2, <3>3, FoldsAgree
    <3> QED  BY <2>2, <2>4, <3>4 DEF r
  <2> QED  BY <2>3, <2>4
<1>9. ArePartialFolds(base, step, T, h)
  <2>1. ASSUME NEW s \in SUBSET T
        PROVE  h[s] = IF s = {} THEN base ELSE step[<<h[s \ {Max(s)}], Max(s)>>]
    <3>1. CASE s = {}  BY <3>1
    <3>2. CASE s # {}
      <4> DEFINE r == s \ {Max(s)}
      <4>1. r \in SUBSET T /\ r # T  BY <1>6, <3>2
      <4>2. h[s] = step[<<G(r)[r], Max(s)>>]  BY <3>2
      <4> HIDE DEF r, h
      <4>3. h[r] = G(r)[r]  BY <1>8, <4>1
      <4> QED  BY <3>2, <4>2, <4>3 DEF r
    <3> QED  BY <3>1, <3>2
  <2>2. h = [s \in SUBSET T |-> h[s]]  OBVIOUS
  <2> HIDE DEF h
  <2>3. h = [s \in SUBSET T |-> IF s = {} THEN base ELSE step[<<h[s \ {Max(s)}], Max(s)>>]]
    BY <2>1, <2>2, Zenon
  <2> QED  BY <2>3 DEF ArePartialFolds
<1> HIDE DEF h
<1> QED  BY <1>4, <1>7, <1>9

-----------------------------------------------------------------------------
(* Sums over the four types, and the division of an amount.                *)

\* The sum over the four types, written out.
LEMMA SumOfFour ==
    ASSUME NEW g, DOMAIN g = FeeTypes, \A f \in FeeTypes : g[f] \in Int
    PROVE  SumFunction(g) = g["DEV"] + g["BUYBACK"] + g["RESERVE"] + g["STAKER"]
<1> DEFINE Sum(S) == SumFunctionOnSet(g, S)
<1>1. IsFiniteSet({}) /\ Sum({}) = 0  BY FS_EmptySet, SumEmpty
<1>2. \A f \in FeeTypes : g[f] \in Int /\ f \in FeeTypes  OBVIOUS
<1>3. {"STAKER", "RESERVE", "BUYBACK", "DEV"} = FeeTypes  BY DEF FeeTypes
<1>4. IsFiniteSet({"STAKER"}) /\ Sum({"STAKER"}) = g["STAKER"]
  <2>1. IsFiniteSet({} \cup {"STAKER"})
        /\ Sum({} \cup {"STAKER"}) = g["STAKER"] + Sum({})
    BY <1>1, <1>2, <1>3, SumAdd, FS_AddElement
  <2>2. {} \cup {"STAKER"} = {"STAKER"}  OBVIOUS
  <2>3. g["STAKER"] \in Int  BY <1>2, <1>3
  <2> HIDE DEF Sum
  <2> QED  BY <1>1, <2>1, <2>2, <2>3
<1>5. /\ IsFiniteSet({"STAKER", "RESERVE"})
      /\ Sum({"STAKER", "RESERVE"}) = g["RESERVE"] + g["STAKER"]
  <2>1. IsFiniteSet({"STAKER"} \cup {"RESERVE"})
        /\ Sum({"STAKER"} \cup {"RESERVE"}) = g["RESERVE"] + Sum({"STAKER"})
    BY <1>2, <1>3, <1>4, SumAdd, FS_AddElement
  <2>2. {"STAKER"} \cup {"RESERVE"} = {"STAKER", "RESERVE"}  OBVIOUS
  <2> HIDE DEF Sum
  <2> QED  BY <1>4, <2>1, <2>2
<1>6. /\ IsFiniteSet({"STAKER", "RESERVE", "BUYBACK"})
      /\ Sum({"STAKER", "RESERVE", "BUYBACK"}) = g["BUYBACK"] + (g["RESERVE"] + g["STAKER"])
  <2>1. IsFiniteSet({"STAKER", "RESERVE"} \cup {"BUYBACK"})
        /\ Sum({"STAKER", "RESERVE"} \cup {"BUYBACK"}) =
                g["BUYBACK"] + Sum({"STAKER", "RESERVE"})
    BY <1>2, <1>3, <1>5, SumAdd, FS_AddElement
  <2>2. {"STAKER", "RESERVE"} \cup {"BUYBACK"} = {"STAKER", "RESERVE", "BUYBACK"}  OBVIOUS
  <2> HIDE DEF Sum
  <2> QED  BY <1>5, <2>1, <2>2
<1>7. Sum(FeeTypes) = g["DEV"] + (g["BUYBACK"] + (g["RESERVE"] + g["STAKER"]))
  <2>1. Sum({"STAKER", "RESERVE", "BUYBACK"} \cup {"DEV"}) =
                g["DEV"] + Sum({"STAKER", "RESERVE", "BUYBACK"})
    BY <1>2, <1>3, <1>6, SumAdd
  <2>2. {"STAKER", "RESERVE", "BUYBACK"} \cup {"DEV"} = FeeTypes  BY <1>3
  <2> HIDE DEF Sum
  <2> QED  BY <1>6, <2>1, <2>2
<1>8. SumFunction(g) = Sum(FeeTypes)  BY DEF SumFunction
<1> HIDE DEF Sum
<1>9. g["DEV"] \in Int /\ g["BUYBACK"] \in Int /\ g["RESERVE"] \in Int /\ g["STAKER"] \in Int
  BY <1>2, <1>3
<1> QED  BY <1>7, <1>8, <1>9

\* The part of a type: what is left of its product is less than the total.
LEMMA PartOf ==
    ASSUME NEW a \in Nat, NEW s \in Nat, NEW S \in Nat, S > 0
    PROVE  LET q == (a * s) \div S IN
           /\ q \in Nat /\ q * S <= a * s /\ a * s < q * S + S
<1> DEFINE p == a * s
<1>1. p \in Nat  BY MulNat
<1> HIDE DEF p
<1>2. LET q == p \div S IN q \in Nat /\ q * S <= p /\ p < q * S + S  BY <1>1
<1> QED  BY <1>2 DEF p

\* A factor goes over the four parts of a sum.
LEMMA TimesFour ==
    ASSUME NEW m \in Nat, NEW a \in Nat, NEW b \in Nat, NEW c \in Nat, NEW d \in Nat
    PROVE  (a + b + c + d) * m = a * m + b * m + c * m + d * m
BY SMT

\* The parts of an amount are not more than it, and less than four units stay.
LEMMA PartsOf ==
    ASSUME NEW s \in [FeeTypes -> Nat], NEW S, S = SumFunction(s), S > 0, NEW a \in Nat,
           NEW q, q = [f \in FeeTypes |-> (a * s[f]) \div S]
    PROVE  /\ q \in [FeeTypes -> Nat]
           /\ SumFunction(q) \in Nat /\ SumFunction(q) <= a /\ a - SumFunction(q) <= 3
<1> DEFINE s1 == s["DEV"]  s2 == s["BUYBACK"]  s3 == s["RESERVE"]  s4 == s["STAKER"]
           q1 == q["DEV"]  q2 == q["BUYBACK"]  q3 == q["RESERVE"]  q4 == q["STAKER"]
           Q == q1 + q2 + q3 + q4
<1>1. {"DEV", "BUYBACK", "RESERVE", "STAKER"} = FeeTypes  BY DEF FeeTypes
<1>2. s1 \in Nat /\ s2 \in Nat /\ s3 \in Nat /\ s4 \in Nat  BY <1>1
<1>3. S = s1 + s2 + s3 + s4  BY <1>1, SumOfFour
<1>4. q1 = (a * s1) \div S /\ q2 = (a * s2) \div S /\ q3 = (a * s3) \div S /\ q4 = (a * s4) \div S
  BY <1>1
<1>5. q \in [FeeTypes -> Nat]
  <2>1. S \in Nat  BY <1>2, <1>3
  <2>2. ASSUME NEW f \in FeeTypes PROVE (a * s[f]) \div S \in Nat  BY <2>1, PartOf
  <2> QED  BY <2>2
<1>6. SumFunction(q) = Q  BY <1>1, <1>5, SumOfFour
<1> HIDE DEF s1, s2, s3, s4, q1, q2, q3, q4
<1>7. S \in Nat  BY <1>2, <1>3
<1>8. /\ q1 \in Nat /\ q1 * S <= a * s1 /\ a * s1 < q1 * S + S
      /\ q2 \in Nat /\ q2 * S <= a * s2 /\ a * s2 < q2 * S + S
      /\ q3 \in Nat /\ q3 * S <= a * s3 /\ a * s3 < q3 * S + S
      /\ q4 \in Nat /\ q4 * S <= a * s4 /\ a * s4 < q4 * S + S
  BY <1>2, <1>4, <1>7, PartOf
<1>9. Q * S = q1 * S + q2 * S + q3 * S + q4 * S  BY <1>7, <1>8, TimesFour
<1>10. S * a = s1 * a + s2 * a + s3 * a + s4 * a  BY <1>2, <1>3, TimesFour
<1>11. S * a = a * S /\ s1 * a = a * s1 /\ s2 * a = a * s2 /\ s3 * a = a * s3 /\ s4 * a = a * s4
  BY <1>2, <1>7, SMT
<1>12. /\ q1 * S \in Nat /\ q2 * S \in Nat /\ q3 * S \in Nat /\ q4 * S \in Nat
       /\ a * s1 \in Nat /\ a * s2 \in Nat /\ a * s3 \in Nat /\ a * s4 \in Nat
  BY <1>2, <1>7, <1>8, MulNat
<1>13. Q * S <= a * S /\ a * S < Q * S + (S + S + S + S)
  BY <1>7, <1>8, <1>9, <1>10, <1>11, <1>12
<1>14. Q \in Nat  BY <1>8
<1> HIDE DEF Q
<1>15. Q <= a  BY <1>7, <1>13, <1>14, CancelMul
<1>16. a <= Q + 3
  <2>1. SUFFICES ASSUME Q + 4 <= a PROVE FALSE  BY <1>14
  <2>2. (Q + 4) * S <= a * S
    <3>1. S * (Q + 4) <= S * a  BY <1>7, <1>14, <2>1, MulMono
    <3>2. S * (Q + 4) = (Q + 4) * S /\ S * a = a * S  BY <1>7, <1>14, SMT
    <3> QED  BY <3>1, <3>2
  <2>3. (Q + 4) * S = Q * S + (S + S + S + S)  BY <1>7, <1>14, SMT
  <2>4. a * S \in Nat /\ Q * S \in Nat  BY <1>7, <1>14, MulNat
  <2> QED  BY <1>7, <1>13, <2>2, <2>3, <2>4
<1> QED  BY <1>5, <1>6, <1>14, <1>15, <1>16

-----------------------------------------------------------------------------
(* The books.                                                              *)

BooksType ==
    [acc : [Tokens -> [FeeTypes -> Int]], cl : [Tokens -> [FeeTypes -> Int]],
     tre : [Tokens -> Int], bal : [Tokens -> Int], ok : BOOLEAN]

\* The shares as updateShares leaves them.
SharesOK ==
    share \in [FeeTypes -> Nat] /\ totalShare = SumFunction(share) /\ totalShare \in Nat

\* What was divided is held, and nobody took more than was divided to him.
GoodAt(bk, t) ==
    /\ bk.tre[t] \in Nat
    /\ \A f \in FeeTypes : 0 <= bk.cl[t][f] /\ bk.cl[t][f] <= bk.acc[t][f]
    /\ Account(bk, t) <= bk.bal[t]

Good(bk) == \A t \in Tokens : GoodAt(bk, t)

\* What is not divided yet, and what a type may claim.
Free(bk, t) == TreasuryAmount(bk, t) + UnAccount(bk, t)
Worth(bk, t, f) ==
    Due(bk, t, f) + IF totalShare = 0 THEN 0 ELSE ShareAmount(f, Free(bk, t))

\* What is accounted for is the sum of what is due to the four types.
LEMMA AccountIs ==
    ASSUME NEW bk \in BooksType, NEW t \in Tokens
    PROVE  /\ \A f \in FeeTypes : Due(bk, t, f) \in Int
           /\ Account(bk, t) \in Int
           /\ Account(bk, t) = Due(bk, t, "DEV") + Due(bk, t, "BUYBACK")
                                + Due(bk, t, "RESERVE") + Due(bk, t, "STAKER")
<1> DEFINE g == [f \in FeeTypes |-> Due(bk, t, f)]
<1>1. \A f \in FeeTypes : Due(bk, t, f) \in Int  BY DEF Due, BooksType
<1>2. DOMAIN g = FeeTypes /\ \A f \in FeeTypes : g[f] \in Int  BY <1>1
<1>3. SumFunction(g) = g["DEV"] + g["BUYBACK"] + g["RESERVE"] + g["STAKER"]
  <2> HIDE DEF g
  <2> QED  BY <1>2, SumOfFour
<1>4. {"DEV", "BUYBACK", "RESERVE", "STAKER"} = FeeTypes  BY DEF FeeTypes
<1>5. /\ g["DEV"] = Due(bk, t, "DEV") /\ g["BUYBACK"] = Due(bk, t, "BUYBACK")
      /\ g["RESERVE"] = Due(bk, t, "RESERVE") /\ g["STAKER"] = Due(bk, t, "STAKER")
  BY <1>4
<1>6. Account(bk, t) = SumFunction(g)  BY DEF Account
<1> HIDE DEF g
<1> QED  BY <1>1, <1>3, <1>4, <1>5, <1>6

\* It depends on what was divided and claimed alone.
LEMMA SameAccount ==
    ASSUME NEW bk \in BooksType, NEW ck \in BooksType, NEW t \in Tokens,
           ck.acc[t] = bk.acc[t], ck.cl[t] = bk.cl[t]
    PROVE  /\ \A f \in FeeTypes : Due(ck, t, f) = Due(bk, t, f)
           /\ Account(ck, t) = Account(bk, t)
<1>1. \A f \in FeeTypes : Due(ck, t, f) = Due(bk, t, f)  BY DEF Due
<1>2. {"DEV", "BUYBACK", "RESERVE", "STAKER"} = FeeTypes  BY DEF FeeTypes
<1> QED  BY <1>1, <1>2, AccountIs

\* All amounts of a token are integers.
LEMMA AmountsInt ==
    ASSUME NEW bk \in BooksType, NEW t \in Tokens
    PROVE  /\ TreasuryAmount(bk, t) \in Int /\ UnAccount(bk, t) \in Int /\ Free(bk, t) \in Int
           /\ bk.tre[t] \in Int /\ bk.bal[t] \in Int
<1>1. bk.tre[t] \in Int /\ bk.bal[t] \in Int  BY DEF BooksType
<1> QED  BY <1>1, AccountIs DEF TreasuryAmount, UnAccount, Free

\* What the division of one token changes.
LEMMA KeepIs ==
    ASSUME SharesOK, NEW bk \in BooksType, NEW t \in Tokens
    PROVE  LET kept == KeepAccountSingleToken(bk, t)
               a == Free(bk, t)
           IN  /\ kept \in BooksType
               /\ kept.ok => bk.ok /\ UnAccount(bk, t) >= 0 /\ (a = 0 \/ totalShare > 0)
               /\ kept.cl = bk.cl
               /\ kept.bal = [bk.bal EXCEPT ![t] = @ + TreasuryAmount(bk, t)]
               /\ kept.tre = IF hasTreasury THEN [bk.tre EXCEPT ![t] = 0] ELSE bk.tre
               /\ kept.acc = IF a = 0 \/ totalShare = 0 THEN bk.acc
                             ELSE [bk.acc EXCEPT ![t] = [f \in FeeTypes |-> @[f] + ShareAmount(f, a)]]
<1> DEFINE kept == KeepAccountSingleToken(bk, t)
           a == Free(bk, t)
           w == WithdrawTreasury(bk, t)
           x == [w EXCEPT !.ok = @ /\ UnAccount(bk, t) >= 0]
<1>1. kept = Divide(x, t, a)  BY DEF KeepAccountSingleToken, Free
<1>2. /\ a \in Int /\ UnAccount(bk, t) \in Int /\ TreasuryAmount(bk, t) \in Int
  BY AmountsInt
<1> HIDE DEF a, kept
<1>3. /\ w \in BooksType /\ w.acc = bk.acc /\ w.cl = bk.cl /\ w.ok = bk.ok
      /\ w.bal = [bk.bal EXCEPT ![t] = @ + TreasuryAmount(bk, t)]
      /\ w.tre = IF hasTreasury THEN [bk.tre EXCEPT ![t] = 0] ELSE bk.tre
  <2>1. CASE hasTreasury
    <3> DEFINE v == bk.bal[t] + bk.tre[t]
    <3>1. TreasuryAmount(bk, t) = bk.tre[t] /\ v \in Int  BY <2>1 DEF TreasuryAmount, BooksType
    <3>2. /\ w = [bk EXCEPT !.bal[t] = v, !.tre[t] = 0]
          /\ [bk.bal EXCEPT ![t] = @ + TreasuryAmount(bk, t)] = [bk.bal EXCEPT ![t] = v]
      BY <2>1, <3>1 DEF WithdrawTreasury, BooksType
    <3> HIDE DEF v, w
    <3>3. /\ w \in BooksType /\ w.acc = bk.acc /\ w.cl = bk.cl /\ w.ok = bk.ok
          /\ w.bal = [bk.bal EXCEPT ![t] = v] /\ w.tre = [bk.tre EXCEPT ![t] = 0]
      <4>1. /\ [bk.bal EXCEPT ![t] = v] \in [Tokens -> Int]
            /\ [bk.tre EXCEPT ![t] = 0] \in [Tokens -> Int]
        BY <3>1 DEF BooksType
      <4>2. w = [acc |-> bk.acc, cl |-> bk.cl, tre |-> [bk.tre EXCEPT ![t] = 0],
                 bal |-> [bk.bal EXCEPT ![t] = v], ok |-> bk.ok]
        BY <3>2 DEF BooksType
      <4> QED  BY <4>1, <4>2 DEF BooksType
    <3> QED  BY <2>1, <3>2, <3>3
  <2>2. CASE ~hasTreasury
    <3>1. w = bk /\ TreasuryAmount(bk, t) = 0  BY <2>2 DEF WithdrawTreasury, TreasuryAmount
    <3>2. bk.bal = [bk.bal EXCEPT ![t] = @ + 0]  BY DEF BooksType
    <3> QED  BY <2>2, <3>1, <3>2
  <2> QED  BY <2>1, <2>2
<1> HIDE DEF w
<1>4. /\ x \in BooksType /\ x.acc = bk.acc /\ x.cl = bk.cl /\ x.bal = w.bal /\ x.tre = w.tre
      /\ x.ok => bk.ok /\ UnAccount(bk, t) >= 0
  <2> DEFINE y == w.ok /\ UnAccount(bk, t) >= 0
  <2>1. y \in BOOLEAN /\ (y => w.ok /\ UnAccount(bk, t) >= 0)  OBVIOUS
  <2>2. x = [w EXCEPT !.ok = y]  OBVIOUS
  <2> HIDE DEF y, x
  <2>3. x \in BooksType /\ x.acc = w.acc /\ x.cl = w.cl /\ x.bal = w.bal /\ x.tre = w.tre /\ x.ok = y
    BY <1>3, <2>1, <2>2 DEF BooksType
  <2> QED  BY <1>3, <2>1, <2>3
<1> HIDE DEF x
<1>5. CASE a = 0
  <2>1. kept = x  BY <1>1, <1>5 DEF Divide
  <2> QED  BY <1>3, <1>4, <1>5, <2>1 DEF kept, a
<1>6. CASE a # 0 /\ totalShare = 0
  <2>1. kept = [x EXCEPT !.ok = FALSE]
    <3>1. kept = [x EXCEPT !.ok = @ /\ totalShare > 0, !.acc[t] = @]  BY <1>1, <1>6 DEF Divide
    <3>2. x.acc = [x.acc EXCEPT ![t] = @] /\ (x.ok /\ totalShare > 0) = FALSE
      BY <1>4, <1>6 DEF BooksType
    <3>3. [x EXCEPT !.ok = @ /\ totalShare > 0, !.acc[t] = @] = [x EXCEPT !.ok = FALSE]
      BY <1>4, <3>2 DEF BooksType
    <3> QED  BY <3>1, <3>3
  <2>2. kept \in BooksType /\ ~kept.ok  BY <1>4, <2>1 DEF BooksType
  <2>3. kept.acc = x.acc /\ kept.cl = x.cl /\ kept.bal = x.bal /\ kept.tre = x.tre
    BY <1>4, <2>1 DEF BooksType
  <2> QED  BY <1>3, <1>4, <1>6, <2>2, <2>3 DEF kept, a
<1>7. CASE a # 0 /\ totalShare # 0
  <2> DEFINE row == [f \in FeeTypes |-> bk.acc[t][f] + ShareAmount(f, a)]
  <2>1. \A f \in FeeTypes : ShareAmount(f, a) \in Int
    <3>1. totalShare \in Nat \ {0} /\ \A f \in FeeTypes : share[f] \in Nat  BY <1>7 DEF SharesOK
    <3>2. \A f \in FeeTypes : a * share[f] \in Int  BY <1>2, <3>1, SMT
    <3>3. \A p \in Int, d \in Nat \ {0} : p \div d \in Int  OBVIOUS
    <3> QED  BY <3>1, <3>2, <3>3 DEF ShareAmount
  <2>2. row \in [FeeTypes -> Int]  BY <2>1 DEF BooksType
  <2>3. totalShare > 0 /\ totalShare \in Nat  BY <1>7 DEF SharesOK
  <2>4. kept = [x EXCEPT !.ok = @, !.acc[t] = row]
    <3>1. kept = [x EXCEPT !.ok = @ /\ totalShare > 0,
                           !.acc[t] = [f \in FeeTypes |-> @[f] + ShareAmount(f, a)]]
      BY <1>1, <1>7 DEF Divide
    <3>2. x.acc[t] = bk.acc[t] /\ (x.ok /\ totalShare > 0) = x.ok  BY <1>4, <2>3 DEF BooksType
    <3> QED  BY <1>4, <3>1, <3>2 DEF BooksType
  <2> HIDE DEF row
  <2>5. /\ kept \in BooksType /\ kept.ok = x.ok /\ kept.acc = [bk.acc EXCEPT ![t] = row]
        /\ kept.cl = x.cl /\ kept.bal = x.bal /\ kept.tre = x.tre
    BY <1>4, <2>2, <2>4 DEF BooksType
  <2>6. [bk.acc EXCEPT ![t] = row]
            = [bk.acc EXCEPT ![t] = [f \in FeeTypes |-> @[f] + ShareAmount(f, a)]]
    BY DEF row
  <2> QED  BY <1>3, <1>4, <1>7, <2>3, <2>5, <2>6 DEF kept, a
<1> QED  BY <1>5, <1>6, <1>7

\* Tokens with the same entries are worth the same.
LEMMA SameWorth ==
    ASSUME NEW bk \in BooksType, NEW ck \in BooksType, NEW t \in Tokens,
           ck.acc[t] = bk.acc[t], ck.cl[t] = bk.cl[t], ck.tre[t] = bk.tre[t],
           ck.bal[t] = bk.bal[t]
    PROVE  /\ Free(ck, t) = Free(bk, t)
           /\ \A f \in FeeTypes : Worth(ck, t, f) = Worth(bk, t, f)
           /\ GoodAt(bk, t) => GoodAt(ck, t)
BY SameAccount DEF Free, Worth, UnAccount, TreasuryAmount, GoodAt

\* After its division a token has less than four units that are not divided, and
\* a type is due what it could claim before.
LEMMA KeepSettles ==
    ASSUME SharesOK, NEW bk \in BooksType, NEW t \in Tokens, GoodAt(bk, t),
           KeepAccountSingleToken(bk, t).ok
    PROVE  LET kept == KeepAccountSingleToken(bk, t) IN
           /\ GoodAt(kept, t) /\ Free(kept, t) \in 0..3
           /\ TreasuryAmount(kept, t) = 0
           /\ \A f \in FeeTypes : Due(kept, t, f) = Worth(bk, t, f)
                                  /\ bk.acc[t][f] <= kept.acc[t][f]
           /\ \A u \in Tokens \ {t} :
                /\ kept.acc[u] = bk.acc[u] /\ kept.cl[u] = bk.cl[u]
                /\ kept.tre[u] = bk.tre[u] /\ kept.bal[u] = bk.bal[u]
<1> DEFINE kept == KeepAccountSingleToken(bk, t)
           a == Free(bk, t)
           q == [f \in FeeTypes |-> IF totalShare = 0 THEN 0 ELSE (a * share[f]) \div totalShare]
<1>1. /\ kept \in BooksType /\ kept.cl = bk.cl
      /\ bk.ok /\ UnAccount(bk, t) >= 0 /\ (a = 0 \/ totalShare > 0)
      /\ kept.bal = [bk.bal EXCEPT ![t] = @ + TreasuryAmount(bk, t)]
      /\ kept.tre = IF hasTreasury THEN [bk.tre EXCEPT ![t] = 0] ELSE bk.tre
      /\ kept.acc = IF a = 0 \/ totalShare = 0 THEN bk.acc
                    ELSE [bk.acc EXCEPT ![t] = [f \in FeeTypes |-> @[f] + ShareAmount(f, a)]]
  BY KeepIs
<1> HIDE DEF kept
<1>2. /\ TreasuryAmount(bk, t) \in Nat /\ UnAccount(bk, t) \in Nat /\ a \in Nat
  <2>1. TreasuryAmount(bk, t) \in Nat  BY DEF GoodAt, TreasuryAmount
  <2> QED  BY <1>1, <2>1, AmountsInt DEF Free
<1>3. {"DEV", "BUYBACK", "RESERVE", "STAKER"} = FeeTypes  BY DEF FeeTypes
<1>4. /\ q \in [FeeTypes -> Nat]
      /\ SumFunction(q) = q["DEV"] + q["BUYBACK"] + q["RESERVE"] + q["STAKER"]
      /\ SumFunction(q) \in Nat /\ SumFunction(q) <= a /\ a - SumFunction(q) <= 3
  <2>1. CASE a # 0 /\ totalShare # 0
    <3>1. q = [f \in FeeTypes |-> (a * share[f]) \div totalShare]  BY <2>1
    <3>2. totalShare > 0  BY <2>1 DEF SharesOK
    <3> HIDE DEF q, a
    <3>3. /\ q \in [FeeTypes -> Nat]
          /\ SumFunction(q) \in Nat /\ SumFunction(q) <= a /\ a - SumFunction(q) <= 3
      BY <1>2, <3>1, <3>2, PartsOf DEF SharesOK
    <3>4. DOMAIN q = FeeTypes /\ \A f \in FeeTypes : q[f] \in Int  BY <3>3
    <3>5. SumFunction(q) = q["DEV"] + q["BUYBACK"] + q["RESERVE"] + q["STAKER"]
      BY <3>4, SumOfFour
    <3> QED  BY <3>3, <3>5
  <2>2. CASE a = 0 \/ totalShare = 0
    <3>1. \A f \in FeeTypes : q[f] = 0
      <4>1. CASE totalShare = 0  BY <4>1
      <4>2. CASE totalShare # 0
        <5>1. a = 0 /\ totalShare \in Nat \ {0}  BY <2>2, <4>2 DEF SharesOK
        <5>2. \A f \in FeeTypes : a * share[f] = 0  BY <5>1 DEF SharesOK
        <5>3. \A d \in Nat \ {0} : 0 \div d = 0  OBVIOUS
        <5> QED  BY <4>2, <5>1, <5>2, <5>3
      <4> QED  BY <4>1, <4>2
    <3>2. DOMAIN q = FeeTypes /\ q \in [FeeTypes -> Nat]  BY <3>1
    <3> HIDE DEF q
    <3>3. SumFunction(q) = q["DEV"] + q["BUYBACK"] + q["RESERVE"] + q["STAKER"]
      BY <3>1, <3>2, SumOfFour
    <3>4. SumFunction(q) = 0  BY <1>3, <3>1, <3>3
    <3>5. a = 0  BY <1>1, <2>2
    <3> HIDE DEF a
    <3> QED  BY <3>2, <3>3, <3>4, <3>5
  <2> QED  BY <2>1, <2>2
<1>5. \A f \in FeeTypes : kept.acc[t][f] = bk.acc[t][f] + q[f]
  <2>1. CASE a = 0 \/ totalShare = 0
    <3>1. kept.acc = bk.acc  BY <1>1, <2>1
    <3>2. a = 0  BY <1>1, <2>1
    <3>3. SumFunction(q) = 0 /\ \A f \in FeeTypes : q[f] \in Nat
      <4> HIDE DEF q, a
      <4> QED  BY <1>4, <3>2
    <3>4. \A f \in FeeTypes : q[f] = 0
      <4> HIDE DEF q
      <4> QED  BY <1>3, <1>4, <3>3
    <3> QED  BY <3>1, <3>4 DEF BooksType
  <2>2. CASE ~(a = 0 \/ totalShare = 0)
    BY <1>1, <2>2 DEF BooksType, ShareAmount
  <2> QED  BY <2>1, <2>2
<1>6. \A f \in FeeTypes : Due(bk, t, f) + q[f] = Worth(bk, t, f)
  BY DEF Worth, ShareAmount
<1> HIDE DEF q, a
<1>7. \A f \in FeeTypes : /\ Due(bk, t, f) \in Int /\ q[f] \in Nat /\ bk.acc[t][f] \in Int
                          /\ Due(kept, t, f) = Due(bk, t, f) + q[f]
  BY <1>1, <1>4, <1>5 DEF Due, BooksType
<1>8. Account(kept, t) = Account(bk, t) + SumFunction(q)
  BY <1>1, <1>3, <1>4, <1>7, AccountIs
<1>9. TreasuryAmount(kept, t) = 0 /\ kept.tre[t] \in Nat
  BY <1>1 DEF TreasuryAmount, BooksType, GoodAt
<1>10. kept.bal[t] = bk.bal[t] + TreasuryAmount(bk, t)  BY <1>1 DEF BooksType
<1>11. Account(kept, t) <= kept.bal[t] /\ Free(kept, t) \in 0..3
  <2>1. Account(bk, t) \in Int /\ bk.bal[t] \in Int  BY AmountsInt, AccountIs
  <2>2. a = TreasuryAmount(bk, t) + (bk.bal[t] - Account(bk, t))  BY DEF a, Free, UnAccount
  <2>3. Free(kept, t) = 0 + (kept.bal[t] - Account(kept, t))  BY <1>9 DEF Free, UnAccount
  <2>4. \A A, B, T, Q, b \in Int :
          b = T + (B - A) /\ Q <= b /\ b - Q <= 3 =>
            A + Q <= B + T /\ 0 + ((B + T) - (A + Q)) \in 0..3
    OBVIOUS
  <2>5. a \in Int /\ TreasuryAmount(bk, t) \in Int /\ SumFunction(q) \in Int  BY <1>2, <1>4
  <2>6. SumFunction(q) <= a /\ a - SumFunction(q) <= 3  BY <1>4
  <2>7. /\ Account(bk, t) + SumFunction(q) <= bk.bal[t] + TreasuryAmount(bk, t)
        /\ 0 + ((bk.bal[t] + TreasuryAmount(bk, t)) - (Account(bk, t) + SumFunction(q))) \in 0..3
    BY <2>1, <2>2, <2>4, <2>5, <2>6
  <2> QED  BY <1>8, <1>10, <2>3, <2>7
<1>12. ASSUME NEW u \in Tokens \ {t}
       PROVE  /\ kept.acc[u] = bk.acc[u] /\ kept.cl[u] = bk.cl[u]
              /\ kept.tre[u] = bk.tre[u] /\ kept.bal[u] = bk.bal[u]
  BY <1>1 DEF BooksType
<1>13. GoodAt(kept, t)
  <2>1. ASSUME NEW f \in FeeTypes
        PROVE  0 <= kept.cl[t][f] /\ kept.cl[t][f] <= kept.acc[t][f]
    <3>1. 0 <= bk.cl[t][f] /\ bk.cl[t][f] <= bk.acc[t][f] /\ bk.cl[t][f] \in Int
          /\ bk.acc[t][f] \in Int
      BY DEF GoodAt, BooksType
    <3> QED  BY <1>1, <1>5, <1>7, <3>1
  <2> QED  BY <1>9, <1>11, <2>1 DEF GoodAt
<1>14. ASSUME NEW f \in FeeTypes
       PROVE  Due(kept, t, f) = Worth(bk, t, f) /\ bk.acc[t][f] <= kept.acc[t][f]
  BY <1>5, <1>6, <1>7
<1> QED  BY <1>9, <1>11, <1>12, <1>13, <1>14 DEF kept

\* A bigger amount has no smaller part.
LEMMA ShareGrows ==
    ASSUME SharesOK, totalShare # 0, NEW f \in FeeTypes, NEW a \in Nat, NEW b \in Nat, a <= b
    PROVE  /\ ShareAmount(f, a) \in Nat /\ ShareAmount(f, b) \in Nat
           /\ ShareAmount(f, a) <= ShareAmount(f, b)
<1> DEFINE s == share[f]
           p == (a * s) \div totalShare
           q == (b * s) \div totalShare
<1>1. s \in Nat /\ totalShare \in Nat /\ totalShare > 0  BY DEF SharesOK
<1>2. /\ p \in Nat /\ p * totalShare <= a * s
      /\ q \in Nat /\ b * s < q * totalShare + totalShare
  BY <1>1, PartOf
<1>3. ShareAmount(f, a) = p /\ ShareAmount(f, b) = q  BY DEF ShareAmount
<1> HIDE DEF s, p, q
<1>4. s * a <= s * b /\ s * a = a * s /\ s * b = b * s
  <2>1. s * a <= s * b  BY <1>1, MulMono
  <2>2. s * a = a * s /\ s * b = b * s  BY <1>1, SMT
  <2> QED  BY <2>1, <2>2
<1>5. p * totalShare \in Nat /\ a * s \in Nat /\ b * s \in Nat /\ q * totalShare \in Nat
  BY <1>1, <1>2, MulNat
<1>6. (q + 1) * totalShare = q * totalShare + totalShare  BY <1>1, <1>2, SMT
<1>7. ~(q + 1 <= p)
  <2>1. SUFFICES ASSUME q + 1 <= p PROVE FALSE  OBVIOUS
  <2>2. totalShare * (q + 1) <= totalShare * p  BY <1>1, <1>2, <2>1, MulMono
  <2>3. totalShare * (q + 1) = (q + 1) * totalShare /\ totalShare * p = p * totalShare
    BY <1>1, <1>2, SMT
  <2> QED  BY <1>1, <1>2, <1>4, <1>5, <1>6, <2>2, <2>3
<1> QED  BY <1>2, <1>3, <1>7

\* What is not divided yet is a natural number.
LEMMA FreeIsNat ==
    ASSUME NEW bk \in BooksType, NEW t \in Tokens, GoodAt(bk, t)
    PROVE  Free(bk, t) \in Nat /\ UnAccount(bk, t) \in Nat /\ TreasuryAmount(bk, t) \in Nat
BY AmountsInt, AccountIs DEF Free, UnAccount, TreasuryAmount, GoodAt

\* What a type may claim is at least what is due to it.
LEMMA WorthIs ==
    ASSUME SharesOK, NEW bk \in BooksType, NEW t \in Tokens, GoodAt(bk, t), NEW f \in FeeTypes
    PROVE  Worth(bk, t, f) \in Int /\ Due(bk, t, f) \in Int /\ Worth(bk, t, f) >= Due(bk, t, f)
<1>1. Free(bk, t) \in Nat /\ Due(bk, t, f) \in Int  BY FreeIsNat, AccountIs
<1>2. totalShare # 0 => ShareAmount(f, Free(bk, t)) \in Nat  BY <1>1, ShareGrows
<1> QED  BY <1>1, <1>2 DEF Worth

\* One token's books after another's: they stay good, claims only grow, and who did
\* not claim lost nothing.
FollowsAt(bk, ck, t) ==
    /\ GoodAt(ck, t)
    /\ \A f \in FeeTypes : /\ bk.cl[t][f] <= ck.cl[t][f]
                           /\ ck.cl[t][f] = bk.cl[t][f] => Worth(ck, t, f) >= Worth(bk, t, f)

Follows(bk, ck) == \A t \in Tokens : FollowsAt(bk, ck, t)

\* A token whose entries stay follows itself.
LEMMA FollowsSame ==
    ASSUME SharesOK, NEW bk \in BooksType, NEW ck \in BooksType, NEW t \in Tokens, GoodAt(bk, t),
           ck.acc[t] = bk.acc[t], ck.cl[t] = bk.cl[t], ck.tre[t] = bk.tre[t],
           ck.bal[t] = bk.bal[t]
    PROVE  FollowsAt(bk, ck, t)
<1>1. GoodAt(ck, t) /\ \A f \in FeeTypes : Worth(ck, t, f) = Worth(bk, t, f)  BY SameWorth
<1>2. \A f \in FeeTypes : Worth(bk, t, f) \in Int /\ bk.cl[t][f] \in Int
  BY WorthIs DEF BooksType
<1> QED  BY <1>1, <1>2 DEF FollowsAt

\* Two changes after each other are one change of the same kind.
LEMMA FollowsOn ==
    ASSUME SharesOK, NEW bk \in BooksType, NEW ck \in BooksType, NEW dk \in BooksType,
           NEW t \in Tokens, GoodAt(bk, t), FollowsAt(bk, ck, t), FollowsAt(ck, dk, t)
    PROVE  FollowsAt(bk, dk, t)
<1>1. GoodAt(ck, t) /\ GoodAt(dk, t)  BY DEF FollowsAt
<1>2. ASSUME NEW f \in FeeTypes
      PROVE  /\ bk.cl[t][f] <= dk.cl[t][f]
             /\ dk.cl[t][f] = bk.cl[t][f] => Worth(dk, t, f) >= Worth(bk, t, f)
  <2>1. bk.cl[t][f] \in Int /\ ck.cl[t][f] \in Int /\ dk.cl[t][f] \in Int  BY DEF BooksType
  <2>2. Worth(bk, t, f) \in Int /\ Worth(ck, t, f) \in Int /\ Worth(dk, t, f) \in Int
    BY <1>1, WorthIs
  <2> QED  BY <2>1, <2>2 DEF FollowsAt
<1> QED  BY <1>1, <1>2 DEF FollowsAt

\* The division of a token alone.
LEMMA KeepFollows ==
    ASSUME SharesOK, NEW bk \in BooksType, NEW t \in Tokens, GoodAt(bk, t),
           KeepAccountSingleToken(bk, t).ok
    PROVE  FollowsAt(bk, KeepAccountSingleToken(bk, t), t)
<1> DEFINE kept == KeepAccountSingleToken(bk, t)
<1>1. kept \in BooksType /\ kept.cl = bk.cl  BY KeepIs
<1>2. GoodAt(kept, t) /\ \A f \in FeeTypes : Due(kept, t, f) = Worth(bk, t, f)  BY KeepSettles
<1> HIDE DEF kept
<1>3. ASSUME NEW f \in FeeTypes
      PROVE  bk.cl[t][f] <= kept.cl[t][f] /\ Worth(kept, t, f) >= Worth(bk, t, f)
  <2>1. bk.cl[t][f] \in Int  BY DEF BooksType
  <2> QED  BY <1>1, <1>2, <2>1, WorthIs
<1>4. FollowsAt(bk, kept, t)  BY <1>2, <1>3 DEF FollowsAt
<1> QED  BY <1>4 DEF kept

\* What a type has claimed when it takes all that is due to it.
Taken(bk, t, f) == [bk.cl[t] EXCEPT ![f] = @ + Due(bk, t, f)]

\* A type takes all that is due to it.
LEMMA TakeFollows ==
    ASSUME SharesOK, NEW bk \in BooksType, NEW ck \in BooksType, NEW t \in Tokens, GoodAt(bk, t),
           NEW f \in FeeTypes, ck.acc[t] = bk.acc[t], ck.tre[t] = bk.tre[t],
           ck.cl[t] = Taken(bk, t, f),
           ck.bal[t] = bk.bal[t] - Due(bk, t, f)
    PROVE  FollowsAt(bk, ck, t)
<1> DEFINE due == Due(bk, t, f)
<1>1. /\ due \in Nat /\ due = bk.acc[t][f] - bk.cl[t][f]
      /\ \A g \in FeeTypes : /\ bk.cl[t][g] \in Int /\ bk.acc[t][g] \in Int
                             /\ 0 <= bk.cl[t][g] /\ bk.cl[t][g] <= bk.acc[t][g]
      /\ bk.bal[t] \in Int
  BY DEF Due, GoodAt, BooksType
<1>2. \A g \in FeeTypes : ck.cl[t][g] = IF g = f THEN bk.cl[t][g] + due ELSE bk.cl[t][g]
  BY DEF BooksType, Taken
<1> HIDE DEF due
<1>3. \A g \in FeeTypes : /\ Due(ck, t, g) = IF g = f THEN Due(bk, t, g) - due ELSE Due(bk, t, g)
                          /\ Due(bk, t, g) \in Int
  <2>1. SUFFICES ASSUME NEW g \in FeeTypes
                 PROVE  /\ Due(ck, t, g) = IF g = f THEN Due(bk, t, g) - due ELSE Due(bk, t, g)
                        /\ Due(bk, t, g) \in Int
    OBVIOUS
  <2>2. /\ Due(bk, t, g) = bk.acc[t][g] - bk.cl[t][g]
        /\ Due(ck, t, g) = bk.acc[t][g] - ck.cl[t][g]
    BY DEF Due
  <2>3. bk.cl[t][g] \in Int /\ bk.acc[t][g] \in Int /\ due \in Int  BY <1>1
  <2>4. CASE g = f
    <3>1. ck.cl[t][g] = bk.cl[t][g] + due  BY <1>2, <2>4
    <3>2. \A x, y, z \in Int : x - (y + z) = x - y - z  OBVIOUS
    <3> QED  BY <2>2, <2>3, <2>4, <3>1, <3>2
  <2>5. CASE g # f
    <3>1. ck.cl[t][g] = bk.cl[t][g]  BY <1>2, <2>5
    <3> QED  BY <2>2, <2>3, <2>5, <3>1
  <2> QED  BY <2>4, <2>5
<1>4. Account(ck, t) = Account(bk, t) - due
  <2>1. f \in {"DEV", "BUYBACK", "RESERVE", "STAKER"}
        /\ {"DEV", "BUYBACK", "RESERVE", "STAKER"} = FeeTypes  BY DEF FeeTypes
  <2> QED  BY <1>1, <1>3, <2>1, AccountIs
<1>5. Account(bk, t) \in Int /\ Account(bk, t) <= bk.bal[t] /\ bk.tre[t] \in Nat
  BY AccountIs DEF GoodAt
<1>6. UnAccount(ck, t) = UnAccount(bk, t) /\ TreasuryAmount(ck, t) = TreasuryAmount(bk, t)
  BY <1>1, <1>4, <1>5 DEF UnAccount, TreasuryAmount, due
<1>7. Account(ck, t) <= ck.bal[t]  BY <1>1, <1>4, <1>5 DEF due
<1>8. GoodAt(ck, t)  BY <1>1, <1>2, <1>5, <1>7 DEF GoodAt
<1>9. ASSUME NEW g \in FeeTypes
      PROVE  /\ bk.cl[t][g] <= ck.cl[t][g]
             /\ ck.cl[t][g] = bk.cl[t][g] => Worth(ck, t, g) >= Worth(bk, t, g)
  <2>1. bk.cl[t][g] <= ck.cl[t][g]  BY <1>1, <1>2
  <2>2. ASSUME ck.cl[t][g] = bk.cl[t][g] PROVE Worth(ck, t, g) = Worth(bk, t, g)
    <3>1. Due(ck, t, g) = Due(bk, t, g)  BY <1>1, <1>2, <1>3, <2>2
    <3> QED  BY <1>6, <3>1 DEF Worth, Free
  <2>3. Worth(bk, t, g) \in Int  BY WorthIs
  <2> QED  BY <2>1, <2>2, <2>3
<1> QED  BY <1>8, <1>9 DEF FollowsAt

\* A token is divided, and one type takes what is due to it.
LEMMA SettleFollows ==
    ASSUME SharesOK, NEW bk \in BooksType, NEW ck \in BooksType, NEW t \in Tokens, GoodAt(bk, t),
           NEW f \in FeeTypes, NEW kept, kept = KeepAccountSingleToken(bk, t), kept.ok,
           ck.acc[t] = kept.acc[t], ck.tre[t] = kept.tre[t],
           ck.cl[t] = Taken(kept, t, f),
           ck.bal[t] = kept.bal[t] - Due(kept, t, f)
    PROVE  FollowsAt(bk, ck, t)
<1>1. kept \in BooksType  BY KeepIs
<1>2. GoodAt(kept, t)  BY KeepSettles
<1>3. FollowsAt(bk, kept, t)  BY KeepFollows
<1>4. FollowsAt(kept, ck, t)  BY <1>1, <1>2, TakeFollows
<1> QED  BY <1>1, <1>3, <1>4, FollowsOn

\* Who is due nothing takes nothing.
LEMMA TakeNone ==
    ASSUME NEW bk \in BooksType, NEW t \in Tokens, NEW f \in FeeTypes, Due(bk, t, f) = 0
    PROVE  Taken(bk, t, f) = bk.cl[t]
<1>1. bk.cl[t] \in [FeeTypes -> Int]  BY DEF BooksType
<1>2. [bk.cl[t] EXCEPT ![f] = @ + 0] = bk.cl[t]  BY <1>1
<1> QED  BY <1>2 DEF Taken

\* What marking a claim changes, and what it leaves.
LEMMA MarkIs ==
    ASSUME NEW bk \in BooksType, NEW t \in Tokens, NEW f \in FeeTypes
    PROVE  LET m == MarkClaimed(bk, t, f) IN
           /\ m \in BooksType
           /\ m.acc = bk.acc /\ m.tre = bk.tre /\ m.bal = bk.bal /\ m.ok = bk.ok
           /\ m.cl[t] = Taken(bk, t, f)
           /\ \A u \in Tokens \ {t} : m.cl[u] = bk.cl[u]
<1> DEFINE row == Taken(bk, t, f)
           m == MarkClaimed(bk, t, f)
<1>1. Due(bk, t, f) \in Int  BY AccountIs
<1>2. row \in [FeeTypes -> Int]  BY <1>1 DEF BooksType, Taken
<1>3. m = [bk EXCEPT !.cl[t] = row]  BY DEF MarkClaimed, Taken
<1> HIDE DEF row, m
<1>4. m = [acc |-> bk.acc, cl |-> [bk.cl EXCEPT ![t] = row], tre |-> bk.tre, bal |-> bk.bal,
           ok |-> bk.ok]
  BY <1>3 DEF BooksType
<1>5. [bk.cl EXCEPT ![t] = row] \in [Tokens -> [FeeTypes -> Int]]
      /\ [bk.cl EXCEPT ![t] = row][t] = row
      /\ \A u \in Tokens \ {t} : [bk.cl EXCEPT ![t] = row][u] = bk.cl[u]
  BY <1>2 DEF BooksType
<1>6. m \in BooksType  BY <1>4, <1>5 DEF BooksType
<1> QED  BY <1>4, <1>5, <1>6 DEF m, row

\* What a payment changes, and what it leaves.
LEMMA ReleaseIs ==
    ASSUME NEW bk \in BooksType, NEW t \in Tokens, NEW f \in FeeTypes, NEW d \in Int
    PROVE  LET r == Release(bk, t, f, d) IN
           /\ r \in BooksType
           /\ r.acc = bk.acc /\ r.tre = bk.tre /\ r.cl = bk.cl
           /\ r.ok => bk.ok /\ d <= bk.bal[t]
           /\ r.bal = [bk.bal EXCEPT ![t] = @ - d]
<1> DEFINE y == bk.ok /\ f \in hasReceiver /\ d <= bk.bal[t]
           v == [bk.bal EXCEPT ![t] = @ - d]
           r == Release(bk, t, f, d)
<1>1. y \in BOOLEAN /\ (y => bk.ok /\ d <= bk.bal[t]) /\ v \in [Tokens -> Int]
  BY DEF BooksType
<1>2. r = [bk EXCEPT !.ok = y, !.bal = v]  BY DEF Release, BooksType
<1> HIDE DEF y, v, r
<1>3. r = [acc |-> bk.acc, cl |-> bk.cl, tre |-> bk.tre, bal |-> v, ok |-> y]
  BY <1>2 DEF BooksType
<1> QED  BY <1>1, <1>3 DEF BooksType, v, r

\* A type takes what is due to it of one token of its list.
LEMMA ClaimTokenFollows ==
    ASSUME SharesOK, NEW bk \in BooksType, NEW t \in Tokens, NEW f \in FeeTypes
    PROVE  LET r == ClaimToken(bk, t, f) IN
           /\ r \in BooksType
           /\ r.ok => bk.ok
           /\ r.ok /\ Good(bk) => Good(r) /\ Follows(bk, r)
<1> DEFINE kept == KeepAccountSingleToken(bk, t)
           due == Due(kept, t, f)
           m == MarkClaimed(kept, t, f)
           r == ClaimToken(bk, t, f)
<1>1. /\ kept \in BooksType /\ due \in Int /\ (kept.ok => bk.ok)
      /\ r = IF due = 0 THEN kept ELSE Release(m, t, f, due)
  BY KeepIs, AccountIs DEF ClaimToken
<1>2. kept = KeepAccountSingleToken(bk, t)  OBVIOUS
<1> HIDE DEF kept, r
<1>3. /\ m \in BooksType /\ m.acc = kept.acc /\ m.tre = kept.tre /\ m.bal = kept.bal
      /\ m.ok = kept.ok /\ m.cl[t] = Taken(kept, t, f)
      /\ \A u \in Tokens \ {t} : m.cl[u] = kept.cl[u]
  BY <1>1, MarkIs
<1> HIDE DEF m, due
<1>4. /\ r \in BooksType /\ (r.ok => kept.ok)
      /\ r.acc = kept.acc /\ r.tre = kept.tre
      /\ r.cl[t] = Taken(kept, t, f) /\ r.bal[t] = kept.bal[t] - due
      /\ \A u \in Tokens \ {t} : r.cl[u] = kept.cl[u] /\ r.bal[u] = kept.bal[u]
  <2>1. CASE due = 0
    <3>1. r = kept  BY <1>1, <2>1
    <3>2. kept.bal[t] = kept.bal[t] - 0  BY <1>1 DEF BooksType
    <3>3. kept.cl[t] = Taken(kept, t, f)  BY <1>1, <2>1, TakeNone DEF due
    <3> QED  BY <1>1, <2>1, <3>1, <3>2, <3>3
  <2>2. CASE due # 0
    <3>1. /\ r \in BooksType /\ r.acc = m.acc /\ r.tre = m.tre /\ r.cl = m.cl
          /\ (r.ok => m.ok) /\ r.bal = [m.bal EXCEPT ![t] = @ - due]
      BY <1>1, <1>3, <2>2, ReleaseIs
    <3>2. /\ r.bal[t] = kept.bal[t] - due
          /\ \A u \in Tokens \ {t} : r.bal[u] = kept.bal[u]
      BY <1>1, <1>3, <3>1 DEF BooksType
    <3> QED  BY <1>3, <3>1, <3>2
  <2> QED  BY <2>1, <2>2
<1>5. ASSUME r.ok, Good(bk), NEW u \in Tokens PROVE FollowsAt(bk, r, u)
  <2>1. kept.ok /\ GoodAt(bk, u) /\ GoodAt(bk, t)  BY <1>4, <1>5 DEF Good
  <2>2. CASE u = t
    <3>1. FollowsAt(bk, r, t)  BY <1>2, <1>4, <2>1, SettleFollows DEF due
    <3> QED  BY <2>2, <3>1
  <2>3. CASE u # t
    <3>1. /\ kept.acc[u] = bk.acc[u] /\ kept.cl[u] = bk.cl[u]
          /\ kept.tre[u] = bk.tre[u] /\ kept.bal[u] = bk.bal[u]
      BY <1>2, <2>1, <2>3, KeepSettles
    <3>2. /\ r.acc[u] = bk.acc[u] /\ r.cl[u] = bk.cl[u]
          /\ r.tre[u] = bk.tre[u] /\ r.bal[u] = bk.bal[u]
      BY <1>4, <2>3, <3>1
    <3> QED  BY <1>4, <2>1, <3>2, FollowsSame
  <2> QED  BY <2>2, <2>3
<1>6. r.ok /\ Good(bk) => Good(r) /\ Follows(bk, r)
  BY <1>5 DEF Good, Follows, FollowsAt
<1> QED  BY <1>1, <1>4, <1>6 DEF r

\* Reflexive and transitive over all tokens.
LEMMA FollowsSelf ==
    ASSUME SharesOK, NEW bk \in BooksType, Good(bk)
    PROVE  Follows(bk, bk)
BY FollowsSame DEF Good, Follows

\* Two changes after each other, over all tokens.
LEMMA FollowsTrans ==
    ASSUME SharesOK, NEW bk \in BooksType, NEW ck \in BooksType, NEW dk \in BooksType,
           Good(bk), Follows(bk, ck), Follows(ck, dk)
    PROVE  Follows(bk, dk) /\ Good(dk)
<1>1. Follows(bk, dk)  BY FollowsOn DEF Good, Follows
<1> QED  BY <1>1 DEF Good, Follows, FollowsAt

-----------------------------------------------------------------------------
(* The three loops.                                                        *)

\* What a claim makes of the books, going through its list from first to last.
BooksClaimed(bk, f, list) == FoldLeft(LAMBDA x, t : ClaimToken(x, t, f), bk, list)

\* The books between the turns of the loop of claim.
LEMMA ClaimLoop ==
    ASSUME SharesOK, NEW bk \in BooksType, NEW f \in FeeTypes, NEW list \in Seq(Tokens)
    PROVE  \E h : /\ h[0] = bk
                  /\ h[Len(list)] = BooksClaimed(bk, f, list)
                  /\ \A k \in 1..Len(list) : h[k] = ClaimToken(h[k - 1], list[k], f)
<1> DEFINE n == Len(list)
           N == 1..n
           Is(it) == it = [s \in SUBSET N |-> IF s = {} THEN bk
                                ELSE ClaimToken(it[s \ {Max(s)}], list[Max(s)], f)]
           it0 == CHOOSE it : Is(it)
           h == [k \in 0..n |-> it0[1..k]]
<1>1. n \in Nat /\ DOMAIN list = N /\ \A k \in N : list[k] \in Tokens  OBVIOUS
<1>2. BooksClaimed(bk, f, list) = it0[N]  BY <1>1 DEF BooksClaimed, FoldLeft, MapThenFoldSet
<1>3. \E it : Is(it)
  <2> DEFINE step == [p \in BooksType \X N |-> ClaimToken(p[1], list[p[2]], f)]
  <2>1. step \in [BooksType \X N -> BooksType]
    <3>1. \A x \in BooksType : \A k \in N : ClaimToken(x, list[k], f) \in BooksType
      BY <1>1, ClaimTokenFollows
    <3> QED  BY <3>1
  <2>2. IsFiniteSet(N)  BY FS_Interval
  <2>3. \A s \in SUBSET N : s # {} => Max(s) \in s  BY <1>1, MaxIn
  <2>4. PICK g : ArePartialFolds(bk, step, N, g) /\ \A s \in SUBSET N : g[s] \in BooksType
    <3> HIDE DEF step, N
    <3> QED  BY <2>1, <2>2, <2>3, FoldExists
  <2>5. ASSUME NEW s \in SUBSET N, s # {}
        PROVE  step[<<g[s \ {Max(s)}], Max(s)>>]
                    = ClaimToken(g[s \ {Max(s)}], list[Max(s)], f)
    <3>1. g[s \ {Max(s)}] \in BooksType /\ Max(s) \in N  BY <2>3, <2>4, <2>5
    <3> HIDE DEF N
    <3> QED  BY <3>1
  <2> HIDE DEF step, N
  <2>6. g = [s \in SUBSET N |-> IF s = {} THEN bk ELSE step[<<g[s \ {Max(s)}], Max(s)>>]]
    BY <2>4 DEF ArePartialFolds
  <2>7. g = [s \in SUBSET N |-> IF s = {} THEN bk
                                ELSE ClaimToken(g[s \ {Max(s)}], list[Max(s)], f)]
    BY <2>5, <2>6, Zenon
  <2> QED  BY <2>7
<1>4. Is(it0)
  <2> HIDE DEF Is
  <2> QED  BY <1>3
<1> HIDE DEF it0
<1>5. h[0] = bk
  <2>1. 1..0 = {} /\ {} \in SUBSET N  OBVIOUS
  <2>2. it0[{}] = bk  BY <1>4, <2>1
  <2> QED  BY <1>1, <2>1, <2>2
<1>6. ASSUME NEW k \in 1..n PROVE h[k] = ClaimToken(h[k - 1], list[k], f)
  <2>1. Max(1..k) = k /\ (1..k) \ {Max(1..k)} = 1..(k - 1)  BY <1>1, MaxUpTo
  <2>2. 1..k \in SUBSET N /\ 1..k # {}  BY <1>1, MaxUpTo
  <2>3. it0[1..k] = ClaimToken(it0[(1..k) \ {Max(1..k)}], list[Max(1..k)], f)
    BY <1>4, <2>2
  <2>4. it0[1..k] = ClaimToken(it0[1..(k - 1)], list[k], f)  BY <2>1, <2>3
  <2>5. h[k] = it0[1..k] /\ h[k - 1] = it0[1..(k - 1)]  BY <1>1
  <2> QED  BY <2>4, <2>5
<1>7. h[n] = it0[N]  BY <1>1
<1> HIDE DEF h
<1> QED  BY <1>2, <1>5, <1>6, <1>7

\* A whole claim keeps the books good and takes from nobody else.
LEMMA ClaimFollows ==
    ASSUME SharesOK, NEW bk \in BooksType, Good(bk), NEW f \in FeeTypes, NEW list \in Seq(Tokens)
    PROVE  LET r == BooksClaimed(bk, f, list) IN
           r \in BooksType /\ (r.ok => Good(r) /\ Follows(bk, r))
<1>1. PICK h : /\ h[0] = bk
               /\ h[Len(list)] = BooksClaimed(bk, f, list)
               /\ \A k \in 1..Len(list) : h[k] = ClaimToken(h[k - 1], list[k], f)
  BY ClaimLoop
<1> DEFINE n == Len(list)
           P == {k \in 0..n : h[k] \in BooksType /\ (h[k].ok => Good(h[k]) /\ Follows(bk, h[k]))}
<1>2. n \in Nat /\ \A k \in 1..n : list[k] \in Tokens  OBVIOUS
<1>3. 0 \in P  BY <1>1, <1>2, FollowsSelf
<1>4. ASSUME NEW k \in 1..n, k - 1 \in P PROVE k \in P
  <2>1. h[k] = ClaimToken(h[k - 1], list[k], f) /\ list[k] \in Tokens /\ k \in 0..n
    BY <1>1, <1>2
  <2>2. h[k - 1] \in BooksType /\ (h[k - 1].ok => Good(h[k - 1]) /\ Follows(bk, h[k - 1]))
    BY <1>4
  <2>3. h[k] \in BooksType /\ (h[k].ok => h[k - 1].ok)
    BY <2>1, <2>2, ClaimTokenFollows
  <2>4. ASSUME h[k].ok PROVE Good(h[k]) /\ Follows(bk, h[k])
    <3>1. Good(h[k - 1]) /\ Follows(bk, h[k - 1])  BY <2>2, <2>3, <2>4
    <3>2. Follows(h[k - 1], h[k])  BY <2>1, <2>2, <2>4, <3>1, ClaimTokenFollows
    <3> QED  BY <2>2, <2>3, <3>1, <3>2, FollowsTrans
  <2> QED  BY <2>1, <2>3, <2>4
<1> HIDE DEF P
<1>5. n \in P
  <2>1. \A k \in 0..n : k \in P  BY <1>2, <1>3, <1>4, UpTo
  <2> QED  BY <1>2, <2>1
<1> QED  BY <1>1, <1>5 DEF P

-----------------------------------------------------------------------------
(* A claim with a target token.                                            *)

Runs == [bk : BooksType, amount : Int]

\* The books without the amount that the call will pay at its end.
Net(x, target) == [x.bk EXCEPT !.bal[target] = @ - x.amount]

\* What the net books are.
LEMMA NetIs ==
    ASSUME NEW x \in Runs, NEW target \in Tokens
    PROVE  LET m == Net(x, target) IN
           /\ m \in BooksType
           /\ m.acc = x.bk.acc /\ m.cl = x.bk.cl /\ m.tre = x.bk.tre /\ m.ok = x.bk.ok
           /\ m.bal[target] = x.bk.bal[target] - x.amount
           /\ \A u \in Tokens \ {target} : m.bal[u] = x.bk.bal[u]
<1> DEFINE bk == x.bk
           v == [bk.bal EXCEPT ![target] = @ - x.amount]
           m == Net(x, target)
<1>1. bk \in BooksType /\ x.amount \in Int  BY DEF Runs
<1>2. /\ v \in [Tokens -> Int] /\ v[target] = bk.bal[target] - x.amount
      /\ \A u \in Tokens \ {target} : v[u] = bk.bal[u]
  BY <1>1 DEF BooksType
<1>3. m = [bk EXCEPT !.bal = v]  BY DEF Net
<1> HIDE DEF v, m, bk
<1>4. m = [acc |-> bk.acc, cl |-> bk.cl, tre |-> bk.tre, bal |-> v, ok |-> bk.ok]
  BY <1>1, <1>3 DEF BooksType
<1>5. m \in BooksType  BY <1>1, <1>2, <1>4 DEF BooksType
<1> QED  BY <1>2, <1>4, <1>5 DEF m, bk

\* What a turn of the loop of claimWithTargetToken changes.
LEMMA CollectIs ==
    ASSUME SharesOK, NEW x \in Runs, NEW t \in Tokens, NEW target \in Tokens, NEW f \in FeeTypes,
           NEW out \in Int, NEW kept, kept = KeepAccountSingleToken(x.bk, t),
           NEW r, r = CollectToken(x, t, f, target, out)
    PROVE  /\ r \in Runs
           /\ r.bk.ok => kept.ok
           /\ r.bk.acc = kept.acc /\ r.bk.tre = kept.tre
           /\ r.bk.cl[t] = Taken(kept, t, f)
           /\ \A u \in Tokens \ {t} : r.bk.cl[u] = kept.cl[u]
           /\ \A u \in Tokens \ {t, target} : r.bk.bal[u] = kept.bal[u]
           /\ t = target => r.bk.bal[t] = kept.bal[t] /\ r.amount = x.amount + Due(kept, t, f)
           /\ t # target => /\ r.bk.bal[t] = kept.bal[t] - Due(kept, t, f)
                            /\ r.bk.bal[target] - r.amount = kept.bal[target] - x.amount
                            /\ r.bk.bal[target] \in {kept.bal[target], kept.bal[target] + out}
                            /\ r.bk.ok => Due(kept, t, f) = 0 \/ Due(kept, t, f) <= kept.bal[t]
<1> DEFINE due == Due(kept, t, f)
           m == MarkClaimed(kept, t, f)
           sold == [m EXCEPT !.ok = @ /\ hasSwap /\ due <= m.bal[t], !.bal[t] = @ - due]
           b == [sold EXCEPT !.bal[target] = @ + out]
<1>1. /\ x.bk \in BooksType /\ x.amount \in Int /\ kept \in BooksType /\ due \in Int
      /\ kept.cl = x.bk.cl
  BY KeepIs, AccountIs DEF Runs
<1>2. /\ m \in BooksType /\ m.acc = kept.acc /\ m.tre = kept.tre /\ m.bal = kept.bal
      /\ m.ok = kept.ok /\ m.cl[t] = Taken(kept, t, f)
      /\ \A u \in Tokens \ {t} : m.cl[u] = kept.cl[u]
  BY <1>1, MarkIs
<1>3. r = IF due = 0 THEN [x EXCEPT !.bk = kept]
          ELSE IF t = target THEN [bk |-> m, amount |-> x.amount + due]
          ELSE [bk |-> b, amount |-> x.amount + out]
  BY Zenon DEF CollectToken
<1>4. due = 0 => Taken(kept, t, f) = kept.cl[t]  BY <1>1, TakeNone
<1> HIDE DEF due, m
<1>5. /\ sold \in BooksType /\ (sold.ok => m.ok /\ due <= m.bal[t])
      /\ sold.acc = m.acc /\ sold.cl = m.cl /\ sold.tre = m.tre
      /\ sold.bal = [m.bal EXCEPT ![t] = @ - due]
  <2> DEFINE y == m.ok /\ hasSwap /\ due <= m.bal[t]
             v == [m.bal EXCEPT ![t] = @ - due]
  <2>1. y \in BOOLEAN /\ (y => m.ok /\ due <= m.bal[t]) /\ v \in [Tokens -> Int]
    BY <1>1, <1>2 DEF BooksType
  <2>2. sold = [m EXCEPT !.ok = y, !.bal = v]  BY <1>2 DEF BooksType
  <2> HIDE DEF y, v, sold
  <2>3. sold = [acc |-> m.acc, cl |-> m.cl, tre |-> m.tre, bal |-> v, ok |-> y]
    BY <1>2, <2>2 DEF BooksType
  <2> QED  BY <1>2, <2>1, <2>3 DEF BooksType, v
<1> HIDE DEF sold
<1>6. /\ b \in BooksType /\ (b.ok => m.ok /\ due <= m.bal[t])
      /\ b.acc = m.acc /\ b.cl = m.cl /\ b.tre = m.tre
      /\ b.bal = [sold.bal EXCEPT ![target] = @ + out]
  <2> DEFINE v == [sold.bal EXCEPT ![target] = @ + out]
  <2>0. sold \in BooksType  BY <1>5
  <2>1. v \in [Tokens -> Int]  BY <2>0 DEF BooksType
  <2>2. b = [sold EXCEPT !.bal = v]  BY <2>0 DEF BooksType
  <2> HIDE DEF v, b
  <2>3. b = [acc |-> sold.acc, cl |-> sold.cl, tre |-> sold.tre, bal |-> v, ok |-> sold.ok]
    BY <1>5, <2>2 DEF BooksType
  <2> QED  BY <1>5, <2>1, <2>3 DEF BooksType, v
<1> HIDE DEF b
<1>10. kept.bal[t] \in Int /\ kept.bal[target] \in Int  BY <1>1 DEF BooksType
<1>11. /\ t # target => b.bal[t] = kept.bal[t] - due /\ b.bal[target] = kept.bal[target] + out
       /\ \A u \in Tokens \ {t, target} : b.bal[u] = kept.bal[u]
  BY <1>1, <1>2, <1>5, <1>6 DEF BooksType
<1>7. CASE due = 0
  <2>1. r = [bk |-> kept, amount |-> x.amount]  BY <1>3, <1>7 DEF Runs
  <2>2. r \in Runs /\ r.bk = kept /\ r.amount = x.amount  BY <1>1, <2>1 DEF Runs
  <2>3. kept.bal[t] = kept.bal[t] - 0 /\ x.amount = x.amount + 0  BY <1>1, <1>10
  <2> QED  BY <1>4, <1>7, <2>2, <2>3 DEF due
<1>8. CASE due # 0 /\ t = target
  <2>1. r \in Runs /\ r.bk = m /\ r.amount = x.amount + due  BY <1>1, <1>2, <1>3, <1>8 DEF Runs
  <2> QED  BY <1>2, <1>8, <2>1 DEF due
<1>9. CASE due # 0 /\ t # target
  <2>1. r \in Runs /\ r.bk = b /\ r.amount = x.amount + out  BY <1>1, <1>3, <1>6, <1>9 DEF Runs
  <2>2. r.bk.bal[target] - r.amount = kept.bal[target] - x.amount
    BY <1>1, <1>9, <1>10, <1>11, <2>1
  <2> QED  BY ZenonT(60), <1>2, <1>6, <1>9, <1>11, <2>1, <2>2 DEF due
<1> QED  BY <1>7, <1>8, <1>9

\* One turn of the loop, when the target is collected before anything is swapped.
LEMMA CollectFollows ==
    ASSUME SharesOK, NEW x \in Runs, NEW t \in Tokens, NEW target \in Tokens, NEW f \in FeeTypes,
           NEW out \in Int, t = target => x.amount = 0
    PROVE  LET r == CollectToken(x, t, f, target, out) IN
           /\ r \in Runs
           /\ r.bk.ok => x.bk.ok
           /\ r.bk.ok /\ Good(Net(x, target)) =>
                Good(Net(r, target)) /\ Follows(Net(x, target), Net(r, target))
<1> DEFINE r == CollectToken(x, t, f, target, out)
           p == Net(x, target)
           q == Net(r, target)
<1>1. PICK kept : kept = KeepAccountSingleToken(x.bk, t)  OBVIOUS
<1>2. /\ x.bk \in BooksType /\ x.amount \in Int /\ kept \in BooksType /\ (kept.ok => x.bk.ok)
      /\ Due(kept, t, f) \in Int /\ kept.bal[t] \in Int /\ x.bk.bal[t] \in Int
  <2>1. x.bk \in BooksType /\ x.amount \in Int  BY DEF Runs
  <2>2. kept \in BooksType /\ (kept.ok => x.bk.ok)  BY <1>1, <2>1, KeepIs
  <2> QED  BY <2>1, <2>2, AccountIs, AmountsInt
<1>3. /\ r \in Runs /\ (r.bk.ok => kept.ok)
      /\ r.bk.acc = kept.acc /\ r.bk.tre = kept.tre
      /\ r.bk.cl[t] = Taken(kept, t, f)
      /\ \A u \in Tokens \ {t} : r.bk.cl[u] = kept.cl[u]
      /\ \A u \in Tokens \ {t, target} : r.bk.bal[u] = kept.bal[u]
      /\ t = target => r.bk.bal[t] = kept.bal[t] /\ r.amount = x.amount + Due(kept, t, f)
      /\ t # target => /\ r.bk.bal[t] = kept.bal[t] - Due(kept, t, f)
                       /\ r.bk.bal[target] - r.amount = kept.bal[target] - x.amount
  BY SMTT(30), <1>1, CollectIs
<1> HIDE DEF r
<1>4. /\ p \in BooksType /\ p.acc = x.bk.acc /\ p.cl = x.bk.cl /\ p.tre = x.bk.tre
      /\ p.bal[target] = x.bk.bal[target] - x.amount
      /\ \A u \in Tokens \ {target} : p.bal[u] = x.bk.bal[u]
  BY NetIs
<1>5. /\ q \in BooksType /\ q.acc = r.bk.acc /\ q.cl = r.bk.cl /\ q.tre = r.bk.tre
      /\ q.bal[target] = r.bk.bal[target] - r.amount
      /\ \A u \in Tokens \ {target} : q.bal[u] = r.bk.bal[u]
  BY <1>3, NetIs
<1> HIDE DEF p, q
<1>6. p.bal[t] = x.bk.bal[t]  BY <1>2, <1>4
<1>7. q.bal[t] = kept.bal[t] - Due(kept, t, f)
  <2>1. CASE t = target
    <3>1. x.amount = 0 /\ r.amount = 0 + Due(kept, t, f)  BY <1>3, <2>1
    <3> QED  BY <1>2, <1>3, <1>5, <2>1, <3>1
  <2>2. CASE t # target  BY <1>3, <1>5, <2>2
  <2> QED  BY <2>1, <2>2
<1>8. ASSUME r.bk.ok, Good(p), NEW u \in Tokens PROVE FollowsAt(p, q, u)
  <2>1. kept.ok /\ GoodAt(p, u) /\ GoodAt(p, t)  BY <1>3, <1>8 DEF Good
  <2>2. GoodAt(x.bk, t) /\ FollowsAt(p, x.bk, t)
    BY <1>2, <1>4, <1>6, <2>1, SameWorth, FollowsSame
  <2>3. CASE u = t
    <3>1. FollowsAt(x.bk, q, t)  BY <1>1, <1>2, <1>3, <1>5, <1>7, <2>1, <2>2, SettleFollows
    <3> QED  BY <1>2, <1>4, <1>5, <2>1, <2>2, <2>3, <3>1, FollowsOn
  <2>4. CASE u # t
    <3>1. /\ kept.acc[u] = x.bk.acc[u] /\ kept.cl[u] = x.bk.cl[u]
          /\ kept.tre[u] = x.bk.tre[u] /\ kept.bal[u] = x.bk.bal[u]
      BY <1>1, <1>2, <2>1, <2>2, <2>4, KeepSettles
    <3>2. q.bal[u] = p.bal[u]
      <4>1. CASE u = target  BY <1>3, <1>4, <1>5, <2>4, <3>1, <4>1
      <4>2. CASE u # target  BY <1>3, <1>4, <1>5, <2>4, <3>1, <4>2
      <4> QED  BY <4>1, <4>2
    <3>3. q.acc[u] = p.acc[u] /\ q.cl[u] = p.cl[u] /\ q.tre[u] = p.tre[u]
      BY <1>3, <1>4, <1>5, <2>4, <3>1
    <3> QED  BY <1>4, <1>5, <2>1, <3>2, <3>3, FollowsSame
  <2> QED  BY <2>3, <2>4
<1>9. r.bk.ok /\ Good(p) => Good(q) /\ Follows(p, q)
  BY <1>8 DEF Good, Follows, FollowsAt
<1> QED  BY <1>2, <1>3, <1>9 DEF r, p, q

\* What such a claim makes of the books, before it pays the target token.
Collected(bk, f, list, target, outs) ==
    FoldLeft(LAMBDA x, i : CollectToken(x, list[i], f, target, outs[i]),
             [bk |-> bk, amount |-> 0],
             [i \in 1..Len(list) |-> i])

\* The books between the turns of the loop of claimWithTargetToken.
LEMMA CollectLoop ==
    ASSUME SharesOK, NEW bk \in BooksType, NEW f \in FeeTypes, NEW list \in Seq(Tokens),
           NEW target \in Tokens, NEW outs \in [1..Len(list) -> Int]
    PROVE  \E h : /\ h[0] = [bk |-> bk, amount |-> 0]
                  /\ h[Len(list)] = Collected(bk, f, list, target, outs)
                  /\ \A k \in 1..Len(list) :
                        h[k] = CollectToken(h[k - 1], list[k], f, target, outs[k])
<1> DEFINE n == Len(list)
           N == 1..n
           base == [bk |-> bk, amount |-> 0]
           seq == [i \in 1..n |-> i]
           Is(it) == it = [s \in SUBSET N |-> IF s = {} THEN base
                              ELSE CollectToken(it[s \ {Max(s)}], list[seq[Max(s)]], f, target,
                                                outs[seq[Max(s)]])]
           it0 == CHOOSE it : Is(it)
           h == [k \in 0..n |-> it0[1..k]]
<1>1. n \in Nat /\ DOMAIN seq = N /\ \A k \in N : list[k] \in Tokens /\ seq[k] = k  OBVIOUS
<1>2. Collected(bk, f, list, target, outs) = it0[N]
  BY <1>1 DEF Collected, FoldLeft, MapThenFoldSet
<1>3. \E it : Is(it)
  <2> DEFINE step == [p \in Runs \X N |->
                        CollectToken(p[1], list[seq[p[2]]], f, target, outs[seq[p[2]]])]
  <2>1. step \in [Runs \X N -> Runs]
    <3>1. ASSUME NEW x \in Runs, NEW k \in N
          PROVE  CollectToken(x, list[seq[k]], f, target, outs[seq[k]]) \in Runs
      <4>1. list[seq[k]] \in Tokens /\ outs[seq[k]] \in Int  BY <1>1
      <4>2. PICK kept : kept = KeepAccountSingleToken(x.bk, list[seq[k]])  OBVIOUS
      <4> HIDE DEF seq
      <4> QED  BY <4>1, <4>2, CollectIs
    <3> HIDE DEF N, seq
    <3> QED  BY <3>1
  <2>2. IsFiniteSet(N)  BY FS_Interval
  <2>3. \A s \in SUBSET N : s # {} => Max(s) \in s  BY <1>1, MaxIn
  <2>4. base \in Runs  BY DEF Runs
  <2>5. PICK g : ArePartialFolds(base, step, N, g) /\ \A s \in SUBSET N : g[s] \in Runs
    <3> HIDE DEF step, N, base
    <3> QED  BY ZenonT(60), <2>1, <2>2, <2>3, <2>4, FoldExists
  <2>6. ASSUME NEW s \in SUBSET N, s # {}
        PROVE  step[<<g[s \ {Max(s)}], Max(s)>>]
                    = CollectToken(g[s \ {Max(s)}], list[seq[Max(s)]], f, target,
                                   outs[seq[Max(s)]])
    <3>1. g[s \ {Max(s)}] \in Runs /\ Max(s) \in N  BY <2>3, <2>5, <2>6
    <3> HIDE DEF N, seq
    <3> QED  BY <3>1
  <2> HIDE DEF step, N, base, seq
  <2>7. g = [s \in SUBSET N |-> IF s = {} THEN base ELSE step[<<g[s \ {Max(s)}], Max(s)>>]]
    BY <2>5 DEF ArePartialFolds
  <2>8. g = [s \in SUBSET N |-> IF s = {} THEN base
                ELSE CollectToken(g[s \ {Max(s)}], list[seq[Max(s)]], f, target,
                                  outs[seq[Max(s)]])]
    BY <2>6, <2>7, Zenon
  <2> QED  BY <2>8
<1>4. Is(it0)
  <2> HIDE DEF Is
  <2> QED  BY <1>3
<1> HIDE DEF it0, base, seq
<1>5. h[0] = base
  <2>1. 1..0 = {} /\ {} \in SUBSET N  OBVIOUS
  <2>2. it0[{}] = base  BY <1>4, <2>1
  <2> QED  BY <1>1, <2>1, <2>2
<1>6. ASSUME NEW k \in 1..n PROVE h[k] = CollectToken(h[k - 1], list[k], f, target, outs[k])
  <2>1. /\ Max(1..k) = k /\ (1..k) \ {Max(1..k)} = 1..(k - 1)
        /\ 1..k \in SUBSET N /\ 1..k # {}
    BY <1>1, MaxUpTo
  <2>2. it0[1..k] = CollectToken(it0[(1..k) \ {Max(1..k)}], list[seq[Max(1..k)]], f, target,
                                 outs[seq[Max(1..k)]])
    BY <1>4, <2>1
  <2>3. it0[1..k] = CollectToken(it0[1..(k - 1)], list[k], f, target, outs[k])
    BY <1>1, <2>1, <2>2
  <2>4. h[k] = it0[1..k] /\ h[k - 1] = it0[1..(k - 1)]  BY <1>1
  <2> QED  BY <2>3, <2>4
<1>7. h[n] = it0[N]  BY <1>1
<1> HIDE DEF h
<1> QED  BY <1>2, <1>5, <1>6, <1>7 DEF base

\* A target is the first of its list or does not come in it.
FirstOf(target, list) == \A i \in DOMAIN list : list[i] = target => i = 1

\* A whole claim with a target token, its payment at the end included.
LEMMA CollectedFollows ==
    ASSUME SharesOK, NEW bk \in BooksType, Good(bk), NEW f \in FeeTypes, NEW list \in Seq(Tokens),
           NEW target \in Tokens, NEW outs \in [1..Len(list) -> Int], FirstOf(target, list),
           NEW x, x = Collected(bk, f, list, target, outs)
    PROVE  LET r == Release(x.bk, target, f, x.amount) IN
           r \in BooksType /\ (r.ok => Good(r) /\ Follows(bk, r))
<1>1. PICK h : /\ h[0] = [bk |-> bk, amount |-> 0]
               /\ h[Len(list)] = x
               /\ \A k \in 1..Len(list) :
                    h[k] = CollectToken(h[k - 1], list[k], f, target, outs[k])
  BY CollectLoop
<1> DEFINE n == Len(list)
           Ends(y) == Good(Net(y, target)) /\ Follows(bk, Net(y, target))
           P == {k \in 0..n : /\ h[k] \in Runs /\ (k = 0 => h[k].amount = 0)
                              /\ h[k].bk.ok => Ends(h[k])}
<1>2. n \in Nat /\ \A k \in 1..n : list[k] \in Tokens /\ outs[k] \in Int
                                   /\ (list[k] = target => k = 1)
  BY DEF FirstOf
<1>3. 0 \in P
  <2>1. h[0] \in Runs /\ h[0].amount = 0 /\ h[0].bk = bk  BY <1>1 DEF Runs
  <2> DEFINE m == Net(h[0], target)
  <2>2. /\ m \in BooksType /\ m.acc = bk.acc /\ m.cl = bk.cl /\ m.tre = bk.tre
        /\ m.bal[target] = bk.bal[target] - 0
        /\ \A u \in Tokens \ {target} : m.bal[u] = bk.bal[u]
    BY <2>1, NetIs
  <2>3. bk.bal[target] - 0 = bk.bal[target]  BY DEF BooksType
  <2> HIDE DEF m
  <2>4. ASSUME NEW u \in Tokens PROVE FollowsAt(bk, m, u)
    <3>1. m.bal[u] = bk.bal[u]  BY <2>2, <2>3
    <3> QED  BY <2>2, <3>1, FollowsSame DEF Good
  <2>5. Good(m) /\ Follows(bk, m)  BY <2>4 DEF Good, Follows, FollowsAt
  <2> QED  BY <1>2, <2>1, <2>5 DEF m
<1>4. ASSUME NEW k \in 1..n, k - 1 \in P PROVE k \in P
  <2>1. /\ h[k] = CollectToken(h[k - 1], list[k], f, target, outs[k])
        /\ list[k] \in Tokens /\ outs[k] \in Int /\ k \in 0..n
    BY <1>1, <1>2
  <2>2. /\ h[k - 1] \in Runs /\ (k - 1 = 0 => h[k - 1].amount = 0)
        /\ h[k - 1].bk.ok => Ends(h[k - 1])
    BY <1>4
  <2>3. list[k] = target => h[k - 1].amount = 0  BY <1>2, <2>2
  <2> HIDE DEF Ends
  <2>4. h[k] \in Runs /\ (h[k].bk.ok => h[k - 1].bk.ok)
    BY <2>1, <2>2, <2>3, CollectFollows
  <2>5. ASSUME h[k].bk.ok PROVE Ends(h[k])
    <3>1. Good(Net(h[k - 1], target)) /\ Follows(bk, Net(h[k - 1], target))
      BY <2>2, <2>4, <2>5 DEF Ends
    <3>2. Good(Net(h[k], target)) /\ Follows(Net(h[k - 1], target), Net(h[k], target))
      BY <2>1, <2>2, <2>3, <2>5, <3>1, CollectFollows
    <3>3. Net(h[k - 1], target) \in BooksType /\ Net(h[k], target) \in BooksType
      BY <2>2, <2>4, NetIs
    <3>4. Follows(bk, Net(h[k], target))  BY <3>1, <3>2, <3>3, FollowsTrans
    <3> QED  BY <3>2, <3>4 DEF Ends
  <2>6. k # 0  OBVIOUS
  <2> QED  BY <2>1, <2>4, <2>5, <2>6
<1> HIDE DEF P
<1>5. n \in P
  <2>1. \A k \in 0..n : k \in P  BY <1>2, <1>3, <1>4, UpTo
  <2> QED  BY <1>2, <2>1
<1>6. x \in Runs /\ (x.bk.ok => Ends(x))  BY <1>1, <1>5 DEF P
<1> DEFINE r == Release(x.bk, target, f, x.amount)
           m == Net(x, target)
<1>7. x.bk \in BooksType /\ x.amount \in Int  BY <1>6 DEF Runs
<1>8. /\ r \in BooksType /\ r.acc = x.bk.acc /\ r.tre = x.bk.tre /\ r.cl = x.bk.cl
      /\ (r.ok => x.bk.ok) /\ r.bal = [x.bk.bal EXCEPT ![target] = @ - x.amount]
  BY <1>7, ReleaseIs
<1>9. /\ m \in BooksType /\ m.acc = x.bk.acc /\ m.cl = x.bk.cl /\ m.tre = x.bk.tre
      /\ m.bal[target] = x.bk.bal[target] - x.amount
      /\ \A u \in Tokens \ {target} : m.bal[u] = x.bk.bal[u]
  BY <1>6, NetIs
<1> HIDE DEF r, m
<1>10. ASSUME NEW u \in Tokens PROVE r.bal[u] = m.bal[u]
  BY ZenonT(60), <1>7, <1>8, <1>9 DEF BooksType
<1>11. ASSUME r.ok PROVE Good(r) /\ Follows(bk, r)
  <2>1. Good(m) /\ Follows(bk, m)  BY <1>6, <1>8, <1>11 DEF m
  <2>2. \A u \in Tokens : FollowsAt(m, r, u)
    BY <1>8, <1>9, <1>10, <2>1, FollowsSame DEF Good
  <2>3. Follows(m, r)  BY <2>2 DEF Follows
  <2> QED  BY <1>8, <1>9, <2>1, <2>3, FollowsTrans
<1> QED  BY <1>8, <1>11 DEF r

-----------------------------------------------------------------------------
(* The division of every listed token, before the shares change.           *)

\* The books between the turns of the loop of updateShares: each token comes once.
LEMMA KeepLoop ==
    ASSUME SharesOK, NEW bk \in BooksType, IsFiniteSet(Tokens), tokenList \subseteq Tokens
    PROVE  \E n \in Nat : \E seq, h :
              /\ seq \in [1..n -> tokenList]
              /\ \A i, j \in 1..n : seq[i] = seq[j] => i = j
              /\ \A t \in tokenList : \E i \in 1..n : seq[i] = t
              /\ h[0] = bk /\ h[n] = KeepAccount(bk)
              /\ \A k \in 1..n : h[k] = KeepAccountSingleToken(h[k - 1], seq[k])
<1> DEFINE n == Cardinality(tokenList)
           N == 1..n
           seq == SetToSeq(tokenList)
           Is(it) == it = [s \in SUBSET N |-> IF s = {} THEN bk
                              ELSE KeepAccountSingleToken(it[s \ {Max(s)}], seq[Max(s)])]
           it0 == CHOOSE it : Is(it)
           h == [k \in 0..n |-> it0[1..k]]
<1>0. IsFiniteSet(tokenList)  BY FS_Subset
<1>1. n \in Nat /\ ExistsBijection(1..n, tokenList)  BY <1>0, FS_CardinalityType
<1>2. seq \in [N -> tokenList] /\ IsInjective(seq)
  <2>1. \E g \in [1..Cardinality(tokenList) -> tokenList] : IsInjective(g)
    BY <1>1 DEF ExistsBijection, Bijection, Injection
  <2> QED  BY <2>1 DEF SetToSeq
<1>3. \A t \in tokenList : \E i \in N : seq[i] = t
  <2>1. seq \in Injection(N, tokenList)  BY <1>2 DEF Injection
  <2>2. Cardinality(N) = n  BY <1>1, FS_Interval
  <2> HIDE DEF seq, N
  <2>3. seq \in Surjection(N, tokenList)  BY <1>0, <2>1, <2>2, FS_Injection
  <2> QED  BY <2>3 DEF Surjection
<1>4. \A i, j \in N : seq[i] = seq[j] => i = j
  <2> HIDE DEF seq
  <2> QED  BY <1>2 DEF IsInjective
<1>5. KeepAccount(bk) = it0[N]
  <2>1. DOMAIN seq = N  BY <1>2
  <2> QED  BY <2>1 DEF KeepAccount, FoldLeft, MapThenFoldSet
<1> HIDE DEF n, seq
<1>6. \E it : Is(it)
  <2> DEFINE step == [p \in BooksType \X N |-> KeepAccountSingleToken(p[1], seq[p[2]])]
  <2>1. step \in [BooksType \X N -> BooksType]
    <3>1. ASSUME NEW x \in BooksType, NEW k \in N
          PROVE  KeepAccountSingleToken(x, seq[k]) \in BooksType
      <4>1. seq[k] \in Tokens  BY <1>2
      <4> QED  BY <4>1, KeepIs
    <3> HIDE DEF N
    <3> QED  BY <3>1
  <2>2. IsFiniteSet(N)  BY <1>1, FS_Interval
  <2>3. \A s \in SUBSET N : s # {} => Max(s) \in s  BY <1>1, MaxIn
  <2>4. PICK g : ArePartialFolds(bk, step, N, g) /\ \A s \in SUBSET N : g[s] \in BooksType
    <3> HIDE DEF step, N
    <3> QED  BY <2>1, <2>2, <2>3, FoldExists
  <2>5. ASSUME NEW s \in SUBSET N, s # {}
        PROVE  step[<<g[s \ {Max(s)}], Max(s)>>]
                    = KeepAccountSingleToken(g[s \ {Max(s)}], seq[Max(s)])
    <3>1. g[s \ {Max(s)}] \in BooksType /\ Max(s) \in N  BY <2>3, <2>4, <2>5
    <3> HIDE DEF N
    <3> QED  BY <3>1
  <2> HIDE DEF step, N
  <2>6. g = [s \in SUBSET N |-> IF s = {} THEN bk ELSE step[<<g[s \ {Max(s)}], Max(s)>>]]
    BY <2>4 DEF ArePartialFolds
  <2>7. g = [s \in SUBSET N |-> IF s = {} THEN bk
                                ELSE KeepAccountSingleToken(g[s \ {Max(s)}], seq[Max(s)])]
    BY <2>5, <2>6, Zenon
  <2> QED  BY <2>7
<1>7. Is(it0)
  <2> HIDE DEF Is
  <2> QED  BY <1>6
<1> HIDE DEF it0
<1>8. h[0] = bk
  <2>1. 1..0 = {} /\ {} \in SUBSET N  OBVIOUS
  <2>2. it0[{}] = bk  BY <1>7, <2>1
  <2> QED  BY <1>1, <2>1, <2>2
<1>9. ASSUME NEW k \in 1..n PROVE h[k] = KeepAccountSingleToken(h[k - 1], seq[k])
  <2>1. /\ Max(1..k) = k /\ (1..k) \ {Max(1..k)} = 1..(k - 1)
        /\ 1..k \in SUBSET N /\ 1..k # {}
    BY <1>1, MaxUpTo
  <2>2. it0[1..k] = KeepAccountSingleToken(it0[(1..k) \ {Max(1..k)}], seq[Max(1..k)])
    BY <1>7, <2>1
  <2>3. it0[1..k] = KeepAccountSingleToken(it0[1..(k - 1)], seq[k])  BY <2>1, <2>2
  <2>4. h[k] = it0[1..k] /\ h[k - 1] = it0[1..(k - 1)]  BY <1>1
  <2> QED  BY <2>3, <2>4
<1>10. h[n] = it0[N]  BY <1>1
<1> HIDE DEF h
<1> QED  BY <1>1, <1>2, <1>3, <1>4, <1>5, <1>8, <1>9, <1>10

\* The same entries for a token; and its whole worth divided.
SameAt(bk, ck, t) ==
    ck.acc[t] = bk.acc[t] /\ ck.cl[t] = bk.cl[t] /\ ck.tre[t] = bk.tre[t] /\ ck.bal[t] = bk.bal[t]

SettledAt(bk, ck, t) ==
    Free(ck, t) \in 0..3 /\ \A f \in FeeTypes : Due(ck, t, f) = Worth(bk, t, f)

\* One token of the list.
LEMMA KeepOne ==
    ASSUME SharesOK, NEW bk \in BooksType, Good(bk), NEW t \in Tokens,
           NEW ck, ck = KeepAccountSingleToken(bk, t)
    PROVE  /\ ck \in BooksType /\ ck.cl = bk.cl /\ (ck.ok => bk.ok)
           /\ ck.ok => /\ Good(ck) /\ Follows(bk, ck) /\ SettledAt(bk, ck, t)
                       /\ \A u \in Tokens \ {t} : SameAt(bk, ck, u)
<1>1. ck \in BooksType /\ ck.cl = bk.cl /\ (ck.ok => bk.ok)  BY KeepIs
<1>2. ASSUME ck.ok
      PROVE  /\ Good(ck) /\ Follows(bk, ck) /\ SettledAt(bk, ck, t)
             /\ \A u \in Tokens \ {t} : SameAt(bk, ck, u)
  <2>1. GoodAt(bk, t)  BY DEF Good
  <2>2. SettledAt(bk, ck, t) /\ \A u \in Tokens \ {t} : SameAt(bk, ck, u)
    BY <1>2, <2>1, KeepSettles DEF SettledAt, SameAt
  <2>3. ASSUME NEW u \in Tokens PROVE FollowsAt(bk, ck, u)
    <3>1. CASE u = t  BY <1>2, <2>1, <3>1, KeepFollows
    <3>2. CASE u # t
      <4>1. SameAt(bk, ck, u) /\ GoodAt(bk, u)  BY <2>2, <3>2 DEF Good
      <4> QED  BY <1>1, <4>1, FollowsSame DEF SameAt
    <3> QED  BY <3>1, <3>2
  <2> QED  BY <2>2, <2>3 DEF Good, Follows, FollowsAt
<1> QED  BY <1>1, <1>2

\* After the loop every listed token is divided, and nobody has claimed.
LEMMA KeepFollowsAll ==
    ASSUME SharesOK, NEW bk \in BooksType, Good(bk), IsFiniteSet(Tokens),
           tokenList \subseteq Tokens, NEW r, r = KeepAccount(bk)
    PROVE  /\ r \in BooksType
           /\ r.ok => /\ Good(r) /\ Follows(bk, r) /\ r.cl = bk.cl
                      /\ \A t \in tokenList : SettledAt(bk, r, t)
<1>0. PICK n \in Nat : \E seq, h :
              /\ seq \in [1..n -> tokenList]
              /\ \A i, j \in 1..n : seq[i] = seq[j] => i = j
              /\ \A t \in tokenList : \E i \in 1..n : seq[i] = t
              /\ h[0] = bk /\ h[n] = KeepAccount(bk)
              /\ \A k \in 1..n : h[k] = KeepAccountSingleToken(h[k - 1], seq[k])
  BY KeepLoop
<1>1. PICK seq, h :
              /\ seq \in [1..n -> tokenList]
              /\ \A i, j \in 1..n : seq[i] = seq[j] => i = j
              /\ \A t \in tokenList : \E i \in 1..n : seq[i] = t
              /\ h[0] = bk /\ h[n] = KeepAccount(bk)
              /\ \A k \in 1..n : h[k] = KeepAccountSingleToken(h[k - 1], seq[k])
  BY <1>0
<1> DEFINE Upto(k) == /\ Good(h[k]) /\ Follows(bk, h[k]) /\ h[k].cl = bk.cl
                      /\ \A i \in 1..n : IF i <= k THEN SettledAt(bk, h[k], seq[i])
                                         ELSE SameAt(bk, h[k], seq[i])
           P == {k \in 0..n : h[k] \in BooksType /\ (h[k].ok => Upto(k))}
<1>2. 0 \in P
  <2>1. \A i \in 1..n : ~(i <= 0)  OBVIOUS
  <2>2. \A i \in 1..n : SameAt(bk, bk, seq[i])  BY DEF SameAt
  <2>3. Upto(0)  BY <1>1, <2>1, <2>2, FollowsSelf
  <2> QED  BY <1>1, <2>3
<1>3. ASSUME NEW k \in 1..n, k - 1 \in P PROVE k \in P
  <2> DEFINE p == h[k - 1]
             q == h[k]
             t == seq[k]
  <2>1. q = KeepAccountSingleToken(p, t) /\ t \in Tokens /\ k \in 0..n  BY <1>1
  <2>2. p \in BooksType /\ (p.ok => Upto(k - 1))  BY <1>3
  <2>3. q \in BooksType /\ (q.ok => p.ok)
    <3> HIDE DEF p, q, t
    <3>1. KeepAccountSingleToken(p, t) \in BooksType /\ (KeepAccountSingleToken(p, t).ok => p.ok)
      BY <2>1, <2>2, KeepIs
    <3> QED  BY <2>1, <3>1
  <2>4. ASSUME q.ok PROVE Upto(k)
    <3>1. /\ Good(p) /\ Follows(bk, p) /\ p.cl = bk.cl
          /\ \A i \in 1..n : IF i <= k - 1 THEN SettledAt(bk, p, seq[i]) ELSE SameAt(bk, p, seq[i])
      BY <2>2, <2>3, <2>4
    <3>2. \A i \in 1..n : seq[i] \in Tokens /\ (i # k => seq[i] # t)  BY <1>1
    <3> HIDE DEF p, q, t
    <3>3. /\ q.cl = p.cl /\ Good(q) /\ Follows(p, q) /\ SettledAt(p, q, t)
          /\ \A u \in Tokens \ {t} : SameAt(p, q, u)
      BY <2>1, <2>2, <2>4, <3>1, KeepOne
    <3>4. Follows(bk, q)  BY <2>2, <2>3, <3>1, <3>3, FollowsTrans
    <3>5. ASSUME NEW i \in 1..n
          PROVE  IF i <= k THEN SettledAt(bk, q, seq[i]) ELSE SameAt(bk, q, seq[i])
      <4>1. CASE i = k
        <5>1. SameAt(bk, p, t)
          <6>1. ~(k <= k - 1)  OBVIOUS
          <6> QED  BY <3>1, <6>1 DEF t
        <5>2. \A f \in FeeTypes : Worth(p, t, f) = Worth(bk, t, f)
          BY <2>1, <2>2, <5>1, SameWorth DEF SameAt
        <5>3. SettledAt(bk, q, t)  BY <3>3, <5>2 DEF SettledAt
        <5> QED  BY <4>1, <5>3 DEF t
      <4>2. CASE i # k
        <5>1. SameAt(p, q, seq[i]) /\ seq[i] \in Tokens  BY <3>2, <3>3, <4>2
        <5>2. Free(q, seq[i]) = Free(p, seq[i])
              /\ \A f \in FeeTypes : Due(q, seq[i], f) = Due(p, seq[i], f)
          BY <2>2, <2>3, <5>1, SameWorth, SameAccount DEF SameAt
        <5>3. SettledAt(bk, p, seq[i]) => SettledAt(bk, q, seq[i])  BY <5>2 DEF SettledAt
        <5>4. SameAt(bk, p, seq[i]) => SameAt(bk, q, seq[i])  BY <5>1 DEF SameAt
        <5>5. i <= k <=> i <= k - 1  BY <4>2
        <5> QED  BY <3>1, <5>3, <5>4, <5>5
      <4> QED  BY <4>1, <4>2
    <3>6. q.cl = bk.cl  BY <3>1, <3>3
    <3> QED  BY <3>3, <3>4, <3>5, <3>6 DEF q
  <2> HIDE DEF Upto
  <2> QED  BY <2>1, <2>3, <2>4
<1>4. n \in P
  <2> HIDE DEF P
  <2>1. \A k \in 0..n : k \in P  BY <1>2, <1>3, UpTo
  <2> QED  BY <2>1
<1>5. r \in BooksType /\ (r.ok => Upto(n))
  <2> HIDE DEF Upto
  <2> QED  BY <1>1, <1>4
<1>6. ASSUME r.ok, NEW t \in tokenList PROVE SettledAt(bk, r, t)
  <2>1. PICK i \in 1..n : seq[i] = t  BY <1>1
  <2>2. i <= n  OBVIOUS
  <2> QED  BY <1>1, <1>5, <1>6, <2>1, <2>2
<1> QED  BY <1>1, <1>5, <1>6

-----------------------------------------------------------------------------
(* The shares.                                                             *)

\* There are finitely many types.
LEMMA FeeTypesFinite == IsFiniteSet(FeeTypes)
<1>1. IsFiniteSet({"DEV"}) /\ IsFiniteSet({"BUYBACK"}) /\ IsFiniteSet({"RESERVE"})
      /\ IsFiniteSet({"STAKER"})
  BY FS_Singleton
<1>2. IsFiniteSet({"DEV"} \cup {"BUYBACK"}) /\ IsFiniteSet({"RESERVE"} \cup {"STAKER"})
  BY <1>1, FS_Union
<1>3. IsFiniteSet(({"DEV"} \cup {"BUYBACK"}) \cup ({"RESERVE"} \cup {"STAKER"}))
  BY <1>2, FS_Union
<1>4. FeeTypes = ({"DEV"} \cup {"BUYBACK"}) \cup ({"RESERVE"} \cup {"STAKER"})  BY DEF FeeTypes
<1> QED  BY <1>3, <1>4

\* The total that updateShares keeps by differences is the sum of the shares.
LEMMA NewTotalIs ==
    ASSUME SharesOK, NEW update, DOMAIN update \subseteq FeeTypes,
           \A f \in DOMAIN update : update[f] \in Nat,
           NEW s, s = [f \in FeeTypes |-> IF f \in DOMAIN update THEN update[f] ELSE share[f]]
    PROVE  s \in [FeeTypes -> Nat] /\ NewTotal(update) = SumFunction(s)
<1> DEFINE D == DOMAIN update
           g == [f \in D |-> update[f] - share[f]]
           d == [f \in FeeTypes |-> IF f \in D THEN update[f] - share[f] ELSE 0]
<1>1. s \in [FeeTypes -> Nat] /\ share \in [FeeTypes -> Nat]  BY DEF SharesOK
<1>2. /\ \A f \in FeeTypes : d[f] \in Int /\ s[f] = share[f] + d[f]
      /\ \A f \in FeeTypes \ D : d[f] = 0
      /\ \A f \in D : g[f] = d[f]
      /\ DOMAIN d = FeeTypes /\ DOMAIN g = D /\ D \in SUBSET FeeTypes
  BY <1>1
<1>3. NewTotal(update) = totalShare + SumFunction(g)  BY DEF NewTotal
<1> HIDE DEF d, g, D
<1>4. SumFunction(g) = SumFunction(d)
  <2>1. SumFunction(g) = SumFunctionOnSet(g, D) /\ SumFunction(d) = SumFunctionOnSet(d, FeeTypes)
    BY <1>2 DEF SumFunction
  <2>2. IsFiniteSet(D) /\ IsFiniteSet(FeeTypes)  BY <1>2, FeeTypesFinite, FS_Subset
  <2>3. SumFunctionOnSet(g, D) = SumFunctionOnSet(d, D)  BY <1>2, <2>2, SumSame
  <2>4. SumFunctionOnSet(d, FeeTypes) = SumFunctionOnSet(d, D)  BY <1>2, <2>2, SumSupport
  <2> QED  BY <2>1, <2>3, <2>4
<1>5. SumFunction(d) = d["DEV"] + d["BUYBACK"] + d["RESERVE"] + d["STAKER"]  BY <1>2, SumOfFour
<1>6. SumFunction(share) = share["DEV"] + share["BUYBACK"] + share["RESERVE"] + share["STAKER"]
  BY <1>1, SumOfFour
<1>7. SumFunction(s) = s["DEV"] + s["BUYBACK"] + s["RESERVE"] + s["STAKER"]  BY <1>1, SumOfFour
<1>8. {"DEV", "BUYBACK", "RESERVE", "STAKER"} = FeeTypes  BY DEF FeeTypes
<1>9. totalShare = SumFunction(share)  BY DEF SharesOK
<1>10. totalShare + SumFunction(d) = SumFunction(s)
  <2>1. /\ share["DEV"] \in Int /\ share["BUYBACK"] \in Int
        /\ share["RESERVE"] \in Int /\ share["STAKER"] \in Int
        /\ d["DEV"] \in Int /\ d["BUYBACK"] \in Int /\ d["RESERVE"] \in Int /\ d["STAKER"] \in Int
        /\ s["DEV"] = share["DEV"] + d["DEV"] /\ s["BUYBACK"] = share["BUYBACK"] + d["BUYBACK"]
        /\ s["RESERVE"] = share["RESERVE"] + d["RESERVE"]
        /\ s["STAKER"] = share["STAKER"] + d["STAKER"]
    BY <1>1, <1>2, <1>8
  <2> QED  BY <1>5, <1>6, <1>7, <1>9, <2>1
<1> QED  BY <1>1, <1>3, <1>4, <1>10

\* The sum of the shares is a natural number; a few units divide into few.
LEMMA ShareSumNat ==
    ASSUME NEW s \in [FeeTypes -> Nat]
    PROVE  SumFunction(s) \in Nat
<1>1. SumFunction(s) = s["DEV"] + s["BUYBACK"] + s["RESERVE"] + s["STAKER"]  BY SumOfFour
<1>2. {"DEV", "BUYBACK", "RESERVE", "STAKER"} = FeeTypes  BY DEF FeeTypes
<1> QED  BY <1>1, <1>2

\* Up to three units divide into up to three units.
LEMMA FewUnits ==
    ASSUME NEW s \in [FeeTypes -> Nat], NEW S, S = SumFunction(s), S # 0, NEW a \in 0..3,
           NEW f \in FeeTypes
    PROVE  (a * s[f]) \div S \in 0..3
<1> DEFINE q == [g \in FeeTypes |-> (a * s[g]) \div S]
<1>1. S \in Nat /\ S > 0 /\ a \in Nat  BY ShareSumNat
<1>2. q \in [FeeTypes -> Nat] /\ SumFunction(q) <= a  BY <1>1, PartsOf
<1>3. q[f] = (a * s[f]) \div S  OBVIOUS
<1> HIDE DEF q
<1>4. SumFunction(q) = q["DEV"] + q["BUYBACK"] + q["RESERVE"] + q["STAKER"]  BY <1>2, SumOfFour
<1>5. f \in {"DEV", "BUYBACK", "RESERVE", "STAKER"}
      /\ {"DEV", "BUYBACK", "RESERVE", "STAKER"} = FeeTypes
  BY DEF FeeTypes
<1>6. q[f] <= SumFunction(q) /\ q[f] \in Nat  BY <1>2, <1>4, <1>5
<1>7. SumFunction(q) \in Int  BY <1>2, ShareSumNat
<1> QED  BY <1>2, <1>3, <1>6, <1>7

-----------------------------------------------------------------------------
(* The steps.                                                              *)

\* A claim with a target token lists the target first or not at all: with the target
\* behind a swapped token, the proceeds of the swap count as fees.
TargetsFirst == \A list \in TokenLists, target \in Targets : FirstOf(target, list)

FeeInv == FeeTypeOK /\ Solvent

\* The invariant in terms of the books.
LEMMA BooksAreGood ==
    ASSUME FeeInv
    PROVE  Books \in BooksType /\ Good(Books) /\ SharesOK /\ tokenList \subseteq Tokens
<1>1. SharesOK /\ tokenList \subseteq Tokens  BY ShareSumNat DEF FeeInv, FeeTypeOK, SharesOK
<1>2. Books \in BooksType  BY DEF FeeInv, FeeTypeOK, Books, BooksType
<1>3. ASSUME NEW t \in Tokens PROVE GoodAt(Books, t)
  <2>1. Books.tre[t] \in Nat  BY DEF FeeInv, FeeTypeOK, Books
  <2>2. \A f \in FeeTypes : 0 <= Books.cl[t][f] /\ Books.cl[t][f] <= Books.acc[t][f]
    BY DEF FeeInv, FeeTypeOK, Solvent, Books
  <2>3. Account(Books, t) <= Books.bal[t]
    <3>1. Account(Books, t) <= balance[t]  BY DEF FeeInv, Solvent
    <3> QED  BY <3>1 DEF Books
  <2> QED  BY <2>1, <2>2, <2>3 DEF GoodAt
<1> QED  BY <1>1, <1>2, <1>3 DEF Good

\* The books after a step are those that the step has set.
LEMMA NextBooks ==
    ASSUME NEW bk \in BooksType, SetBooks(bk)
    PROVE  bk.ok /\ Books' = bk
<1>1. /\ bk.ok /\ accumulated' = bk.acc /\ claimed' = bk.cl /\ treasury' = bk.tre
      /\ balance' = bk.bal
  BY DEF SetBooks
<1>2. bk.ok = TRUE  BY <1>1 DEF BooksType
<1>3. bk = [acc |-> bk.acc, cl |-> bk.cl, tre |-> bk.tre, bal |-> bk.bal, ok |-> bk.ok]
  BY DEF BooksType
<1>4. Books' = [acc |-> accumulated', cl |-> claimed', tre |-> treasury', bal |-> balance',
                ok |-> TRUE]
  BY DEF Books
<1> QED  BY <1>1, <1>2, <1>3, <1>4

\* Fees come in, or move from the treasury to the contract.
LEMMA GrowFollows ==
    ASSUME SharesOK, NEW bk \in BooksType, Good(bk), NEW ck \in BooksType,
           ck.acc = bk.acc, ck.cl = bk.cl,
           \A t \in Tokens : ck.tre[t] \in Nat /\ ck.bal[t] >= bk.bal[t] /\ Free(ck, t) >= Free(bk, t)
    PROVE  Good(ck) /\ Follows(bk, ck)
<1>1. ASSUME NEW t \in Tokens PROVE FollowsAt(bk, ck, t)
  <2>1. /\ \A f \in FeeTypes : Due(ck, t, f) = Due(bk, t, f)
        /\ Account(ck, t) = Account(bk, t)
    BY SameAccount
  <2>2. GoodAt(bk, t) /\ GoodAt(ck, t)
    <3>1. Account(bk, t) \in Int /\ bk.bal[t] \in Int /\ ck.bal[t] \in Int  BY AmountsInt, AccountIs
    <3>2. GoodAt(bk, t)  BY DEF Good
    <3> QED  BY <2>1, <3>1, <3>2 DEF GoodAt
  <2>3. Free(bk, t) \in Nat /\ Free(ck, t) \in Nat  BY <2>2, FreeIsNat
  <2>4. ASSUME NEW f \in FeeTypes
        PROVE  bk.cl[t][f] <= ck.cl[t][f] /\ Worth(ck, t, f) >= Worth(bk, t, f)
    <3>1. Due(bk, t, f) \in Int /\ bk.cl[t][f] \in Int  BY AccountIs DEF BooksType
    <3>2. totalShare # 0 => /\ ShareAmount(f, Free(bk, t)) \in Nat /\ ShareAmount(f, Free(ck, t)) \in Nat
                            /\ ShareAmount(f, Free(bk, t)) <= ShareAmount(f, Free(ck, t))
      BY <2>3, ShareGrows
    <3> QED  BY <2>1, <3>1, <3>2 DEF Worth
  <2> QED  BY <2>2, <2>4 DEF FollowsAt
<1> QED  BY <1>1 DEF Good, Follows, FollowsAt

\* claim.
LEMMA ClaimStep ==
    ASSUME FeeInv, FeeAssumption, NEW f \in Claimants, NEW list \in TokenLists, Claim(f, list)
    PROVE  Books' \in BooksType /\ Good(Books') /\ Follows(Books, Books')
<1>1. Books \in BooksType /\ Good(Books) /\ SharesOK  BY BooksAreGood
<1>2. f \in FeeTypes /\ list \in Seq(Tokens)  BY DEF FeeAssumption
<1> DEFINE r == BooksClaimed(Books, f, list)
<1>3. r \in BooksType /\ (r.ok => Good(r) /\ Follows(Books, r))  BY <1>1, <1>2, ClaimFollows
<1>4. SetBooks(r)  BY DEF Claim, BooksClaimed
<1> HIDE DEF r
<1>5. r.ok /\ Books' = r  BY <1>3, <1>4, NextBooks
<1> QED  BY <1>3, <1>5

\* claimWithTargetToken.
LEMMA TargetStep ==
    ASSUME FeeInv, FeeAssumption, TargetsFirst, NEW f \in Claimants, NEW list \in TokenLists,
           NEW target \in Targets, ClaimWithTargetToken(f, list, target)
    PROVE  Books' \in BooksType /\ Good(Books') /\ Follows(Books, Books')
<1>1. Books \in BooksType /\ Good(Books) /\ SharesOK  BY BooksAreGood
<1>2. /\ f \in FeeTypes /\ list \in Seq(Tokens) /\ target \in Tokens /\ FirstOf(target, list)
      /\ SwapAmounts \subseteq Int
  BY DEF FeeAssumption, TargetsFirst
<1>3. PICK outs \in [DOMAIN list -> SwapAmounts] :
         LET end == Collected(Books, f, list, target, outs)
         IN  SetBooks(Release(end.bk, target, f, end.amount))
  BY DEF ClaimWithTargetToken, Collected
<1>4. outs \in [1..Len(list) -> Int]
  <2>1. DOMAIN list = 1..Len(list)  BY <1>2
  <2>2. DOMAIN outs = DOMAIN list /\ \A i \in DOMAIN list : outs[i] \in Int  BY <1>2
  <2>3. outs = [i \in DOMAIN list |-> outs[i]]  BY <2>2
  <2>4. outs = [i \in 1..Len(list) |-> outs[i]]  BY <2>1, <2>3
  <2>5. \A i \in 1..Len(list) : outs[i] \in Int  BY <2>1, <2>2
  <2> QED  BY <2>4, <2>5
<1>5. PICK x : x = Collected(Books, f, list, target, outs)  OBVIOUS
<1> DEFINE r == Release(x.bk, target, f, x.amount)
<1>6. r \in BooksType /\ (r.ok => Good(r) /\ Follows(Books, r))
  BY <1>1, <1>2, <1>4, <1>5, CollectedFollows
<1>7. SetBooks(r)  BY <1>3, <1>5
<1> HIDE DEF r
<1>8. r.ok /\ Books' = r  BY <1>6, <1>7, NextBooks
<1> QED  BY <1>6, <1>8

\* The shares after updateShares.
LEMMA SharesTyped ==
    ASSUME FeeTypeOK, FeeAssumption, NEW update \in ShareUpdates, UpdateShares(update)
    PROVE  share' \in [FeeTypes -> Nat] /\ totalShare' = SumFunction(share')
<1>1. SharesOK  BY ShareSumNat DEF FeeTypeOK, SharesOK
<1>2. DOMAIN update \subseteq FeeTypes /\ \A f \in DOMAIN update : update[f] \in Nat
  BY DEF FeeAssumption
<1>3. /\ share' = [f \in FeeTypes |-> IF f \in DOMAIN update THEN update[f] ELSE share[f]]
      /\ totalShare' = NewTotal(update)
  BY DEF UpdateShares
<1> QED  BY <1>1, <1>2, <1>3, NewTotalIs

\* updateShares.
LEMMA SharesStep ==
    ASSUME FeeInv, FeeAssumption, NEW update \in ShareUpdates, UpdateShares(update)
    PROVE  /\ Books' \in BooksType /\ Good(Books') /\ Follows(Books, Books')
           /\ \A t \in tokenList : SettledAt(Books, Books', t)
           /\ share' \in [FeeTypes -> Nat] /\ totalShare' = SumFunction(share')
<1>1. Books \in BooksType /\ Good(Books) /\ SharesOK /\ tokenList \subseteq Tokens  BY BooksAreGood
<1>2. PICK r : r = KeepAccount(Books)  OBVIOUS
<1>3. /\ r \in BooksType
      /\ r.ok => Good(r) /\ Follows(Books, r) /\ \A t \in tokenList : SettledAt(Books, r, t)
  BY <1>1, <1>2, KeepFollowsAll DEF FeeAssumption
<1>4. SetBooks(r)  BY <1>2 DEF UpdateShares
<1>5. r.ok /\ Books' = r  BY <1>3, <1>4, NextBooks
<1>6. share' \in [FeeTypes -> Nat] /\ totalShare' = SumFunction(share')
  BY SharesTyped DEF FeeInv
<1> QED  BY <1>3, <1>5, <1>6

\* A fee comes in, to the treasury or to the contract.
LEMMA ArriveStep ==
    ASSUME FeeInv, FeeAssumption, NEW t \in Tokens, NEW amount \in Amounts,
           CollectFee(t, amount) \/ SendFee(t, amount)
    PROVE  Books' \in BooksType /\ Good(Books') /\ Follows(Books, Books')
<1>1. Books \in BooksType /\ Good(Books) /\ SharesOK  BY BooksAreGood
<1>2. amount \in Nat  BY DEF FeeAssumption
<1>3. treasury \in [Tokens -> Nat] /\ balance \in [Tokens -> Nat]  BY DEF FeeInv, FeeTypeOK
<1> DEFINE ck == Books'
<1>4. /\ accumulated' = accumulated /\ claimed' = claimed
      /\ \/ treasury' = [treasury EXCEPT ![t] = @ + amount] /\ balance' = balance
         \/ balance' = [balance EXCEPT ![t] = @ + amount] /\ treasury' = treasury
  BY DEF CollectFee, SendFee
<1>5. /\ ck.acc = Books.acc /\ ck.cl = Books.cl /\ ck.tre = treasury' /\ ck.bal = balance'
      /\ Books.tre = treasury /\ Books.bal = balance
      /\ ck = [acc |-> accumulated, cl |-> claimed, tre |-> treasury', bal |-> balance', ok |-> TRUE]
  BY <1>4 DEF Books
<1>6. treasury' \in [Tokens -> Nat] /\ balance' \in [Tokens -> Nat]  BY <1>2, <1>3, <1>4
<1>7. ck \in BooksType  BY <1>5, <1>6 DEF BooksType, FeeInv, FeeTypeOK
<1> HIDE DEF ck
<1>8. ASSUME NEW u \in Tokens
      PROVE  ck.tre[u] \in Nat /\ ck.bal[u] >= Books.bal[u] /\ Free(ck, u) >= Free(Books, u)
  <2>1. Account(ck, u) = Account(Books, u) /\ Account(Books, u) \in Int
    BY <1>1, <1>5, <1>7, SameAccount, AccountIs
  <2>2. /\ treasury[u] \in Nat /\ balance[u] \in Nat /\ treasury'[u] \in Nat /\ balance'[u] \in Nat
        /\ treasury'[u] >= treasury[u] /\ balance'[u] >= balance[u]
    <3>1. CASE treasury' = [treasury EXCEPT ![t] = @ + amount] /\ balance' = balance
      <4>1. treasury'[u] = IF u = t THEN treasury[u] + amount ELSE treasury[u]  BY <1>3, <3>1
      <4>2. treasury[u] \in Nat /\ balance[u] \in Nat /\ balance'[u] = balance[u]  BY <1>3, <3>1
      <4> QED  BY <1>2, <4>1, <4>2
    <3>2. CASE balance' = [balance EXCEPT ![t] = @ + amount] /\ treasury' = treasury
      <4>1. balance'[u] = IF u = t THEN balance[u] + amount ELSE balance[u]  BY <1>3, <3>2
      <4>2. treasury[u] \in Nat /\ balance[u] \in Nat /\ treasury'[u] = treasury[u]  BY <1>3, <3>2
      <4> QED  BY <1>2, <4>1, <4>2
    <3> QED  BY <1>4, <3>1, <3>2
  <2> QED  BY SMTT(30), <1>5, <2>1, <2>2 DEF Free, TreasuryAmount, UnAccount
<1>9. Good(ck) /\ Follows(Books, ck)  BY <1>1, <1>5, <1>7, <1>8, GrowFollows
<1> QED  BY <1>7, <1>9 DEF ck

\* The treasury pays the contract.
LEMMA PayStep ==
    ASSUME FeeInv, NEW t \in Tokens, PayFromTreasury(t)
    PROVE  Books' \in BooksType /\ Good(Books') /\ Follows(Books, Books')
<1>1. Books \in BooksType /\ Good(Books) /\ SharesOK  BY BooksAreGood
<1>3. treasury \in [Tokens -> Nat] /\ balance \in [Tokens -> Nat]  BY DEF FeeInv, FeeTypeOK
<1> DEFINE ck == Books'
<1>4. /\ accumulated' = accumulated /\ claimed' = claimed
      /\ treasury' = [treasury EXCEPT ![t] = 0]
      /\ balance' = [balance EXCEPT ![t] = @ + treasury[t]]
  BY DEF PayFromTreasury
<1>5. /\ ck.acc = Books.acc /\ ck.cl = Books.cl /\ ck.tre = treasury' /\ ck.bal = balance'
      /\ Books.tre = treasury /\ Books.bal = balance
      /\ ck = [acc |-> accumulated, cl |-> claimed, tre |-> treasury', bal |-> balance', ok |-> TRUE]
  BY <1>4 DEF Books
<1>6. treasury' \in [Tokens -> Nat] /\ balance' \in [Tokens -> Nat]  BY <1>3, <1>4
<1>7. ck \in BooksType  BY <1>5, <1>6 DEF BooksType, FeeInv, FeeTypeOK
<1> HIDE DEF ck
<1>8. ASSUME NEW u \in Tokens
      PROVE  ck.tre[u] \in Nat /\ ck.bal[u] >= Books.bal[u] /\ Free(ck, u) >= Free(Books, u)
  <2>1. Account(ck, u) = Account(Books, u) /\ Account(Books, u) \in Int
    BY <1>1, <1>5, <1>7, SameAccount, AccountIs
  <2>2. /\ treasury[u] \in Nat /\ balance[u] \in Nat /\ treasury'[u] \in Nat /\ balance'[u] \in Nat
        /\ treasury'[u] + balance'[u] = treasury[u] + balance[u] /\ balance'[u] >= balance[u]
    BY <1>3, <1>4, <1>6
  <2> QED  BY <1>5, <2>1, <2>2 DEF Free, TreasuryAmount, UnAccount
<1>9. Good(ck) /\ Follows(Books, ck)  BY <1>1, <1>5, <1>7, <1>8, GrowFollows
<1> QED  BY <1>7, <1>9 DEF ck

\* Every step leaves good books, and takes from nobody who does not claim.
LEMMA BooksFollow ==
    ASSUME FeeInv, FeeAssumption, TargetsFirst, [FeeNext]_feeVars
    PROVE  Books' \in BooksType /\ Good(Books') /\ Follows(Books, Books')
<1> DEFINE Goal == Books' \in BooksType /\ Good(Books') /\ Follows(Books, Books')
<1>1. ASSUME UNCHANGED bookVars PROVE Goal
  <2>1. Books' = Books  BY <1>1 DEF Books, bookVars
  <2>2. Books \in BooksType /\ Good(Books) /\ SharesOK  BY BooksAreGood
  <2> QED  BY <2>1, <2>2, FollowsSelf
<1> HIDE DEF Goal
<1>2. ASSUME NEW f \in Claimants, NEW list \in TokenLists, Claim(f, list) PROVE Goal
  BY <1>2, ClaimStep DEF Goal
<1>3. ASSUME NEW f \in Claimants, NEW list \in TokenLists, NEW target \in Targets,
             ClaimWithTargetToken(f, list, target)
      PROVE  Goal
  BY <1>3, TargetStep DEF Goal
<1>4. ASSUME NEW update \in ShareUpdates, UpdateShares(update) PROVE Goal
  BY <1>4, SharesStep DEF Goal
<1>5. ASSUME NEW t \in Tokens, NEW added \in BOOLEAN, UpdateTokens(t, added) PROVE Goal
  BY <1>1, <1>5 DEF UpdateTokens
<1>6. ASSUME NEW f \in Claimants, NEW isSet \in BOOLEAN, UpdateReceivers(f, isSet) PROVE Goal
  BY <1>1, <1>6 DEF UpdateReceivers
<1>7. ASSUME Set \/ RemoveFeeTreasury PROVE Goal
  BY <1>1, <1>7 DEF Set, RemoveFeeTreasury
<1>8. ASSUME NEW t \in Tokens, NEW amount \in Amounts, CollectFee(t, amount) \/ SendFee(t, amount)
      PROVE  Goal
  BY <1>8, ArriveStep DEF Goal
<1>9. ASSUME NEW t \in Tokens, PayFromTreasury(t) PROVE Goal
  BY <1>9, PayStep DEF Goal
<1>10. ASSUME UNCHANGED feeVars PROVE Goal
  BY <1>1, <1>10 DEF feeVars
<1>11. Goal
  BY <1>2, <1>3, <1>4, <1>5, <1>6, <1>7, <1>8, <1>9, <1>10 DEF FeeNext
<1> QED  BY <1>11 DEF Goal

\* What is not on the books.
LEMMA RestTyped ==
    ASSUME FeeTypeOK, FeeAssumption, [FeeNext]_feeVars
    PROVE  /\ hasTreasury' \in BOOLEAN /\ hasSwap' \in BOOLEAN
           /\ hasReceiver' \subseteq FeeTypes /\ tokenList' \subseteq Tokens
           /\ share' \in [FeeTypes -> Nat] /\ totalShare' = SumFunction(share')
           /\ received' \in [Tokens -> Nat]
<1> DEFINE Others == /\ hasTreasury' \in BOOLEAN /\ hasSwap' \in BOOLEAN
                     /\ hasReceiver' \subseteq FeeTypes /\ tokenList' \subseteq Tokens
           Shares == share' \in [FeeTypes -> Nat] /\ totalShare' = SumFunction(share')
           Received == received' \in [Tokens -> Nat]
<1>1. /\ hasTreasury \in BOOLEAN /\ hasSwap \in BOOLEAN
      /\ hasReceiver \subseteq FeeTypes /\ tokenList \subseteq Tokens
      /\ share \in [FeeTypes -> Nat] /\ totalShare = SumFunction(share)
      /\ received \in [Tokens -> Nat]
  BY DEF FeeTypeOK
<1>2. ASSUME UNCHANGED <<configVars, tokenList>> PROVE Others  BY <1>1, <1>2 DEF configVars
<1>3. ASSUME UNCHANGED shareVars PROVE Shares  BY <1>1, <1>3 DEF shareVars
<1>4. ASSUME UNCHANGED received PROVE Received  BY <1>1, <1>4
<1> DEFINE Goal == Others /\ Shares /\ Received
<1>5. ASSUME NEW f \in Claimants, NEW list \in TokenLists, Claim(f, list) PROVE Goal
  <2>1. UNCHANGED <<configVars, tokenList>> /\ UNCHANGED shareVars /\ UNCHANGED received
    BY <1>5 DEF Claim
  <2> HIDE DEF Others, Shares, Received
  <2> QED  BY <1>2, <1>3, <1>4, <2>1
<1>6. ASSUME NEW f \in Claimants, NEW list \in TokenLists, NEW target \in Targets,
             ClaimWithTargetToken(f, list, target)
      PROVE  Goal
  <2>1. UNCHANGED <<configVars, tokenList>> /\ UNCHANGED shareVars /\ UNCHANGED received
    BY <1>6 DEF ClaimWithTargetToken
  <2> HIDE DEF Others, Shares, Received
  <2> QED  BY <1>2, <1>3, <1>4, <2>1
<1>7. ASSUME NEW update \in ShareUpdates, UpdateShares(update) PROVE Goal
  <2>1. UNCHANGED <<configVars, tokenList>> /\ UNCHANGED received  BY <1>7 DEF UpdateShares
  <2>2. Shares  BY <1>7, SharesTyped
  <2> HIDE DEF Others, Shares, Received
  <2> QED  BY <1>2, <1>4, <2>1, <2>2
<1>8. ASSUME NEW t \in Tokens, NEW added \in BOOLEAN, UpdateTokens(t, added) PROVE Goal
  <2>1. /\ UNCHANGED configVars /\ UNCHANGED shareVars /\ UNCHANGED received
        /\ tokenList' \subseteq Tokens
    BY <1>1, <1>8 DEF UpdateTokens
  <2>2. Others  BY <1>1, <2>1 DEF configVars
  <2> HIDE DEF Others, Shares, Received
  <2> QED  BY <1>3, <1>4, <2>1, <2>2
<1>9. ASSUME NEW f \in Claimants, NEW isSet \in BOOLEAN, UpdateReceivers(f, isSet) PROVE Goal
  <2>1. /\ UNCHANGED <<hasTreasury, hasSwap, tokenList>> /\ UNCHANGED shareVars
        /\ UNCHANGED received /\ hasReceiver' \subseteq FeeTypes
    BY <1>1, <1>9 DEF UpdateReceivers, FeeAssumption
  <2>2. Others  BY <1>1, <2>1
  <2> HIDE DEF Others, Shares, Received
  <2> QED  BY <1>3, <1>4, <2>1, <2>2
<1>10. ASSUME Set \/ RemoveFeeTreasury PROVE Goal
  <2>1. /\ hasSwap' \in BOOLEAN /\ hasTreasury' \in BOOLEAN
        /\ UNCHANGED <<hasReceiver, tokenList>> /\ UNCHANGED shareVars /\ UNCHANGED received
    BY <1>1, <1>10 DEF Set, RemoveFeeTreasury
  <2>2. Others  BY <1>1, <2>1
  <2> HIDE DEF Others, Shares, Received
  <2> QED  BY <1>3, <1>4, <2>1, <2>2
<1>11. ASSUME NEW t \in Tokens, NEW amount \in Amounts, CollectFee(t, amount) \/ SendFee(t, amount)
       PROVE  Goal
  <2>1. /\ UNCHANGED <<configVars, tokenList>> /\ UNCHANGED shareVars
        /\ received' = [received EXCEPT ![t] = @ + amount] /\ amount \in Nat
    BY <1>11 DEF CollectFee, SendFee, Arrive, FeeAssumption
  <2>2. Received  BY <1>1, <2>1
  <2> HIDE DEF Others, Shares, Received
  <2> QED  BY <1>2, <1>3, <2>1, <2>2
<1>12. ASSUME NEW t \in Tokens, PayFromTreasury(t) PROVE Goal
  <2>1. UNCHANGED <<configVars, tokenList>> /\ UNCHANGED shareVars /\ UNCHANGED received
    BY <1>12 DEF PayFromTreasury
  <2> HIDE DEF Others, Shares, Received
  <2> QED  BY <1>2, <1>3, <1>4, <2>1
<1>13. ASSUME UNCHANGED feeVars PROVE Goal
  <2>1. UNCHANGED <<configVars, tokenList>> /\ UNCHANGED shareVars /\ UNCHANGED received
    BY <1>13 DEF feeVars
  <2> HIDE DEF Others, Shares, Received
  <2> QED  BY <1>2, <1>3, <1>4, <2>1
<1> HIDE DEF Goal
<1>14. Goal
  BY <1>5, <1>6, <1>7, <1>8, <1>9, <1>10, <1>11, <1>12, <1>13 DEF FeeNext
<1> QED  BY <1>14 DEF Goal

\* The books with their types, whether or not they are solvent: nothing is negative, and
\* nobody took more than was divided to him.
Sane(bk) ==
    \A t \in Tokens :
        /\ bk.tre[t] \in Nat /\ bk.bal[t] \in Nat
        /\ \A f \in FeeTypes : 0 <= bk.cl[t][f] /\ bk.cl[t][f] <= bk.acc[t][f]

\* A division reverts when the call has reverted before.
LEMMA KeepOk ==
    ASSUME SharesOK, NEW bk \in BooksType, NEW t \in Tokens,
           NEW kept, kept = KeepAccountSingleToken(bk, t)
    PROVE  kept \in BooksType /\ (kept.ok => bk.ok)
BY KeepIs

\* A division that does not revert keeps them.
LEMMA KeepSane ==
    ASSUME SharesOK, NEW bk \in BooksType, Sane(bk), NEW t \in Tokens,
           NEW kept, kept = KeepAccountSingleToken(bk, t), kept.ok
    PROVE  kept \in BooksType /\ Sane(kept)
<1> DEFINE a == Free(bk, t)
<1>1. /\ kept \in BooksType /\ kept.cl = bk.cl
      /\ UnAccount(bk, t) >= 0
      /\ kept.bal = [bk.bal EXCEPT ![t] = @ + TreasuryAmount(bk, t)]
      /\ kept.tre = IF hasTreasury THEN [bk.tre EXCEPT ![t] = 0] ELSE bk.tre
      /\ kept.acc = IF a = 0 \/ totalShare = 0 THEN bk.acc
                    ELSE [bk.acc EXCEPT ![t] = [f \in FeeTypes |-> @[f] + ShareAmount(f, a)]]
  BY KeepIs
<1>2. TreasuryAmount(bk, t) \in Nat /\ a \in Nat
  <2>1. TreasuryAmount(bk, t) \in Nat  BY DEF Sane, TreasuryAmount
  <2> QED  BY <1>1, <2>1, AmountsInt DEF Free
<1> HIDE DEF a
<1>3. totalShare # 0 => \A f \in FeeTypes : ShareAmount(f, a) \in Nat  BY <1>2, ShareGrows
<1>4. ASSUME NEW u \in Tokens
      PROVE  /\ kept.tre[u] \in Nat /\ kept.bal[u] \in Nat
             /\ \A f \in FeeTypes : bk.acc[u][f] <= kept.acc[u][f]
  <2>1. /\ bk.tre[u] \in Nat /\ bk.bal[u] \in Nat
        /\ \A f \in FeeTypes : bk.acc[u][f] \in Int
    BY DEF Sane, BooksType
  <2>2. kept.tre[u] \in Nat
    <3>1. CASE hasTreasury
      <4>1. kept.tre[u] = IF u = t THEN 0 ELSE bk.tre[u]  BY <1>1, <3>1 DEF BooksType
      <4> QED  BY <2>1, <4>1
    <3>2. CASE ~hasTreasury  BY <1>1, <2>1, <3>2
    <3> QED  BY <3>1, <3>2
  <2>3. kept.bal[u] \in Nat
    <3>1. kept.bal[u] = IF u = t THEN bk.bal[u] + TreasuryAmount(bk, t) ELSE bk.bal[u]
      BY <1>1 DEF BooksType
    <3> QED  BY <1>2, <2>1, <3>1
  <2>4. ASSUME NEW f \in FeeTypes PROVE bk.acc[u][f] <= kept.acc[u][f]
    <3>1. CASE a = 0 \/ totalShare = 0  BY <1>1, <2>1, <3>1
    <3>2. CASE ~(a = 0 \/ totalShare = 0)
      <4>1. kept.acc[u][f] = IF u = t THEN bk.acc[u][f] + ShareAmount(f, a) ELSE bk.acc[u][f]
        BY <1>1, <3>2 DEF BooksType
      <4> QED  BY <1>3, <2>1, <3>2, <4>1
    <3> QED  BY <3>1, <3>2
  <2> QED  BY <2>2, <2>3, <2>4
<1>5. \A u \in Tokens : \A f \in FeeTypes :
        0 <= kept.cl[u][f] /\ kept.cl[u][f] <= kept.acc[u][f]
  <2>1. \A u \in Tokens : \A f \in FeeTypes :
          /\ bk.cl[u][f] \in Int /\ bk.acc[u][f] \in Int /\ kept.acc[u][f] \in Int
          /\ 0 <= bk.cl[u][f] /\ bk.cl[u][f] <= bk.acc[u][f] /\ kept.cl[u][f] = bk.cl[u][f]
    BY <1>1 DEF BooksType, Sane
  <2> QED  BY <1>4, <2>1
<1> QED  BY <1>1, <1>4, <1>5 DEF Sane

\* Who has taken what is due to it has taken what was divided to it.
LEMMA TakenSane ==
    ASSUME NEW bk \in BooksType, Sane(bk), NEW t \in Tokens, NEW f \in FeeTypes,
           NEW ck, ck.acc = bk.acc, ck.cl[t] = Taken(bk, t, f),
           \A u \in Tokens \ {t} : ck.cl[u] = bk.cl[u]
    PROVE  \A u \in Tokens : \A g \in FeeTypes :
                0 <= ck.cl[u][g] /\ ck.cl[u][g] <= ck.acc[u][g]
<1> SUFFICES ASSUME NEW u \in Tokens, NEW g \in FeeTypes
             PROVE  0 <= ck.cl[u][g] /\ ck.cl[u][g] <= ck.acc[u][g]
  OBVIOUS
<1>1. /\ bk.cl[u][g] \in Int /\ bk.acc[u][g] \in Int
      /\ 0 <= bk.cl[u][g] /\ bk.cl[u][g] <= bk.acc[u][g] /\ ck.acc[u][g] = bk.acc[u][g]
  BY DEF BooksType, Sane
<1>2. CASE u = t /\ g = f
  <2>1. ck.cl[u][g] = bk.cl[u][g] + Due(bk, u, g)  BY <1>2 DEF Taken, BooksType
  <2>2. Due(bk, u, g) = bk.acc[u][g] - bk.cl[u][g]  BY DEF Due
  <2> QED  BY <1>1, <2>1, <2>2
<1>3. CASE ~(u = t /\ g = f)
  <2>1. ck.cl[u][g] = bk.cl[u][g]
    <3>1. CASE u = t  BY <1>3, <3>1 DEF Taken, BooksType
    <3>2. CASE u # t  BY <3>2
    <3> QED  BY <3>1, <3>2
  <2> QED  BY <1>1, <2>1
<1> QED  BY <1>2, <1>3

\* A turn of claim.
LEMMA ClaimTokenSane ==
    ASSUME SharesOK, NEW bk \in BooksType, Sane(bk), NEW t \in Tokens, NEW f \in FeeTypes,
           NEW r, r = ClaimToken(bk, t, f), r.ok
    PROVE  Sane(r)
<1> DEFINE kept == KeepAccountSingleToken(bk, t)
           due == Due(kept, t, f)
           m == MarkClaimed(kept, t, f)
<1>1. kept \in BooksType /\ r = IF due = 0 THEN kept ELSE Release(m, t, f, due)
  BY KeepIs DEF ClaimToken
<1>2. kept = KeepAccountSingleToken(bk, t)  OBVIOUS
<1> HIDE DEF kept
<1>3. due \in Int  BY <1>1, AccountIs
<1>4. /\ m \in BooksType /\ m.acc = kept.acc /\ m.tre = kept.tre /\ m.bal = kept.bal
      /\ m.ok = kept.ok /\ m.cl[t] = Taken(kept, t, f)
      /\ \A u \in Tokens \ {t} : m.cl[u] = kept.cl[u]
  BY <1>1, MarkIs
<1> HIDE DEF m
<1>5. CASE due = 0
  <2>1. r = kept  BY <1>1, <1>5
  <2> QED  BY <1>2, <2>1, KeepSane
<1>6. CASE due # 0
  <2> HIDE DEF due
  <2>1. r = Release(m, t, f, due)  BY <1>1, <1>6
  <2>2. /\ r.acc = m.acc /\ r.tre = m.tre /\ r.cl = m.cl /\ m.ok /\ due <= m.bal[t]
        /\ r.bal = [m.bal EXCEPT ![t] = @ - due]
    BY <1>3, <1>4, <2>1, ReleaseIs
  <2>3. Sane(kept)  BY <1>2, <1>4, <2>2, KeepSane
  <2>4. \A u \in Tokens : \A g \in FeeTypes : 0 <= r.cl[u][g] /\ r.cl[u][g] <= r.acc[u][g]
    BY <1>1, <1>4, <2>2, <2>3, TakenSane
  <2>5. ASSUME NEW u \in Tokens PROVE r.tre[u] \in Nat /\ r.bal[u] \in Nat
    <3>1. kept.tre[u] \in Nat /\ kept.bal[u] \in Nat  BY <2>3 DEF Sane
    <3>2. r.bal[u] = IF u = t THEN kept.bal[u] - due ELSE kept.bal[u]
      BY <1>1, <1>4, <2>2 DEF BooksType
    <3> QED  BY <1>3, <1>4, <2>2, <3>1, <3>2
  <2> QED  BY <2>4, <2>5 DEF Sane
<1> QED  BY <1>5, <1>6

\* A turn of claimWithTargetToken reverts when the call has reverted before.
LEMMA CollectOk ==
    ASSUME SharesOK, NEW x \in Runs, NEW t \in Tokens, NEW target \in Tokens, NEW f \in FeeTypes,
           NEW out \in Int, NEW r, r = CollectToken(x, t, f, target, out)
    PROVE  r \in Runs /\ (r.bk.ok => x.bk.ok)
<1>1. PICK kept : kept = KeepAccountSingleToken(x.bk, t)  OBVIOUS
<1>2. x.bk \in BooksType  BY DEF Runs
<1>3. kept.ok => x.bk.ok  BY <1>1, <1>2, KeepOk
<1>4. r \in Runs /\ (r.bk.ok => kept.ok)  BY <1>1, CollectIs
<1> QED  BY <1>3, <1>4

\* It keeps the books sane.
LEMMA CollectSane ==
    ASSUME SharesOK, NEW x \in Runs, Sane(x.bk), NEW t \in Tokens, NEW target \in Tokens,
           NEW f \in FeeTypes, NEW out \in Int, out >= 0,
           NEW r, r = CollectToken(x, t, f, target, out), r.bk.ok
    PROVE  Sane(r.bk)
<1>1. PICK kept : kept = KeepAccountSingleToken(x.bk, t)  OBVIOUS
<1>2. x.bk \in BooksType  BY DEF Runs
<1>3. /\ r \in Runs /\ kept.ok
      /\ r.bk.acc = kept.acc /\ r.bk.tre = kept.tre
      /\ r.bk.cl[t] = Taken(kept, t, f)
      /\ \A u \in Tokens \ {t} : r.bk.cl[u] = kept.cl[u]
      /\ \A u \in Tokens \ {t, target} : r.bk.bal[u] = kept.bal[u]
      /\ t = target => r.bk.bal[t] = kept.bal[t]
      /\ t # target => /\ r.bk.bal[t] = kept.bal[t] - Due(kept, t, f)
                       /\ r.bk.bal[target] \in {kept.bal[target], kept.bal[target] + out}
                       /\ Due(kept, t, f) = 0 \/ Due(kept, t, f) <= kept.bal[t]
  <2>1. /\ r \in Runs
        /\ r.bk.ok => kept.ok
        /\ r.bk.acc = kept.acc /\ r.bk.tre = kept.tre
        /\ r.bk.cl[t] = Taken(kept, t, f)
        /\ \A u \in Tokens \ {t} : r.bk.cl[u] = kept.cl[u]
        /\ \A u \in Tokens \ {t, target} : r.bk.bal[u] = kept.bal[u]
        /\ t = target => r.bk.bal[t] = kept.bal[t] /\ r.amount = x.amount + Due(kept, t, f)
        /\ t # target => /\ r.bk.bal[t] = kept.bal[t] - Due(kept, t, f)
                         /\ r.bk.bal[target] - r.amount = kept.bal[target] - x.amount
                         /\ r.bk.bal[target] \in {kept.bal[target], kept.bal[target] + out}
                         /\ r.bk.ok => Due(kept, t, f) = 0 \/ Due(kept, t, f) <= kept.bal[t]
    BY <1>1, CollectIs
  <2> QED  BY <2>1
<1>4. kept \in BooksType /\ Sane(kept)  BY <1>1, <1>2, <1>3, KeepSane
<1>5. \A u \in Tokens : \A g \in FeeTypes :
        0 <= r.bk.cl[u][g] /\ r.bk.cl[u][g] <= r.bk.acc[u][g]
  BY <1>3, <1>4, TakenSane
<1>6. ASSUME NEW u \in Tokens PROVE r.bk.tre[u] \in Nat /\ r.bk.bal[u] \in Nat
  <2>1. kept.tre[u] \in Nat /\ kept.bal[u] \in Nat  BY <1>4 DEF Sane
  <2>2. Due(kept, t, f) \in Int  BY <1>4, AccountIs
  <2>3. CASE u \notin {t, target}  BY <1>3, <2>1, <2>3
  <2>4. CASE u = t /\ t = target  BY <1>3, <2>1, <2>4
  <2>5. CASE u = t /\ t # target  BY <1>3, <2>1, <2>2, <2>5
  <2>6. CASE u = target /\ t # target  BY <1>3, <2>1, <2>6
  <2> QED  BY <2>3, <2>4, <2>5, <2>6
<1> QED  BY <1>5, <1>6 DEF Sane

\* The loop of claim.
LEMMA ClaimSane ==
    ASSUME SharesOK, NEW bk \in BooksType, Sane(bk), NEW f \in FeeTypes,
           NEW list \in Seq(Tokens), NEW r, r = BooksClaimed(bk, f, list)
    PROVE  r \in BooksType /\ (r.ok => Sane(r))
<1>1. PICK h : /\ h[0] = bk
               /\ h[Len(list)] = BooksClaimed(bk, f, list)
               /\ \A k \in 1..Len(list) : h[k] = ClaimToken(h[k - 1], list[k], f)
  BY ClaimLoop
<1> DEFINE n == Len(list)
           P == {k \in 0..n : h[k] \in BooksType /\ (h[k].ok => Sane(h[k]))}
<1>2. n \in Nat /\ \A k \in 1..n : list[k] \in Tokens  OBVIOUS
<1>3. 0 \in P  BY <1>1, <1>2
<1>4. ASSUME NEW k \in 1..n, k - 1 \in P PROVE k \in P
  <2>1. h[k] = ClaimToken(h[k - 1], list[k], f) /\ list[k] \in Tokens /\ k \in 0..n
    BY <1>1, <1>2
  <2>2. h[k - 1] \in BooksType /\ (h[k - 1].ok => Sane(h[k - 1]))  BY <1>4
  <2>3. h[k] \in BooksType /\ (h[k].ok => h[k - 1].ok)  BY <2>1, <2>2, ClaimTokenFollows
  <2>4. h[k].ok => Sane(h[k])  BY <2>1, <2>2, <2>3, ClaimTokenSane
  <2> QED  BY <2>1, <2>3, <2>4
<1> HIDE DEF P
<1>5. \A k \in 0..n : k \in P  BY <1>2, <1>3, <1>4, UpTo
<1>6. n \in P  BY <1>2, <1>5
<1> QED  BY <1>1, <1>6 DEF P

\* The loop of claimWithTargetToken.
LEMMA CollectedSane ==
    ASSUME SharesOK, NEW bk \in BooksType, Sane(bk), NEW f \in FeeTypes,
           NEW list \in Seq(Tokens), NEW target \in Tokens,
           NEW outs \in [1..Len(list) -> Int],
           \A k \in 1..Len(list) : outs[k] >= 0,
           NEW x, x = Collected(bk, f, list, target, outs)
    PROVE  x \in Runs /\ (x.bk.ok => Sane(x.bk))
<1>1. PICK h : /\ h[0] = [bk |-> bk, amount |-> 0]
               /\ h[Len(list)] = Collected(bk, f, list, target, outs)
               /\ \A k \in 1..Len(list) :
                    h[k] = CollectToken(h[k - 1], list[k], f, target, outs[k])
  BY CollectLoop
<1> DEFINE n == Len(list)
           P == {k \in 0..n : h[k] \in Runs /\ (h[k].bk.ok => Sane(h[k].bk))}
<1>2. n \in Nat /\ \A k \in 1..n : list[k] \in Tokens /\ outs[k] \in Int /\ outs[k] >= 0  OBVIOUS
<1>3. 0 \in P
  <2>1. h[0] \in Runs /\ h[0].bk = bk  BY <1>1 DEF Runs
  <2> QED  BY <1>2, <2>1
<1>4. ASSUME NEW k \in 1..n, k - 1 \in P PROVE k \in P
  <2>1. /\ h[k] = CollectToken(h[k - 1], list[k], f, target, outs[k])
        /\ list[k] \in Tokens /\ outs[k] \in Int /\ outs[k] >= 0 /\ k \in 0..n
    BY <1>1, <1>2
  <2>2. h[k - 1] \in Runs /\ (h[k - 1].bk.ok => Sane(h[k - 1].bk))  BY <1>4
  <2>3. h[k] \in Runs /\ (h[k].bk.ok => h[k - 1].bk.ok)  BY <2>1, <2>2, CollectOk
  <2>4. h[k].bk.ok => Sane(h[k].bk)  BY <2>1, <2>2, <2>3, CollectSane
  <2> QED  BY <2>1, <2>3, <2>4
<1> HIDE DEF P
<1>5. \A k \in 0..n : k \in P  BY <1>2, <1>3, <1>4, UpTo
<1>6. n \in P  BY <1>2, <1>5
<1> QED  BY <1>1, <1>6 DEF P

\* _keepAccount, over all listed tokens.
LEMMA KeepAllSane ==
    ASSUME SharesOK, NEW bk \in BooksType, Sane(bk), IsFiniteSet(Tokens),
           tokenList \subseteq Tokens, NEW r, r = KeepAccount(bk)
    PROVE  r \in BooksType /\ (r.ok => Sane(r))
<1>0. PICK n \in Nat : \E seq, h :
            /\ seq \in [1..n -> tokenList]
            /\ \A i, j \in 1..n : seq[i] = seq[j] => i = j
            /\ \A t \in tokenList : \E i \in 1..n : seq[i] = t
            /\ h[0] = bk /\ h[n] = KeepAccount(bk)
            /\ \A k \in 1..n : h[k] = KeepAccountSingleToken(h[k - 1], seq[k])
  BY KeepLoop
<1>1. PICK seq, h :
            /\ seq \in [1..n -> tokenList]
            /\ h[0] = bk /\ h[n] = KeepAccount(bk)
            /\ \A k \in 1..n : h[k] = KeepAccountSingleToken(h[k - 1], seq[k])
  BY <1>0
<1> DEFINE P == {k \in 0..n : h[k] \in BooksType /\ (h[k].ok => Sane(h[k]))}
<1>3. 0 \in P  BY <1>1
<1>4. ASSUME NEW k \in 1..n, k - 1 \in P PROVE k \in P
  <2>1. h[k] = KeepAccountSingleToken(h[k - 1], seq[k]) /\ seq[k] \in Tokens /\ k \in 0..n
    BY <1>1
  <2>2. h[k - 1] \in BooksType /\ (h[k - 1].ok => Sane(h[k - 1]))  BY <1>4
  <2>3. h[k] \in BooksType /\ (h[k].ok => h[k - 1].ok)  BY <2>1, <2>2, KeepOk
  <2>4. h[k].ok => Sane(h[k])  BY <2>1, <2>2, <2>3, KeepSane
  <2> QED  BY <2>1, <2>3, <2>4
<1> HIDE DEF P
<1>5. \A k \in 0..n : k \in P  BY <1>3, <1>4, UpTo
<1>6. n \in P  BY <1>5
<1> QED  BY <1>1, <1>6 DEF P

\* The part of the invariant that no list of a claim can break: the types, and nobody
\* took more than was divided to him.
FeeTyped ==
    /\ FeeTypeOK
    /\ \A t \in Tokens : \A f \in FeeTypes : claimed[t][f] <= accumulated[t][f]

\* It is what sane books are.
LEMMA BooksAreSane ==
    ASSUME FeeTyped
    PROVE  Books \in BooksType /\ Sane(Books) /\ SharesOK /\ tokenList \subseteq Tokens
<1>1. SharesOK /\ tokenList \subseteq Tokens  BY ShareSumNat DEF FeeTyped, FeeTypeOK, SharesOK
<1>2. Books \in BooksType  BY DEF FeeTyped, FeeTypeOK, Books, BooksType
<1>3. /\ Books.acc = accumulated /\ Books.cl = claimed
      /\ Books.tre = treasury /\ Books.bal = balance
  BY DEF Books
<1>4. ASSUME NEW t \in Tokens
      PROVE  /\ treasury[t] \in Nat /\ balance[t] \in Nat
             /\ \A f \in FeeTypes : 0 <= claimed[t][f] /\ claimed[t][f] <= accumulated[t][f]
  BY DEF FeeTyped, FeeTypeOK
<1>5. Sane(Books)  BY <1>3, <1>4 DEF Sane
<1> QED  BY <1>1, <1>2, <1>5

\* Every step leaves sane books, the target of a claim wherever it is in its list.
LEMMA BooksStaySane ==
    ASSUME FeeTyped, FeeAssumption, [FeeNext]_feeVars
    PROVE  Books' \in BooksType /\ Sane(Books')
<1> DEFINE Goal == Books' \in BooksType /\ Sane(Books')
<1>1. Books \in BooksType /\ Sane(Books) /\ SharesOK /\ tokenList \subseteq Tokens
  BY BooksAreSane
<1>2. ASSUME UNCHANGED bookVars PROVE Goal
  <2>1. Books' = Books  BY <1>2 DEF Books, bookVars
  <2> QED  BY <1>1, <2>1
<1>3. ASSUME NEW r \in BooksType, SetBooks(r), r.ok => Sane(r) PROVE Goal
  BY <1>3, NextBooks
<1>4. ASSUME UNCHANGED <<accumulated, claimed>>,
             treasury' \in [Tokens -> Nat], balance' \in [Tokens -> Nat]
      PROVE  Goal
  <2>1. /\ Books' = [acc |-> accumulated, cl |-> claimed, tre |-> treasury', bal |-> balance',
                     ok |-> TRUE]
        /\ Books.acc = accumulated /\ Books.cl = claimed
    BY <1>4 DEF Books
  <2>2. PICK ck : ck = Books'  OBVIOUS
  <2>3. /\ ck.acc = Books.acc /\ ck.cl = Books.cl /\ ck.tre = treasury' /\ ck.bal = balance'
        /\ ck \in BooksType
    BY <1>1, <1>4, <2>1, <2>2 DEF BooksType
  <2>4. Sane(ck)  BY <1>1, <1>4, <2>3 DEF Sane
  <2> QED  BY <2>2, <2>3, <2>4
<1> HIDE DEF Goal
<1>5. ASSUME NEW f \in Claimants, NEW list \in TokenLists, Claim(f, list) PROVE Goal
  <2>1. f \in FeeTypes /\ list \in Seq(Tokens)  BY DEF FeeAssumption
  <2>2. PICK r : r = BooksClaimed(Books, f, list)  OBVIOUS
  <2>3. SetBooks(r)  BY <1>5, <2>2 DEF Claim, BooksClaimed
  <2>4. r \in BooksType /\ (r.ok => Sane(r))  BY <1>1, <2>1, <2>2, ClaimSane
  <2> QED  BY <1>3, <2>3, <2>4
<1>6. ASSUME NEW f \in Claimants, NEW list \in TokenLists, NEW target \in Targets,
             ClaimWithTargetToken(f, list, target)
      PROVE  Goal
  <2>1. /\ f \in FeeTypes /\ list \in Seq(Tokens) /\ target \in Tokens
        /\ SwapAmounts \subseteq Nat
    BY DEF FeeAssumption
  <2>2. PICK outs \in [DOMAIN list -> SwapAmounts] :
          LET end == Collected(Books, f, list, target, outs)
          IN  SetBooks(Release(end.bk, target, f, end.amount))
    BY <1>6 DEF ClaimWithTargetToken, Collected
  <2>3. outs \in [1..Len(list) -> Int] /\ \A k \in 1..Len(list) : outs[k] >= 0
    <3>1. DOMAIN list = 1..Len(list)  BY <2>1
    <3>2. DOMAIN outs = DOMAIN list /\ \A i \in DOMAIN list : outs[i] \in Nat  BY <2>1
    <3>3. outs = [i \in DOMAIN list |-> outs[i]]  BY <3>2
    <3>4. outs = [i \in 1..Len(list) |-> outs[i]]  BY <3>1, <3>3
    <3>5. \A i \in 1..Len(list) : outs[i] \in Nat  BY <3>1, <3>2
    <3> QED  BY <3>4, <3>5
  <2>4. PICK x : x = Collected(Books, f, list, target, outs)  OBVIOUS
  <2>5. x \in Runs /\ (x.bk.ok => Sane(x.bk))  BY <1>1, <2>1, <2>3, <2>4, CollectedSane
  <2>6. x.bk \in BooksType /\ x.amount \in Int  BY <2>5 DEF Runs
  <2>7. PICK r : r = Release(x.bk, target, f, x.amount)  OBVIOUS
  <2>8. SetBooks(r)  BY <2>2, <2>4, <2>7
  <2>9. /\ r \in BooksType
        /\ r.acc = x.bk.acc /\ r.tre = x.bk.tre /\ r.cl = x.bk.cl
        /\ r.ok => x.bk.ok /\ x.amount <= x.bk.bal[target]
        /\ r.bal = [x.bk.bal EXCEPT ![target] = @ - x.amount]
    BY <2>1, <2>6, <2>7, ReleaseIs
  <2>10. ASSUME r.ok PROVE Sane(r)
    <3>1. Sane(x.bk) /\ x.amount <= x.bk.bal[target]  BY <2>5, <2>9, <2>10
    <3>2. ASSUME NEW u \in Tokens PROVE r.bal[u] \in Nat
      <4>1. r.bal[u] = IF u = target THEN x.bk.bal[u] - x.amount ELSE x.bk.bal[u]
        BY <2>6, <2>9 DEF BooksType
      <4>2. x.bk.bal[u] \in Nat  BY <3>1 DEF Sane
      <4> QED  BY <2>6, <3>1, <4>1, <4>2
    <3> QED  BY <2>9, <3>1, <3>2 DEF Sane
  <2> QED  BY <1>3, <2>8, <2>9, <2>10
<1>7. ASSUME NEW update \in ShareUpdates, UpdateShares(update) PROVE Goal
  <2>1. PICK r : r = KeepAccount(Books)  OBVIOUS
  <2>2. SetBooks(r)  BY <1>7, <2>1 DEF UpdateShares
  <2>3. r \in BooksType /\ (r.ok => Sane(r))
    BY <1>1, <2>1, KeepAllSane DEF FeeAssumption
  <2> QED  BY <1>3, <2>2, <2>3
<1>8. ASSUME NEW t \in Tokens, NEW added \in BOOLEAN, UpdateTokens(t, added) PROVE Goal
  BY <1>2, <1>8 DEF UpdateTokens
<1>9. ASSUME NEW f \in Claimants, NEW isSet \in BOOLEAN, UpdateReceivers(f, isSet) PROVE Goal
  BY <1>2, <1>9 DEF UpdateReceivers
<1>10. ASSUME Set \/ RemoveFeeTreasury PROVE Goal
  BY <1>2, <1>10 DEF Set, RemoveFeeTreasury
<1>11. treasury \in [Tokens -> Nat] /\ balance \in [Tokens -> Nat]
  BY DEF FeeTyped, FeeTypeOK
<1>12. ASSUME NEW t \in Tokens, NEW amount \in Amounts, CollectFee(t, amount) \/ SendFee(t, amount)
       PROVE  Goal
  <2>1. /\ UNCHANGED <<accumulated, claimed>>
        /\ \/ treasury' = [treasury EXCEPT ![t] = @ + amount] /\ balance' = balance
           \/ balance' = [balance EXCEPT ![t] = @ + amount] /\ treasury' = treasury
    BY <1>12 DEF CollectFee, SendFee
  <2>2. amount \in Nat  BY DEF FeeAssumption
  <2>3. treasury' \in [Tokens -> Nat] /\ balance' \in [Tokens -> Nat]  BY <1>11, <2>1, <2>2
  <2> QED  BY <1>4, <2>1, <2>3
<1>13. ASSUME NEW t \in Tokens, PayFromTreasury(t) PROVE Goal
  <2>1. /\ UNCHANGED <<accumulated, claimed>>
        /\ treasury' = [treasury EXCEPT ![t] = 0]
        /\ balance' = [balance EXCEPT ![t] = @ + treasury[t]]
    BY <1>13 DEF PayFromTreasury
  <2>2. treasury' \in [Tokens -> Nat] /\ balance' \in [Tokens -> Nat]  BY <1>11, <2>1
  <2> QED  BY <1>4, <2>1, <2>2
<1>14. ASSUME UNCHANGED feeVars PROVE Goal  BY <1>2, <1>14 DEF feeVars
<1>15. Goal
  BY <1>5, <1>6, <1>7, <1>8, <1>9, <1>10, <1>12, <1>13, <1>14 DEF FeeNext
<1> QED  BY <1>15 DEF Goal

\* Every step keeps the types.
LEMMA FeeTypedStep ==
    ASSUME FeeTyped, FeeAssumption, [FeeNext]_feeVars
    PROVE  FeeTyped'
<1>1. PICK ck : ck = Books'  OBVIOUS
<1>2. ck \in BooksType /\ Sane(ck)  BY <1>1, BooksStaySane
<1>3. /\ ck.acc = accumulated' /\ ck.cl = claimed' /\ ck.tre = treasury' /\ ck.bal = balance'
  BY <1>1 DEF Books
<1>4. ASSUME NEW t \in Tokens
      PROVE  /\ treasury'[t] \in Nat /\ balance'[t] \in Nat
             /\ \A f \in FeeTypes : /\ claimed'[t][f] \in Nat /\ accumulated'[t][f] \in Nat
                                    /\ claimed'[t][f] <= accumulated'[t][f]
  <2>1. \A f \in FeeTypes : ck.cl[t][f] \in Int /\ ck.acc[t][f] \in Int  BY <1>2 DEF BooksType
  <2> QED  BY <1>2, <1>3, <2>1 DEF Sane
<1>5. /\ accumulated' \in [Tokens -> [FeeTypes -> Int]]
      /\ claimed' \in [Tokens -> [FeeTypes -> Int]]
      /\ treasury' \in [Tokens -> Int] /\ balance' \in [Tokens -> Int]
  BY <1>2, <1>3 DEF BooksType
<1>6. accumulated' \in [Tokens -> [FeeTypes -> Nat]]
  <2>1. \A t \in Tokens : accumulated'[t] \in [FeeTypes -> Nat]  BY <1>4, <1>5
  <2> QED  BY <1>5, <2>1
<1>7. claimed' \in [Tokens -> [FeeTypes -> Nat]]
  <2>1. \A t \in Tokens : claimed'[t] \in [FeeTypes -> Nat]  BY <1>4, <1>5
  <2> QED  BY <1>5, <2>1
<1>8. treasury' \in [Tokens -> Nat] /\ balance' \in [Tokens -> Nat]  BY <1>4, <1>5
<1>9. FeeTypeOK  BY DEF FeeTyped
<1> QED  BY <1>4, <1>6, <1>7, <1>8, <1>9, RestTyped DEF FeeTyped, FeeTypeOK

\* Every step keeps the invariant.
LEMMA FeeInvStep ==
    ASSUME FeeInv, FeeAssumption, TargetsFirst, [FeeNext]_feeVars
    PROVE  FeeInv'
<1>1. PICK ck : ck = Books'  OBVIOUS
<1>2. ck \in BooksType /\ Good(ck)  BY <1>1, BooksFollow
<1>3. FeeTyped'
  <2>1. FeeTyped  BY DEF FeeTyped, FeeInv, Solvent
  <2> QED  BY <2>1, FeeTypedStep
<1>4. ASSUME NEW t \in Tokens PROVE Account(Books, t)' <= balance'[t]
  <2>1. Account(ck, t) <= ck.bal[t]  BY <1>2 DEF Good, GoodAt
  <2>2. Account(Books', t) <= balance'[t]  BY <1>1, <2>1 DEF Books
  <2> QED  BY <2>2 DEF Account, Due
<1> QED  BY <1>3, <1>4 DEF FeeInv, FeeTyped, Solvent

\* The invariant holds at the start.
LEMMA FeeInvInit == ASSUME FeeAssumption, FeeInit PROVE FeeInv
<1>1. {"DEV", "BUYBACK", "RESERVE", "STAKER"} = FeeTypes  BY DEF FeeTypes
<1>2. FeeTypeOK
  <2>1. /\ share = [f \in FeeTypes |-> 0] /\ totalShare = 0  BY DEF FeeInit
  <2>2. SumFunction(share) = share["DEV"] + share["BUYBACK"] + share["RESERVE"] + share["STAKER"]
    BY <2>1, SumOfFour
  <2>3. totalShare = SumFunction(share)  BY <1>1, <2>1, <2>2
  <2> QED  BY <2>3 DEF FeeInit, FeeTypeOK
<1>3. ASSUME NEW t \in Tokens
      PROVE  /\ \A f \in FeeTypes : claimed[t][f] <= accumulated[t][f]
             /\ Account(Books, t) <= balance[t]
  <2>1. \A f \in FeeTypes : claimed[t][f] = 0 /\ accumulated[t][f] = 0  BY DEF FeeInit
  <2>2. balance[t] = 0  BY DEF FeeInit
  <2>3. Books \in BooksType  BY <1>2 DEF FeeTypeOK, Books, BooksType
  <2>4. \A f \in FeeTypes : Due(Books, t, f) = 0  BY <2>1 DEF Due, Books
  <2>5. Account(Books, t) = 0  BY <1>1, <2>3, <2>4, AccountIs
  <2> QED  BY <2>1, <2>2, <2>5
<1> QED  BY <1>2, <1>3 DEF FeeInv, Solvent

\* Nothing that the contract counts goes below zero, and the total of the shares is their
\* sum, whatever token a claim asks for (ProtocolFee.sol: totalShare, which updateShares
\* keeps by differences, and the subtractions of _release and _getUnAccount).
THEOREM FeesTyped == FeeSpec => []FeeTypeOK
<1>1. FeeInit => FeeTyped  BY FeeAssumption, FeeInvInit DEF FeeInv, Solvent, FeeTyped
<1>2. FeeTyped /\ [FeeNext]_feeVars => FeeTyped'  BY FeeAssumption, FeeTypedStep
<1>3. FeeTyped => FeeTypeOK  BY DEF FeeTyped
<1> QED  BY <1>1, <1>2, <1>3, PTL DEF FeeSpec

\* The contract holds what it has divided and not paid, whatever comes in and whoever
\* claims, as long as a claim with a target token lists the target first or not at all
\* (ProtocolFee.sol: claim, claimWithTargetToken, updateShares, _keepAccount).
THEOREM FeesStaySolvent ==
    ASSUME TargetsFirst
    PROVE  FeeSpec => [](FeeTypeOK /\ Solvent)
<1>1. FeeInit => FeeInv  BY FeeAssumption, FeeInvInit
<1>2. FeeInv /\ [FeeNext]_feeVars => FeeInv'  BY FeeAssumption, FeeInvStep
<1>3. FeeSpec => []FeeInv  BY <1>1, <1>2, PTL DEF FeeSpec
<1>4. FeeInv => FeeTypeOK /\ Solvent  BY DEF FeeInv
<1> QED  BY <1>3, <1>4, PTL

\* The value of Claimable after a step.
LEMMA NextClaimable ==
    ASSUME NEW ck, ck = Books', NEW t \in Tokens, NEW f \in FeeTypes, hasTreasury' = hasTreasury
    PROVE  Claimable(t, f)' = Due(ck, t, f) + IF totalShare' = 0 THEN 0
                                ELSE (Free(ck, t) * share'[f]) \div totalShare'
<1>1. /\ Due(Books, t, f)' = Due(ck, t, f)
      /\ Account(Books, t)' = Account(ck, t)
  BY DEF Due, Account
<1>2. UnAccount(Books, t)' = UnAccount(ck, t)  BY <1>1 DEF UnAccount
<1>3. TreasuryAmount(Books, t)' = TreasuryAmount(ck, t)  BY DEF TreasuryAmount
<1> QED  BY <1>1, <1>2, <1>3 DEF Claimable, Free, ShareAmount

\* The value of Claimable before a step.
LEMMA ClaimableIs ==
    ASSUME NEW t \in Tokens, NEW f \in FeeTypes
    PROVE  Claimable(t, f) = Worth(Books, t, f)
BY DEF Claimable, Worth, Free

\* A step lowers the claim of nobody who does not claim.
LEMMA ApartStep ==
    ASSUME FeeInv, FeeInv', FeeAssumption, TargetsFirst, [FeeNext]_feeVars,
           NEW t \in Tokens, NEW f \in FeeTypes,
           share' = share, hasTreasury' = hasTreasury, claimed'[t][f] = claimed[t][f]
    PROVE  Claimable(t, f)' >= Claimable(t, f)
<1>1. PICK ck : ck = Books'  OBVIOUS
<1>2. ck \in BooksType /\ FollowsAt(Books, ck, t)  BY <1>1, BooksFollow DEF Follows
<1>3. ck.cl[t][f] = Books.cl[t][f]  BY <1>1 DEF Books
<1>4. Worth(ck, t, f) >= Worth(Books, t, f)  BY <1>2, <1>3 DEF FollowsAt
<1>5. totalShare' = totalShare  BY DEF FeeInv, FeeTypeOK
<1>6. Claimable(t, f)' = Worth(ck, t, f)  BY <1>1, <1>5, NextClaimable DEF Worth, ShareAmount
<1> QED  BY <1>4, <1>6, ClaimableIs

\* Whoever claims first takes nothing from the others.
THEOREM ClaimsTakeFromNobody ==
    ASSUME TargetsFirst
    PROVE  FeeSpec => ClaimsAreApart
<1>1. FeeInv /\ FeeInv' /\ [FeeNext]_feeVars =>
        [\A t \in Tokens, f \in FeeTypes :
            share' = share /\ hasTreasury' = hasTreasury /\ claimed'[t][f] = claimed[t][f] =>
                Claimable(t, f)' >= Claimable(t, f)]_feeVars
  BY FeeAssumption, ApartStep
<1>2. FeeSpec => [](FeeTypeOK /\ Solvent)  BY FeesStaySolvent
<1>3. FeeInv <=> FeeTypeOK /\ Solvent  BY DEF FeeInv
<1>4. FeeSpec => []FeeInv  BY <1>2, <1>3, PTL
<1> QED  BY <1>1, <1>4, PTL DEF FeeSpec, ClaimsAreApart

\* A change of the shares keeps the claims of the listed tokens.
LEMMA OldSharesStep ==
    ASSUME FeeInv, FeeAssumption, TargetsFirst, [FeeNext]_feeVars, share' # share,
           NEW t \in tokenList, NEW f \in FeeTypes
    PROVE  Claimable(t, f)' - Claimable(t, f) \in (IF totalShare' = 0 THEN {0} ELSE 0..3)
<1>1. PICK update \in ShareUpdates : UpdateShares(update)
  BY DEF FeeNext, Claim, ClaimWithTargetToken, UpdateTokens, UpdateReceivers, Set,
         RemoveFeeTreasury, CollectFee, SendFee, PayFromTreasury, feeVars, shareVars
<1>2. hasTreasury' = hasTreasury  BY <1>1 DEF UpdateShares, configVars
<1>3. PICK ck : ck = Books'  OBVIOUS
<1>4. Books \in BooksType /\ Good(Books) /\ SharesOK /\ t \in Tokens  BY BooksAreGood
<1>5. /\ SettledAt(Books, ck, t)
      /\ share' \in [FeeTypes -> Nat] /\ totalShare' = SumFunction(share')
  BY <1>1, <1>3, SharesStep
<1>6. Due(ck, t, f) = Worth(Books, t, f) /\ Free(ck, t) \in 0..3  BY <1>5 DEF SettledAt
<1>7. Worth(Books, t, f) \in Int  BY <1>4, WorthIs DEF Good
<1>8. Claimable(t, f)' = Worth(Books, t, f) + IF totalShare' = 0 THEN 0
                                ELSE (Free(ck, t) * share'[f]) \div totalShare'
  BY <1>2, <1>3, <1>4, <1>6, NextClaimable
<1>9. Claimable(t, f) = Worth(Books, t, f)  BY <1>4, ClaimableIs
<1>10. CASE totalShare' = 0
  BY <1>7, <1>8, <1>9, <1>10
<1>11. CASE totalShare' # 0
  <2> DEFINE part == (Free(ck, t) * share'[f]) \div totalShare'
  <2>1. part \in 0..3  BY <1>5, <1>6, <1>11, FewUnits
  <2>2. Claimable(t, f)' = Worth(Books, t, f) + part  BY <1>8, <1>11
  <2> HIDE DEF part
  <2> QED  BY <1>7, <1>9, <1>11, <2>1, <2>2
<1> QED  BY <1>10, <1>11

\* What came in before a change of the shares is divided by the old ones.
THEOREM SharesChangeOverDividedFees ==
    ASSUME TargetsFirst
    PROVE  FeeSpec => OldFeesAtOldShares
<1>1. FeeInv /\ [FeeNext]_feeVars =>
        [share' # share =>
            \A t \in tokenList, f \in FeeTypes :
                Claimable(t, f)' - Claimable(t, f) \in
                    (IF totalShare' = 0 THEN {0} ELSE 0..3)]_feeVars
  BY FeeAssumption, OldSharesStep
<1>2. FeeSpec => [](FeeTypeOK /\ Solvent)  BY FeesStaySolvent
<1>3. FeeInv <=> FeeTypeOK /\ Solvent  BY DEF FeeInv
<1>4. FeeSpec => []FeeInv  BY <1>2, <1>3, PTL
<1> QED  BY <1>1, <1>4, PTL DEF FeeSpec, OldFeesAtOldShares
=============================================================================
