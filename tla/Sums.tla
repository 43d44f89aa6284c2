-------------------------------- MODULE Sums --------------------------------
(***************************************************************************)
(* Sums over finite sets, SumFunctionOnSet(f, S) of the community modules:  *)
(* what a sum is when an element is taken out, replaced or added.  The     *)
(* library defines a sum by taking some element first; that the choice     *)
(* does not matter is proved here, by induction over the finite sets.  The *)
(* arithmetic that the solvers need in small steps is here as well.        *)
(***************************************************************************)
EXTENDS Integers, Functions, FiniteSetTheorems, TLAPS

-----------------------------------------------------------------------------
(* Products and quotients of naturals.                                     *)

\* The remainder of a division is what the product loses.
LEMMA DivNat ==
    ASSUME NEW a \in Nat, NEW d \in Nat \ {0}
    PROVE  a \div d \in Nat /\ (a \div d) * d <= a
BY SMT

\* Products of naturals are naturals.
LEMMA MulNat == ASSUME NEW a \in Nat, NEW b \in Nat PROVE a * b \in Nat
BY SMT

\* A positive factor can be cancelled.
LEMMA CancelMul ==
    ASSUME NEW a \in Nat, NEW b \in Nat, NEW d \in Nat \ {0}, a * d <= b * d
    PROVE  a <= b
BY SMT

\* A factor keeps the order of two naturals.
LEMMA MulMono ==
    ASSUME NEW a \in Nat, NEW b \in Nat, NEW c \in Nat, a <= b
    PROVE  c * a <= c * b
BY SMT

\* A quotient is bounded by what bounds its dividend.
LEMMA DivLe ==
    ASSUME NEW a \in Nat, NEW b \in Nat, NEW d \in Nat \ {0}, a <= b * d
    PROVE  a \div d <= b
<1>1. a \div d \in Nat /\ (a \div d) * d <= a  BY DivNat
<1>2. b * d \in Nat /\ (a \div d) * d \in Nat  BY <1>1, MulNat
<1>3. (a \div d) * d <= b * d  BY <1>1, <1>2
<1> QED  BY <1>1, <1>3, CancelMul

-----------------------------------------------------------------------------
(* Partial sums.                                                           *)

Some(S) == CHOOSE x \in S : TRUE

\* The partial sums of f, over every subset of S.
PartialSums(f, S) ==
    CHOOSE g : g = [T \in SUBSET S |->
        IF T = {} THEN 0 ELSE f[Some(T)] + g[T \ {Some(T)}]]

ArePartialSums(f, S, g) ==
    g = [T \in SUBSET S |-> IF T = {} THEN 0 ELSE f[Some(T)] + g[T \ {Some(T)}]]

LEMMA SumsOf ==
    ASSUME NEW f, NEW S
    PROVE  SumFunctionOnSet(f, S) = PartialSums(f, S)[S]
BY DEF SumFunctionOnSet, FoldFunctionOnSet, MapThenFoldSet, PartialSums, Some

-----------------------------------------------------------------------------
(* Induction over the subsets of a finite set.                             *)

\* A non-empty set of subsets of S has a smallest one.
LEMMA SmallestSubset ==
    ASSUME NEW S, IsFiniteSet(S), NEW Bad \in SUBSET SUBSET S, Bad # {}
    PROVE  \E T \in Bad : \A U \in Bad : U \subseteq T => U = T
<1>1. SUBSET S \subseteq FiniteSubsetsOf(S)  BY FS_Subset DEF FiniteSubsetsOf
<1>2. IsWellFoundedOn(StrictSubsetOrdering(S), FiniteSubsetsOf(S))
  BY FS_StrictSubsetOrderingWellFounded
<1>3. \E T \in Bad : \A U \in Bad : ~(<<U, T>> \in StrictSubsetOrdering(S))
  BY <1>1, <1>2, WFMin
<1> QED  BY <1>3 DEF StrictSubsetOrdering

-----------------------------------------------------------------------------
(* The partial sums exist.                                                 *)

LEMMA SomeIn == ASSUME NEW S, S # {} PROVE Some(S) \in S
BY DEF Some

LEMMA SummedAgree ==
    ASSUME NEW f, NEW S, IsFiniteSet(S), NEW T \in SUBSET S,
           NEW g, NEW h, ArePartialSums(f, S, g), ArePartialSums(f, T, h)
    PROVE  g[T] = h[T]
<1> DEFINE Bad == {U \in SUBSET T : g[U] # h[U]}
<1>1. SUFFICES ASSUME Bad # {} PROVE FALSE  OBVIOUS
<1>2. IsFiniteSet(T) /\ Bad \in SUBSET SUBSET T  BY FS_Subset
<1>3. PICK U \in Bad : \A W \in Bad : W \subseteq U => W = U
  <2> HIDE DEF Bad
  <2> QED  BY <1>1, <1>2, SmallestSubset
<1>4. U \in SUBSET T /\ U \in SUBSET S /\ g[U] # h[U]  OBVIOUS
<1>5. /\ g[U] = IF U = {} THEN 0 ELSE f[Some(U)] + g[U \ {Some(U)}]
      /\ h[U] = IF U = {} THEN 0 ELSE f[Some(U)] + h[U \ {Some(U)}]
  <2>1. g[U] = IF U = {} THEN 0 ELSE f[Some(U)] + g[U \ {Some(U)}]
    BY <1>4 DEF ArePartialSums
  <2>2. h[U] = IF U = {} THEN 0 ELSE f[Some(U)] + h[U \ {Some(U)}]
    BY <1>4 DEF ArePartialSums
  <2> QED  BY <2>1, <2>2
<1>6. U # {}  BY <1>4, <1>5
<1>7. U \ {Some(U)} \notin Bad  BY <1>3, <1>6, SomeIn
<1>8. g[U \ {Some(U)}] = h[U \ {Some(U)}]  BY <1>4, <1>7
<1> QED  BY <1>4, <1>5, <1>6, <1>8

LEMMA SumsExist ==
    ASSUME NEW f, NEW S, IsFiniteSet(S)
    PROVE  ArePartialSums(f, S, PartialSums(f, S))
<1> DEFINE Bad == {T \in SUBSET S : ~ArePartialSums(f, T, PartialSums(f, T))}
<1>1. SUFFICES ASSUME Bad # {} PROVE FALSE  OBVIOUS
<1>2. PICK T \in Bad : \A U \in Bad : U \subseteq T => U = T
  <2>1. Bad \in SUBSET SUBSET S  OBVIOUS
  <2> HIDE DEF Bad
  <2> QED  BY <1>1, <2>1, SmallestSubset
<1>3. T \in SUBSET S /\ ~ArePartialSums(f, T, PartialSums(f, T)) /\ IsFiniteSet(T)  BY FS_Subset
<1>4. \A U \in SUBSET T : U # T => ArePartialSums(f, U, PartialSums(f, U)) /\ IsFiniteSet(U)
  BY <1>2, <1>3, FS_Subset
<1> DEFINE h == [U \in SUBSET T |->
                    IF U = {} THEN 0
                    ELSE f[Some(U)] + PartialSums(f, U \ {Some(U)})[U \ {Some(U)}]]
<1>5. ASSUME NEW U \in SUBSET T, U # T PROVE h[U] = PartialSums(f, U)[U]
  <2> DEFINE W == U \ {Some(U)}
  <2>1. PartialSums(f, U)[U] = IF U = {} THEN 0 ELSE f[Some(U)] + PartialSums(f, U)[W]
    BY <1>4, <1>5 DEF ArePartialSums
  <2>2. W \in SUBSET U /\ W # T /\ W \in SUBSET T
    BY <1>5
  <2>3. ArePartialSums(f, W, PartialSums(f, W)) /\ ArePartialSums(f, U, PartialSums(f, U)) /\ IsFiniteSet(U)
    BY <1>4, <1>5, <2>2
  <2>4. PartialSums(f, U)[W] = PartialSums(f, W)[W]
    <3> HIDE DEF W
    <3> QED  BY <2>2, <2>3, SummedAgree
  <2> QED  BY <2>1, <2>4
<1>6. ASSUME NEW U \in SUBSET T, U # {}
      PROVE  h[U \ {Some(U)}] = PartialSums(f, U \ {Some(U)})[U \ {Some(U)}]
  <2>1. U \ {Some(U)} \in SUBSET T /\ U \ {Some(U)} # T  BY <1>6, SomeIn
  <2> HIDE DEF h
  <2> QED  BY <1>5, <2>1
<1>7. ArePartialSums(f, T, h)
  <2>1. ASSUME NEW U \in SUBSET T
        PROVE  h[U] = IF U = {} THEN 0 ELSE f[Some(U)] + h[U \ {Some(U)}]
    BY <1>6
  <2>2. h = [U \in SUBSET T |-> h[U]]  OBVIOUS
  <2> HIDE DEF h
  <2>3. h = [U \in SUBSET T |-> IF U = {} THEN 0 ELSE f[Some(U)] + h[U \ {Some(U)}]]
    BY <2>1, <2>2, Zenon
  <2> QED  BY <2>3 DEF ArePartialSums
<1>8. ArePartialSums(f, T, PartialSums(f, T))
  <2> HIDE DEF h
  <2> QED  BY <1>7 DEF ArePartialSums, PartialSums
<1> QED  BY <1>3, <1>8

-----------------------------------------------------------------------------
(* What a sum is.                                                          *)

LEMMA SumEmpty == ASSUME NEW f PROVE SumFunctionOnSet(f, {}) = 0
<1>1. ArePartialSums(f, {}, PartialSums(f, {}))  BY SumsExist, FS_EmptySet
<1> QED  BY <1>1, SumsOf DEF ArePartialSums

LEMMA SumFirst ==
    ASSUME NEW f, NEW S, IsFiniteSet(S), S # {}
    PROVE  SumFunctionOnSet(f, S) = f[Some(S)] + SumFunctionOnSet(f, S \ {Some(S)})
<1> DEFINE T == S \ {Some(S)}
<1>1. T \in SUBSET S /\ IsFiniteSet(T)  BY FS_Subset
<1> HIDE DEF T
<1>2. ArePartialSums(f, S, PartialSums(f, S)) /\ ArePartialSums(f, T, PartialSums(f, T))  BY <1>1, SumsExist
<1>3. PartialSums(f, S)[T] = PartialSums(f, T)[T]  BY <1>1, <1>2, SummedAgree
<1>4. PartialSums(f, S)[S] = f[Some(S)] + PartialSums(f, S)[T]  BY <1>2 DEF ArePartialSums, T
<1>5. SumFunctionOnSet(f, S) = f[Some(S)] + SumFunctionOnSet(f, T)
  BY <1>3, <1>4, SumsOf
<1> QED  BY <1>5 DEF T

LEMMA SumInt ==
    ASSUME NEW f, NEW S, IsFiniteSet(S), \A x \in S : f[x] \in Int
    PROVE  SumFunctionOnSet(f, S) \in Int
<1> DEFINE Bad == {T \in SUBSET S : SumFunctionOnSet(f, T) \notin Int}
<1>1. SUFFICES ASSUME Bad # {} PROVE FALSE  OBVIOUS
<1>2. PICK T \in Bad : \A U \in Bad : U \subseteq T => U = T
  <2>1. Bad \in SUBSET SUBSET S  OBVIOUS
  <2> HIDE DEF Bad
  <2> QED  BY <1>1, <2>1, SmallestSubset
<1>3. T # {}  BY SumEmpty
<1>4. Some(T) \in T /\ T \in SUBSET S /\ IsFiniteSet(T)  BY <1>3, SomeIn, FS_Subset
<1>5. SumFunctionOnSet(f, T \ {Some(T)}) \in Int  BY <1>2, <1>4
<1>6. SumFunctionOnSet(f, T) = f[Some(T)] + SumFunctionOnSet(f, T \ {Some(T)})
  BY <1>3, <1>4, SumFirst
<1>7. SumFunctionOnSet(f, T) \in Int  BY <1>4, <1>5, <1>6
<1> QED  BY <1>7

LEMMA SumNat ==
    ASSUME NEW f, NEW S, IsFiniteSet(S), \A x \in S : f[x] \in Nat
    PROVE  SumFunctionOnSet(f, S) \in Nat
<1> DEFINE Bad == {T \in SUBSET S : SumFunctionOnSet(f, T) \notin Nat}
<1>1. SUFFICES ASSUME Bad # {} PROVE FALSE  OBVIOUS
<1>2. PICK T \in Bad : \A U \in Bad : U \subseteq T => U = T
  <2>1. Bad \in SUBSET SUBSET S  OBVIOUS
  <2> HIDE DEF Bad
  <2> QED  BY <1>1, <2>1, SmallestSubset
<1>3. T # {}  BY SumEmpty
<1>4. Some(T) \in T /\ T \in SUBSET S /\ IsFiniteSet(T)  BY <1>3, SomeIn, FS_Subset
<1>5. SumFunctionOnSet(f, T \ {Some(T)}) \in Nat  BY <1>2, <1>4
<1>6. SumFunctionOnSet(f, T) = f[Some(T)] + SumFunctionOnSet(f, T \ {Some(T)})
  BY <1>3, <1>4, SumFirst
<1>7. SumFunctionOnSet(f, T) \in Nat  BY <1>4, <1>5, <1>6
<1> QED  BY <1>7

\* The order of the additions does not matter.
LEMMA SumRemove ==
    ASSUME NEW f, NEW S, IsFiniteSet(S), \A x \in S : f[x] \in Int, NEW x \in S
    PROVE  SumFunctionOnSet(f, S) = f[x] + SumFunctionOnSet(f, S \ {x})
<1> DEFINE Sum(T) == SumFunctionOnSet(f, T)
           Bad == {T \in SUBSET S : \E y \in T : Sum(T) # f[y] + Sum(T \ {y})}
<1>1. SUFFICES ASSUME Bad # {} PROVE FALSE  OBVIOUS
<1>2. PICK T \in Bad : \A U \in Bad : U \subseteq T => U = T
  <2>1. Bad \in SUBSET SUBSET S  OBVIOUS
  <2> HIDE DEF Bad
  <2> QED  BY <1>1, <2>1, SmallestSubset
<1>3. T \in SUBSET S /\ IsFiniteSet(T)  BY FS_Subset
<1>4. PICK y \in T : Sum(T) # f[y] + Sum(T \ {y})  OBVIOUS
<1>5. ASSUME NEW U \in SUBSET T, U # T, NEW v \in U
      PROVE  Sum(U) = f[v] + Sum(U \ {v})
  BY <1>2, <1>3, <1>5
<1>6. PICK w \in T : w = Some(T)  BY <1>4, SomeIn
<1>7. Sum(T) = f[w] + Sum(T \ {w})  BY <1>3, <1>4, <1>6, SumFirst
<1>8. y # w  BY <1>4, <1>7
<1>9. Sum(T \ {w}) = f[y] + Sum((T \ {w}) \ {y})  BY <1>4, <1>5, <1>6, <1>8
<1>10. Sum(T \ {y}) = f[w] + Sum((T \ {y}) \ {w})  BY <1>4, <1>5, <1>6, <1>8
<1>11. PICK R \in SUBSET T : R = (T \ {w}) \ {y} /\ R = (T \ {y}) \ {w}  OBVIOUS
<1>12. Sum(R) \in Int
  <2>1. IsFiniteSet(R) /\ \A z \in R : f[z] \in Int  BY <1>3, <1>11, FS_Subset
  <2> QED  BY <2>1, SumInt
<1>13. f[y] \in Int /\ f[w] \in Int  BY <1>3, <1>4, <1>6
<1>14. Sum(T \ {w}) = f[y] + Sum(R) /\ Sum(T \ {y}) = f[w] + Sum(R)
  BY <1>9, <1>10, <1>11
<1>15. \A a, b, c \in Int : a + (b + c) = b + (a + c)  OBVIOUS
<1>16. f[w] + (f[y] + Sum(R)) = f[y] + (f[w] + Sum(R))
  <2> HIDE DEF Sum
  <2> QED  BY <1>12, <1>13, <1>15
<1> QED  BY <1>4, <1>7, <1>14, <1>16

LEMMA SumAdd ==
    ASSUME NEW f, NEW S, IsFiniteSet(S), NEW x, x \notin S,
           \A y \in S \cup {x} : f[y] \in Int
    PROVE  SumFunctionOnSet(f, S \cup {x}) = f[x] + SumFunctionOnSet(f, S)
<1>1. IsFiniteSet(S \cup {x}) /\ (S \cup {x}) \ {x} = S  BY FS_AddElement
<1> QED  BY <1>1, SumRemove

\* A sum depends on the values over the set only.
LEMMA SumSame ==
    ASSUME NEW f, NEW g, NEW S, IsFiniteSet(S), \A x \in S : f[x] = g[x]
    PROVE  SumFunctionOnSet(f, S) = SumFunctionOnSet(g, S)
<1> DEFINE Bad == {T \in SUBSET S : SumFunctionOnSet(f, T) # SumFunctionOnSet(g, T)}
<1>1. SUFFICES ASSUME Bad # {} PROVE FALSE  OBVIOUS
<1>2. PICK T \in Bad : \A U \in Bad : U \subseteq T => U = T
  <2>1. Bad \in SUBSET SUBSET S  OBVIOUS
  <2> HIDE DEF Bad
  <2> QED  BY <1>1, <2>1, SmallestSubset
<1>3. T # {}  BY SumEmpty
<1>4. Some(T) \in T /\ T \in SUBSET S /\ IsFiniteSet(T)  BY <1>3, SomeIn, FS_Subset
<1>5. SumFunctionOnSet(f, T \ {Some(T)}) = SumFunctionOnSet(g, T \ {Some(T)})
  BY <1>2, <1>4
<1>6. /\ SumFunctionOnSet(f, T) = f[Some(T)] + SumFunctionOnSet(f, T \ {Some(T)})
      /\ SumFunctionOnSet(g, T) = g[Some(T)] + SumFunctionOnSet(g, T \ {Some(T)})
  BY <1>3, <1>4, SumFirst
<1>7. SumFunctionOnSet(f, T) = SumFunctionOnSet(g, T)  BY <1>4, <1>5, <1>6
<1> QED  BY <1>7

LEMMA SumZero ==
    ASSUME NEW f, NEW S, IsFiniteSet(S), \A x \in S : f[x] = 0
    PROVE  SumFunctionOnSet(f, S) = 0
<1> DEFINE Bad == {T \in SUBSET S : SumFunctionOnSet(f, T) # 0}
<1>1. SUFFICES ASSUME Bad # {} PROVE FALSE  OBVIOUS
<1>2. PICK T \in Bad : \A U \in Bad : U \subseteq T => U = T
  <2>1. Bad \in SUBSET SUBSET S  OBVIOUS
  <2> HIDE DEF Bad
  <2> QED  BY <1>1, <2>1, SmallestSubset
<1>3. T # {}  BY SumEmpty
<1>4. Some(T) \in T /\ T \in SUBSET S /\ IsFiniteSet(T)  BY <1>3, SomeIn, FS_Subset
<1>5. SumFunctionOnSet(f, T \ {Some(T)}) = 0  BY <1>2, <1>4
<1>6. SumFunctionOnSet(f, T) = f[Some(T)] + SumFunctionOnSet(f, T \ {Some(T)})
  BY <1>3, <1>4, SumFirst
<1>7. SumFunctionOnSet(f, T) = 0  BY <1>4, <1>5, <1>6
<1> QED  BY <1>7

\* One value changes.
LEMMA SumChange ==
    ASSUME NEW f, NEW g, NEW S, IsFiniteSet(S), NEW x \in S,
           \A y \in S : f[y] \in Int /\ g[y] \in Int,
           \A y \in S \ {x} : f[y] = g[y]
    PROVE  SumFunctionOnSet(g, S) = SumFunctionOnSet(f, S) + g[x] - f[x]
<1> DEFINE T == S \ {x}
<1>1. IsFiniteSet(T)  BY FS_Subset
<1>2. SumFunctionOnSet(f, T) = SumFunctionOnSet(g, T)  BY <1>1, SumSame
<1>3. SumFunctionOnSet(f, T) \in Int  BY <1>1, SumInt
<1>4. /\ SumFunctionOnSet(f, S) = f[x] + SumFunctionOnSet(f, T)
      /\ SumFunctionOnSet(g, S) = g[x] + SumFunctionOnSet(g, T)
  BY SumRemove
<1> HIDE DEF T
<1> QED  BY <1>2, <1>3, <1>4

\* An element of a sum of naturals is not more than the sum.
LEMMA SumAtLeast ==
    ASSUME NEW f, NEW S, IsFiniteSet(S), \A y \in S : f[y] \in Nat, NEW x \in S
    PROVE  f[x] <= SumFunctionOnSet(f, S)
<1>1. IsFiniteSet(S \ {x})  BY FS_Subset
<1>2. SumFunctionOnSet(f, S \ {x}) \in Nat  BY <1>1, SumNat
<1>3. SumFunctionOnSet(f, S) = f[x] + SumFunctionOnSet(f, S \ {x})  BY SumRemove
<1> QED  BY <1>2, <1>3

\* What is zero outside a subset sums up to the sum over the subset.
LEMMA SumSupport ==
    ASSUME NEW f, NEW S, IsFiniteSet(S), \A x \in S : f[x] \in Int,
           NEW T \in SUBSET S, \A x \in S \ T : f[x] = 0
    PROVE  SumFunctionOnSet(f, S) = SumFunctionOnSet(f, T)
<1> DEFINE Sum(U) == SumFunctionOnSet(f, U)
           Bad == {U \in SUBSET S : T \subseteq U /\ Sum(U) # Sum(T)}
<1>1. SUFFICES ASSUME Bad # {} PROVE FALSE  OBVIOUS
<1>2. PICK U \in Bad : \A V \in Bad : V \subseteq U => V = U
  <2>1. Bad \in SUBSET SUBSET S  OBVIOUS
  <2> HIDE DEF Bad
  <2> QED  BY <1>1, <2>1, SmallestSubset
<1>3. U \in SUBSET S /\ T \subseteq U /\ Sum(U) # Sum(T)  OBVIOUS
<1>4. PICK x \in U : x \notin T
  <2>1. U # T  BY <1>3
  <2> QED  BY <1>3, <2>1
<1>5. U \ {x} \notin Bad  BY <1>2, <1>4
<1>6. Sum(U \ {x}) = Sum(T)  BY <1>3, <1>4, <1>5
<1>7. IsFiniteSet(U) /\ IsFiniteSet(T)  BY <1>3, FS_Subset
<1>8. Sum(U) = f[x] + Sum(U \ {x})  BY <1>3, <1>7, SumRemove
<1>9. f[x] = 0 /\ Sum(T) \in Int  BY <1>3, <1>4, <1>7, SumInt
<1> HIDE DEF Sum
<1> QED  BY <1>3, <1>6, <1>8, <1>9

\* The sum of a sum is the sum of the sums.
LEMMA SumPlus ==
    ASSUME NEW f, NEW g, NEW h, NEW S, IsFiniteSet(S),
           \A x \in S : f[x] \in Int /\ g[x] \in Int /\ h[x] = f[x] + g[x]
    PROVE  SumFunctionOnSet(h, S) = SumFunctionOnSet(f, S) + SumFunctionOnSet(g, S)
<1> DEFINE Sum(e, T) == SumFunctionOnSet(e, T)
           Bad == {T \in SUBSET S : Sum(h, T) # Sum(f, T) + Sum(g, T)}
<1>1. SUFFICES ASSUME Bad # {} PROVE FALSE  OBVIOUS
<1>2. PICK T \in Bad : \A U \in Bad : U \subseteq T => U = T
  <2>1. Bad \in SUBSET SUBSET S  OBVIOUS
  <2> HIDE DEF Bad
  <2> QED  BY <1>1, <2>1, SmallestSubset
<1>3. T # {}
  <2>1. Sum(h, {}) = 0 /\ Sum(f, {}) = 0 /\ Sum(g, {}) = 0  BY SumEmpty
  <2>2. Sum(h, T) # Sum(f, T) + Sum(g, T)  OBVIOUS
  <2>3. Sum(h, {}) = Sum(f, {}) + Sum(g, {})
    <3> HIDE DEF Sum
    <3> QED  BY <2>1
  <2> QED  BY <2>2, <2>3
<1> DEFINE x == Some(T)
           U == T \ {x}
<1>4. x \in T /\ T \in SUBSET S /\ IsFiniteSet(T) /\ IsFiniteSet(U)
  BY <1>3, SomeIn, FS_Subset
<1>5. Sum(h, U) = Sum(f, U) + Sum(g, U)  BY <1>2, <1>4
<1>6. /\ Sum(h, T) = h[x] + Sum(h, U)
      /\ Sum(f, T) = f[x] + Sum(f, U)
      /\ Sum(g, T) = g[x] + Sum(g, U)
  BY <1>3, <1>4, SumFirst
<1>7. /\ f[x] \in Int /\ g[x] \in Int /\ h[x] = f[x] + g[x]
      /\ Sum(f, U) \in Int /\ Sum(g, U) \in Int
  BY <1>4, SumInt
<1>8. Sum(h, T) # Sum(f, T) + Sum(g, T)  OBVIOUS
<1> HIDE DEF Sum, U, x
<1> QED  BY <1>5, <1>6, <1>7, <1>8

\* A common factor of a sum can be taken out.
LEMMA SumScale ==
    ASSUME NEW f, NEW h, NEW S, IsFiniteSet(S), NEW k \in Int,
           \A x \in S : f[x] \in Int /\ h[x] = f[x] * k
    PROVE  SumFunctionOnSet(h, S) = SumFunctionOnSet(f, S) * k
<1> DEFINE Sum(e, T) == SumFunctionOnSet(e, T)
           Bad == {T \in SUBSET S : Sum(h, T) # Sum(f, T) * k}
<1>1. SUFFICES ASSUME Bad # {} PROVE FALSE  OBVIOUS
<1>2. PICK T \in Bad : \A U \in Bad : U \subseteq T => U = T
  <2>1. Bad \in SUBSET SUBSET S  OBVIOUS
  <2> HIDE DEF Bad
  <2> QED  BY <1>1, <2>1, SmallestSubset
<1>3. T # {}
  <2>1. Sum(h, {}) = 0 /\ Sum(f, {}) = 0  BY SumEmpty
  <2>2. Sum(h, T) # Sum(f, T) * k  OBVIOUS
  <2>3. 0 * k = 0  OBVIOUS
  <2> HIDE DEF Sum
  <2> QED  BY <2>1, <2>2, <2>3
<1> DEFINE x == Some(T)
           U == T \ {x}
<1>4. x \in T /\ T \in SUBSET S /\ IsFiniteSet(T) /\ IsFiniteSet(U)
  BY <1>3, SomeIn, FS_Subset
<1>5. Sum(h, U) = Sum(f, U) * k  BY <1>2, <1>4
<1>6. Sum(h, T) = h[x] + Sum(h, U) /\ Sum(f, T) = f[x] + Sum(f, U)
  BY <1>3, <1>4, SumFirst
<1>7. f[x] \in Int /\ h[x] = f[x] * k /\ Sum(f, U) \in Int
  BY <1>4, SumInt
<1>8. Sum(h, T) # Sum(f, T) * k  OBVIOUS
<1> HIDE DEF Sum, U, x
<1>9. (f[x] + Sum(f, U)) * k = f[x] * k + Sum(f, U) * k  BY <1>7
<1> QED  BY <1>5, <1>6, <1>7, <1>8, <1>9

\* What is moved from one element of a sum to another, possibly changed on the way.
Shifted(f, g, S, x, v, y, w) ==
    /\ v \in Int /\ w \in Int /\ (x \in S \/ v = 0) /\ (y \in S \/ w = 0)
    /\ \A z \in S : /\ f[z] \in Int
                     /\ g[z] = f[z] - (IF z = x THEN v ELSE 0) + (IF z = y THEN w ELSE 0)

LEMMA SumShift ==
    ASSUME NEW f, NEW g, NEW S, IsFiniteSet(S), NEW x, NEW v, NEW y, NEW w,
           Shifted(f, g, S, x, v, y, w)
    PROVE  SumFunctionOnSet(g, S) = SumFunctionOnSet(f, S) - v + w
<1> USE DEF Shifted
<1> DEFINE h == [z \in S |-> f[z] - (IF z = x THEN v ELSE 0)]
<1>0. SumFunctionOnSet(f, S) \in Int  BY SumInt
<1>1. \A z \in S : h[z] \in Int /\ g[z] \in Int /\ g[z] = h[z] + (IF z = y THEN w ELSE 0)
  OBVIOUS
<1>2. SumFunctionOnSet(h, S) = SumFunctionOnSet(f, S) - v
  <2>1. CASE x \in S
    <3>1. \A z \in S \ {x} : h[z] = f[z]  OBVIOUS
    <3>2. h[x] = f[x] - v /\ f[x] \in Int  BY <2>1
    <3>3. SumFunctionOnSet(h, S) = SumFunctionOnSet(f, S) + h[x] - f[x]
      <4> HIDE DEF h
      <4> QED  BY <1>1, <2>1, <3>1, SumChange
    <3> HIDE DEF h
    <3> QED  BY <1>0, <3>2, <3>3
  <2>2. CASE x \notin S
    <3>1. \A z \in S : h[z] = f[z]  BY <2>2
    <3>2. SumFunctionOnSet(h, S) = SumFunctionOnSet(f, S)
      <4> HIDE DEF h
      <4> QED  BY <3>1, SumSame
    <3> QED  BY <1>0, <2>2, <3>2
  <2> QED  BY <2>1, <2>2
<1>3. SumFunctionOnSet(h, S) \in Int  BY <1>0, <1>2
<1> HIDE DEF h
<1>4. CASE y \in S
  <2>1. \A z \in S \ {y} : g[z] = h[z]  BY <1>1
  <2>2. g[y] = h[y] + w /\ h[y] \in Int  BY <1>1, <1>4
  <2>3. SumFunctionOnSet(g, S) = SumFunctionOnSet(h, S) + g[y] - h[y]
    BY <1>1, <1>4, <2>1, SumChange
  <2> QED  BY <1>0, <1>2, <1>3, <2>2, <2>3
<1>5. CASE y \notin S
  <2>1. \A z \in S : g[z] = h[z]  BY <1>1, <1>5
  <2>2. SumFunctionOnSet(g, S) = SumFunctionOnSet(h, S)  BY <2>1, SumSame
  <2> QED  BY <1>0, <1>2, <1>5, <2>2
<1> QED  BY <1>4, <1>5

\* A sum over two sets that share nothing is the sum of the two.
LEMMA SumUnion ==
    ASSUME NEW f, NEW S, NEW T, IsFiniteSet(S), IsFiniteSet(T), S \cap T = {},
           \A x \in S \cup T : f[x] \in Int
    PROVE  SumFunctionOnSet(f, S \cup T) = SumFunctionOnSet(f, S) + SumFunctionOnSet(f, T)
<1> DEFINE g == [x \in S \cup T |-> IF x \in S THEN f[x] ELSE 0]
           h == [x \in S \cup T |-> IF x \in T THEN f[x] ELSE 0]
<1>1. IsFiniteSet(S \cup T)  BY FS_Union
<1>2. /\ \A x \in S \cup T : g[x] \in Int /\ h[x] \in Int /\ f[x] = g[x] + h[x]
      /\ \A x \in S : g[x] = f[x]
      /\ \A x \in T : h[x] = f[x]
      /\ \A x \in (S \cup T) \ S : g[x] = 0
      /\ \A x \in (S \cup T) \ T : h[x] = 0
  OBVIOUS
<1> HIDE DEF g, h
<1>3. SumFunctionOnSet(f, S \cup T) = SumFunctionOnSet(g, S \cup T) + SumFunctionOnSet(h, S \cup T)
  BY <1>1, <1>2, SumPlus
<1>4. SumFunctionOnSet(g, S \cup T) = SumFunctionOnSet(g, S)
  BY <1>1, <1>2, SumSupport
<1>5. SumFunctionOnSet(h, S \cup T) = SumFunctionOnSet(h, T)
  BY <1>1, <1>2, SumSupport
<1>6. SumFunctionOnSet(g, S) = SumFunctionOnSet(f, S)  BY <1>2, SumSame
<1>7. SumFunctionOnSet(h, T) = SumFunctionOnSet(f, T)  BY <1>2, SumSame
<1> QED  BY <1>3, <1>4, <1>5, <1>6, <1>7
=============================================================================
