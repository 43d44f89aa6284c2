-------------------------- MODULE TaskRunnerProofs --------------------------
(***************************************************************************)
(* Theorems about the runner, for all scripts, goals and books that meet   *)
(* the assumptions of TaskScripts and any bounds.                          *)
(***************************************************************************)
EXTENDS TaskScripts, TaskProperties, TLAPS

\* The queue without the transaction that was mined.
Without(p, i) == [j \in 1..(Len(p) - 1) |-> p[IF j < i THEN j ELSE j + 1]]

LEMMA WithoutFacts ==
    ASSUME NEW S, NEW p \in Seq(S), NEW i \in 1..Len(p)
    PROVE  /\ Without(p, i) \in Seq(S)
           /\ Len(Without(p, i)) = Len(p) - 1
           /\ \A j \in 1..Len(Without(p, i)) :
                 \E m \in 1..Len(p) : m # i /\ Without(p, i)[j] = p[m]
           /\ \A m \in 1..Len(p) : m # i =>
                 \E j \in 1..Len(Without(p, i)) : Without(p, i)[j] = p[m]
<1> DEFINE q == Without(p, i)
<1>1. Len(p) \in Nat /\ Len(p) - 1 \in Nat /\ i \in Nat
  OBVIOUS
<1>2. \A j \in 1..(Len(p) - 1) : q[j] = p[IF j < i THEN j ELSE j + 1]
  BY DEF Without
<1>3. \A j \in 1..(Len(p) - 1) : (IF j < i THEN j ELSE j + 1) \in 1..Len(p)
  BY <1>1
<1>4. q \in [1..(Len(p) - 1) -> S]
  BY <1>1, <1>3 DEF Without
<1>5. q \in Seq(S) /\ Len(q) = Len(p) - 1
  BY <1>1, <1>4
<1>6. ASSUME NEW j \in 1..(Len(p) - 1)
      PROVE  \E m \in 1..Len(p) : m # i /\ q[j] = p[m]
  <2> DEFINE n == IF j < i THEN j ELSE j + 1
  <2>1. n \in 1..Len(p) /\ n # i /\ q[j] = p[n]
    BY <1>1, <1>2, <1>3
  <2> HIDE DEF n
  <2> QED
    BY <2>1
<1>7. ASSUME NEW m \in 1..Len(p), m # i
      PROVE  \E j \in 1..(Len(p) - 1) : q[j] = p[m]
  <2> DEFINE n == IF m < i THEN m ELSE m - 1
  <2>1. n \in 1..(Len(p) - 1) /\ (IF n < i THEN n ELSE n + 1) = m
    BY <1>1, <1>7
  <2>2. q[n] = p[m]
    BY <1>2, <2>1
  <2> HIDE DEF n
  <2> QED
    BY <2>1, <2>2
<1> HIDE DEF q
<1> QED
  BY <1>5, <1>6, <1>7 DEF q
-----------------------------------------------------------------------------
(* Type correctness.                                                       *)

\* What a transaction writes are values of entries the book has.
Fits(tx) ==
    /\ DOMAIN tx.sets \subseteq DOMAIN book
    /\ \A k \in DOMAIN tx.sets : tx.sets[k] \in Value
    /\ \A d \in tx.cases : d.to \in Value

TypeInv ==
    /\ scope \in Scopes
    /\ task \in scope
    /\ config \in Config
    /\ pc \in 1..(Len(steps) + 1)
    /\ waiting \in BOOLEAN
    /\ waiting => Running /\ pool # <<>>
    /\ \E o \in Books[scope] : DOMAIN book = DOMAIN o
    /\ \A k \in DOMAIN book : book[k] \in Value
    /\ \E S : pool \in Seq(S)
    /\ \A i \in 1..Len(pool) : Fits(pool[i])

\* A script has a length, and the script that runs is at one of its steps.
LEMMA ScriptFacts ==
    ASSUME TypeInv
    PROVE  /\ task \in Task
           /\ Len(steps) \in Nat
           /\ pc \in Nat \ {0}
           /\ Running => pc \in 1..Len(steps) /\ steps[pc] \in StepsOf(task, config)
<1>1. task \in Task /\ config \in Config
  BY ScriptsAreTyped DEF TypeInv
<1>2. Len(steps) \in Nat
  BY <1>1, ScriptsAreTyped DEF steps
<1>3. pc \in 1..(Len(steps) + 1)
  BY DEF TypeInv
<1>4. Running => pc \in 1..Len(steps)
  BY <1>2, <1>3 DEF Running
<1>5. Running => steps[pc] \in StepsOf(task, config)
  BY <1>4 DEF StepsOf, steps
<1> QED
  BY <1>1, <1>2, <1>3, <1>4, <1>5

\* What a step sends fits the book.
LEMMA SentFits ==
    ASSUME TypeInv, Running
    PROVE  Fits(Transaction(steps[pc])) /\ steps[pc].waits \in BOOLEAN
<1> DEFINE s == steps[pc]
           tx == Transaction(s)
<1>1. task \in Task /\ config \in Config /\ s \in StepsOf(task, config)
  BY ScriptFacts DEF TypeInv
<1>2. PICK o \in Books[scope] : DOMAIN book = DOMAIN o
  BY DEF TypeInv
<1>3. DOMAIN s.sets \subseteq DOMAIN book
  BY <1>1, <1>2, ScriptsAreTyped DEF TypeInv
<1>4. /\ s.waits \in BOOLEAN
      /\ s.looks \subseteq DOMAIN s.sets
      /\ \A k \in DOMAIN s.sets : s.sets[k] \in Value
      /\ \A d \in s.cases : d.to \in Value
  BY <1>1, ScriptsAreTyped
<1> HIDE DEF s
<1>5. tx.sets = Writes(s) /\ tx.cases = s.cases
  BY DEF Transaction
<1>6. DOMAIN Writes(s) \subseteq DOMAIN s.sets
      /\ \A k \in DOMAIN Writes(s) : Writes(s)[k] = s.sets[k]
  BY <1>4 DEF Writes, Differing
<1>7. Fits(tx)
  BY <1>3, <1>4, <1>5, <1>6 DEF Fits
<1> QED
  BY <1>4, <1>7 DEF s

\* A transaction that is mined keeps the entries and gives them values.
LEMMA AppliedFits ==
    ASSUME TypeInv, NEW i \in 1..Len(pool)
    PROVE  /\ DOMAIN Applied(pool[i]) = DOMAIN book
           /\ \A k \in DOMAIN book : Applied(pool[i])[k] \in Value
<1> DEFINE tx == pool[i]
<1>1. Fits(tx) /\ \A k \in DOMAIN book : book[k] \in Value
  BY DEF TypeInv
<1> HIDE DEF tx
<1>2. DOMAIN Applied(tx) = DOMAIN book
  BY DEF Applied
<1>3. ASSUME NEW k \in DOMAIN book
      PROVE  Applied(tx)[k] \in Value
  <2>1. CASE k \in DOMAIN tx.sets
    BY <1>1, <2>1 DEF Applied, Fits
  <2>2. CASE k \notin DOMAIN tx.sets /\ Holding(tx, k) = {}
    BY <1>1, <2>2 DEF Applied
  <2>3. CASE k \notin DOMAIN tx.sets /\ Holding(tx, k) # {}
    <3> DEFINE d == CHOOSE c \in Holding(tx, k) : TRUE
    <3>1. d \in Holding(tx, k)
      BY <2>3
    <3>2. Applied(tx)[k] = d.to
      BY <2>3 DEF Applied
    <3> HIDE DEF d
    <3>3. d \in tx.cases
      BY <3>1 DEF Holding
    <3> QED
      BY <1>1, <3>2, <3>3 DEF Fits
  <2> QED
    BY <2>1, <2>2, <2>3
<1> QED
  BY <1>2, <1>3 DEF tx

LEMMA TypeInit == TaskInit => TypeInv
<1> SUFFICES ASSUME TaskInit PROVE TypeInv
  OBVIOUS
<1>1. scope \in Scopes /\ task \in scope /\ config \in Config /\ task \in Task
  BY ScriptsAreTyped DEF TaskInit
<1>2. Len(steps) \in Nat
  BY <1>1, ScriptsAreTyped DEF steps
<1>3. pc \in 1..(Len(steps) + 1)
  BY <1>2 DEF TaskInit
<1>4. book \in Books[scope] /\ \A k \in DOMAIN book : book[k] \in Value
  BY <1>1, ScriptsAreTyped DEF TaskInit
<1>5. pool \in Seq({}) /\ \A i \in 1..Len(pool) : Fits(pool[i])
  BY DEF TaskInit
<1> QED
  BY <1>1, <1>3, <1>4, <1>5 DEF TypeInv, TaskInit

\* The parts an action that leaves the pool and the book alone cannot disturb.
LEMMA PoolKept ==
    ASSUME TypeInv, UNCHANGED <<scope, book, pool>>
    PROVE  /\ scope' \in Scopes
           /\ (\E o \in Books[scope] : DOMAIN book = DOMAIN o)'
           /\ (\A k \in DOMAIN book : book[k] \in Value)'
           /\ (\E S : pool \in Seq(S))'
           /\ (\A i \in 1..Len(pool) : Fits(pool[i]))'
BY DEF TypeInv, Fits

LEMMA TypeStart ==
    ASSUME TypeInv, NEW t, Start(t)
    PROVE  TypeInv'
<1>1. t \in scope /\ t \in Task /\ task' = t /\ config' = config /\ scope' = scope
  BY ScriptsAreTyped DEF Start, TypeInv
<1>2. Len(steps') \in Nat
  BY <1>1, ScriptsAreTyped DEF steps, TypeInv
<1>3. (pc \in 1..(Len(steps) + 1))'
  BY <1>2 DEF Start
<1> QED
  BY <1>1, <1>3, PoolKept DEF Start, TypeInv

\* The actions that take the script from a step to another or to its end.
LEMMA TypeMoves ==
    ASSUME TypeInv, Pass \/ Fail \/ Die
    PROVE  TypeInv'
<1>1. UNCHANGED <<scope, config, book, pool, task>> /\ steps' = steps
  BY DEF Pass, Fail, Die, steps
<1>2. Running /\ Len(steps) \in Nat /\ pc \in 1..Len(steps)
  BY ScriptFacts DEF Pass, Fail, Die
<1>3. pc' \in 1..(Len(steps) + 1) /\ waiting' = FALSE
  BY <1>2 DEF Pass, Fail, Die, TypeInv
<1> QED
  BY <1>1, <1>3, PoolKept DEF TypeInv

LEMMA TypeSubmit ==
    ASSUME TypeInv, Submit
    PROVE  TypeInv'
<1> DEFINE tx == Transaction(steps[pc])
<1>1. UNCHANGED <<scope, config, book, task>> /\ steps' = steps
  BY DEF Submit, steps
<1>2. Running /\ Len(steps) \in Nat /\ pc \in 1..Len(steps)
  BY ScriptFacts DEF Submit
<1>3. Fits(tx) /\ steps[pc].waits \in BOOLEAN
  BY <1>2, SentFits
<1>4. pool' = Append(pool, tx)
  BY DEF Submit
<1> HIDE DEF tx
<1>5. PICK S : pool \in Seq(S)
  BY DEF TypeInv
<1>6. pool \in Seq(S \cup {tx}) /\ tx \in S \cup {tx}
  BY <1>5
<1>7. /\ pool' \in Seq(S \cup {tx})
      /\ Len(pool') = Len(pool) + 1
      /\ \A i \in 1..Len(pool') : pool'[i] = IF i <= Len(pool) THEN pool[i] ELSE tx
  BY <1>4, <1>6
<1>8. \A i \in 1..Len(pool) : Fits(pool[i])
  BY DEF TypeInv
<1>9. \A i \in 1..Len(pool') : pool'[i] = tx \/ \E j \in 1..Len(pool) : pool'[i] = pool[j]
  BY <1>6, <1>7
<1>10. \A i \in 1..Len(pool') : Fits(pool'[i])
  BY <1>3, <1>8, <1>9
<1>11. (\A i \in 1..Len(pool) : Fits(pool[i]))'
  BY <1>1, <1>10 DEF Fits
<1>12. pool' # <<>>
  BY <1>6, <1>7
<1>13. waiting' = steps[pc].waits /\ pc' = (IF steps[pc].waits THEN pc ELSE pc + 1)
  BY DEF Submit
<1>14. waiting' \in BOOLEAN /\ pc' \in 1..(Len(steps) + 1) /\ (waiting' => pc' <= Len(steps))
  BY <1>2, <1>3, <1>13
<1> QED
  BY <1>1, <1>7, <1>11, <1>12, <1>14 DEF TypeInv, Running

LEMMA TypeMine ==
    ASSUME TypeInv, NEW i \in 1..Len(pool), MineAt(i)
    PROVE  TypeInv'
<1>1. UNCHANGED <<scope, config, task>> /\ steps' = steps
  BY DEF MineAt, steps
<1>2. PICK S : pool \in Seq(S)
  BY DEF TypeInv
<1>3. pool' = Without(pool, i)
  BY DEF MineAt, Without
<1>4. /\ pool' \in Seq(S)
      /\ Len(pool') = Len(pool) - 1
      /\ \A j \in 1..Len(pool') : \E m \in 1..Len(pool) : pool'[j] = pool[m]
  BY <1>2, <1>3, WithoutFacts
<1>5. DOMAIN book' = DOMAIN book /\ \A k \in DOMAIN book' : book'[k] \in Value
  BY AppliedFits DEF MineAt, TypeInv
<1>6. \A j \in 1..Len(pool') : Fits(pool'[j])
  BY <1>4 DEF TypeInv
<1>7. (\A j \in 1..Len(pool) : Fits(pool[j]))'
  BY <1>5, <1>6 DEF Fits
<1>8. Len(steps) \in Nat /\ pc \in Nat \ {0} /\ Len(pool) \in Nat
  BY <1>2, ScriptFacts
<1>9. CASE waiting /\ i = Len(pool)
  <2>1. Running /\ waiting' = FALSE /\ pc' \in {pc + 1, Len(steps) + 1}
    BY <1>9 DEF MineAt, TypeInv
  <2>2. pc' \in 1..(Len(steps) + 1)
    BY <1>8, <2>1 DEF Running
  <2> QED
    BY <1>1, <1>4, <1>5, <1>7, <2>1, <2>2 DEF TypeInv
<1>10. CASE ~(waiting /\ i = Len(pool))
  <2>1. UNCHANGED <<waiting, pc>>
    BY <1>10 DEF MineAt
  <2>2. waiting => Len(pool) > 1
    BY <1>8, <1>10
  <2>3. waiting => Len(pool') > 0
    BY <1>4, <1>8, <2>2
  <2>4. waiting => pool' # <<>>
    BY <2>3
  <2> QED
    BY <1>1, <1>4, <1>5, <1>7, <2>1, <2>4 DEF TypeInv, Running
<1> QED
  BY <1>9, <1>10

LEMMA TypeEdit ==
    ASSUME TypeInv, Edit
    PROVE  TypeInv'
<1>1. UNCHANGED <<scope, task, waiting, book, pool>> /\ config' \in Config
  BY DEF Edit
<1>2. task \in Task
  BY ScriptFacts
<1>3. Len(steps') \in Nat
  BY <1>1, <1>2, ScriptsAreTyped DEF steps
<1>4. (pc \in 1..(Len(steps) + 1))'
  BY <1>1, <1>3 DEF Edit, steps
<1>5. ~waiting
  BY DEF Edit, TypeInv
<1> QED
  BY <1>1, <1>4, <1>5, PoolKept DEF TypeInv

LEMMA TypeStep == TypeInv /\ [TaskNext]_taskVars => TypeInv'
<1> SUFFICES ASSUME TypeInv, [TaskNext]_taskVars PROVE TypeInv'
  OBVIOUS
<1>1. CASE Repeat \/ Intervene
  BY <1>1, TypeStart DEF Repeat, Intervene
<1>2. CASE Pass \/ Fail \/ Die
  BY <1>2, TypeMoves
<1>3. CASE Submit
  BY <1>3, TypeSubmit
<1>4. CASE Mine
  BY <1>4, TypeMine DEF Mine
<1>5. CASE Edit
  BY <1>5, TypeEdit
<1>6. CASE UNCHANGED taskVars
  BY <1>6 DEF taskVars, runVars, TypeInv, Running, steps, Fits
<1> QED
  BY <1>1, <1>2, <1>3, <1>4, <1>5, <1>6 DEF TaskNext

LEMMA TypeInvariant == TaskSpec => []TypeInv
BY TypeInit, TypeStep, PTL DEF TaskSpec

\* The state is what it is declared to be in every behaviour: a run is at a
\* step of its script or past it, a script that waits has a transaction in the
\* pool, and what is written are values of entries the contracts have.
THEOREM TypeCorrect == TaskSpec => []TaskTypeOK
<1>1. TypeInv => TaskTypeOK
  BY DEF TypeInv, TaskTypeOK, Fits
<1> QED
  BY <1>1, TypeInvariant, PTL
-----------------------------------------------------------------------------
(* A run of a task that has nothing to do.                                 *)

\* A step of a run that finds everything as the files say does not send.
LEMMA NothingToSend ==
    ASSUME TypeInv, Running, DOMAIN goal # {}, Matches(task, config)
    PROVE  ~Sends(steps[pc])
<1> DEFINE s == steps[pc]
<1>1. task \in Task /\ config \in Config /\ s \in StepsOf(task, config)
  BY ScriptFacts DEF TypeInv
<1>2. DOMAIN Goal[task][config] # {}
  BY DEF goal
<1>3. s.looks \subseteq DOMAIN s.sets
  BY <1>1, ScriptsAreTyped
<1>4. s.live => s.looks # {} /\ s.looks \subseteq DOMAIN Goal[task][config]
  BY <1>1, <1>2, ScriptsLook
<1>5. s.live => \A k \in DOMAIN s.sets \cap DOMAIN Goal[task][config] :
                    s.sets[k] = Goal[task][config][k]
  BY <1>1, <1>2, ScriptsMeetGoals
<1>6. \A k \in DOMAIN Goal[task][config] : book[k] = Goal[task][config][k]
  BY DEF Matches
<1> HIDE DEF s
<1>7. s.live => Differing(s) = {}
  BY <1>3, <1>4, <1>5, <1>6 DEF Differing
<1>8. ~Sends(s)
  BY <1>4, <1>7 DEF Sends
<1> QED
  BY <1>8 DEF s

LEMMA QuietStep == TypeInv /\ QuietInv /\ [TaskNext]_taskVars => QuietInv'
<1> SUFFICES ASSUME TypeInv, QuietInv, [TaskNext]_taskVars PROVE QuietInv'
  OBVIOUS
<1>1. ASSUME NEW t, Start(t) PROVE QuietInv'
  BY <1>1 DEF Start, QuietInv, Matches
<1>2. CASE Pass \/ Fail \/ Die
  BY <1>2 DEF Pass, Fail, Die, QuietInv, Matches, goal
<1>3. CASE Submit
  <2>1. Running /\ Sends(steps[pc]) /\ UNCHANGED <<config, task, silent>>
    BY <1>3 DEF Submit
  <2>2. ~(silent /\ DOMAIN goal # {})
    BY <2>1, NothingToSend DEF QuietInv
  <2> QED
    BY <2>1, <2>2 DEF QuietInv, goal
<1>4. ASSUME NEW i \in 1..Len(pool), MineAt(i) PROVE QuietInv'
  <2>1. UNCHANGED <<config, task, silent>> /\ pool # <<>>
    BY <1>4 DEF MineAt
  <2> QED
    BY <2>1 DEF QuietInv, goal
<1>5. CASE Edit
  BY <1>5 DEF Edit, QuietInv
<1>6. CASE UNCHANGED taskVars
  BY <1>6 DEF taskVars, runVars, QuietInv, Matches, goal
<1> QED
  BY <1>1, <1>2, <1>3, <1>4, <1>5, <1>6 DEF TaskNext, Repeat, Intervene, Mine

\* A task started when the contracts are as the files say, with no
\* transaction pending, sends none.
THEOREM Quiet == TaskSpec => []QuietWhenConfigured
<1>1. TaskInit => QuietInv
  BY DEF TaskInit, QuietInv
<1>2. QuietInv => QuietWhenConfigured
  BY DEF QuietInv, QuietWhenConfigured, goal
<1> QED
  BY <1>1, <1>2, TypeInvariant, QuietStep, PTL DEF TaskSpec
-----------------------------------------------------------------------------
(* A run that ends leaves the contracts as the files say.                  *)

\* The entries the run requires to be set are.
Ready == \A n \in Needed(task, config) : book[n] # Unset

\* Entry k has its value or will get it from the pool.
Assured(k) == book[k] = goal[k] \/ \E i \in 1..Len(pool) : k \in DOMAIN pool[i].sets

\* The facts on which a run rests.
Own == \A i \in 1..Len(pool) : Aligned(pool[i], task, config)
Done == \A k \in DOMAIN goal : \A j \in Behind : Covers(steps[j], k) => Assured(k)

LEMMA RunInvParts ==
    RunInv <=> ((clean /\ DOMAIN goal # {}) => Own /\ (Ready => Done))
BY DEF RunInv, Own, Ready, Done, Assured

\* What a step sends is of the run, and what it covers is then in the pool.
LEMMA SentAligned ==
    ASSUME TypeInv, Running, DOMAIN goal # {}, steps[pc].live
    PROVE  /\ Aligned(Transaction(steps[pc]), task, config)
           /\ \A k \in DOMAIN goal : Covers(steps[pc], k) =>
                 book[k] = goal[k] \/ k \in DOMAIN Transaction(steps[pc]).sets
<1> DEFINE s == steps[pc]
           tx == Transaction(s)
<1>1. /\ task \in Task /\ config \in Config /\ s \in StepsOf(task, config)
      /\ pc \in 1..Len(Script[task][config]) /\ s = Script[task][config][pc]
  BY ScriptFacts DEF TypeInv, steps
<1>2. DOMAIN Goal[task][config] # {}
  BY DEF goal
<1>3. /\ \A k \in DOMAIN s.sets \cap DOMAIN Goal[task][config] :
              s.sets[k] = Goal[task][config][k]
      /\ DOMAIN s.sets \cap Needed(task, config) = {}
      /\ \A d \in s.cases : d.key \notin DOMAIN Goal[task][config] \cup Needed(task, config)
  BY <1>1, <1>2, ScriptsMeetGoals
<1>4. s.looks \subseteq DOMAIN s.sets
  BY <1>1, ScriptsAreTyped
<1>5. s.needs \subseteq Needed(task, config)
  BY <1>1 DEF Needed
<1> HIDE DEF s
<1>6. tx.sets = Writes(s) /\ tx.needs = s.needs /\ tx.cases = s.cases
  BY DEF Transaction
<1>7. /\ DOMAIN Writes(s) \subseteq DOMAIN s.sets
      /\ \A k \in DOMAIN Writes(s) : Writes(s)[k] = s.sets[k]
  BY <1>4 DEF Writes, Differing
<1> HIDE DEF tx
<1>8. Aligned(tx, task, config)
  BY <1>3, <1>5, <1>6, <1>7 DEF Aligned
<1>9. ASSUME NEW k \in DOMAIN goal, Covers(s, k)
      PROVE  book[k] = goal[k] \/ k \in DOMAIN tx.sets
  <2>1. k \in DOMAIN s.sets /\ s.sets[k] = goal[k]
    BY <1>3, <1>9 DEF Covers, goal
  <2>2. CASE k \in s.looks /\ book[k] # s.sets[k]
    BY <1>6, <2>1, <2>2 DEF Writes, Differing
  <2>3. CASE k \in s.looks /\ book[k] = s.sets[k]
    BY <2>1, <2>3
  <2>4. CASE s.looks = {} /\ ~s.split
    BY <1>6, <2>1, <2>4 DEF Writes
  <2> QED
    BY <1>9, <2>2, <2>3, <2>4 DEF Covers
<1> QED
  BY <1>8, <1>9 DEF s, tx

LEMMA RunPass ==
    ASSUME TypeInv, RunInv, Pass
    PROVE  RunInv'
<1>1. /\ UNCHANGED <<config, book, pool, task, clean, waiting>>
      /\ ~waiting /\ pc' = pc + 1 /\ steps' = steps /\ goal' = goal
  BY DEF Pass, steps, goal
<1>2. Running /\ Len(steps) \in Nat /\ pc \in 1..Len(steps)
  BY ScriptFacts DEF Pass
<1> SUFFICES ASSUME clean, DOMAIN goal # {} PROVE Own' /\ (Ready' => Done')
  BY <1>1, RunInvParts DEF RunInv, Own, Ready, Done, Assured
<1>3. Own /\ (Ready => Done)
  BY RunInvParts
<1>4. Own' /\ (Ready' <=> Ready) /\ \A k : Assured(k)' <=> Assured(k)
  BY <1>1, <1>3 DEF Own, Ready, Assured, Aligned
<1>5. Behind' \subseteq Behind \cup {pc}
  BY <1>1, <1>2 DEF Behind
<1>6. ASSUME NEW k \in DOMAIN goal, Covers(steps[pc], k) PROVE Assured(k)
  <2>1. steps[pc].live /\ ~Sends(steps[pc])
    BY <1>6 DEF Covers, Pass
  <2>2. steps[pc].looks # {} /\ Differing(steps[pc]) = {}
    BY <2>1 DEF Sends
  <2>3. book[k] = steps[pc].sets[k] /\ k \in DOMAIN steps[pc].sets
    BY <1>6, <2>2 DEF Covers, Differing
  <2>4. task \in Task /\ config \in Config /\ steps[pc] \in StepsOf(task, config)
    BY <1>2, ScriptFacts DEF TypeInv
  <2>5. steps[pc].sets[k] = goal[k]
    BY <2>1, <2>3, <2>4, ScriptsMeetGoals DEF goal
  <2> QED
    BY <2>3, <2>5 DEF Assured
<1>7. Ready' => Done'
  BY <1>1, <1>3, <1>4, <1>5, <1>6 DEF Done
<1> QED
  BY <1>4, <1>7

LEMMA RunSubmit ==
    ASSUME TypeInv, RunInv, Submit
    PROVE  RunInv'
<1> DEFINE tx == Transaction(steps[pc])
<1>1. /\ UNCHANGED <<config, book, task, clean>> /\ ~waiting
      /\ steps' = steps /\ goal' = goal /\ pool' = Append(pool, tx)
  BY DEF Submit, steps, goal
<1>2. Running /\ Len(steps) \in Nat /\ pc \in 1..Len(steps) /\ steps[pc].live
  BY ScriptFacts DEF Submit, Sends
<1>3. pc' = (IF steps[pc].waits THEN pc ELSE pc + 1) /\ waiting' = steps[pc].waits
  BY DEF Submit
<1> SUFFICES ASSUME clean, DOMAIN goal # {} PROVE Own' /\ (Ready' => Done')
  BY <1>1, RunInvParts DEF RunInv, Own, Ready, Done, Assured
<1>4. Own /\ (Ready => Done)
  BY RunInvParts
<1>5. /\ Aligned(tx, task, config)
      /\ \A k \in DOMAIN goal : Covers(steps[pc], k) =>
            book[k] = goal[k] \/ k \in DOMAIN tx.sets
  BY <1>2, SentAligned
<1> HIDE DEF tx
<1>6. PICK S : pool \in Seq(S)
  BY DEF TypeInv
<1>7. pool \in Seq(S \cup {tx}) /\ tx \in S \cup {tx} /\ Len(pool) \in Nat
  BY <1>6
<1>8. /\ Len(pool') = Len(pool) + 1
      /\ \A i \in 1..Len(pool) : pool'[i] = pool[i]
      /\ pool'[Len(pool) + 1] = tx
  BY <1>1, <1>7
<1>9. \A i \in 1..Len(pool') : pool'[i] = tx \/ \E j \in 1..Len(pool) : pool'[i] = pool[j]
  BY <1>7, <1>8
<1>10. Own'
  BY <1>1, <1>4, <1>5, <1>9 DEF Own, Aligned
<1>11. \A k : Assured(k) => Assured(k)'
  BY <1>1, <1>7, <1>8 DEF Assured
<1>12. \A k \in DOMAIN goal : Covers(steps[pc], k) => Assured(k)'
  <2>1. Len(pool) + 1 \in 1..Len(pool')
    BY <1>7, <1>8
  <2> QED
    BY <1>1, <1>5, <1>8, <2>1 DEF Assured
<1>13. Behind' \subseteq Behind \cup {pc}
  BY <1>1, <1>2, <1>3 DEF Behind
<1>14. Ready' <=> Ready
  BY <1>1 DEF Ready
<1>15. Ready' => Done'
  BY <1>1, <1>4, <1>11, <1>12, <1>13, <1>14 DEF Done
<1> QED
  BY <1>10, <1>15

LEMMA RunMine ==
    ASSUME TypeInv, RunInv, NEW i \in 1..Len(pool), MineAt(i)
    PROVE  RunInv'
<1> DEFINE tx == pool[i]
<1>1. UNCHANGED <<config, task>> /\ steps' = steps /\ goal' = goal
  BY DEF MineAt, steps, goal
<1>2. clean' => clean
  BY DEF MineAt
<1> SUFFICES ASSUME clean', DOMAIN goal # {} PROVE Own' /\ (Ready' => Done')
  BY <1>1, RunInvParts DEF RunInv, Own, Ready, Done, Assured
<1>3. Own /\ (Ready => Done)
  BY <1>2, RunInvParts
<1>4. PICK S : pool \in Seq(S)
  BY DEF TypeInv
<1>5. pool' = Without(pool, i)
  BY DEF MineAt, Without
<1>6. /\ \A j \in 1..Len(pool') : \E m \in 1..Len(pool) : m # i /\ pool'[j] = pool[m]
      /\ \A m \in 1..Len(pool) : m # i => \E j \in 1..Len(pool') : pool'[j] = pool[m]
  BY ZenonT(60), <1>4, <1>5, WithoutFacts
<1>7. Own'
  <2>1. \A j \in 1..Len(pool') : Aligned(pool'[j], task, config)
    BY <1>3, <1>6 DEF Own
  <2> QED
    BY <1>1, <2>1 DEF Own
<1>8. Aligned(tx, task, config)
  BY <1>3 DEF Own
<1>9. /\ DOMAIN goal \subseteq DOMAIN book
      /\ Needed(task, config) \subseteq DOMAIN book
  BY ScriptsAreTyped DEF TypeInv, goal
<1>10. book' = IF Succeeds(tx) THEN Applied(tx) ELSE book
  BY DEF MineAt
<1> HIDE DEF tx
<1>11. \A k \in Needed(task, config) : book'[k] = book[k]
  <2> SUFFICES ASSUME NEW k \in Needed(task, config) PROVE book'[k] = book[k]
    OBVIOUS
  <2>1. k \notin DOMAIN tx.sets /\ Holding(tx, k) = {} /\ k \in DOMAIN book
    BY <1>8, <1>9 DEF Aligned, Holding
  <2> QED
    BY <1>10, <2>1 DEF Applied
<1>12. Ready' <=> Ready
  BY <1>1, <1>11 DEF Ready
<1>13. ASSUME Ready PROVE Done'
  <2>1. Succeeds(tx)
    BY <1>8, <1>13 DEF Succeeds, Ready, Aligned
  <2>2. ASSUME NEW k \in DOMAIN goal, Assured(k) PROVE Assured(k)'
    <3>1. k \in DOMAIN book /\ Holding(tx, k) = {}
      BY <1>8, <1>9 DEF Aligned, Holding, goal
    <3>2. CASE k \in DOMAIN tx.sets
      <4>1. tx.sets[k] = goal[k]
        BY <1>8, <3>2 DEF Aligned, goal
      <4>2. book'[k] = goal[k]
        BY <1>10, <2>1, <3>1, <3>2, <4>1 DEF Applied
      <4> QED
        BY <1>1, <4>2 DEF Assured
    <3>3. CASE k \notin DOMAIN tx.sets /\ book[k] = goal[k]
      <4>1. book'[k] = book[k]
        BY <1>10, <2>1, <3>1, <3>3 DEF Applied
      <4> QED
        BY <1>1, <3>3, <4>1 DEF Assured
    <3>4. CASE k \notin DOMAIN tx.sets /\ book[k] # goal[k]
      <4>1. PICK m \in 1..Len(pool) : k \in DOMAIN pool[m].sets
        BY <2>2, <3>4 DEF Assured
      <4>2. m # i
        BY <3>4, <4>1 DEF tx
      <4>3. PICK j \in 1..Len(pool') : pool'[j] = pool[m]
        BY <1>6, <4>2
      <4> QED
        BY <4>1, <4>3 DEF Assured
    <3> QED
      BY <3>2, <3>3, <3>4
  <2>3. Behind' = Behind
    <3>1. CASE waiting /\ i = Len(pool)
      <4>1. waiting' = FALSE /\ pc' = pc + 1
        BY <2>1, <3>1 DEF MineAt, tx
      <4>2. Running /\ pc \in Nat
        BY <3>1, ScriptFacts DEF TypeInv
      <4> QED
        BY <1>1, <3>1, <4>1, <4>2, ScriptFacts DEF Behind
    <3>2. CASE ~(waiting /\ i = Len(pool))
      <4>1. waiting' = waiting /\ pc' = pc
        BY <3>2 DEF MineAt
      <4> QED
        BY <1>1, <4>1 DEF Behind
    <3> QED
      BY <3>1, <3>2
  <2>4. Done
    BY <1>3, <1>13
  <2> QED
    BY <1>1, <2>2, <2>3, <2>4 DEF Done
<1> QED
  BY <1>7, <1>12, <1>13

LEMMA RunStep == TypeInv /\ RunInv /\ [TaskNext]_taskVars => RunInv'
<1> SUFFICES ASSUME TypeInv, RunInv, [TaskNext]_taskVars PROVE RunInv'
  OBVIOUS
<1>1. ASSUME NEW t, Start(t) PROVE RunInv'
  <2>1. clean' = (pool = <<>>) /\ pool' = pool /\ pc' = 1 /\ waiting' = FALSE
    BY <1>1 DEF Start
  <2>2. Behind' = {}
    BY <2>1 DEF Behind
  <2>3. clean' => Len(pool') = 0
    BY <2>1
  <2> QED
    BY <2>2, <2>3 DEF RunInv
<1>2. CASE Pass
  BY <1>2, RunPass
<1>3. CASE Submit
  BY <1>3, RunSubmit
<1>4. CASE Mine
  BY <1>4, RunMine DEF Mine
<1>5. CASE Fail \/ Die \/ Edit
  BY <1>5 DEF Fail, Die, Edit, RunInv
<1>6. CASE UNCHANGED taskVars
  BY <1>6 DEF taskVars, runVars, RunInv, Behind, steps, goal, Aligned
<1> QED
  BY <1>1, <1>2, <1>3, <1>4, <1>5, <1>6 DEF TaskNext, Repeat, Intervene

\* A task that ran to its end on its own, and whose transactions are mined,
\* leaves the contracts as the files say, if what its calls require is set.
THEOREM DoneCorrect == TaskSpec => []DoneMeansConfigured
<1>1. TaskInit => RunInv
  BY DEF TaskInit, RunInv
<1>2. ASSUME TypeInv, RunInv PROVE DoneMeansConfigured
  <2> SUFFICES ASSUME clean, Ended, Ready, NEW k \in DOMAIN goal
               PROVE  book[k] = goal[k]
    BY DEF DoneMeansConfigured, Matches, Ready, goal
  <2>1. task \in Task /\ config \in Config
    BY <1>2, ScriptFacts DEF TypeInv
  <2>2. PICK s \in StepsOf(task, config) : Covers(s, k)
    BY <2>1, ScriptsMeetGoals DEF goal
  <2>3. PICK j \in 1..Len(steps) : steps[j] = s
    BY DEF StepsOf, steps
  <2>4. j \in Behind
    BY <1>2, ScriptFacts, <2>3 DEF Ended, Running, Behind
  <2>5. Done
    BY <1>2, RunInvParts
  <2>6. Assured(k)
    BY <2>2, <2>3, <2>4, <2>5 DEF Done
  <2>7. Len(pool) = 0
    BY DEF Ended
  <2> QED
    BY <2>6, <2>7 DEF Assured
<1> QED
  BY <1>1, <1>2, TypeInvariant, RunStep, PTL DEF TaskSpec

-----------------------------------------------------------------------------
(* Mappings.                                                               *)

\* The two calls of the register, with the chain, token and target they are for.
Maps(tx) == \E t \in Tokens, c \in Chains : \E x \in TargetsOf(t, c) : IsMapCall(tx, t, c, x)
Unmaps(tx) == \E c \in Chains, x \in Value : IsUnmapCall(tx, c, x)

\* The two parts of MapInv.
Resolved ==
    \A k \in DOMAIN book : (k[1] = "map" /\ book[k] # Unset) =>
        LET s == <<"source", k[3], book[k]>>
        IN  s \in DOMAIN book /\ book[s] = k[2] /\ book[k] \in TargetsOf(k[2], k[3])
Mapping == \A i \in 1..Len(pool) : Remaps(pool[i]) => Maps(pool[i]) \/ Unmaps(pool[i])

LEMMA MapInvParts == MapInv <=> Resolved /\ Mapping
BY DEF MapInv, Resolved, Mapping, Maps, Unmaps

\* The keys of the book's mapping entries.
LEMMA MapKeys ==
    ASSUME TypeInv, NEW k \in DOMAIN book
    PROVE  /\ k[1] = "map" =>
                 k[2] \in Tokens /\ k[3] \in Chains /\ k = <<"map", k[2], k[3]>>
           /\ k[1] = "source" =>
                 /\ k[2] \in Chains /\ k = <<"source", k[2], k[3]>>
                 /\ \A t \in Tokens : <<"map", t, k[2]>> \in DOMAIN book
<1>1. scope \in Scopes /\ \E o \in Books[scope] : DOMAIN book = DOMAIN o
  BY DEF TypeInv
<1>2. PICK o \in Books[scope] : DOMAIN book = DOMAIN o
  BY <1>1
<1>3. k \in DOMAIN o
  BY <1>2
<1> QED
  BY <1>1, <1>2, <1>3, BooksResolve

\* What a transaction of mapToken writes.
LEMMA MapCallFacts ==
    ASSUME NEW tx, NEW t, NEW c, NEW x, IsMapCall(tx, t, c, x)
    PROVE  /\ DOMAIN tx.sets = {<<"map", t, c>>, <<"source", c, x>>}
           /\ tx.sets[<<"map", t, c>>] = x
           /\ tx.sets[<<"source", c, x>>] = t
           /\ \A k : Holding(tx, k) = {}
<1>1. <<"map", t, c>> # <<"source", c, x>>
  OBVIOUS
<1>2. tx.sets = MapCall(t, c, x) /\ tx.cases = {}
  BY DEF IsMapCall
<1>3. \A k : Holding(tx, k) = {}
  BY <1>2 DEF Holding
<1> QED
  BY <1>1, <1>2, <1>3 DEF MapCall

\* A transaction clears the mapping of the token found under a target, if
\* that token maps to it, and no other.
Clears(tx, c, x) ==
    /\ \A k : \A d \in Holding(tx, k) : \E t \in Tokens :
          /\ k = <<"map", t, c>> /\ d.to = Unset
          /\ book[<<"source", c, x>>] = t /\ book[<<"map", t, c>>] = x
    /\ \A t \in Tokens :
          book[<<"source", c, x>>] = t /\ book[<<"map", t, c>>] = x
              => Holding(tx, <<"map", t, c>>) # {}

\* What a transaction of unmapToken writes.
LEMMA UnmapCallFacts ==
    ASSUME NEW tx, NEW c, NEW x, IsUnmapCall(tx, c, x)
    PROVE  /\ DOMAIN tx.sets = {<<"source", c, x>>}
           /\ tx.sets[<<"source", c, x>>] = Unset
           /\ Clears(tx, c, x)
<1>1. tx.sets = [k \in {<<"source", c, x>>} |-> Unset] /\ tx.cases = UnmapClears(c, x)
  BY DEF IsUnmapCall
<1>2. /\ DOMAIN tx.sets = {<<"source", c, x>>}
      /\ tx.sets[<<"source", c, x>>] = Unset
  BY <1>1
<1> DEFINE If(t) == [k \in {<<"source", c, x>>, <<"map", t, c>>} |->
                        IF k[1] = "source" THEN t ELSE x]
           Clear(t) == [key |-> <<"map", t, c>>, if |-> If(t), to |-> Unset]
<1>3. tx.cases = {Clear(t) : t \in Tokens}
  BY <1>1 DEF UnmapClears, Tokens
<1>4. ASSUME NEW t
      PROVE  /\ DOMAIN If(t) = {<<"source", c, x>>, <<"map", t, c>>}
             /\ If(t)[<<"source", c, x>>] = t /\ If(t)[<<"map", t, c>>] = x
  OBVIOUS
<1>5. \A t : Clear(t).key = <<"map", t, c>> /\ Clear(t).if = If(t) /\ Clear(t).to = Unset
  OBVIOUS
<1> HIDE DEF If, Clear
<1>6. ASSUME NEW k, NEW d \in Holding(tx, k)
      PROVE  \E t \in Tokens :
                 /\ k = <<"map", t, c>> /\ d.to = Unset
                 /\ book[<<"source", c, x>>] = t /\ book[<<"map", t, c>>] = x
  <2>1. d \in tx.cases /\ d.key = k /\ \A j \in DOMAIN d.if : book[j] = d.if[j]
    BY DEF Holding
  <2>2. PICK t \in Tokens : d = Clear(t)
    BY <1>3, <2>1
  <2>3. d.key = <<"map", t, c>> /\ d.if = If(t) /\ d.to = Unset
    BY <1>5, <2>2
  <2>4. /\ DOMAIN If(t) = {<<"source", c, x>>, <<"map", t, c>>}
        /\ If(t)[<<"source", c, x>>] = t /\ If(t)[<<"map", t, c>>] = x
    BY <1>4
  <2> QED
    BY <2>1, <2>3, <2>4
<1>7. ASSUME NEW t \in Tokens, book[<<"source", c, x>>] = t, book[<<"map", t, c>>] = x
      PROVE  Clear(t) \in Holding(tx, <<"map", t, c>>)
  <2>1. Clear(t) \in tx.cases
    BY <1>3
  <2>2. Clear(t).key = <<"map", t, c>> /\ Clear(t).if = If(t)
    BY <1>5
  <2>3. /\ DOMAIN If(t) = {<<"source", c, x>>, <<"map", t, c>>}
        /\ If(t)[<<"source", c, x>>] = t /\ If(t)[<<"map", t, c>>] = x
    BY <1>4
  <2>4. \A j \in DOMAIN Clear(t).if : book[j] = Clear(t).if[j]
    BY <1>7, <2>2, <2>3
  <2> QED
    BY <2>1, <2>2, <2>4 DEF Holding
<1> QED
  BY <1>2, <1>6, <1>7 DEF Clears

\* A transaction that writes nothing of a mapping leaves the mappings alone.
LEMMA OthersKeep ==
    ASSUME TypeInv, NEW i \in 1..Len(pool), MineAt(i), ~Remaps(pool[i]),
           NEW k \in DOMAIN book, OfMapping(k)
    PROVE  book'[k] = book[k]
<1> DEFINE tx == pool[i]
<1>1. book' = IF Succeeds(tx) THEN Applied(tx) ELSE book
  BY DEF MineAt
<1> HIDE DEF tx
<1>2. k \notin DOMAIN tx.sets /\ Holding(tx, k) = {}
  BY DEF Remaps, Holding, tx
<1> QED
  BY <1>1, <1>2 DEF Applied

\* The two calls keep mapped tokens under their targets.
LEMMA MapsKeep ==
    ASSUME TypeInv, Resolved, NEW i \in 1..Len(pool), MineAt(i),
           NEW t \in Tokens, NEW c \in Chains, NEW x \in TargetsOf(t, c),
           IsMapCall(pool[i], t, c, x)
    PROVE  Resolved'
<1> DEFINE tx == pool[i]
           a == <<"map", t, c>>
           b == <<"source", c, x>>
<1>1. book' = (IF Succeeds(tx) THEN Applied(tx) ELSE book) /\ Fits(tx)
  BY DEF MineAt, TypeInv
<1>2. /\ DOMAIN tx.sets = {a, b} /\ tx.sets[a] = x /\ tx.sets[b] = t
      /\ \A k : Holding(tx, k) = {}
  BY MapCallFacts
<1>3. a[1] = "map" /\ a[2] = t /\ a[3] = c /\ b[1] = "source" /\ b[2] = c /\ b[3] = x
  OBVIOUS
<1> HIDE DEF tx
<1>4. CASE ~Succeeds(tx)
  BY <1>1, <1>4 DEF Resolved
<1>5. CASE Succeeds(tx)
  <2>1. /\ DOMAIN book' = DOMAIN book /\ a \in DOMAIN book /\ b \in DOMAIN book
        /\ \A k \in DOMAIN book : book'[k] = IF k \in {a, b} THEN tx.sets[k] ELSE book[k]
    BY <1>1, <1>2, <1>5 DEF Applied, Fits
  <2>2. a # b /\ book'[a] = x /\ book'[b] = t
    BY <1>2, <1>3, <2>1
  <2> SUFFICES ASSUME NEW k \in DOMAIN book, k[1] = "map", book'[k] # Unset
               PROVE  LET s == <<"source", k[3], book'[k]>>
                      IN  /\ s \in DOMAIN book /\ book'[s] = k[2]
                          /\ book'[k] \in TargetsOf(k[2], k[3])
    BY <2>1 DEF Resolved
  <2>3. k[2] \in Tokens /\ k[3] \in Chains /\ k = <<"map", k[2], k[3]>>
    BY MapKeys
  <2> HIDE DEF a, b
  <2>4. CASE k = a
    <3>1. <<"source", k[3], book'[k]>> = b
      BY <1>3, <2>2, <2>4 DEF b
    <3>2. book'[b] = k[2] /\ book'[k] \in TargetsOf(k[2], k[3])
      BY <1>3, <2>2, <2>4
    <3> QED
      BY <2>1, <3>1, <3>2
  <2>5. CASE k # a
    <3> DEFINE s == <<"source", k[3], book[k]>>
    <3>1. book'[k] = book[k]
      BY <1>3, <2>1, <2>5
    <3>2. s \in DOMAIN book /\ book[s] = k[2] /\ book[k] \in TargetsOf(k[2], k[3])
      BY <3>1 DEF Resolved
    <3>3. s # b
      <4> SUFFICES ASSUME s = b PROVE FALSE
        OBVIOUS
      <4>1. k[3] = c /\ book[k] = x
        BY DEF b
      <4>2. k[2] # t
        BY <2>3, <2>5, <4>1 DEF a
      <4> QED
        BY <2>3, <3>2, <4>1, <4>2, ScriptsMap
    <3>4. s # a
      BY <1>3
    <3>5. book'[s] = k[2]
      BY <2>1, <3>2, <3>3, <3>4
    <3> QED
      BY <3>1, <3>2, <3>5
  <2> QED
    BY <2>4, <2>5
<1> QED
  BY <1>4, <1>5

LEMMA UnmapsKeep ==
    ASSUME TypeInv, Resolved, NEW i \in 1..Len(pool), MineAt(i),
           NEW c, NEW x, IsUnmapCall(pool[i], c, x)
    PROVE  Resolved'
<1> DEFINE tx == pool[i]
           b == <<"source", c, x>>
<1>1. book' = (IF Succeeds(tx) THEN Applied(tx) ELSE book) /\ Fits(tx)
  BY DEF MineAt, TypeInv
<1>2. DOMAIN tx.sets = {b} /\ tx.sets[b] = Unset /\ Clears(tx, c, x)
  BY UnmapCallFacts
<1>3. b[1] = "source" /\ b[2] = c /\ b[3] = x
  OBVIOUS
<1> HIDE DEF tx
<1>4. CASE ~Succeeds(tx)
  BY <1>1, <1>4 DEF Resolved
<1>5. CASE Succeeds(tx)
  <2>1. DOMAIN book' = DOMAIN book
    BY <1>1, <1>5 DEF Applied
  <2> SUFFICES ASSUME NEW k \in DOMAIN book, k[1] = "map", book'[k] # Unset
               PROVE  LET s == <<"source", k[3], book'[k]>>
                      IN  /\ s \in DOMAIN book /\ book'[s] = k[2]
                          /\ book'[k] \in TargetsOf(k[2], k[3])
    BY <2>1 DEF Resolved
  <2> HIDE DEF b
  <2>2. k[2] \in Tokens /\ k = <<"map", k[2], k[3]>>
    BY MapKeys
  <2>3. k \notin DOMAIN tx.sets
    BY <1>2, <1>3
  <2>4. Holding(tx, k) = {}
    <3> SUFFICES ASSUME Holding(tx, k) # {} PROVE FALSE
      OBVIOUS
    <3> DEFINE d == CHOOSE e \in Holding(tx, k) : TRUE
    <3>1. d \in Holding(tx, k)
      OBVIOUS
    <3>2. book'[k] = d.to
      BY <1>1, <1>5, <2>3 DEF Applied
    <3> HIDE DEF d
    <3> QED
      BY <1>2, <3>1, <3>2 DEF Clears
  <2>5. book'[k] = book[k]
    BY <1>1, <1>5, <2>3, <2>4 DEF Applied
  <2> DEFINE s == <<"source", k[3], book[k]>>
  <2>6. s \in DOMAIN book /\ book[s] = k[2] /\ book[k] \in TargetsOf(k[2], k[3])
    BY <2>5 DEF Resolved
  <2>7. s # b
    <3> SUFFICES ASSUME s = b PROVE FALSE
      OBVIOUS
    <3>1. k[3] = c /\ book[k] = x
      BY DEF b
    <3>2. Holding(tx, <<"map", k[2], c>>) # {}
      BY <1>2, <2>2, <2>6, <3>1 DEF Clears, b
    <3> QED
      BY <2>2, <2>4, <3>1, <3>2
  <2>8. Holding(tx, s) = {}
    <3>1. \A t : s # <<"map", t, c>>
      OBVIOUS
    <3> QED
      BY <1>2, <3>1 DEF Clears
  <2>9. book'[s] = book[s]
    BY <1>1, <1>2, <1>5, <2>6, <2>7, <2>8 DEF Applied
  <2> QED
    BY <2>5, <2>6, <2>9
<1> QED
  BY <1>4, <1>5

LEMMA OthersKeepResolved ==
    ASSUME TypeInv, Resolved, NEW i \in 1..Len(pool), MineAt(i), ~Remaps(pool[i])
    PROVE  Resolved'
<1>1. DOMAIN book' = DOMAIN book
  BY AppliedFits DEF MineAt
<1> SUFFICES ASSUME NEW k \in DOMAIN book, k[1] = "map", book'[k] # Unset
             PROVE  LET s == <<"source", k[3], book'[k]>>
                    IN  /\ s \in DOMAIN book /\ book'[s] = k[2]
                        /\ book'[k] \in TargetsOf(k[2], k[3])
  BY <1>1 DEF Resolved
<1>2. book'[k] = book[k]
  BY OthersKeep DEF OfMapping
<1> DEFINE s == <<"source", k[3], book[k]>>
<1>3. s \in DOMAIN book /\ book[s] = k[2] /\ book[k] \in TargetsOf(k[2], k[3])
  BY <1>2 DEF Resolved
<1>4. s[1] = "source"
  OBVIOUS
<1> HIDE DEF s
<1>5. book'[s] = book[s]
  BY <1>3, <1>4, OthersKeep DEF OfMapping
<1> QED
  BY <1>2, <1>3, <1>5 DEF s

\* What a step of a script sends to the register is one of the two calls.
LEMMA SentMaps ==
    ASSUME TypeInv, Running, Remaps(Transaction(steps[pc]))
    PROVE  Maps(Transaction(steps[pc])) \/ Unmaps(Transaction(steps[pc]))
<1> DEFINE s == steps[pc]
           tx == Transaction(s)
<1>1. task \in Task /\ config \in Config /\ s \in StepsOf(task, config)
  BY ScriptFacts DEF TypeInv
<1>2. s.looks \subseteq DOMAIN s.sets
  BY <1>1, ScriptsAreTyped
<1> HIDE DEF s
<1>3. tx.sets = Writes(s) /\ tx.cases = s.cases
  BY DEF Transaction
<1>4. DOMAIN Writes(s) \subseteq DOMAIN s.sets
  BY <1>2 DEF Writes, Differing
<1>5. Remaps(tx)
  BY DEF s
<1>6. Remaps(s)
  BY <1>3, <1>4, <1>5 DEF Remaps
<1>7. ~s.split /\ (Maps(s) \/ Unmaps(s))
  BY <1>1, <1>6, ScriptsMap DEF Maps, Unmaps
<1>8. tx.sets = s.sets
  BY <1>3, <1>7 DEF Writes
<1> HIDE DEF tx
<1>9. Maps(tx) \/ Unmaps(tx)
  BY <1>3, <1>7, <1>8 DEF Maps, Unmaps, IsMapCall, IsUnmapCall
<1> QED
  BY <1>9 DEF tx, s

LEMMA MapSubmit ==
    ASSUME TypeInv, Resolved, Mapping, Submit
    PROVE  Resolved' /\ Mapping'
<1> DEFINE tx == Transaction(steps[pc])
<1>1. book' = book /\ pool' = Append(pool, tx) /\ Running
  BY DEF Submit
<1>2. Remaps(tx) => Maps(tx) \/ Unmaps(tx)
  BY <1>1, SentMaps
<1> HIDE DEF tx
<1>3. PICK S : pool \in Seq(S)
  BY DEF TypeInv
<1>4. pool \in Seq(S \cup {tx}) /\ tx \in S \cup {tx}
  BY <1>3
<1>5. \A i \in 1..Len(pool') : pool'[i] = tx \/ \E j \in 1..Len(pool) : pool'[i] = pool[j]
  BY <1>1, <1>4
<1>6. Mapping'
  BY <1>2, <1>5 DEF Mapping, Remaps, Maps, Unmaps
<1> QED
  BY <1>1, <1>6 DEF Resolved

LEMMA MapMine ==
    ASSUME TypeInv, Resolved, Mapping, NEW i \in 1..Len(pool), MineAt(i)
    PROVE  Resolved' /\ Mapping'
<1>1. PICK S : pool \in Seq(S)
  BY DEF TypeInv
<1>2. pool' = Without(pool, i)
  BY DEF MineAt, Without
<1>3. \A j \in 1..Len(pool') : \E m \in 1..Len(pool) : pool'[j] = pool[m]
  BY <1>1, <1>2, WithoutFacts
<1>4. Mapping'
  BY <1>3 DEF Mapping, Remaps, Maps, Unmaps
<1>5. ~Remaps(pool[i]) => Resolved'
  BY OthersKeepResolved
<1>6. Maps(pool[i]) => Resolved'
  BY MapsKeep DEF Maps
<1>7. Unmaps(pool[i]) => Resolved'
  BY UnmapsKeep DEF Unmaps
<1> QED
  BY <1>4, <1>5, <1>6, <1>7 DEF Mapping

LEMMA MapStep == TypeInv /\ MapInv /\ [TaskNext]_taskVars => MapInv'
<1> SUFFICES ASSUME TypeInv, Resolved, Mapping, [TaskNext]_taskVars
             PROVE  Resolved' /\ Mapping'
  BY MapInvParts DEF MapInv, Resolved, Mapping, Maps, Unmaps
<1>1. CASE Submit
  BY <1>1, MapSubmit
<1>2. CASE Mine
  BY <1>2, MapMine DEF Mine
<1>3. CASE UNCHANGED <<book, pool>>
  BY <1>3 DEF Resolved, Mapping
<1> QED
  BY <1>1, <1>2, <1>3
     DEF TaskNext, Repeat, Intervene, Start, Pass, Fail, Die, Edit, taskVars, runVars

LEMMA MapInit == TaskInit => MapInv
<1> SUFFICES ASSUME TaskInit PROVE MapInv
  OBVIOUS
<1>1. scope \in Scopes /\ book \in Books[scope] /\ Mapping
  BY DEF TaskInit, Mapping
<1> SUFFICES ASSUME NEW k \in DOMAIN book, k[1] = "map", book[k] # Unset
             PROVE  LET s == <<"source", k[3], book[k]>>
                    IN  s \in DOMAIN book /\ book[s] = k[2] /\ book[k] \in TargetsOf(k[2], k[3])
  BY <1>1, MapInvParts DEF Resolved
<1>2. k = <<"map", k[2], k[3]>>
  BY <1>1, BooksResolve
<1>3. book[k] \in TargetsOf(k[2], k[3])
  BY <1>1, <1>2 DEF TargetsOf
<1> QED
  BY <1>1, <1>3, BooksResolve

LEMMA MapInvariant == TaskSpec => []MapInv
BY MapInit, MapStep, TypeInvariant, PTL DEF TaskSpec

\* However mappings are replaced, unmapped in whatever order or mapped again,
\* by scripts that die, repeat or overlap: a token the register maps to a
\* target is the token it finds under that target, if no two tokens of a chain
\* are ever given one (mapToken and unmapToken of the register).
THEOREM MappingsResolve == TaskSpec => []TargetNamesItsSource
<1>1. MapInv => TargetNamesItsSource
  BY DEF MapInv, TargetNamesItsSource
<1> QED
  BY <1>1, MapInvariant, PTL

\* Unmapping a target no token maps to any more leaves every mapping alone.
THEOREM StaleUnmapsHarmless == TaskSpec => StaleUnmapHarmless
<1> DEFINE Harmless ==
               \A k \in DOMAIN book :
                   (k[1] = "source" /\ book[k] # Unset /\ book'[k] = Unset)
                   => LET At(t) == <<"map", t, k[2]>>
                      IN  (\A t \in Range(TokenOrder) : book[At(t)] # k[3])
                             => \A t \in Range(TokenOrder) : book'[At(t)] = book[At(t)]
<1>1. ASSUME TypeInv, Mapping, [TaskNext]_taskVars
      PROVE  [Harmless]_book
  <2> SUFFICES ASSUME book' # book, NEW k \in DOMAIN book, k[1] = "source",
                      book[k] # Unset, book'[k] = Unset,
                      \A t \in Tokens : book[<<"map", t, k[2]>>] # k[3],
                      NEW t \in Tokens
               PROVE  book'[<<"map", t, k[2]>>] = book[<<"map", t, k[2]>>]
    BY DEF Tokens
  <2>1. PICK i \in 1..Len(pool) : MineAt(i)
    BY <1>1 DEF TaskNext, Repeat, Intervene, Start, Pass, Submit, Fail, Die, Edit,
                taskVars, runVars, Mine
  <2> DEFINE tx == pool[i]
  <2>2. book' = Applied(tx) /\ Fits(tx)
    BY <1>1, <2>1 DEF MineAt, TypeInv
  <2>3. k = <<"source", k[2], k[3]>> /\ <<"map", t, k[2]>> \in DOMAIN book
    BY <1>1, MapKeys
  <2>4. Remaps(tx)
    BY <1>1, <2>1, OthersKeep DEF OfMapping
  <2> HIDE DEF tx
  <2>5. ~Maps(tx)
    <3> SUFFICES ASSUME NEW q \in Tokens, NEW c \in Chains, NEW x \in TargetsOf(q, c),
                        IsMapCall(tx, q, c, x)
                 PROVE  FALSE
      BY DEF Maps
    <3>1. DOMAIN tx.sets = {<<"map", q, c>>, <<"source", c, x>>}
          /\ tx.sets[<<"source", c, x>>] = q
      BY DEF IsMapCall, MapCall
    <3>2. k # <<"map", q, c>> /\ Holding(tx, k) = {}
      BY DEF IsMapCall, Holding
    <3>3. k = <<"source", c, x>>
      BY <2>2, <3>1, <3>2 DEF Applied
    <3>4. book'[k] = q
      BY <2>2, <3>1, <3>3 DEF Applied
    <3> QED
      BY <3>4, ScriptsMap
  <2>6. PICK c \in Chains, x \in Value : IsUnmapCall(tx, c, x)
    BY <1>1, <2>4, <2>5 DEF Mapping, Unmaps, tx
  <2>7. DOMAIN tx.sets = {<<"source", c, x>>} /\ Clears(tx, c, x)
    BY <2>6, UnmapCallFacts
  <2>8. k = <<"source", c, x>>
    <3>1. Holding(tx, k) = {}
      <4>1. \A q : k # <<"map", q, c>>
        OBVIOUS
      <4> QED
        BY <2>7, <4>1 DEF Clears
    <3> QED
      BY <2>2, <2>7, <3>1 DEF Applied
  <2> DEFINE m == <<"map", t, k[2]>>
  <2>9. m # <<"source", c, x>> /\ c = k[2] /\ x = k[3]
    BY <2>8
  <2>10. Holding(tx, m) = {}
    <3> SUFFICES ASSUME NEW d \in Holding(tx, m) PROVE FALSE
      OBVIOUS
    <3>1. PICK q \in Tokens : m = <<"map", q, c>> /\ book[<<"map", q, c>>] = x
      BY <2>7 DEF Clears
    <3> QED
      BY <2>9, <3>1
  <2> QED
    BY <2>2, <2>3, <2>7, <2>9, <2>10 DEF Applied
<1>2. MapInv => Mapping
  BY MapInvParts
<1> HIDE DEF Harmless
<1>3. TypeInv /\ MapInv /\ [TaskNext]_taskVars => [Harmless]_book
  BY <1>1, <1>2
<1>4. TaskSpec => [][Harmless]_book
  BY <1>3, TypeInvariant, MapInvariant, PTL DEF TaskSpec
<1> QED
  BY <1>4 DEF Harmless, StaleUnmapHarmless
-----------------------------------------------------------------------------
(* Transfers.                                                              *)

Allowance == <<"allowance", task.token>>
Moved == <<"moved", task.token>>

\* A run of a transfer, elsewhere than on Tron, that has the network to itself.
Transferring ==
    clean /\ ~config.tron /\ task.name \in {"bridge:transferOut", "token:transferOut"}

\* What step s sends if it does not send in parts.
Whole(s) == [sets |-> s.sets, needs |-> s.needs, cases |-> s.cases]

\* How far a transfer is.
Stage ==
    /\ pc = 1 => pool = IF waiting THEN <<Whole(steps[1])>> ELSE <<>>
    /\ pc = 2 => /\ book[Allowance] = "enough"
                 /\ pool = IF waiting THEN <<Whole(steps[2])>> ELSE <<>>
    /\ pc = 3 => \/ pool = <<Whole(steps[2])>> /\ book[Allowance] = "enough"
                 \/ pool = <<>> /\ book[Moved] = "on"

LEMMA TransferInvParts == TransferInv <=> (Transferring => Stage)
BY DEF TransferInv, Transferring, Stage, Whole, Allowance, Moved

\* The two steps of a transfer: the allowance, and what the bridge does with it.
LEMMA TransferSteps ==
    ASSUME TypeInv, Transferring
    PROVE  /\ Len(steps) = 2 /\ pc \in {1, 2, 3} /\ (Running <=> pc # 3)
           /\ steps[1].sets = [k \in {Allowance} |-> "enough"]
           /\ steps[1].looks = {Allowance} /\ steps[1].live /\ ~steps[1].split
           /\ steps[1].needs = {} /\ steps[1].waits
           /\ steps[2].sets = [k \in {Allowance, Moved} |->
                                  IF k[1] = "moved" THEN "on" ELSE Unset]
           /\ steps[2].looks = {} /\ steps[2].live /\ ~steps[2].split
           /\ steps[2].needs = {Allowance}
<1>1. task \in Task /\ config \in Config
  BY ScriptFacts DEF TypeInv
<1> DEFINE t == task.token
           a == Approve(config, t)
           b == Take(config, t)
<1>2. /\ a.sets = [k \in {Allowance} |-> "enough"] /\ a.looks = DOMAIN a.sets
      /\ a.live /\ ~a.split /\ a.needs = {} /\ a.waits
  BY DEF Transferring, Approve, IfDifferent, Sent, Call, Allowance
<1>3. /\ b.sets = [k \in {Allowance, Moved} |-> IF k[1] = "moved" THEN "on" ELSE Unset]
      /\ b.looks = {} /\ b.live /\ ~b.split /\ b.needs = {Allowance}
  BY DEF Take, Sent, Call, Allowance, Moved
<1>4. \E w \in BOOLEAN : steps = <<a, [b EXCEPT !.waits = w]>>
  <2>1. CASE task.name = "bridge:transferOut"
    <3>1. PICK gas \in BOOLEAN : Script[task][config] = transferOut(config, t, gas)
      BY <1>1, <2>1, TransferScripts
    <3> QED
      BY <3>1 DEF steps, transferOut
  <2>2. CASE task.name = "token:transferOut"
    <3>1. Script[task][config] = mosTransferOut(config, t)
      BY <1>1, <2>2, TransferScripts
    <3> QED
      BY <3>1 DEF steps, mosTransferOut, Transferring
  <2> QED
    BY <2>1, <2>2 DEF Transferring
<1>5. PICK w \in BOOLEAN : steps = <<a, [b EXCEPT !.waits = w]>>
  BY <1>4
<1>6. steps[1] = a /\ Len(steps) = 2
  BY <1>5
<1>7. /\ steps[2].sets = b.sets /\ steps[2].looks = b.looks /\ steps[2].live = b.live
      /\ steps[2].split = b.split /\ steps[2].needs = b.needs
  BY <1>5 DEF Take, Sent, Call
<1>8. pc \in {1, 2, 3} /\ (Running <=> pc # 3)
  BY <1>6 DEF TypeInv, Running
<1>9. a.looks = {Allowance}
  BY <1>2
<1> HIDE DEF a, b
<1> QED
  BY <1>2, <1>3, <1>6, <1>7, <1>8, <1>9

\* The calls of a transfer succeed: the allowance is given, then taken.
LEMMA TransferMined ==
    ASSUME TypeInv, Transferring, NEW i \in 1..Len(pool), MineAt(i)
    PROVE  /\ pool[i] = Whole(steps[1]) =>
                 Succeeds(pool[i]) /\ book'[Allowance] = "enough"
           /\ (pool[i] = Whole(steps[2]) /\ book[Allowance] = "enough") =>
                 Succeeds(pool[i]) /\ book'[Moved] = "on"
<1> DEFINE tx == pool[i]
<1>1. book' = (IF Succeeds(tx) THEN Applied(tx) ELSE book) /\ Fits(tx)
  BY DEF MineAt, TypeInv
<1> HIDE DEF tx
<1>2. ASSUME tx = Whole(steps[1])
      PROVE  Succeeds(tx) /\ book'[Allowance] = "enough"
  <2>1. tx.sets = [k \in {Allowance} |-> "enough"] /\ tx.needs = {}
    BY <1>2, TransferSteps DEF Whole
  <2>2. Succeeds(tx)
    BY <2>1 DEF Succeeds
  <2>3. Allowance \in DOMAIN tx.sets /\ tx.sets[Allowance] = "enough"
    BY <2>1
  <2>4. Allowance \in DOMAIN book
    BY <1>1, <2>3 DEF Fits
  <2> QED
    BY <1>1, <2>2, <2>3, <2>4 DEF Applied
<1>3. ASSUME tx = Whole(steps[2]), book[Allowance] = "enough"
      PROVE  Succeeds(tx) /\ book'[Moved] = "on"
  <2>1. /\ tx.sets = [k \in {Allowance, Moved} |-> IF k[1] = "moved" THEN "on" ELSE Unset]
        /\ tx.needs = {Allowance}
    BY <1>3, TransferSteps DEF Whole
  <2>2. Succeeds(tx)
    BY <1>3, <2>1, TransferScripts DEF Succeeds
  <2>3. Moved \in DOMAIN tx.sets /\ tx.sets[Moved] = "on"
    BY <2>1 DEF Moved
  <2>4. Moved \in DOMAIN book
    BY <1>1, <2>3 DEF Fits
  <2> QED
    BY <1>1, <2>2, <2>3, <2>4 DEF Applied
<1> QED
  BY <1>2, <1>3 DEF tx

LEMMA TransferPass ==
    ASSUME TypeInv, Transferring, Stage, Pass
    PROVE  Stage'
<1>1. /\ UNCHANGED <<book, pool, task>> /\ steps' = steps /\ ~waiting /\ waiting' = waiting
      /\ pc' = pc + 1 /\ Running /\ ~Sends(steps[pc])
  BY DEF Pass, steps
<1>2. pc = 1
  <2>1. pc \in {1, 2} /\ steps[2].live /\ steps[2].looks = {}
    BY <1>1, TransferSteps
  <2>2. pc # 2
    BY <1>1, <2>1 DEF Sends
  <2> QED
    BY <2>1, <2>2
<1>3. book[Allowance] = "enough"
  <2>1. Differing(steps[1]) = {} /\ steps[1].looks = {Allowance}
    BY <1>1, <1>2, TransferSteps DEF Sends
  <2>2. steps[1].sets[Allowance] = "enough"
    BY TransferSteps
  <2> QED
    BY <2>1, <2>2 DEF Differing
<1> QED
  BY <1>1, <1>2, <1>3 DEF Stage, Allowance

LEMMA TransferSubmit ==
    ASSUME TypeInv, Transferring, Stage, Submit
    PROVE  Stage'
<1>1. /\ UNCHANGED <<book, task>> /\ steps' = steps /\ ~waiting /\ Running
      /\ pool' = Append(pool, Transaction(steps[pc]))
      /\ pc' = IF waiting' THEN pc ELSE pc + 1
      /\ waiting' = steps[pc].waits
  BY DEF Submit, steps
<1>2. pc \in {1, 2} /\ pool = <<>>
  <2>1. pc \in {1, 2}
    BY <1>1, TransferSteps
  <2> QED
    BY <1>1, <2>1 DEF Stage
<1>3. Transaction(steps[pc]) = Whole(steps[pc])
  BY <1>2, TransferSteps DEF Transaction, Writes, Whole
<1>4. pool' = <<Whole(steps[pc])>>
  BY <1>1, <1>2, <1>3
<1>5. CASE pc = 1
  <2>1. pc' = 1 /\ waiting'
    BY <1>1, <1>5, TransferSteps
  <2> QED
    BY <1>1, <1>4, <1>5, <2>1 DEF Stage, Whole
<1>6. CASE pc = 2
  <2>1. (book[Allowance] = "enough")'
    BY <1>1, <1>6 DEF Stage, Allowance
  <2>2. (pc' = 2 /\ waiting') \/ pc' = 3
    BY <1>1, <1>6
  <2> QED
    BY <1>1, <1>4, <1>6, <2>1, <2>2 DEF Stage, Whole, Allowance
<1> QED
  BY <1>2, <1>5, <1>6

LEMMA TransferMine ==
    ASSUME TypeInv, Transferring, Stage, NEW i \in 1..Len(pool), MineAt(i)
    PROVE  Stage'
<1>1. task' = task /\ steps' = steps
  BY DEF MineAt, steps
<1>2. \E tx : pool = <<tx>>
  BY TransferSteps DEF Stage
<1>3. PICK tx : pool = <<tx>>
  BY <1>2
<1>4. Len(pool) = 1 /\ i = 1 /\ pool[i] = tx
  BY <1>3
<1>5. pool' = <<>>
  <2>1. Len(pool) - 1 = 0
    BY <1>4
  <2>2. pool' = [j \in 1..0 |-> pool[IF j < i THEN j ELSE j + 1]]
    BY <2>1 DEF MineAt
  <2> QED
    BY <2>2
<1>6. waiting => Running /\ waiting' = FALSE /\ pc' = IF Succeeds(tx) THEN pc + 1 ELSE Len(steps) + 1
  BY <1>4 DEF MineAt, TypeInv
<1>7. ~waiting => pc' = pc /\ waiting' = waiting
  BY DEF MineAt
<1>8. /\ tx = Whole(steps[1]) => Succeeds(tx) /\ book'[Allowance] = "enough"
      /\ (tx = Whole(steps[2]) /\ book[Allowance] = "enough") =>
            Succeeds(tx) /\ book'[Moved] = "on"
  BY <1>4, TransferMined
<1>9. Allowance' = Allowance /\ Moved' = Moved
  BY <1>1 DEF Allowance, Moved
<1>10. CASE pc = 1
  <2>1. waiting /\ tx = Whole(steps[1])
    BY <1>3, <1>10 DEF Stage
  <2>2. pc' = 2 /\ waiting' = FALSE /\ book'[Allowance] = "enough"
    BY <1>6, <1>8, <1>10, <2>1
  <2> QED
    BY <1>5, <1>9, <2>2 DEF Stage
<1>11. CASE pc = 2
  <2>1. waiting /\ tx = Whole(steps[2]) /\ book[Allowance] = "enough"
    BY <1>3, <1>11 DEF Stage
  <2>2. pc' = 3 /\ book'[Moved] = "on"
    BY <1>6, <1>8, <1>11, <2>1
  <2> QED
    BY <1>5, <1>9, <2>2 DEF Stage
<1>12. CASE pc = 3
  <2>1. tx = Whole(steps[2]) /\ book[Allowance] = "enough"
    BY <1>3, <1>12 DEF Stage
  <2>2. ~waiting
    <3>1. waiting => Running
      BY DEF TypeInv
    <3> QED
      BY <1>12, <3>1, TransferSteps
  <2>3. pc' = 3 /\ book'[Moved] = "on"
    BY <1>7, <1>8, <1>12, <2>1, <2>2
  <2> QED
    BY <1>5, <1>9, <2>3 DEF Stage
<1> QED
  BY <1>10, <1>11, <1>12, TransferSteps

LEMMA TransferStep == TypeInv /\ TransferInv /\ [TaskNext]_taskVars => TransferInv'
<1> SUFFICES ASSUME TypeInv, Transferring => Stage, [TaskNext]_taskVars, Transferring'
             PROVE  Stage'
  BY TransferInvParts DEF TransferInv, Transferring, Stage, Whole, Allowance, Moved
<1>1. ASSUME NEW t, Start(t) PROVE Stage'
  <2>1. pc' = 1 /\ waiting' = FALSE /\ pool' = pool /\ pool = <<>>
    BY <1>1 DEF Start, Transferring
  <2> QED
    BY <2>1 DEF Stage
<1>2. (Pass \/ Submit \/ Mine \/ UNCHANGED taskVars) => Transferring
  BY DEF Pass, Submit, Mine, MineAt, taskVars, runVars, Transferring
<1>3. CASE Pass
  BY <1>2, <1>3, TransferPass
<1>4. CASE Submit
  BY <1>2, <1>4, TransferSubmit
<1>5. CASE Mine
  BY <1>2, <1>5, TransferMine DEF Mine
<1>6. CASE Fail \/ Die \/ Edit
  BY <1>6 DEF Fail, Die, Edit, Transferring
<1>7. CASE UNCHANGED taskVars
  BY <1>2, <1>7 DEF taskVars, runVars, Stage, steps, Allowance, Moved
<1> QED
  BY <1>1, <1>3, <1>4, <1>5, <1>6, <1>7 DEF TaskNext, Repeat, Intervene

\* A transfer run to its end on its own moves the tokens: the allowance is there
\* when the bridge takes it, waited for or not, and nothing else takes it.
THEOREM TransfersArrive == TaskSpec => []TransferArrives
<1>1. TaskInit => TransferInv
  BY DEF TaskInit, TransferInv
<1>2. ASSUME TypeInv, TransferInv PROVE TransferArrives
  <2> SUFFICES ASSUME Transferring, ~Running, pool = <<>>
               PROVE  book[Moved] = "on"
    BY DEF TransferArrives, Transferring, Ended, Moved
  <2>1. pc = 3 /\ Stage
    BY <1>2, TransferSteps, TransferInvParts
  <2>2. pool # <<Whole(steps[2])>>
    <3>1. Len(<<Whole(steps[2])>>) = 1 /\ Len(pool) = 0
      OBVIOUS
    <3> QED
      BY <3>1
  <2> QED
    BY <2>1, <2>2 DEF Stage
<1> QED
  BY <1>1, <1>2, TypeInvariant, TransferStep, PTL DEF TaskSpec
=============================================================================
