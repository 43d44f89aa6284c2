----------------------------- MODULE TaskScripts -----------------------------
(***************************************************************************)
(* What the scripts of the tasks have in common, whatever the files say:   *)
(* the assumptions under which the properties of the runner hold for every *)
(* value of its constants, and the invariants that say why.  TLC evaluates *)
(* the assumptions on the scripts of the task modules.                     *)
(***************************************************************************)
EXTENDS TransferTasks

StepsOf(t, c) == {Script[t][c][i] : i \in 1..Len(Script[t][c])}

\* A step that brings entry k to its value whenever it is run: it compares k
\* with what it would write, or writes it without a look.
Covers(s, k) ==
    s.live /\ k \in DOMAIN s.sets /\ (k \in s.looks \/ (s.looks = {} /\ ~s.split))

\* A script has steps, the books have the entries they write, the entries have
\* values.
ASSUME ScriptsAreTyped ==
    /\ Routine \subseteq Task
    /\ \A u \in Scopes : u \subseteq Task
    /\ \A t \in Task, c \in Config :
          /\ Len(Script[t][c]) \in Nat
          /\ \A s \in StepsOf(t, c) :
                /\ s.waits \in BOOLEAN
                /\ s.looks \subseteq DOMAIN s.sets
                /\ \A k \in DOMAIN s.sets : s.sets[k] \in Value
                /\ \A d \in s.cases : d.to \in Value
    /\ \A u \in Scopes : \A o \in Books[u] :
          /\ \A k \in DOMAIN o : o[k] \in Value
          /\ \A t \in u, c \in Config :
                /\ DOMAIN Goal[t][c] \subseteq DOMAIN o
                /\ Needed(t, c) \subseteq DOMAIN o
                /\ \A s \in StepsOf(t, c) : DOMAIN s.sets \subseteq DOMAIN o

\* A task that keeps entries in line covers each of them by a step, writes to
\* none of them anything else, and leaves alone what its steps require.
ASSUME ScriptsMeetGoals ==
    \A t \in Task, c \in Config : DOMAIN Goal[t][c] # {} =>
        /\ \A k \in DOMAIN Goal[t][c] : \E s \in StepsOf(t, c) : Covers(s, k)
        /\ \A s \in StepsOf(t, c) : s.live =>
              /\ \A k \in DOMAIN s.sets \cap DOMAIN Goal[t][c] : s.sets[k] = Goal[t][c][k]
              /\ DOMAIN s.sets \cap Needed(t, c) = {}
              /\ \A d \in s.cases : d.key \notin DOMAIN Goal[t][c] \cup Needed(t, c)

\* Such a task sends nothing without comparing an entry it keeps in line.
ASSUME ScriptsLook ==
    \A t \in Task, c \in Config : DOMAIN Goal[t][c] # {} =>
        \A s \in StepsOf(t, c) : s.live =>
            s.looks # {} /\ s.looks \subseteq DOMAIN Goal[t][c]

\* The scripts of the tasks that transfer tokens are what TransferTasks says.
ASSUME TransferScripts ==
    /\ "enough" # Unset
    /\ \A t \in Task, c \in Config :
          /\ t.name = "bridge:transferOut" =>
                \E gas \in BOOLEAN : Script[t][c] = transferOut(c, t.token, gas)
          /\ t.name = "token:transferOut" => Script[t][c] = mosTransferOut(c, t.token)

Tokens == Range(TokenOrder)

\* Calls of the register's mapToken and unmapToken, as steps or transactions.
IsMapCall(s, t, c, target) == s.sets = MapCall(t, c, target) /\ s.cases = {}
IsUnmapCall(s, c, target) ==
    s.sets = [k \in {<<"source", c, target>>} |-> Unset] /\ s.cases = UnmapClears(c, target)

\* Something of a mapping is written.
OfMapping(k) == k[1] \in {"map", "source"}
Remaps(s) ==
    (\E k \in DOMAIN s.sets : OfMapping(k)) \/ \E d \in s.cases : OfMapping(d.key)

\* What a token is ever mapped to on a chain.
TargetsOf(t, c) ==
    LET k == <<"map", t, c>>
        calls == {s \in UNION {StepsOf(u, f) : u \in Task, f \in Config} : k \in DOMAIN s.sets}
        books == {o \in UNION {Books[u] : u \in Scopes} : k \in DOMAIN o}
    IN  {s.sets[k] : s \in calls} \cup ({o[k] : o \in books} \ {Unset})

\* Scripts write mappings by these two calls only, and no two tokens of a chain
\* are given one target.
ASSUME ScriptsMap ==
    /\ Unset \notin Tokens
    /\ \A u \in Task, f \in Config : \A s \in StepsOf(u, f) : Remaps(s) =>
          /\ ~s.split
          /\ \/ \E t \in Tokens, c \in Chains : \E x \in TargetsOf(t, c) : IsMapCall(s, t, c, x)
             \/ \E c \in Chains, x \in Value : IsUnmapCall(s, c, x)
    /\ \A c \in Chains : \A t, q \in Tokens :
          t # q => TargetsOf(t, c) \cap TargetsOf(q, c) = {}

\* The entries of a mapping come together, and at the start each mapped token is
\* found under its target.
ASSUME BooksResolve ==
    \A u \in Scopes : \A o \in Books[u] : \A k \in DOMAIN o :
        /\ k[1] = "map" =>
              /\ k[2] \in Tokens /\ k[3] \in Chains /\ k = <<"map", k[2], k[3]>>
              /\ o[k] # Unset => LET s == <<"source", k[3], o[k]>>
                                 IN  s \in DOMAIN o /\ o[s] = k[2]
        /\ k[1] = "source" =>
              /\ k[2] \in Chains /\ k = <<"source", k[2], k[3]>>
              /\ \A t \in Tokens : <<"map", t, k[2]>> \in DOMAIN o
-----------------------------------------------------------------------------
\* A transaction that a run of task t under c may have sent.
Aligned(tx, t, c) ==
    /\ \A k \in DOMAIN tx.sets \cap DOMAIN Goal[t][c] : tx.sets[k] = Goal[t][c][k]
    /\ DOMAIN tx.sets \cap Needed(t, c) = {}
    /\ \A d \in tx.cases : d.key \notin DOMAIN Goal[t][c] \cup Needed(t, c)
    /\ tx.needs \subseteq Needed(t, c)

\* The steps behind the script, the one it waits at included.
Behind == {j \in 1..Len(steps) : j < pc \/ (j = pc /\ waiting)}

\* Why a run does its work: of a run that has the network to itself, every
\* entry covered by a step behind it has its value or will get it from the
\* pool, and the pool holds nothing that undoes it.
RunInv ==
    (clean /\ DOMAIN goal # {}) =>
        /\ \A i \in 1..Len(pool) : Aligned(pool[i], task, config)
        /\ (\A n \in Needed(task, config) : book[n] # Unset) =>
              \A k \in DOMAIN goal : \A j \in Behind :
                  Covers(steps[j], k) =>
                      book[k] = goal[k] \/ \E i \in 1..Len(pool) : k \in DOMAIN pool[i].sets

\* Why a mapped token is found: its target is its own, and the pool holds nothing
\* but calls of the register that keep it so.
MapInv ==
    /\ \A k \in DOMAIN book : (k[1] = "map" /\ book[k] # Unset) =>
          LET s == <<"source", k[3], book[k]>>
          IN  s \in DOMAIN book /\ book[s] = k[2] /\ book[k] \in TargetsOf(k[2], k[3])
    /\ \A i \in 1..Len(pool) : Remaps(pool[i]) =>
          \/ \E t \in Tokens, c \in Chains : \E x \in TargetsOf(t, c) : IsMapCall(pool[i], t, c, x)
          \/ \E c \in Chains, x \in Value : IsUnmapCall(pool[i], c, x)

\* Why a transfer arrives: of a run that has the network to itself, the pool holds
\* the one transaction that comes next, and the transfer finds its allowance.
TransferInv ==
    LET allowed == book[<<"allowance", task.token>>] = "enough"
        moved == book[<<"moved", task.token>>] = "on"
        Tx(i) == [sets |-> steps[i].sets, needs |-> steps[i].needs, cases |-> steps[i].cases]
    IN  (clean /\ ~config.tron /\ task.name \in {"bridge:transferOut", "token:transferOut"}) =>
            /\ pc = 1 => pool = IF waiting THEN <<Tx(1)>> ELSE <<>>
            /\ pc = 2 => allowed /\ pool = IF waiting THEN <<Tx(2)>> ELSE <<>>
            /\ pc = 3 => \/ pool = <<Tx(2)>> /\ allowed
                         \/ pool = <<>> /\ moved

\* Why a run is quiet: nothing was sent, so nothing has changed.
QuietInv ==
    (silent /\ DOMAIN goal # {}) => pool = <<>> /\ Matches(task, config)
=============================================================================
