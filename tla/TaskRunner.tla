----------------------------- MODULE TaskRunner -----------------------------
(***************************************************************************)
(* The maintenance tasks: how a hardhat task brings the contracts of a     *)
(* network in line with the configuration files.  A task is a script of    *)
(* steps.  A step reads the state of a contract at the latest block,       *)
(* compares what it reads with the configuration, and sends a transaction  *)
(* or not; it waits for the transaction to be mined or goes on at once.    *)
(* The transactions of the operator's account wait in its pool and are     *)
(* mined in the order of their nonces (on Tron, which has none, in any     *)
(* order); each succeeds or reverts as a whole.  A script that runs may    *)
(* die at any point, its transactions do not: the operator then runs a     *)
(* task again.                                                             *)
(*                                                                         *)
(* The state of the contracts is a book: one entry for each mapping entry, *)
(* fee, flag or address the tasks set.  What the tasks do is in the        *)
(* modules that build the scripts (RegisterTasks and the others); a script *)
(* is fixed when the task starts, since the files are edited between runs  *)
(* and what a script reads decides only whether a step sends.              *)
(***************************************************************************)
EXTENDS Integers, Sequences, FiniteSets

CONSTANTS
    Task,        \* the tasks, each with its arguments
    Scopes,      \* bound: sets of tasks an operator uses together, those of
                 \* one contract: contracts are set apart from each other
    Config,      \* the contents the configuration files take; field tron: the
                 \* network is Tron, where a task goes on once a call is sent
    Script,      \* Script[t][c]: the steps of task t under configuration c
    Goal,        \* Goal[t][c]: what c says of the entries task t maintains
    Routine,     \* the tasks the operator repeats
    Value,       \* values of the entries
    Unset,       \* the value of an entry nothing was written to
    Books,       \* Books[s]: the books to start from, for the tasks of s
    MaxPool,     \* bound: transactions in the pool
    MaxUpsets    \* bound: edits of the files, deaths of a script, other tasks

VARIABLES
    scope,       \* the tasks in use
    config,      \* the contents of the configuration files
    book,        \* the contracts' state at the latest block: entry -> value
    pool,        \* sent transactions not yet mined, by nonce
    task,        \* the task that runs, or ran last
    pc,          \* the step of its script it is at
    waiting,     \* it waits for its last transaction
    upsets,      \* upsets so far
    clean,       \* history: the run had the network to itself from its start
    silent       \* history: the run started with nothing to send

runVars == <<task, pc, waiting>>
taskVars == <<scope, config, book, pool, runVars, upsets, clean, silent>>

steps == Script[task][config]
goal == Goal[task][config]
Running == pc <= Len(steps)
-----------------------------------------------------------------------------
(***************************************************************************)
(* A step: the entries it writes, those it compares first (none: it sends  *)
(* without looking), whether it sends only what differs, whether it waits, *)
(* whether it sends at all (the update flag of the task), the entries the  *)
(* contract requires to be set, and the cases: entries the contract sets   *)
(* to a value only if others have a given value.                           *)
(***************************************************************************)
Call(sets) ==
    [sets |-> sets, looks |-> {}, split |-> FALSE, waits |-> TRUE,
     live |-> TRUE, needs |-> {}, cases |-> {}, throws |-> FALSE]

\* A step at which the script always ends with an error.  A step that throws
\* ends the script when it would send: the call fails in the script itself.
Throw == [Call(<<>>) EXCEPT !.throws = TRUE]

\* The entries a step finds different from what it would write.
Differing(s) == {k \in s.looks : book[k] # s.sets[k]}

\* Mutant of Sends: the step sends only when all of its entries differ.
SendsAll(s) == s.live /\ \A k \in s.looks : book[k] # s.sets[k]

\* Mutant of Sends: the comparison never finds two values equal.
SendsBlind(s) == s.live

\* Whether the step sends a transaction, and what the transaction writes.
Sends(s) == s.live /\ (s.looks = {} \/ Differing(s) # {})
Writes(s) ==
    IF s.split THEN [k \in Differing(s) |-> s.sets[k]] ELSE s.sets

Transaction(s) == [sets |-> Writes(s), needs |-> s.needs, cases |-> s.cases]

\* A transaction succeeds if the entries it requires are set.
Succeeds(tx) == \A k \in tx.needs : book[k] # Unset

Holding(tx, k) ==
    {c \in tx.cases : c.key = k /\ \A j \in DOMAIN c.if : book[j] = c.if[j]}

Applied(tx) ==
    [k \in DOMAIN book |-> IF k \in DOMAIN tx.sets THEN tx.sets[k]
                   ELSE IF Holding(tx, k) = {} THEN book[k]
                   ELSE (CHOOSE c \in Holding(tx, k) : TRUE).to]

\* Every entry a task maintains that its steps require to be set.
Needed(t, c) == UNION {Script[t][c][i].needs : i \in 1..Len(Script[t][c])}

\* The book has what configuration c says of the entries task t maintains.
Matches(t, c) == \A k \in DOMAIN Goal[t][c] : book[k] = Goal[t][c][k]
-----------------------------------------------------------------------------
TaskInit ==
    /\ scope \in Scopes
    /\ config \in Config
    /\ book \in Books[scope]
    /\ pool = <<>>
    /\ task \in Routine \cap scope
    /\ pc = Len(steps) + 1
    /\ waiting = FALSE
    /\ upsets = 0
    /\ clean = FALSE
    /\ silent = FALSE

\* The operator runs a task.  Tasks out of the routine are upsets, so that
\* there is a last one.
Start(t) ==
    /\ t \in scope
    /\ ~Running
    /\ t \notin Routine => upsets < MaxUpsets
    /\ upsets' = IF t \in Routine THEN upsets ELSE upsets + 1
    /\ task' = t
    /\ pc' = 1
    /\ waiting' = FALSE
    /\ clean' = (pool = <<>>)
    /\ silent' = (pool = <<>> /\ Matches(t, config))
    /\ UNCHANGED <<scope, config, book, pool>>

\* The step has nothing to send.
Pass ==
    /\ Running
    /\ ~waiting
    /\ ~Sends(steps[pc])
    /\ pc' = pc + 1
    /\ UNCHANGED <<scope, config, book, pool, task, waiting, upsets, clean, silent>>

\* The step sends a transaction, and waits for it or goes on.
Submit ==
    /\ Running
    /\ ~waiting
    /\ ~steps[pc].throws
    /\ Sends(steps[pc])
    /\ Len(pool) < MaxPool
    /\ pool' = Append(pool, Transaction(steps[pc]))
    /\ waiting' = steps[pc].waits
    /\ pc' = IF steps[pc].waits THEN pc ELSE pc + 1
    /\ UNCHANGED <<scope, config, book, task, upsets, clean, silent>>

\* A transaction of the account is mined: the next one, and on Tron any.  If
\* the script waits for it, the script goes on, or ends with its error.
MineAt(i) ==
    /\ pool' = [j \in 1..(Len(pool) - 1) |-> pool[IF j < i THEN j ELSE j + 1]]
    /\ book' = IF Succeeds(pool[i]) THEN Applied(pool[i]) ELSE book
    /\ IF waiting /\ i = Len(pool)
       THEN /\ waiting' = FALSE
            /\ pc' = IF Succeeds(pool[i]) THEN pc + 1 ELSE Len(steps) + 1
            /\ clean' = (clean /\ Succeeds(pool[i]))
       ELSE UNCHANGED <<waiting, pc, clean>>
    /\ UNCHANGED <<scope, config, task, upsets, silent>>

Mine == \E i \in 1..Len(pool) : (i = 1 \/ config.tron) /\ MineAt(i)

\* The script ends with an error of its own.
Fail ==
    /\ Running
    /\ ~waiting
    /\ Sends(steps[pc])
    /\ steps[pc].throws
    /\ pc' = Len(steps) + 1
    /\ clean' = FALSE
    /\ UNCHANGED <<scope, config, book, pool, task, waiting, upsets, silent>>

\* Mutant of Die: the run is over but its wait goes on.
DieWaiting ==
    /\ Running
    /\ upsets < MaxUpsets
    /\ upsets' = upsets + 1
    /\ pc' = Len(steps) + 1
    /\ clean' = FALSE
    /\ UNCHANGED <<scope, config, book, pool, task, waiting, silent>>

\* The script dies: the operator stops it, or a call to the node fails.
Die ==
    /\ Running
    /\ upsets < MaxUpsets
    /\ upsets' = upsets + 1
    /\ pc' = Len(steps) + 1
    /\ waiting' = FALSE
    /\ clean' = FALSE
    /\ UNCHANGED <<scope, config, book, pool, task, silent>>

\* The operator edits the configuration files.
Edit ==
    /\ ~Running
    /\ upsets < MaxUpsets
    /\ upsets' = upsets + 1
    /\ config' \in {c \in Config \ {config} : c.tron = config.tron}
    /\ pc' = Len(Script[task][config']) + 1
    /\ clean' = FALSE
    /\ silent' = FALSE
    /\ UNCHANGED <<scope, book, pool, task, waiting>>

Repeat == \E t \in Routine : Start(t)
Intervene == \E t \in Task \ Routine : Start(t)

TaskNext == Repeat \/ Intervene \/ Pass \/ Submit \/ Mine \/ Fail \/ Die \/ Edit

\* A node mines, a script that is not stopped goes on, and the operator runs
\* each task of the routine again and again.
TaskFairness ==
    /\ WF_taskVars(Mine)
    /\ WF_taskVars(Pass \/ Submit \/ Fail)
    /\ \A t \in Routine : SF_taskVars(Start(t))

TaskSpec == TaskInit /\ [][TaskNext]_taskVars /\ TaskFairness
-----------------------------------------------------------------------------
Ended == ~Running /\ pool = <<>>

\* Type correctness: the step the script is at exists or is the end, a script
\* that waits has sent, and what is written are values of entries.
TaskTypeOK ==
    /\ config \in Config
    /\ task \in scope
    /\ pc \in 1..(Len(steps) + 1)
    /\ waiting => Running /\ pool # <<>>
    /\ \A k \in DOMAIN book : book[k] \in Value
    /\ \A i \in 1..Len(pool) : DOMAIN pool[i].sets \subseteq DOMAIN book

\* A task that ran to its end on its own, and whose transactions are mined,
\* leaves every entry it maintains as the files say, if the tokens it sets
\* entries of are registered: comparing at the latest block, sending part of a
\* list and not waiting lose nothing (register:update, bridge:updateToken,
\* fee:update and the tasks they run).
DoneMeansConfigured ==
    (clean /\ Ended /\ \A k \in Needed(task, config) : book[k] # Unset)
        => Matches(task, config)

\* An updating task costs nothing when the contracts are as the files say: no
\* entry is compared with another than the one it is written to.
QuietWhenConfigured ==
    (silent /\ DOMAIN Goal[task][config] # {}) => pool = <<>>
=============================================================================
