--------------------------- MODULE TaskProperties ---------------------------
(***************************************************************************)
(* What the maintenance tasks are for, said of the configuration files and *)
(* the contracts without the scripts: the entries each task keeps in line, *)
(* and the properties of the runs.                                         *)
(***************************************************************************)
EXTENDS TransferTasks

\* The entries of the register for a chain and the tokens of its fee list.
RegisterGoal(cfg, chains) ==
    LET pairs == {p \in Range(TokenOrder) \X chains :
                     p[1] \in DOMAIN cfg.fee[p[2]] \ PassedOver}
        Field(name, Of(_)) ==
            [k \in {<<name, p[1], p[2]>> : p \in pairs} |-> Of(cfg.fee[k[3]][k[2]])]
        listed == {p[1] : p \in pairs}
    IN  Field("map", LAMBDA f : f.target) @@ Field("baseFee", LAMBDA f : f.base)
            @@ Field("toChainFee", LAMBDA f : f.to)
            @@ Field("fromChainFee", LAMBDA f : f.from)
            @@ [k \in {<<"bridgeable", t, c>> : t \in listed, c \in Chains} |->
                   IF k[3] \in cfg.target[k[2]] THEN "on" ELSE Unset]

\* The rates of a caller, on and off the whitelist.
CallerGoal(cfg) ==
    LET entries == Range(cfg.caller)
        from == {e \in entries : e.from # <<>>}
        to == UNION {{<<e, f>> : f \in Range(e.to)} : e \in entries}
    IN  [k \in {<<"fromWhitelist", e.token, e.chain>> : e \in from} |->
            Whitelisted((CHOOSE e \in from : e.token = k[2] /\ e.chain = k[3]).from[1])]
        @@ [k \in {<<"toWhitelist", p[1].token, p[1].chain, p[2].chain>> : p \in to} |->
               Whitelisted((CHOOSE p \in to :
                   <<p[1].token, p[1].chain, p[2].chain>> = Tail(k))[2].fee)]

BridgeGoal(cfg, t) ==
    (<<"mintable", t>> :> IF t \in cfg.mintable THEN "on" ELSE Unset)
        @@ [k \in {<<"tokenChain", t, c>> : c \in Chains} |->
               IF k[3] \in cfg.target[t] THEN "on" ELSE Unset]

FeeGoal(cfg) ==
    LET added == Chains \ cfg.nontarget
    IN  IF cfg.tron THEN <<>>
        ELSE (<<"feeReceiver">> :> cfg.feeReceiver)
                @@ [k \in {<<"baseGas", c>> : c \in Chains} |->
                       IF k[2] \in added THEN cfg.baseGas[k[2]] ELSE Unset]
                @@ [k \in {<<"gasPrice", c, t>> : c \in added, t \in Range(FeeTokens)} |->
                       cfg.price[k[3]][k[2]]]

MosChainGoal(cfg, t) ==
    IF cfg.tron THEN <<>>
    ELSE [k \in {<<"mosChain", t, c>> : c \in Chains} |->
             IF k[3] \in cfg.target[t] THEN "on" ELSE Unset]

MosRelayGoal(cfg, t) ==
    LET listed == {c \in Chains : t \in DOMAIN cfg.fee[c]}
        Field(name, Of(_)) ==
            [k \in {<<name, t, c>> : c \in listed} |-> Of(cfg.fee[k[3]][t])]
    IN  Field("v2map", LAMBDA f : f.target) @@ Field("v2fee", LAMBDA f : f.to)
            @@ Field("v2outFee", LAMBDA f : f.from)
-----------------------------------------------------------------------------
\* A task asked not to update sends nothing, and neither do the tasks it runs
\* (the update option of register:update and register:updateCallerFee, passed
\* down to sub-tasks whose own default is to send).
DryRunSendsNothing == (clean /\ task.update = "no") => pool = <<>>

\* As long as no two tokens of a chain are given one target, a mapped token is
\* found under its target: mappings replaced, unmapped in the wrong order or
\* mapped again leave no token the register resolves to another
\* (TokenRegisterV3.mapToken and unmapToken).
TargetNamesItsSource ==
    \A k \in DOMAIN book :
        (k[1] = "map" /\ book[k] # Unset) => book[<<"source", k[3], book[k]>>] = k[2]

\* A transfer run to its end on its own moves the tokens: elsewhere than on
\* Tron the allowance is there when the bridge takes it, waited for or not.
TransferArrives ==
    (clean /\ Ended /\ ~config.tron /\ task.name \in {"bridge:transferOut", "token:transferOut"})
        => book[<<"moved", task.token>>] = "on"

\* Unmapping a target no token maps to any more leaves every mapping alone: it
\* is the clean-up after a target was replaced.
StaleUnmapHarmless ==
    [][\A k \in DOMAIN book :
          (k[1] = "source" /\ book[k] # Unset /\ book'[k] = Unset)
          => LET Maps(t) == <<"map", t, k[2]>>
             IN  (\A t \in Range(TokenOrder) : book[Maps(t)] # k[3])
                    => \A t \in Range(TokenOrder) : book'[Maps(t)] = book[Maps(t)]]_book

\* Whatever was interrupted, left in the pool, edited or set by hand: once the
\* operator only repeats the routine, the contracts come to be as the files
\* say and stay so.
Settles ==
    \A t \in Routine :
        <>[]((t \in scope /\ \A k \in Needed(t, config) : book[k] # Unset) => Matches(t, config))
=============================================================================
