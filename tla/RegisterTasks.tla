---------------------------- MODULE RegisterTasks ----------------------------
(***************************************************************************)
(* The tasks that maintain the token register of the relay chain.  The     *)
(* fee file says, for each chain, which tokens it has: the token there     *)
(* (with its decimals and whether it is mintable), the base fee, the fee   *)
(* to the chain and the fee from it; the relay chain's own entry of a      *)
(* token lists the chains the token is bridged to.  register:update goes   *)
(* through the chains and through the tokens of each, and runs the tasks   *)
(* that set one entry each.                                                *)
(*                                                                         *)
(* An operator here is a task: it is the sequence of its steps.  The       *)
(* sub-tasks take the update flag of the task that runs them.              *)
(***************************************************************************)
EXTENDS TaskRunner, SequencesExt

CONSTANTS
    ChainOrder,    \* the chains, in the order of the chain list
    TokenOrder,    \* the tokens, in the order of the fee file
    PassedOver     \* tokens register:update leaves out

Chains == Range(ChainOrder)

\* The option update, left out: some tasks declare the string "false" as its
\* default, which is a true value.
Updates(update, default) ==
    update = "yes" \/ (update = "absent" /\ default = "false")

\* A step of the register.  Every setter of a token's entries requires the
\* token to be registered; only the tasks that wait see a call revert.
OfToken(t, sets, live) ==
    [Call(sets) EXCEPT !.looks = DOMAIN sets, !.waits = FALSE, !.live = live,
                       !.needs = {<<"token", t>>}]

registerToken(cfg, t) ==
    IF t \in cfg.vaults THEN <<Call(<<"token", t>> :> cfg.vaultOf[t])>>
    ELSE <<Throw>>

\* What mapToken of the contract writes: the token's mapping and, under the
\* target, the token.  The entry of the target mapped before stays.
MapCall(t, c, target) ==
    [k \in {<<"map", t, c>>, <<"source", c, target>>} |->
        IF k[1] = "map" THEN target ELSE t]

\* The task compares the mapping only.
mapToken(t, c, target, update) ==
    <<[OfToken(t, MapCall(t, c, target), Updates(update, "false"))
          EXCEPT !.looks = {<<"map", t, c>>}]>>

\* What unmapToken of the contract clears: the mapping of the token found
\* under the target, if that token still maps to the target.
\* Mutant of UnmapClears: the mapping goes whatever the token maps to.
UnmapClearsAny(c, target) ==
    {[key |-> <<"map", t, c>>, if |-> <<"source", c, target>> :> t, to |-> Unset] :
        t \in Range(TokenOrder)}

\* Mutant of UnmapClears: the target is forgotten, the mapping stays.
UnmapClearsNone(c, target) == {}

UnmapClears(c, target) ==
    {[key |-> <<"map", t, c>>,
      if |-> [k \in {<<"source", c, target>>, <<"map", t, c>>} |->
                 IF k[1] = "source" THEN t ELSE target],
      to |-> Unset] :
        t \in Range(TokenOrder)}

unmapToken(c, target, update) ==
    <<[Call(<<"source", c, target>> :> Unset)
          EXCEPT !.waits = FALSE, !.live = Updates(update, "no"),
                 !.needs = {<<"source", c, target>>},
                 !.cases = UnmapClears(c, target)]>>

\* One transaction for the chains whose flag differs.
registerTokenChains(cfg, t, chains, enable, update) ==
    <<[OfToken(t, [k \in {<<"bridgeable", t, c>> : c \in chains} |->
                      IF enable THEN "on" ELSE Unset],
               Updates(update, "no"))
          EXCEPT !.split = TRUE, !.waits = ~cfg.tron]>>

setFromChainFee(t, c, fee, update) ==
    <<OfToken(t, <<"fromChainFee", t, c>> :> fee, Updates(update, "false"))>>

setToChainFee(t, c, fee, update) ==
    <<OfToken(t, <<"toChainFee", t, c>> :> fee, Updates(update, "false"))>>

setBaseFee(t, c, fee, update) ==
    <<OfToken(t, <<"baseFee", t, c>> :> fee, Updates(update, "false"))>>

setBaseFeeReceiver(receiver) == <<Call(<<"receiver">> :> receiver)>>

\* The chains the relay chain's fee entry of the token lists are added, then
\* the others removed, each if there are any.
updateTokenChains(cfg, t, update) ==
    IF t \notin DOMAIN cfg.target THEN <<Throw>>
    ELSE LET Part(chains, enable) ==
                 IF chains = {} THEN <<>>
                 ELSE registerTokenChains(cfg, t, chains, enable, update)
         IN  Part(Chains \cap cfg.target[t], TRUE)
                 \o Part(Chains \ cfg.target[t], FALSE)

\* The rate of a caller on a token: a caller off the whitelist has none,
\* whatever rate the file gives it.
Whitelisted(fee) == IF fee.whitelist THEN fee.rate ELSE Unset

OfCaller(key, fee, live) ==
    <<[Call(key :> Whitelisted(fee))
          EXCEPT !.looks = {key}, !.waits = FALSE, !.live = live]>>

setToChainWhitelistFee(t, from, to, fee, update) ==
    OfCaller(<<"toWhitelist", t, from, to>>, fee, Updates(update, "no"))

setFromChainWhitelistFee(t, from, fee, update) ==
    OfCaller(<<"fromWhitelist", t, from>>, fee, Updates(update, "false"))

\* The file of a caller: its chains, their tokens, and for each token the fee
\* from the chain, if any, and the fees to other chains.
updateCallerFee(cfg, update) ==
    FlattenSeq([n \in DOMAIN cfg.caller |->
        LET entry == cfg.caller[n]
            from == IF entry.from = <<>> THEN <<>>
                    ELSE setFromChainWhitelistFee(entry.token, entry.chain,
                                                  entry.from[1], update)
        IN  from \o FlattenSeq([i \in DOMAIN entry.to |->
                setToChainWhitelistFee(entry.token, entry.chain,
                    entry.to[i].chain, entry.to[i].fee, update)])])

\* Mutant of updateOne: one sub-task runs without the flag of the task.
updateOneLive(cfg, c, t, update) ==
    LET fee == cfg.fee[c][t]
    IN  updateTokenChains(cfg, t, update)
            \o mapToken(t, c, fee.target, "absent")
            \o setBaseFee(t, c, fee.base, update)
            \o setToChainFee(t, c, fee.to, update)
            \o setFromChainFee(t, c, fee.from, update)

\* What register:update does for one token of one chain; without an outFee
\* the fee from the chain is zero.
updateOne(cfg, c, t, update) ==
    LET fee == cfg.fee[c][t]
    IN  updateTokenChains(cfg, t, update)
            \o mapToken(t, c, fee.target, update)
            \o setBaseFee(t, c, fee.base, update)
            \o setToChainFee(t, c, fee.to, update)
            \o setFromChainFee(t, c, fee.from, update)

\* The tokens of a chain's fee list that register:update does not pass over.
TokensOf(cfg, c) ==
    SelectSeq(TokenOrder, LAMBDA t : t \in DOMAIN cfg.fee[c] \ PassedOver)

update(cfg, chains, flag) ==
    FlattenSeq([i \in DOMAIN chains |->
        FlattenSeq([j \in DOMAIN TokensOf(cfg, chains[i]) |->
            updateOne(cfg, chains[i], TokensOf(cfg, chains[i])[j], flag)])])

\* A role is granted with a wait, and revoked without.
grantRole(role, account, grant) ==
    <<[Call(<<"role", role, account>> :> IF grant THEN "on" ELSE Unset)
          EXCEPT !.waits = grant]>>
=============================================================================
