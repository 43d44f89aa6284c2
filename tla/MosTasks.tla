------------------------------ MODULE MosTasks ------------------------------
(***************************************************************************)
(* The tasks of evmv2: those that maintain the omnichain service of a      *)
(* network, on the relay chain the relay service and the token register,   *)
(* the roles of tokens and vaults, and the tasks for Tron.  A task with    *)
(* the auth option sends through the authority contract and waits.         *)
(*                                                                         *)
(* Some tasks call functions the contracts beside them no longer have: the *)
(* contract object has no such method, and the task ends there.            *)
(***************************************************************************)
EXTENDS ServiceTasks

\* A call the contract object has no method for.
Missing(s) == [s EXCEPT !.throws = TRUE]

\* Through the authority contract, looked up in the deployment record.
Authorized(cfg, s, auth) == IF auth /\ ~cfg.authority THEN Throw ELSE s

setLightClient(cfg, client) == <<Sent(cfg, <<"lightClient">> :> client)>>

\* Only the relay chain may be named; on Tron any chain is.
setRelayContract(cfg, chain, relay) ==
    IF ~cfg.tron /\ chain \notin cfg.relayChains THEN <<Throw>>
    ELSE <<Sent(cfg, <<"relayContract">> :> relay)>>

\* The setter is commented out in the contract; on Tron the task sets a relay
\* from options it does not have.
setWrapped == <<Throw>>

setButterRouter(cfg, router) == <<Sent(cfg, <<"butterRouter">> :> router)>>

MosChains(t, chains, enable) ==
    [k \in {<<"mosChain", t, c>> : c \in chains} |-> IF enable THEN "on" ELSE Unset]

\* mos:registerToken sets each chain by a call the contract no longer has.
mosRegisterToken == <<Throw>>

register(cfg, t, c, enable, auth) ==
    Authorized(cfg, Missing(IfDifferent(Call(MosChains(t, {c}, enable)))), auth)

\* The other chains are removed, then the listed ones added, one by one.
mosUpdateChain(cfg, t, auth) ==
    LET Part(chains, enable) ==
            LET list == SelectSeq(ChainOrder, LAMBDA c : c \in chains)
            IN  [i \in DOMAIN list |-> register(cfg, t, list[i], enable, auth)]
    IN  Part(Chains \ cfg.target[t], FALSE) \o Part(cfg.target[t], TRUE)

\* On Tron the same, by the same call.
tronUpdateChain(cfg, t) == mosUpdateChain(cfg, t, FALSE)

\* One transaction for the chains to remove and one for those to add.  Both
\* lists are made before either is sent, over different chains.
mosUpdateTokenChain(cfg, t, auth) ==
    LET Part(chains, enable) ==
            IF chains = {} THEN <<>>
            ELSE <<[IfDifferent(Call(MosChains(t, chains, enable)))
                       EXCEPT !.split = TRUE, !.waits = auth]>>
    IN  IF cfg.tron THEN tronUpdateChain(cfg, t)
        ELSE Part(Chains \ cfg.target[t], FALSE) \o Part(cfg.target[t], TRUE)

\* The tasks for mintable tokens call what the contract no longer has.
mosSetMintable == <<Throw>>

\* On Tron the tasks below send a light client they are not given.
mosSetPause(cfg, paused, auth) ==
    IF cfg.tron THEN <<Throw>>
    ELSE <<Authorized(cfg, Call(<<"mosPaused">> :> IF paused THEN "on" ELSE Unset),
                      auth)>>

mosChangeOwner(cfg, owner, auth) ==
    IF cfg.tron THEN <<Throw>>
    ELSE <<Authorized(cfg, Call(<<"admin">> :> owner), auth)>>

mosWithdraw == <<Throw>>

\* The status of an order: the task changes the admin to an option it does not
\* have instead.
mosGetOrderStatus == <<Throw>>

\* Orders are swapped in by hand with calls of an earlier contract.
mosSwapIn == <<Throw>>
simpleSwapIn == <<Throw>>
-----------------------------------------------------------------------------
relaySetup(type, address) ==
    IF type \in {"client", "tokenregister", "router"}
    THEN <<Call(<<"setup", type>> :> address)>>
    ELSE <<Throw>>

mosRegisterChain(c, mos) == <<Call(<<"mosOf", c>> :> mos)>>

mosRelayRegisterToken(t, vault) == <<Call(<<"v2token", t>> :> vault)>>

\* What mapToken of the register writes.
V2MapCall(t, c, target) ==
    (<<"v2map", t, c>> :> target) @@ (<<"v2source", c, target>> :> t)

mosMapToken(t, c, target) ==
    <<[Call(V2MapCall(t, c, target)) EXCEPT !.needs = {<<"v2token", t>>}]>>

mosSetTokenFee(t, c, fee) ==
    <<[Call(<<"v2fee", t, c>> :> fee) EXCEPT !.needs = {<<"v2token", t>>}]>>

\* The register has no such setter.
mosSetFromChainTokenFee == <<Throw>>

mosSetDistributeRate(type, rate, auth) ==
    <<[Call(<<"v2rate", type>> :> rate) EXCEPT !.waits = auth]>>

\* relay:updateToken of evmv2: for each chain of the token's fee list, what
\* differs from one reading of the register is sent, nothing waited for.
mosRelayUpdateToken(cfg, t) ==
    LET Step(sets, looks) ==
            [Call(sets) EXCEPT !.looks = looks, !.waits = FALSE,
                               !.needs = {<<"v2token", t>>}]
    IN  FlattenSeq([i \in DOMAIN ChainOrder |->
            LET c == ChainOrder[i]
                fee == cfg.fee[c][t]
            IN  IF t \notin DOMAIN cfg.fee[c] THEN <<>>
                ELSE <<Step(V2MapCall(t, c, fee.target), {<<"v2map", t, c>>}),
                       Step(<<"v2fee", t, c>> :> fee.to, {<<"v2fee", t, c>>}),
                       Step(<<"v2outFee", t, c>> :> fee.from, {<<"v2outFee", t, c>>})>>])
-----------------------------------------------------------------------------
\* Roles of a token, the cap of a minter, and what a role controls: each call
\* is waited for.
tokenRole(t, role, account, on) ==
    <<Call(<<"tokenRole", t, role, account>> :> IF on THEN "on" ELSE Unset)>>

setMintCap(t, minter, cap) == <<Call(<<"cap", t, minter>> :> cap)>>

addManager(t, manager) == <<Call(<<"v2manager", t, manager>> :> "on")>>

addControl(target, func, role) == <<Call(<<"v2control", target, func>> :> role)>>

authRole(role, account, on) ==
    <<Call(<<"v2member", role, account>> :> IF on THEN "on" ELSE Unset)>>
=============================================================================
