----------------------------- MODULE BridgeTasks -----------------------------
(***************************************************************************)
(* The tasks that maintain the bridge contract of a network, on the relay  *)
(* chain the relay contract.  On Tron a call is sent and the task goes on; *)
(* elsewhere it waits.                                                     *)
(***************************************************************************)
EXTENDS RegisterTasks

CONSTANT NamedTypes   \* words setServiceContract takes for a contract type

Sent(cfg, sets) == [Call(sets) EXCEPT !.waits = ~cfg.tron]

\* The step is taken if the entries differ from what it would write.
IfDifferent(s) == [s EXCEPT !.looks = DOMAIN s.sets]

\* A contract that is switched by one call, whatever state it is in.
Switch(key) ==
    {[key |-> key, if |-> key :> "on", to |-> Unset],
     [key |-> key, if |-> key :> Unset, to |-> "on"]}

setServiceContract(cfg, type, contract) ==
    LET number == IF type \in DOMAIN NamedTypes THEN NamedTypes[type] ELSE type
    IN  <<Sent(cfg, <<"service", number>> :> contract)>>

\* The task turns the pause over: run again, it undoes itself.
pause(cfg) == <<[Sent(cfg, <<>>) EXCEPT !.cases = Switch(<<"paused">>)]>>

setRelay(cfg, relay) == <<Sent(cfg, <<"relay">> :> relay)>>

setFailedReceiver(cfg, receiver) ==
    <<Sent(cfg, <<"failedReceiver">> :> receiver)>>

\* bridge:registerTokenChains: one transaction for the chains that differ.
bridgeTokenChains(cfg, t, chains, enable) ==
    <<[IfDifferent(Sent(cfg, [k \in {<<"tokenChain", t, c>> : c \in chains} |->
                                 IF enable THEN "on" ELSE Unset]))
          EXCEPT !.split = TRUE]>>

updateTokenFeature(cfg, t, mintable) ==
    <<IfDifferent(Sent(cfg, <<"mintable", t>> :> IF mintable THEN "on" ELSE Unset))>>

\* bridge:updateToken: the feature, the chains of the network's fee entry,
\* then every other chain.
updateToken(cfg, t) ==
    LET Part(chains, enable) ==
            IF chains = {} THEN <<>> ELSE bridgeTokenChains(cfg, t, chains, enable)
    IN  IF t \notin DOMAIN cfg.target THEN <<Throw>>
        ELSE updateTokenFeature(cfg, t, t \in cfg.mintable)
                \o Part(cfg.target[t], TRUE)
                \o Part(Chains \ cfg.target[t], FALSE)

setTrust(cfg, addr, enable) ==
    <<Sent(cfg, <<"trust", addr>> :> IF enable THEN "on" ELSE Unset)>>

\* The relay chain's tasks always wait.
relaySetServiceContract(type, contract) ==
    LET number == IF type \in DOMAIN NamedTypes THEN NamedTypes[type] ELSE type
    IN  <<Call(<<"service", number>> :> contract)>>

setDistributeRate(type, rate) == <<Call(<<"rate", type>> :> rate)>>

registerChain(c, mos) == <<Call(<<"chain", c>> :> mos)>>

\* relay:updateToken looks the fee list of the token up among those of the
\* chains, and ends there.
relayUpdateToken(cfg, t) == updateToken(cfg, t) \o <<Throw>>
=============================================================================
