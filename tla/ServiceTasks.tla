----------------------------- MODULE ServiceTasks -----------------------------
(***************************************************************************)
(* The tasks that maintain the fee service, the authority manager, the     *)
(* roles of a vault, the protocol fee and the deposit whitelist.           *)
(***************************************************************************)
EXTENDS BridgeTasks

CONSTANTS
    FeeTokens,     \* tokens of the message fee file, in its order
    FeeTypeOrder   \* types of the protocol fee

\* On Tron this task calls a method its library does not have.
setBaseGas(cfg, c, gas) ==
    IF cfg.tron THEN <<Throw>> ELSE <<Call(<<"baseGas", c>> :> gas)>>

setChainGasPrice(cfg, c, t, price) == <<Sent(cfg, <<"gasPrice", c, t>> :> price)>>

setTokenDecimals(cfg, t, decimals) ==
    <<Sent(cfg, <<"tokenDecimals", t>> :> decimals)>>

\* Without a receiver, the file's.  On Tron the task ends with an error.
setReceiver(cfg, receiver) ==
    IF cfg.tron THEN <<Throw>>
    ELSE <<IfDifferent(Call(<<"feeReceiver">> :>
              IF receiver = "latest" THEN cfg.feeReceiver ELSE receiver))>>

\* One transaction, not waited for, with the chains whose base gas differs.
setMultiBaseGas(gas) ==
    <<[IfDifferent(Call([k \in {<<"baseGas", c>> : c \in DOMAIN gas} |-> gas[k[2]]]))
          EXCEPT !.split = TRUE, !.waits = FALSE]>>

\* The token's decimals for a service named by its address and decimals other
\* than 18, then the prices that differ; nothing is waited for.
setTargetPrice(t, price, named, decimals) ==
    (IF named /\ decimals # "18"
     THEN <<[IfDifferent(Call(<<"tokenDecimals", t>> :> decimals))
                EXCEPT !.waits = FALSE]>>
     ELSE <<>>)
    \o <<[IfDifferent(Call([k \in {<<"gasPrice", c, t>> : c \in DOMAIN price} |->
                               price[k[2]]]))
             EXCEPT !.split = TRUE, !.waits = FALSE]>>

\* fee:update: the receiver of the file (its name is misspelt in the call, so
\* that the task falls back to the file itself), base gas zero for the chains
\* that are no target, base gas and prices for the others.
feeUpdate(cfg) ==
    LET removed == cfg.nontarget
        added == Chains \ removed
    IN  setReceiver(cfg, "latest")
            \o (IF removed = {} THEN <<>>
                ELSE setMultiBaseGas([c \in removed |-> Unset]))
            \o setMultiBaseGas([c \in added |-> cfg.baseGas[c]])
            \o FlattenSeq([i \in DOMAIN FeeTokens |->
                   setTargetPrice(FeeTokens[i],
                       [c \in added |-> cfg.price[FeeTokens[i]][c]], FALSE, "18")])
-----------------------------------------------------------------------------
\* auth:closeTarget reads a role it is never given, and ends there.
closeTarget == <<Throw>>

setTarget(target, funcs, role) ==
    <<Call([k \in {<<"function", target, f>> : f \in funcs} |-> role])>>

grant(cfg, role, account) == <<Sent(cfg, <<"member", role, account>> :> "on")>>

revoke(cfg, role, account) == <<Sent(cfg, <<"member", role, account>> :> Unset)>>

setAuth(cfg, target, addr) ==
    IF cfg.tron THEN <<Throw>> ELSE <<Call(<<"authority", target>> :> addr)>>

\* The roles of a vault are granted and revoked without a wait.
vaultGrantRole(t, role, account, on) ==
    <<[Call(<<"vaultRole", t, role, account>> :> IF on THEN "on" ELSE Unset)
          EXCEPT !.waits = FALSE]>>

\* misc: the cap of a minter and the roles of a contract, each waited for.
setCap(t, minter, cap) == <<Call(<<"minterCap", t, minter>> :> cap)>>

miscRole(target, role, account, on) ==
    <<Call(<<"role", target, role, account>> :> IF on THEN "on" ELSE Unset)>>
-----------------------------------------------------------------------------
protocolSet(swap, relay) ==
    <<Call((<<"protocolSwap">> :> swap) @@ (<<"protocolTreasury">> :> relay))>>

protocolTokens(tokens) ==
    <<Call([k \in {<<"protocolToken", t>> : t \in tokens} |-> "on"])>>

protocolShares(shares) ==
    <<Call([k \in {<<"share", f>> : f \in Range(FeeTypeOrder)} |-> shares[k[2]]])>>

protocolReceivers(receivers) ==
    <<Call([k \in {<<"shareReceiver", f>> : f \in Range(FeeTypeOrder)} |->
               receivers[k[2]]])>>
-----------------------------------------------------------------------------
switchToggle == <<[Call(<<>>) EXCEPT !.cases = Switch(<<"whitelistSwitch">>)]>>

setRelayAddress(relay) == <<Call(<<"whitelistRelay">> :> relay)>>

updateTokenLimit(limits) ==
    <<Call([k \in {<<"limit", t>> : t \in DOMAIN limits} |-> limits[k[2]]])>>

updateWhitelist(users) ==
    IF users = {} THEN <<Throw>>
    ELSE <<Call([k \in {<<"whitelisted", u>> : u \in users} |-> "on"])>>
=============================================================================
