------------------------------ MODULE MCTasks ------------------------------
(***************************************************************************)
(* Small instances of the maintenance tasks for TLC: two chains, two       *)
(* tokens, and configuration files before and after an edit that replaces  *)
(* a target, changes fees, moves a chain out of the targets and one in.    *)
(* With them TLC evaluates the assumptions of the theorems on the scripts. *)
(***************************************************************************)
EXTENDS TaskProperties, TaskScripts

a == "a"
b == "b"
c1 == "c1"
c2 == "c2"

Fees(target, base, to, from) ==
    [target |-> target, base |-> base, to |-> to, from |-> from]

Rate(whitelist, rate) == [whitelist |-> whitelist, rate |-> rate]

Before ==
    [tron |-> FALSE,
     fee |-> [c1 |-> (a :> Fees("x", "f1", "f1", Unset)) @@ (b :> Fees("y", "f1", "f1", "f1")),
              c2 |-> (a :> Fees("x", "f1", "f2", "f1"))],
     target |-> (a :> {c1}) @@ (b :> {c1, c2}),
     vaults |-> {b}, vaultOf |-> (b :> "vault"),
     mintable |-> {a},
     caller |-> <<[chain |-> c1, token |-> a, from |-> <<Rate(TRUE, "r1")>>,
                   to |-> <<[chain |-> c2, fee |-> Rate(TRUE, "r1")]>>]>>,
     feeReceiver |-> "r", nontarget |-> {c2},
     baseGas |-> (c1 :> "g1") @@ (c2 :> "g1"),
     price |-> ("native" :> ((c1 :> "p1") @@ (c2 :> "p1"))),
     authority |-> TRUE, relayChains |-> {c1}]

After ==
    [Before EXCEPT !.fee[c1][a] = Fees("z", "f2", "f1", "f1"),
                   !.fee[c1][b] = Fees("y", "f1", "f2", Unset),
                   !.target[a] = {c2},
                   !.caller[1].from[1] = Rate(FALSE, "r1"),
                   !.caller[1].to[1].fee = Rate(TRUE, "r2"),
                   !.nontarget = {}, !.baseGas[c1] = "g2", !.authority = FALSE]

OnTron == [Before EXCEPT !.tron = TRUE]

MCConfig == {Before, After, OnTron}

T(name) == [name |-> name, token |-> a, chain |-> c1, update |-> "yes", opt |-> "on"]
Tasks(names) == {T(n) : n \in names}

\* The script of each task, with the options of its record.
TaskScript(t, cfg) ==
    CASE t.name = "register:registerToken" -> registerToken(cfg, t.token)
      [] t.name = "register:mapToken" -> mapToken(t.token, t.chain, t.opt, t.update)
      [] t.name = "register:unmapToken" -> unmapToken(t.chain, t.opt, t.update)
      [] t.name = "register:setBaseFee" -> setBaseFee(t.token, t.chain, "f9", t.update)
      [] t.name = "register:setBaseFeeReceiver" -> setBaseFeeReceiver("r")
      [] t.name = "register:updateTokenChains" -> updateTokenChains(cfg, t.token, t.update)
      [] t.name = "register:updateCallerFee" -> updateCallerFee(cfg, t.update)
      [] t.name = "register:update" ->
            update(cfg, IF t.chain = "" THEN ChainOrder ELSE <<t.chain>>, t.update)
      [] t.name = "register:grantRole" -> grantRole("manager", "op", t.opt = "on")
      [] t.name = "bridge:setServiceContract" -> setServiceContract(cfg, t.opt, "s")
      [] t.name = "bridge:pause" -> pause(cfg)
      [] t.name = "bridge:setRelay" -> setRelay(cfg, "relay")
      [] t.name = "bridge:setFailedReceiver" -> setFailedReceiver(cfg, "r")
      [] t.name = "bridge:updateToken" -> updateToken(cfg, t.token)
      [] t.name = "bridge:setTrust" -> setTrust(cfg, "addr", t.opt = "on")
      [] t.name = "bridge:transferOut" -> transferOut(cfg, t.token, t.opt = "gas")
      [] t.name = "bridge:transferOutNative" -> transferOutNative(cfg, FALSE)
      [] t.name = "bridge:withdraw" -> withdrawFee(t.token)
      [] t.name = "relay:setServiceContract" -> relaySetServiceContract(t.opt, "s")
      [] t.name = "relay:setDistributeRate" -> setDistributeRate("vault", "r1")
      [] t.name = "relay:registerChain" -> registerChain(t.chain, "mos")
      [] t.name = "relay:updateToken" -> relayUpdateToken(cfg, t.token)
      [] t.name = "fee:setBaseGas" -> setBaseGas(cfg, t.chain, "g9")
      [] t.name = "fee:setChainGasPrice" -> setChainGasPrice(cfg, t.chain, "native", "p9")
      [] t.name = "fee:setTokenDecimals" -> setTokenDecimals(cfg, a, "6")
      [] t.name = "fee:setTargetPrice" -> setTargetPrice(a, c1 :> "p9", TRUE, "6")
      [] t.name = "fee:update" -> feeUpdate(cfg)
      [] t.name = "auth:closeTarget" -> closeTarget
      [] t.name = "auth:setTarget" -> setTarget("mos", {"f", "g"}, "manager")
      [] t.name = "auth:grant" -> grant(cfg, "manager", "op")
      [] t.name = "auth:revoke" -> revoke(cfg, "manager", "op")
      [] t.name = "auth:setAuth" -> setAuth(cfg, "mos", "auth")
      [] t.name = "vault:grantRole" -> vaultGrantRole(t.token, "manager", "op", t.opt = "on")
      [] t.name = "ProtocolFee:set" -> protocolSet("swap", "relay")
      [] t.name = "ProtocolFee:updateTokens" -> protocolTokens({a, b})
      [] t.name = "ProtocolFee:updateShares" -> protocolShares([f \in {"dev", "stake"} |-> "1"])
      [] t.name = "ProtocolFee:updateReceivers" ->
            protocolReceivers([f \in {"dev", "stake"} |-> "r"])
      [] t.name = "depositWhitelist:switchToggle" -> switchToggle
      [] t.name = "depositWhitelist:setRelayAddress" -> setRelayAddress("relay")
      [] t.name = "depositWhitelist:updateTokenLimit" -> updateTokenLimit(a :> "5000")
      [] t.name = "depositWhitelist:updateWhitelist" ->
            updateWhitelist(IF t.opt = "on" THEN {"u1", "u2"} ELSE {})
      [] t.name = "mos:setLightClient" -> setLightClient(cfg, "client")
      [] t.name = "mos:setRelay" -> setRelayContract(cfg, t.chain, "relay")
      [] t.name = "mos:setWrapped" -> setWrapped
      [] t.name = "mos:setButterRouter" -> setButterRouter(cfg, "router")
      [] t.name = "mos:registerToken" -> mosRegisterToken
      [] t.name = "mos:updateChain" -> mosUpdateChain(cfg, t.token, t.opt = "auth")
      [] t.name = "mos:updateTokenChain" -> mosUpdateTokenChain(cfg, t.token, t.opt = "auth")
      [] t.name = "mos:setMintableToken" -> mosSetMintable
      [] t.name = "mos:setPause" -> mosSetPause(cfg, TRUE, t.opt = "auth")
      [] t.name = "mos:changeOwner" -> mosChangeOwner(cfg, "owner", t.opt = "auth")
      [] t.name = "mos:withdraw" -> mosWithdraw
      [] t.name = "mos:getOrderStatus" -> mosGetOrderStatus
      [] t.name = "v2relay:setup" -> relaySetup(t.opt, "addr")
      [] t.name = "v2relay:registerChain" -> mosRegisterChain(t.chain, "mos")
      [] t.name = "v2relay:registerToken" -> mosRelayRegisterToken(t.token, "vault")
      [] t.name = "v2relay:mapToken" -> mosMapToken(t.token, t.chain, t.opt)
      [] t.name = "v2relay:setTokenFee" -> mosSetTokenFee(t.token, t.chain, "f9")
      [] t.name = "v2relay:setFromChainTokenFee" -> mosSetFromChainTokenFee
      [] t.name = "v2relay:setDistributeRate" -> mosSetDistributeRate("vault", "r1", t.opt = "auth")
      [] t.name = "v2relay:updateToken" -> mosRelayUpdateToken(cfg, t.token)
      [] t.name = "token:grant" -> tokenRole(t.token, "minter", "mos", t.opt = "on")
      [] t.name = "token:setMintCap" -> setMintCap(t.token, "mos", "cap")
      [] t.name = "vault:addManager" -> addManager(t.token, "relay")
      [] t.name = "v2auth:addControl" -> addControl("mos", "f", "manager")
      [] t.name = "v2auth:grantRole" -> authRole("manager", "op", t.opt = "on")
      [] t.name = "misc:deposit" -> deposit(cfg, t.token)
      [] t.name = "misc:withdraw" -> withdraw(t.token, "0")
      [] t.name = "retry:retry" -> retry("order", t.opt)
      [] t.name = "token:transferOut" -> mosTransferOut(cfg, t.token)
      [] t.name = "vault:deposit" -> mosDeposit(cfg, t.token)
      [] t.name = "v2vault:withdraw" -> mosWithdrawVault(t.token, "0")
      [] t.name = "token:transfer" -> sendTokens(t.token)
      [] t.name = "misc:setCap" -> setCap(t.token, "mos", "cap")
      [] t.name = "misc:grant" -> miscRole("vault", "manager", "op", t.opt = "on")
      [] t.name = "mos:swapIn" -> mosSwapIn
      [] t.name = "v2relay:simpleSwapIn" -> simpleSwapIn

\* What a task keeps in line; the others keep nothing.
TaskGoal(t, cfg) ==
    CASE t.update = "no" -> <<>>
      [] t.name = "register:update" ->
            RegisterGoal(cfg, IF t.chain = "" THEN Chains ELSE {t.chain})
      [] t.name = "register:updateCallerFee" -> CallerGoal(cfg)
      [] t.name = "bridge:updateToken" -> BridgeGoal(cfg, t.token)
      [] t.name = "fee:update" -> FeeGoal(cfg)
      [] t.name = "mos:updateTokenChain" -> MosChainGoal(cfg, t.token)
      [] t.name = "v2relay:updateToken" -> MosRelayGoal(cfg, t.token)
      [] OTHER -> <<>>

\* The tasks of a contract: those of the routine, then those that set what the
\* files say by hand, undo it, or ask without updating.
RegisterUpdate == [T("register:update") EXCEPT !.chain = ""]
Updating ==
    {RegisterUpdate, T("register:updateCallerFee"), T("bridge:updateToken"),
     T("fee:update"), T("v2relay:updateToken"), T("mos:updateTokenChain"),
     T("auth:grant"), T("bridge:transferOut")}

OfRegister ==
    {RegisterUpdate,
     T("register:registerToken"), [T("register:registerToken") EXCEPT !.token = b],
     [T("register:mapToken") EXCEPT !.opt = "x", !.update = "absent"],
     [T("register:mapToken") EXCEPT !.opt = "z", !.update = "no"],
     [T("register:unmapToken") EXCEPT !.opt = "x"],
     [T("register:unmapToken") EXCEPT !.opt = "z", !.update = "absent"],
     T("register:setBaseFee"), T("register:updateTokenChains"),
     [T("register:updateTokenChains") EXCEPT !.token = "new"],
     [RegisterUpdate EXCEPT !.update = "no"]}
OfCallers ==
    {T("register:updateCallerFee"), [T("register:updateCallerFee") EXCEPT !.update = "no"],
     T("register:setBaseFeeReceiver"), T("register:grantRole"),
     [T("register:grantRole") EXCEPT !.opt = "off"]}
OfBridge ==
    {T("bridge:updateToken"), T("relay:updateToken"), T("bridge:pause"),
     T("bridge:setRelay"), T("bridge:setFailedReceiver"), T("bridge:setTrust"),
     [T("bridge:setServiceContract") EXCEPT !.opt = "fee"],
     [T("relay:setServiceContract") EXCEPT !.opt = "register"],
     T("relay:setDistributeRate"), T("relay:registerChain")}
OfFees ==
    {T("fee:update"), T("fee:setBaseGas"), T("fee:setChainGasPrice"),
     T("fee:setTokenDecimals"), T("fee:setTargetPrice")}
OfMos ==
    {T("mos:updateTokenChain"), [T("mos:updateTokenChain") EXCEPT !.opt = "auth"],
     [T("mos:setRelay") EXCEPT !.chain = c2], [T("mos:updateChain") EXCEPT !.opt = "auth"],
     [T("mos:setPause") EXCEPT !.opt = "auth"], [T("mos:changeOwner") EXCEPT !.opt = "auth"],
     T("mos:setLightClient"), T("mos:setRelay"), T("mos:setWrapped"),
     T("mos:setButterRouter"), T("mos:registerToken"), T("mos:updateChain"),
     T("mos:setMintableToken"), T("mos:setPause"), T("mos:changeOwner"),
     T("mos:withdraw"), T("mos:getOrderStatus"), T("mos:swapIn")}
OfMosRelay ==
    {T("v2relay:updateToken"), [T("v2relay:setup") EXCEPT !.opt = "client"],
     [T("v2relay:mapToken") EXCEPT !.opt = "x"], T("v2relay:setup"),
     T("v2relay:registerChain"), T("v2relay:registerToken"),
     T("v2relay:setTokenFee"), T("v2relay:setFromChainTokenFee"),
     T("v2relay:setDistributeRate"), T("v2relay:simpleSwapIn")}
OfRoles ==
    {T("auth:grant"), T("auth:closeTarget"), T("auth:setTarget"), T("auth:revoke"),
     T("auth:setAuth"), T("vault:grantRole"), T("ProtocolFee:set"),
     T("ProtocolFee:updateTokens"), T("ProtocolFee:updateShares"),
     T("ProtocolFee:updateReceivers"), T("depositWhitelist:switchToggle"),
     T("depositWhitelist:setRelayAddress"), T("depositWhitelist:updateTokenLimit"),
     T("depositWhitelist:updateWhitelist"),
     [T("depositWhitelist:updateWhitelist") EXCEPT !.opt = "none"], T("token:grant"),
     T("token:setMintCap"), T("vault:addManager"), T("v2auth:addControl"),
     T("v2auth:grantRole"), T("misc:setCap"), T("misc:grant")}
OfTransfers ==
    {T("bridge:transferOut"), [T("bridge:transferOut") EXCEPT !.opt = "gas"],
     T("bridge:transferOutNative"), T("bridge:withdraw"), T("misc:deposit"),
     T("misc:withdraw"), T("token:transferOut"), T("vault:deposit"),
     T("v2vault:withdraw"), T("token:transfer"),
     [T("retry:retry") EXCEPT !.opt = "failed"], T("retry:retry")}

MCScopes ==
    {OfRegister, OfCallers, OfBridge, OfFees, OfMos, OfMosRelay, OfRoles, OfTransfers}
MCTask == UNION MCScopes

\* The scripts and goals, each written out once: TLC keeps the value of a
\* definition, and of a constant's only if it names one.
Written(script) ==
    [i \in DOMAIN script |-> [script[i] EXCEPT !.sets = @ @@ <<>>]] \o <<>>
Scripts ==
    [t \in MCTask |-> [c \in MCConfig |-> Written(TaskScript(t, c))] @@ <<>>] @@ <<>>
Goals ==
    [t \in MCTask |-> [c \in MCConfig |-> TaskGoal(t, c) @@ <<>>] @@ <<>>] @@ <<>>
MCScript == Scripts
MCGoal == Goals

\* Nothing is set but what others set; with token b registered or not.
FreshBook(entries, bRegistered) ==
    [k \in entries |->
        IF k \in {<<"token", a>>, <<"v2token", a>>} \/ (bRegistered /\ k = <<"token", b>>)
        THEN "vault"
        ELSE IF k \in {<<"failedMessage", "order">>, <<"shares", a>>, <<"feeOf", a>>}
        THEN "stored" ELSE Unset]

\* A target of token a was replaced, and the one before not unmapped.
Remapped(fresh) ==
    [fresh EXCEPT ![<<"map", a, c1>>] = "z", ![<<"source", c1, "x">>] = a,
                  ![<<"source", c1, "z">>] = a]

FreshBooks ==
    LET scripts == Scripts
        Steps(s) == UNION {Range(scripts[t][c]) : t \in s, c \in MCConfig}
        Entries(s) ==
            UNION {DOMAIN t.sets \cup t.needs \cup {c.key : c \in t.cases} : t \in Steps(s)}
        Read(s) ==
            IF s # OfRegister THEN {}
            ELSE {<<"source", c, x>> : c \in {c1, c2}, x \in {"x", "y", "z"}}
                    \cup {<<"map", t, c>> : t \in {a, b}, c \in {c1, c2}}
        Fresh(s, r) == FreshBook(Entries(s) \cup Read(s), r)
    IN  [s \in MCScopes |->
            {Fresh(s, r) : r \in BOOLEAN}
                \cup (IF s = OfRegister THEN {Remapped(Fresh(s, TRUE))} ELSE {})] @@ <<>>
MCBooks == FreshBooks

Values ==
    LET scripts == Scripts
    IN  UNION {UNION {Range(s.sets) \cup {d.to : d \in s.cases} : s \in Range(scripts[t][c])} :
                   t \in MCTask, c \in MCConfig} \cup {Unset, a, "z", "vault", "enough", "stored"}
MCValue == Values
MCNamedTypes == [light |-> "1", fee |-> "2", router |-> "3", register |-> "4"]
MCChainOrder == <<"c1", "c2">>
MCTokenOrder == <<"a", "b">>
MCFeeTokens == <<"native">>
MCFeeTypeOrder == <<"dev", "stake">>
=============================================================================
