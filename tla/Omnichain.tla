----------------------------- MODULE Omnichain -----------------------------
(***************************************************************************)
(* The bridge contracts of all the chains together, joined by the event    *)
(* logs that messengers carry from chain to chain.                         *)
(***************************************************************************)
EXTENDS Bridge, BridgeAndRelay, Functions

CONSTANT Unit   \* [Tokens -> a common multiple of the token's scales]

vars == <<baseVars, relayVars>>

ASSUME UnitAssumption ==
    /\ Unit \in [Tokens -> Nat \ {0}]
    /\ \A t \in Tokens, c \in Chains : Unit[t] % Scale[t][c] = 0

\* The liquidity the vaults start with was deposited from its chain before.
Deposited(t, c) == TargetAmount(t, c, Relay, InitLiquidity[c][t])
InitTotal(t) == SumFunction([c \in Chains |-> Deposited(t, c)])

InitBal(c, t) ==
    IF ~IsMintable(c, t) THEN InitLiquidity[c][t]
    ELSE IF c = Relay THEN InitTotal(t) ELSE 0

InitVault(t) ==
    [total |-> InitTotal(t), shares |-> InitTotal(t),
     balance |-> [c \in Chains |-> Deposited(t, c)]]

Init ==
    /\ nonce = [c \in Chains |-> 0]
    /\ orderList = [c \in Chains |-> [o \in OrderIds |-> Unknown]]
    /\ paused = [c \in Chains |-> FALSE]
    /\ bridgeable = [c \in Chains |-> Tokens \X Chains]
    /\ failedReceiver = [c \in Chains |-> FALSE]
    /\ acct = [c \in Chains |->
                [bal |-> [t \in Tokens |-> InitBal(c, t)],
                 held |-> InitHeld[c],
                 parked |-> [t \in Tokens |-> 0],
                 fee |-> [r \in FeeReceivers |-> [t \in Tokens |-> 0]]]]
    /\ sent = {}
    /\ relayed = {}
    /\ failed = [c \in Chains |-> {}]
    /\ delivered = [c \in Chains |-> [o \in OrderIds |-> 0]]
    /\ adminOps = 0
    /\ registered = LeafChains
    /\ vault = [t \in Tokens |-> InitVault(t)]
    /\ depositIn = {}

Next ==
    \/ \E c \in LeafChains : LeafNext(c) /\ UNCHANGED relayVars
    \/ RelayNext

Spec == Init /\ [][Next]_vars

-----------------------------------------------------------------------------
TypeOK ==
    /\ nonce \in [Chains -> Nat] /\ \A c \in Chains : nonce[c] <= MaxNonce[c]
    /\ orderList \in [Chains -> [OrderIds -> OrderState]]
    /\ paused \in [Chains -> BOOLEAN]
    /\ bridgeable \in [Chains -> SUBSET (Tokens \X Chains)]
    /\ failedReceiver \in [Chains -> BOOLEAN]
    /\ acct \in [Chains -> Account]
    /\ sent \subseteq MessageOutEvent
    /\ relayed \subseteq MessageInEvent
    /\ failed \in [Chains -> SUBSET MessageInEvent]
    /\ delivered \in [Chains -> [OrderIds -> Nat]]
    /\ adminOps \in Nat
    /\ registered \subseteq LeafChains
    /\ vault \in [Tokens -> V!Vault]
    /\ depositIn \subseteq OrderIds
=============================================================================
