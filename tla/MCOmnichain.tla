---------------------------- MODULE MCOmnichain ----------------------------
(***************************************************************************)
(* Small instances of the bridge for TLC: a relay chain R and one or two   *)
(* other chains, A and B.                                                  *)
(***************************************************************************)
EXTENDS OmnichainProperties, TLC

ABR == {"R", "A", "B"}
AR == {"R", "A"}

\* The tokens of the run that uses it have the same tables.
TokenSymmetry == Permutations(Tokens)

\* Every chain, token and pair the same value.
Everywhere(x) == [t \in Tokens |-> [c \in Chains |-> x]]
OnChains(x) == [c \in Chains |-> [t \in Tokens |-> x]]

MCScale1 == Everywhere(1)
\* A expresses the token with one decimal less than R, in base 2.
MCScaleA == [t \in Tokens |-> [c \in Chains |-> IF c = "A" THEN 1 ELSE 2]]
MCUnit1 == [t \in Tokens |-> 1]
MCUnit2 == [t \in Tokens |-> 2]

MCDistribute == [messenger |-> 1, protocol |-> 1]
MCFromFee == Everywhere([lowest |-> 0, highest |-> 3, rate |-> 1])
MCToFee == Everywhere([lowest |-> 1, highest |-> 3, rate |-> 1])
MCBaseFee == Everywhere([withSwap |-> 2, noSwap |-> 1])
NoCaller == [t \in Tokens |-> [c \in Chains |-> [i \in Callers |-> 0]]]
NoCallerTo == [t \in Tokens |-> [c \in Chains |-> NoCaller[t]]]
\* The initiator is listed for chain A as a source, at rate 1/2.
SomeCaller == [t \in Tokens |-> [c \in Chains |-> [i \in Callers |-> IF c = "A" THEN 3 ELSE 0]]]

MintNowhere == {}
MintOnRelay == {"R"} \X Tokens

MCMessageFee == [c \in Chains |-> 1]
MCHeld == OnChains(16)
MCLiquidity == [c \in Chains |-> [t \in Tokens |-> IF c = "R" THEN 2 ELSE 8]]
\* B cannot pay a large order.
MCLiquidityLow == [c \in Chains |-> [t \in Tokens |-> IF c = "A" THEN 8 ELSE 5]]
MCLiquidityR == [c \in Chains |-> [t \in Tokens |-> IF c = "R" THEN 4 ELSE 0]]

OneFromA == [c \in Chains |-> IF c = "A" THEN 1 ELSE 0]
OneFromAB == [c \in Chains |-> IF c = "R" THEN 0 ELSE 1]
OneFromAR == [c \in Chains |-> IF c = "B" THEN 0 ELSE 1]
OneFromEach == [c \in Chains |-> 1]
=============================================================================
