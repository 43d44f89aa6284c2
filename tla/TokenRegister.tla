--------------------------- MODULE TokenRegister ---------------------------
(***************************************************************************)
(* TokenRegisterV3: what the relay contract reads of it on the way of an   *)
(* order, the amount of a token on another chain and the fees taken when   *)
(* an order enters and leaves the relay chain.  The registry's tables are  *)
(* constants here: the operators say what a given table yields.            *)
(*                                                                         *)
(* Amounts are in the smallest unit of the token on its chain; Scale[c] is *)
(* the number of those units in one whole token, 10 ** decimals[c] in the  *)
(* contract.                                                               *)
(***************************************************************************)
EXTENDS Integers

CONSTANTS
    Chains,        \* the relay chain and the chains that hold a Bridge
    Tokens,        \* bridgeable tokens, named by their relay chain address
    Callers,       \* initiators a fee rate can be attached to
    Scale,         \* [Tokens -> [Chains -> units in a whole token]]
    MAX_RATE_UNI,  \* the unit of a fee rate, parts per million in the code
    FromFee,       \* [Tokens -> [Chains -> FeeRate]], fromChainFees
    ToFee,         \* [Tokens -> [Chains -> FeeRate]], toChainFees
    BaseFee,       \* [Tokens -> [Chains -> [withSwap, noSwap]]], baseFees
    FromCaller,    \* [Tokens -> [Chains -> [Callers -> Nat]]]
    ToCaller       \* [Tokens -> [Chains -> [Chains -> [Callers -> Nat]]]]

\* setToChainTokenFee and setFromChainFee refuse highest < lowest and a rate
\* above the unit.
FeeRate ==
    {r \in [lowest : Nat, highest : Nat, rate : 0..MAX_RATE_UNI] : r.highest >= r.lowest}

\* A whitelisted rate is stored shifted left by one with the
\* lowest bit set, so that 0 means "not whitelisted".
WhitelistEntry == {0} \cup {2 * r + 1 : r \in 0..MAX_RATE_UNI}

ASSUME RegisterAssumption ==
    /\ MAX_RATE_UNI \in Nat \ {0}
    /\ Scale \in [Tokens -> [Chains -> Nat \ {0}]]
    /\ FromFee \in [Tokens -> [Chains -> FeeRate]]
    /\ ToFee \in [Tokens -> [Chains -> FeeRate]]
    /\ BaseFee \in [Tokens -> [Chains -> [withSwap : Nat, noSwap : Nat]]]
    /\ FromCaller \in [Tokens -> [Chains -> [Callers -> WhitelistEntry]]]
    /\ ToCaller \in [Tokens -> [Chains -> [Chains -> [Callers -> WhitelistEntry]]]]

-----------------------------------------------------------------------------
\* Mutant of TargetAmount: the conversion rounds up.
TargetAmountUp(t, from, to, amount) ==
    (amount * Scale[t][to] + Scale[t][from] - 1) \div Scale[t][from]

\* The amount of t on chain "to" that stands for amount on chain "from": the
\* integer division drops what the target's decimals cannot express.
TargetAmount(t, from, to, amount) ==
    IF Scale[t][from] = Scale[t][to]
    THEN amount
    ELSE (amount * Scale[t][to]) \div Scale[t][from]

\* A rate of the amount, clamped between the lowest and the highest fee.
Fee(r, amount) ==
    LET fee == (amount * r.rate) \div MAX_RATE_UNI
    IN  IF fee > r.highest THEN r.highest
        ELSE IF fee < r.lowest THEN r.lowest
        ELSE fee

Whitelisted(entry) == entry # 0

CallerFee(entry, amount) == (amount * (entry \div 2)) \div MAX_RATE_UNI

FromChainFee(caller, t, amount, from) ==
    LET entry == FromCaller[t][from][caller]
    IN  IF Whitelisted(entry)
        THEN CallerFee(entry, amount)
        ELSE Fee(FromFee[t][from], amount)

\* A caller that is whitelisted for the source chain only is charged the
\* target chain's whitelist rate, which is then 0.
ToChainFee(caller, t, amount, from, to) ==
    LET entry == ToCaller[t][from][to][caller]
    IN  IF Whitelisted(entry) \/ Whitelisted(FromCaller[t][from][caller])
        THEN CallerFee(entry, amount)
        ELSE Fee(ToFee[t][to], amount)

ToChainBaseFee(t, to, withSwap) ==
    IF withSwap THEN BaseFee[t][to].withSwap ELSE BaseFee[t][to].noSwap
-----------------------------------------------------------------------------
(* The quotes, which wallets and routers ask for before an order is sent.  *)

Listed(caller, t, from, to) ==
    Whitelisted(FromCaller[t][from][caller]) \/ Whitelisted(ToCaller[t][from][to][caller])

\* A listed caller's rate is the sum of its two, of which either may be 0.
CallerRate(caller, t, from, to) ==
    FromCaller[t][from][caller] \div 2 + ToCaller[t][from][to][caller] \div 2

\* Mutant of TransferFee: the base fee of the target chain is forgotten.
TransferFeeNoBase(caller, t, amount, from, to, withSwap) ==
    IF Listed(caller, t, from, to)
    THEN (amount * CallerRate(caller, t, from, to)) \div MAX_RATE_UNI
    ELSE Fee(ToFee[t][to], amount) + Fee(FromFee[t][from], amount)

\* _getTransferFee, on the relay chain's amount: both fees are asked of the whole
\* amount, while an order is charged the second of what the first has left.
TransferFee(caller, t, amount, from, to, withSwap) ==
    ToChainBaseFee(t, to, withSwap)
    + (IF Listed(caller, t, from, to)
       THEN (amount * CallerRate(caller, t, from, to)) \div MAX_RATE_UNI
       ELSE Fee(ToFee[t][to], amount) + Fee(FromFee[t][from], amount))

\* _getAmountBeforeFee, the inverse.  It divides by zero at the full rate, and
\* holds an unlisted caller's amount between the bounds of the fees.
AmountBeforeFee(caller, t, amount, to, from, withSwap) ==
    LET listed == Listed(caller, t, from, to)
        in == FromFee[t][from]
        out == ToFee[t][to]
        rate == IF listed THEN CallerRate(caller, t, from, to) ELSE in.rate + out.rate
        before == ((amount + ToChainBaseFee(t, to, withSwap)) * MAX_RATE_UNI)
                      \div (MAX_RATE_UNI - rate) + 1
    IN  IF listed THEN before
        ELSE IF before < in.lowest + out.lowest THEN in.lowest + out.lowest
        ELSE IF before > in.highest + out.highest THEN in.highest + out.highest
        ELSE before

\* getSourceFeeByTargetV3: what to send for "target" to arrive; "self" is the relay
\* chain.
SourceAmount(caller, t, target, to, from, withSwap, self) ==
    TargetAmount(t, self, from,
        AmountBeforeFee(caller, t, TargetAmount(t, to, self, target), to, from, withSwap))
=============================================================================
