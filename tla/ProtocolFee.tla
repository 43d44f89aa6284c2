---------------------------- MODULE ProtocolFee ----------------------------
(***************************************************************************)
(* ProtocolFee: divides the protocol's part of the bridge fees among four  *)
(* receivers.  Fees arrive in the contract itself or in the treasury (the  *)
(* feeList of a bridge contract), and are divided when somebody claims or  *)
(* when the shares are about to change; what was divided is "accumulated", *)
(* what of it was taken is "claimed".                                      *)
(*                                                                         *)
(* Tokens are ERC-20: the contract measures what it holds by balanceOf, so *)
(* a step with the native token's zero address always reverts.             *)
(***************************************************************************)
EXTENDS Integers, Functions, SequencesExt

CONSTANTS
    Tokens,
    Amounts,       \* bound: fees that come in
    MaxReceived,   \* bound: fees that come in, per token
    ShareUpdates,  \* bound: arguments of updateShares, type -> share
    Claimants,     \* bound: types that get a receiver and claim
    TokenLists,    \* bound: token lists of a claim, sequences
    Targets,       \* bound: target tokens of a claim
    SwapAmounts    \* bound: what a swap yields

VARIABLES
    hasTreasury,   \* whether feeTreasury is set
    hasSwap,       \* whether swap is set
    hasReceiver,   \* set of types with a receiver
    tokenList,     \* set of tokens
    share,         \* [FeeTypes -> Nat]
    totalShare,    \* Nat
    accumulated,   \* [Tokens -> [FeeTypes -> Nat]]
    claimed,       \* [Tokens -> [FeeTypes -> Nat]]
    treasury,      \* [Tokens -> Nat], owed to the contract by the treasury
    balance,       \* [Tokens -> Nat], held by the contract
    received       \* [Tokens -> Nat], fees that ever came in

configVars == <<hasTreasury, hasSwap, hasReceiver>>
shareVars == <<share, totalShare>>
bookVars == <<accumulated, claimed, treasury, balance>>
feeVars == <<configVars, tokenList, shareVars, bookVars, received>>

FeeTypes == {"DEV", "BUYBACK", "RESERVE", "STAKER"}

ASSUME FeeAssumption ==
    /\ IsFiniteSet(Tokens)
    /\ Amounts \subseteq Nat \ {0} /\ MaxReceived \in Nat
    /\ \A u \in ShareUpdates : DOMAIN u \subseteq FeeTypes /\ \A f \in DOMAIN u : u[f] \in Nat
    /\ Claimants \subseteq FeeTypes /\ Targets \subseteq Tokens
    /\ TokenLists \subseteq Seq(Tokens)
    /\ SwapAmounts \subseteq Nat \ {0}

-----------------------------------------------------------------------------
(* The books of a call in progress; "ok" is lost when the call reverts.    *)

Books == [acc |-> accumulated, cl |-> claimed, tre |-> treasury, bal |-> balance, ok |-> TRUE]

SetBooks(bk) ==
    /\ bk.ok
    /\ accumulated' = bk.acc /\ claimed' = bk.cl
    /\ treasury' = bk.tre /\ balance' = bk.bal

\* Divided and not claimed yet: of one type, and of all.
Due(bk, t, f) == bk.acc[t][f] - bk.cl[t][f]

\* Mutant of Account: what was claimed is still counted.
AccountClaimed(bk, t) == SumFunction(bk.acc[t])

Account(bk, t) == SumFunction([f \in FeeTypes |-> Due(bk, t, f)])

UnAccount(bk, t) == bk.bal[t] - Account(bk, t)

TreasuryAmount(bk, t) == IF hasTreasury THEN bk.tre[t] ELSE 0

ShareAmount(f, amount) == (amount * share[f]) \div totalShare

WithdrawTreasury(bk, t) ==
    IF hasTreasury
    THEN [bk EXCEPT !.bal[t] = @ + bk.tre[t], !.tre[t] = 0]
    ELSE bk

Divide(bk, t, total) ==
    IF total = 0 THEN bk
    ELSE [bk EXCEPT !.ok = @ /\ totalShare > 0,
                    !.acc[t] = IF totalShare = 0 THEN @
                               ELSE [f \in FeeTypes |-> @[f] + ShareAmount(f, total)]]

\* Mutant of KeepAccountSingleToken: the balance is read after the withdrawal.
KeepAccountAfterWithdrawal(bk, t) ==
    LET drawn == WithdrawTreasury(bk, t)
    IN  Divide([drawn EXCEPT !.ok = @ /\ UnAccount(bk, t) >= 0], t,
               TreasuryAmount(bk, t) + UnAccount(drawn, t))

\* Divide what came in since the last time; reverts when the contract holds less
\* than it has divided.
KeepAccountSingleToken(bk, t) ==
    Divide([WithdrawTreasury(bk, t) EXCEPT !.ok = @ /\ UnAccount(bk, t) >= 0], t,
           TreasuryAmount(bk, t) + UnAccount(bk, t))

\* Mutant of KeepAccount: the shares change over fees that were not divided.
KeepNothing(bk) == bk

\* The tokens are independent of each other: any order will do.
KeepAccount(bk) == FoldLeft(KeepAccountSingleToken, bk, SetToSeq(tokenList))

Release(bk, t, f, amount) ==
    [bk EXCEPT !.ok = @ /\ f \in hasReceiver /\ amount <= bk.bal[t],
               !.bal[t] = @ - amount]

MarkClaimed(bk, t, f) == [bk EXCEPT !.cl[t][f] = @ + Due(bk, t, f)]

-----------------------------------------------------------------------------
ClaimToken(bk, t, f) ==
    LET kept == KeepAccountSingleToken(bk, t)
    IN  IF Due(kept, t, f) = 0 THEN kept
        ELSE Release(MarkClaimed(kept, t, f), t, f, Due(kept, t, f))

\* claim: token after token, each paid at once.
Claim(f, list) ==
    /\ SetBooks(FoldLeft(LAMBDA bk, t : ClaimToken(bk, t, f), Books, list))
    /\ UNCHANGED <<configVars, tokenList, shareVars, received>>

\* One turn of claimWithTargetToken's loop: x is the books and the amount of the
\* target token to pay at the end.  A swap brings its proceeds to the contract.
CollectToken(x, t, f, target, out) ==
    LET kept == KeepAccountSingleToken(x.bk, t)
        due == Due(kept, t, f)
        taken == MarkClaimed(kept, t, f)
        sold == [taken EXCEPT !.ok = @ /\ hasSwap /\ due <= taken.bal[t], !.bal[t] = @ - due]
    IN  IF due = 0 THEN [x EXCEPT !.bk = kept]
        ELSE IF t = target THEN [bk |-> taken, amount |-> x.amount + due]
        ELSE [bk |-> [sold EXCEPT !.bal[target] = @ + out], amount |-> x.amount + out]

\* claimWithTargetToken: the tokens are collected and swapped one after another
\* and paid together.
ClaimWithTargetToken(f, list, target) ==
    /\ \E outs \in [DOMAIN list -> SwapAmounts] :
         LET end == FoldLeft(LAMBDA x, i : CollectToken(x, list[i], f, target, outs[i]),
                             [bk |-> Books, amount |-> 0],
                             [i \in 1..Len(list) |-> i])
         IN  SetBooks(Release(end.bk, target, f, end.amount))
    /\ UNCHANGED <<configVars, tokenList, shareVars, received>>

\* Mutant of NewTotal: the new shares are not added.
NewTotalDropped(update) ==
    totalShare - SumFunctionOnSet(share, DOMAIN update)

NewTotal(update) ==
    totalShare + SumFunction([f \in DOMAIN update |-> update[f] - share[f]])

\* updateShares: what came in before is divided by the old shares.
UpdateShares(update) ==
    /\ SetBooks(KeepAccount(Books))
    /\ share' = [f \in FeeTypes |-> IF f \in DOMAIN update THEN update[f] ELSE share[f]]
    /\ totalShare' = NewTotal(update)
    /\ UNCHANGED <<configVars, tokenList, received>>

UpdateTokens(t, added) ==
    /\ tokenList' = IF added THEN tokenList \cup {t} ELSE tokenList \ {t}
    /\ UNCHANGED <<configVars, shareVars, bookVars, received>>

UpdateReceivers(f, isSet) ==
    /\ hasReceiver' = IF isSet THEN hasReceiver \cup {f} ELSE hasReceiver \ {f}
    /\ UNCHANGED <<hasTreasury, hasSwap, tokenList, shareVars, bookVars, received>>

Set ==
    /\ hasSwap' = TRUE /\ hasTreasury' = TRUE
    /\ UNCHANGED <<hasReceiver, tokenList, shareVars, bookVars, received>>

RemoveFeeTreasury ==
    /\ hasTreasury' = FALSE
    /\ UNCHANGED <<hasSwap, hasReceiver, tokenList, shareVars, bookVars, received>>

-----------------------------------------------------------------------------
(* Outside the contract: the bridge collects a fee for it, somebody sends  *)
(* it tokens, and anyone may have the treasury pay it.                     *)

Arrive(t, amount) ==
    /\ received[t] + amount <= MaxReceived
    /\ received' = [received EXCEPT ![t] = @ + amount]

CollectFee(t, amount) ==
    /\ Arrive(t, amount)
    /\ treasury' = [treasury EXCEPT ![t] = @ + amount]
    /\ UNCHANGED <<configVars, tokenList, shareVars, accumulated, claimed, balance>>

SendFee(t, amount) ==
    /\ Arrive(t, amount)
    /\ balance' = [balance EXCEPT ![t] = @ + amount]
    /\ UNCHANGED <<configVars, tokenList, shareVars, accumulated, claimed, treasury>>

PayFromTreasury(t) ==
    /\ treasury[t] > 0
    /\ balance' = [balance EXCEPT ![t] = @ + treasury[t]]
    /\ treasury' = [treasury EXCEPT ![t] = 0]
    /\ UNCHANGED <<configVars, tokenList, shareVars, accumulated, claimed, received>>

FeeInit ==
    /\ hasTreasury = FALSE /\ hasSwap = FALSE /\ hasReceiver = {}
    /\ tokenList = {}
    /\ share = [f \in FeeTypes |-> 0] /\ totalShare = 0
    /\ accumulated = [t \in Tokens |-> [f \in FeeTypes |-> 0]]
    /\ claimed = accumulated
    /\ treasury = [t \in Tokens |-> 0] /\ balance = treasury /\ received = treasury

FeeNext ==
    \/ \E f \in Claimants, list \in TokenLists : Claim(f, list)
    \/ \E f \in Claimants, list \in TokenLists, target \in Targets :
            ClaimWithTargetToken(f, list, target)
    \/ \E update \in ShareUpdates : UpdateShares(update)
    \/ \E t \in Tokens, added \in BOOLEAN : UpdateTokens(t, added)
    \/ \E f \in Claimants, isSet \in BOOLEAN : UpdateReceivers(f, isSet)
    \/ Set \/ RemoveFeeTreasury
    \/ \E t \in Tokens, amount \in Amounts : CollectFee(t, amount) \/ SendFee(t, amount)
    \/ \E t \in Tokens : PayFromTreasury(t)

FeeSpec == FeeInit /\ [][FeeNext]_feeVars

-----------------------------------------------------------------------------
\* Types, and the total of the shares that updateShares keeps by differences.
FeeTypeOK ==
    /\ hasTreasury \in BOOLEAN /\ hasSwap \in BOOLEAN
    /\ hasReceiver \subseteq FeeTypes /\ tokenList \subseteq Tokens
    /\ share \in [FeeTypes -> Nat]
    /\ totalShare = SumFunction(share)
    /\ accumulated \in [Tokens -> [FeeTypes -> Nat]]
    /\ claimed \in [Tokens -> [FeeTypes -> Nat]]
    /\ treasury \in [Tokens -> Nat] /\ balance \in [Tokens -> Nat]
    /\ received \in [Tokens -> Nat]

\* getClaimable; before the shares are set it reverts, and only what was divided
\* counts here.
Claimable(t, f) ==
    Due(Books, t, f)
    + IF totalShare = 0 THEN 0
      ELSE ShareAmount(f, TreasuryAmount(Books, t) + UnAccount(Books, t))

\* The contract holds what it has divided and not paid, and no type took more than
\* was divided to it: the subtractions of _getUnAccount never revert, so no claim
\* and no change of the shares is ever locked out.  It holds for claims whose target
\* token comes once and first in the list or not at all (TokenLists, Targets): with the target
\* behind a swapped token it breaks together with AccumulatedIsFees.
Solvent ==
    \A t \in Tokens :
        /\ \A f \in FeeTypes : claimed[t][f] <= accumulated[t][f]
        /\ Account(Books, t) <= balance[t]

\* A change of the shares divides what came in before by the old shares: what a
\* type may claim of a listed token stays, up to the 3 units the four divisions
\* may have left over.
OldFeesAtOldShares ==
    [][share' # share =>
        \A t \in tokenList, f \in FeeTypes :
            Claimable(t, f)' - Claimable(t, f) \in
                (IF totalShare' = 0 THEN {0} ELSE 0..3)]_feeVars

\* Nothing but its own claims, a change of shares or of the treasury lowers what a
\* type may claim: whoever claims first takes nothing from the others.
ClaimsAreApart ==
    [][\A t \in Tokens, f \in FeeTypes :
        share' = share /\ hasTreasury' = hasTreasury /\ claimed'[t][f] = claimed[t][f] =>
            Claimable(t, f)' >= Claimable(t, f)]_feeVars

\* "accumulated fee info from start" (ProtocolFee.sol:45): what is accumulated of a
\* token is fees of that token that came in.
AccumulatedIsFees ==
    \A t \in Tokens :
        SumFunction(accumulated[t]) <= received[t]
=============================================================================
