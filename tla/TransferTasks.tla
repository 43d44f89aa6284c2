---------------------------- MODULE TransferTasks ----------------------------
(***************************************************************************)
(* The tasks that move tokens: a transfer, a deposit into a vault, a       *)
(* withdrawal, and the retry of a message that failed on the relay chain.  *)
(* A token moves once the bridge may take it: an allowance is a value, and *)
(* the transfer uses it up.                                                *)
(***************************************************************************)
EXTENDS MosTasks

\* Mutant of Approve: the allowance is given to another spender.
ApproveOther(cfg, t) == IfDifferent(Sent(cfg, <<"allowance", t, "other">> :> "enough"))

\* The bridge may take the value: approved unless it is already.
Approve(cfg, t) == IfDifferent(Sent(cfg, [k \in {<<"allowance", t>>} |-> "enough"]))

\* The bridge takes what it is allowed to take.
Take(cfg, t) ==
    [Sent(cfg, [k \in {<<"allowance", t>>, <<"moved", t>>} |->
                   IF k[1] = "moved" THEN "on" ELSE Unset])
        EXCEPT !.needs = {<<"allowance", t>>}]

\* bridge:transferOut: with a gas limit the task does not wait.
transferOut(cfg, t, gas) ==
    <<Approve(cfg, t), [Take(cfg, t) EXCEPT !.waits = ~cfg.tron /\ ~gas]>>

\* The native coin goes with the call.
transferOutNative(cfg, gas) ==
    <<[Sent(cfg, <<"moved", "native">> :> "on") EXCEPT !.waits = ~cfg.tron /\ ~gas]>>

\* The fees of a receiver are withdrawn if there are any.
withdrawFee(t) == <<IfDifferent(Call(<<"feeOf", t>> :> Unset))>>

\* misc:deposit always waits.
deposit(cfg, t) ==
    <<[Approve(cfg, t) EXCEPT !.waits = TRUE], [Take(cfg, t) EXCEPT !.waits = TRUE]>>

\* misc:withdraw burns the shares named, or all the operator has.
withdraw(t, value) ==
    <<[Call(<<"shares", t>> :> IF value = "0" THEN Unset ELSE value)
          EXCEPT !.needs = {<<"shares", t>>}]>>

\* retry:retry reads the last message of a transaction: one that is there and
\* did not succeed is executed again, if the bridge still keeps it.
retry(order, result) ==
    IF result # "failed" THEN <<Throw>>
    ELSE <<[Call(<<"failedMessage", order>> :> Unset)
               EXCEPT !.needs = {<<"failedMessage", order>>}]>>

\* token:transferOut of evmv2 waits for the allowance only; on Tron it asks
\* for the allowance anew and waits for neither.
mosTransferOut(cfg, t) ==
    IF cfg.tron
    THEN <<[Approve(cfg, t) EXCEPT !.looks = {}], Take(cfg, t)>>
    ELSE <<Approve(cfg, t), [Take(cfg, t) EXCEPT !.waits = FALSE]>>

\* vault:deposit of evmv2 asks for the allowance anew and waits for both.
mosDeposit(cfg, t) ==
    <<[Approve(cfg, t) EXCEPT !.looks = {}, !.waits = TRUE],
      [Take(cfg, t) EXCEPT !.waits = TRUE]>>

\* vault:withdraw of evmv2 burns the shares named, or all the operator has.
mosWithdrawVault(t, value) == withdraw(t, value)

\* Tokens minted, burnt or transferred by hand are not waited for.
sendTokens(t) == <<[Call(<<"moved", t>> :> "on") EXCEPT !.waits = FALSE]>>
=============================================================================
