--------------------------- MODULE NearProperties ---------------------------
(***************************************************************************)
(* What the NEAR service promises its users, whatever runs between a       *)
(* promise and its callback and whichever promises fail.                   *)
(***************************************************************************)
EXTENDS NearService

\* Type correctness: an order whose chain goes on is recorded, a core serves
\* only a chain that waits for it, and no balance goes below zero.
NearTypeOK ==
    /\ promise \in [Job -> Promises]
    /\ result \in [Job -> Failed..(Amount + Fee)]
    /\ \A o \in Order : promise[o] # "none" => o \in used_events
    /\ \A x \in Job : core[x] # NoCore <=> promise[x] \in {"fund", "swap"}
    /\ core_idle \in [Core -> Nat]
    /\ wnear >= 0 /\ near >= 0

\* An order is paid at most once, and one that is paid is recorded for good:
\* receipts presented again, while their promises run or after they failed
\* and released the order, pay nobody twice (process_transfer_in,
\* process_swap_in and the callbacks that release).
PaidOnce ==
    \A o \in Order : paid[o] <= 1 /\ (paid[o] = 1 => o \in used_events)

\* The service is short of NEAR at worst when a promise failed, when a core that
\* the owner listed twice mixed two jobs up, or when it did not start with the
\* wrapped NEAR of the native orders: the relay chain's books know what it holds,
\* but no contract checks an order against them (VaultTokenV3.transferToken).
Covered == Amount * Cardinality({o \in Order : Kind[o] = "native"}) <= Wrapped
Short == fails > 0 \/ doubled # {} \/ ~Covered

\* An order that is recorded and over was paid: mints and transfers are
\* released when they fail.  Of the others one is kept only if a promise
\* failed, the transfer of native NEAR, a core that swapped a part or the
\* transfer back, or if the service was short (finish_transfer_in,
\* callback_post_swap_in).
NotStranded ==
    \A o \in used_events :
        (promise[o] = "none" /\ paid[o] = 0)
            => Kind[o] \in {"native", "swap"} /\ Short

\* A core serves one job at a time and is idle when it serves none, on every
\* way a swap may end, unless the owner listed it once too often
\* (add_butter_core, reset_butter_core).
CoreServesOne ==
    \A c \in Core \ doubled :
        /\ core_idle[c] <= 1
        /\ Serves(c) => core_idle[c] = 0
        /\ \A x, y \in Job : core[x] = c /\ core[y] = c => x = y

\* What leaves for a request is what its core sent for it, although an entry
\* of amount_out may stay behind from a swap of a part; and nobody whose
\* tokens left gets anything back (callback_swap_out_token, ft_on_transfer).
LeavesAsOwn ==
    \A x \in bridged :
        /\ doubled = {} => taken[x] = x
        /\ refunded[x] = 0

\* A user whose tokens did not leave gets them back with the fee, less what a
\* core swapped of a part, even though the service unwraps the whole amount
\* whatever it hands back and does not ask whether that worked.  It fails only
\* a user of native NEAR, and only when the service is short
\* (callback_process_native_swap, callback_transfer_near).
MadeWhole ==
    \A x \in sent \ bridged :
        LET part == IF exchanged[x] = Amount THEN 0 ELSE exchanged[x]
        IN  promise[x] = "none" =>
                \/ refunded[x] = Amount + Fee - part
                \/ x \in Native /\ refunded[x] = 0 /\ Short

\* Every mint and every transfer of a token is paid in the end, failures and
\* panics in between notwithstanding, and every request comes to its end.
PaysInTheEnd ==
    /\ \A o \in Order : Kind[o] \in {"mint", "ft"} => <>(paid[o] = 1)
    /\ \A x \in Request : x \in sent ~> promise[x] = "none"
=============================================================================
