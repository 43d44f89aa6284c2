---------------------------- MODULE NearService ----------------------------
(***************************************************************************)
(* The omnichain service on NEAR.  A call runs to its end on its own, but  *)
(* what it asks of other contracts are promises: each is executed later,   *)
(* its result is handed to a callback later still, and other calls run in  *)
(* between.  A call or callback that panics changes nothing.               *)
(*                                                                         *)
(* An order of the MAP chain is paid in by swap_in, which anyone may call  *)
(* with a verified receipt: native NEAR unwrapped and transferred, a token *)
(* minted or transferred, or tokens handed to a core, an account that      *)
(* swaps them for the receiver.  A request of a user sends tokens out: the *)
(* token itself, or what a core swaps it for and sends to the service.     *)
(* Every order and every request has one chain of promises at a time.      *)
(***************************************************************************)
EXTENDS Integers, FiniteSets

CONSTANTS
    Order,       \* verified orders of the MAP chain
    Kind,        \* Kind[o]: "native", "mint", "ft" (a transfer) or "swap"
    Request,     \* the users' requests to send tokens out
    Native,      \* requests that send native NEAR (swap_out_native)
    Swapped,     \* requests whose tokens a core swaps first
    Mintable,    \* requests whose leaving token is burnt (an MCS token)
    Core,        \* the accounts that swap
    FirstCores,  \* those the service is set up with
    NoCore, NoRequest,
    Amount,      \* the tokens of an order, and of a request without its fee
    Fee,         \* the fee of a request
    Wrapped,     \* wrapped NEAR the service starts with
    Reserve,     \* NEAR it starts with
    MaxFails,    \* bound: promises that fail though they could succeed
    MaxOwner     \* bound: calls of the owner

Job == Order \cup Request

ASSUME NearAssumption ==
    /\ Order \cap Request = {}
    /\ IsFiniteSet(Order) /\ IsFiniteSet(Request)
    /\ Native \cup Swapped \cup Mintable \subseteq Request
    /\ FirstCores \subseteq Core
    /\ NoCore \notin Core /\ NoRequest \notin Request
    /\ Kind \in [Order -> {"native", "mint", "ft", "swap"}]
    /\ Amount \in Nat \ {0} /\ Fee \in Nat /\ Wrapped \in Nat /\ Reserve \in Nat
    /\ MaxFails \in Nat /\ MaxOwner \in Nat

VARIABLES
    promise,     \* promise[x]: what the chain of x waits for, "none" if over
    result,      \* result[x]: NotReady, Failed, or the value of the promise
    core,        \* core[x]: the core that serves x
    used_events, \* orders recorded as used
    core_idle,   \* core_idle[c]: how often the list of idle cores holds c
    core_total,  \* the registered cores
    adding,      \* adding[c]: calls of add_butter_core for c under way
    amount_out,  \* amount_out[c]: the request c sent the swapped tokens for
    wnear,       \* wrapped NEAR of the service
    near,        \* NEAR of the service
    paid,        \* paid[o]: how often the receiver of o was paid
    sent,        \* requests that were made
    unfunded,    \* requests whose transfer to the core failed
    exchanged,   \* exchanged[x]: what the core swapped of x's tokens
    taken,       \* taken[x]: the request whose tokens x bridges or bridged
    bridged,     \* requests whose event was emitted
    refunded,    \* refunded[x]: what the user of x got back
    doubled,     \* history: cores the owner listed once too often
    fails, owned \* calls of each kind so far

chainVars == <<promise, result, core>>
coreVars == <<core_idle, core_total, adding, doubled>>
nativeVars == <<wnear, near>>
userVars == <<paid, sent, unfunded, exchanged, taken, bridged, refunded>>
nearVars == <<chainVars, coreVars, used_events, amount_out, nativeVars, userVars, fails, owned>>

NotReady == -1
Failed == -2

Promises ==
    {"none", "near_withdraw", "transfer", "mint", "ft_transfer", "near_deposit",
     "fund", "swap", "return", "process", "burn", "settle", "callback_transfer_near"}

IsNative(x) == x \in Native \/ (x \in Order /\ Kind[x] = "native")

NearInit ==
    /\ promise = [x \in Job |-> "none"]
    /\ result = [x \in Job |-> NotReady]
    /\ core = [x \in Job |-> NoCore]
    /\ used_events = {}
    /\ core_idle = [c \in Core |-> IF c \in FirstCores THEN 1 ELSE 0]
    /\ core_total = FirstCores
    /\ adding = [c \in Core |-> 0]
    /\ amount_out = [c \in Core |-> NoRequest]
    /\ wnear = Wrapped /\ near = Reserve
    /\ paid = [o \in Order |-> 0]
    /\ sent = {} /\ unfunded = {}
    /\ exchanged = [x \in Request |-> 0]
    /\ taken = [x \in Request |-> NoRequest]
    /\ bridged = {}
    /\ refunded = [x \in Request |-> 0]
    /\ doubled = {} /\ fails = 0 /\ owned = 0

\* The chain of x goes on with promise p, which is handed a value.
Pass(x, p, value) ==
    /\ promise' = [promise EXCEPT ![x] = p]
    /\ result' = [result EXCEPT ![x] = value]

\* The chain of x asks for promise p next, or ends.
Await(x, p) == Pass(x, p, NotReady)

\* A promise of x may fail though nothing forbids it (gas, the receiver's
\* registration, a panic in the other contract).
MayFail == fails < MaxFails /\ fails' = fails + 1
-----------------------------------------------------------------------------
(* swap_in: the order is recorded before anything is asked for.            *)

record_order_id(o) == used_events' = used_events \cup {o}

\* Mutant of remove_order_id: the order stays recorded.
KeepOrderId(o) == used_events' = used_events

remove_order_id(o) == used_events' = used_events \ {o}

FirstPromise(o) ==
    [native |-> "near_withdraw", mint |-> "mint", ft |-> "ft_transfer",
     swap |-> "fund"][Kind[o]]

\* A core is taken from the idle ones, and put back.
PopCore(c) ==
    /\ core_idle[c] > 0
    /\ core_idle' = [core_idle EXCEPT ![c] = @ - 1]

PushCore(c) == core_idle' = [core_idle EXCEPT ![c] = @ + 1]

\* Mutant of process_transfer_in: a chain under way is no obstacle, and the
\* record is not looked at.
process_transfer_in_unread(o) ==
    /\ Kind[o] # "swap"
    /\ promise[o] = "none"
    /\ record_order_id(o)
    /\ Await(o, FirstPromise(o))
    /\ UNCHANGED <<core, core_idle>>

process_transfer_in(o) ==
    /\ Kind[o] # "swap"
    /\ o \notin used_events
    /\ record_order_id(o)
    /\ Await(o, FirstPromise(o))
    /\ UNCHANGED <<core, core_idle>>

process_swap_in(o) ==
    /\ Kind[o] = "swap"
    /\ o \notin used_events
    /\ record_order_id(o)
    /\ Await(o, FirstPromise(o))
    /\ \E c \in Core : PopCore(c) /\ core' = [core EXCEPT ![o] = c]

swap_in(o) ==
    /\ process_transfer_in(o) \/ process_swap_in(o)
    /\ UNCHANGED <<core_total, adding, doubled, amount_out, nativeVars, userVars, fails, owned>>
-----------------------------------------------------------------------------
(* The promises of other contracts: each is executed once, and succeeds or *)
(* fails.  The next function of the chain runs in either case.             *)

\* What comes next where no callback looks at the result: a refund is paid,
\* what was to be wrapped is processed, a core swaps what it was sent or not; an
\* order that is wrapped again or handed back is over.
Unanswered(x) ==
    IF x \in Request
    THEN [near_withdraw |-> "callback_transfer_near", near_deposit |-> "process",
          fund |-> "swap"]
    ELSE [near_deposit |-> "none", return |-> "none"]

Answer(x, value) ==
    IF promise[x] \in DOMAIN Unanswered(x)
    THEN Pass(x, Unanswered(x)[promise[x]], result[x])
    ELSE Pass(x, promise[x], value)

Pending(x) ==
    result[x] = NotReady \/ (x \in Request /\ promise[x] = "near_withdraw")

\* It fails because it must, or is one of the failures of the bound.
Fails(x, possible) ==
    /\ IF possible THEN MayFail ELSE UNCHANGED fails
    /\ Answer(x, Failed)

\* The wrapped token: unwrapping for an order or a refund, and wrapping.
near_withdraw(x) ==
    /\ promise[x] = "near_withdraw" /\ Pending(x)
    /\ \/ wnear >= Amount /\ wnear' = wnear - Amount /\ near' = near + Amount
          /\ Answer(x, 0) /\ UNCHANGED fails
       \/ Fails(x, wnear >= Amount) /\ UNCHANGED <<wnear, near>>
    /\ UNCHANGED <<core, coreVars, used_events, amount_out, userVars, owned>>

near_deposit(x) ==
    /\ promise[x] = "near_deposit" /\ Pending(x)
    /\ \/ near >= Amount /\ near' = near - Amount /\ wnear' = wnear + Amount
          /\ Answer(x, 0) /\ UNCHANGED fails
       \/ Fails(x, near >= Amount) /\ UNCHANGED <<wnear, near>>
    /\ UNCHANGED <<core, coreVars, used_events, amount_out, userVars, owned>>

\* The receiver of an order is paid by the service.
deliver(o) ==
    LET price == IF Kind[o] = "native" THEN Amount ELSE 0
    IN  /\ promise[o] \in {"transfer", "mint", "ft_transfer", "return"} /\ Pending(o)
        /\ \/ near >= price /\ near' = near - price
              /\ paid' = [paid EXCEPT ![o] = @ + 1]
              /\ Answer(o, 0) /\ UNCHANGED fails
           \/ Fails(o, near >= price) /\ UNCHANGED <<near, paid>>
        /\ UNCHANGED <<wnear, core, coreVars, used_events, amount_out, sent,
                       unfunded, exchanged, taken, bridged, refunded, owned>>

\* A core is sent the tokens to swap.
fund(x) ==
    LET price == IF x \in Native THEN Amount ELSE 0
    IN  /\ promise[x] = "fund" /\ Pending(x)
        /\ \/ wnear >= price /\ wnear' = wnear - price
              /\ Answer(x, 0) /\ UNCHANGED <<fails, unfunded>>
           \/ Fails(x, wnear >= price)
              /\ unfunded' = unfunded \cup ({x} \cap Request)
              /\ UNCHANGED wnear
        /\ UNCHANGED <<near, core, coreVars, used_events, amount_out, paid, sent,
                       exchanged, taken, bridged, refunded, owned>>

burn(x) ==
    /\ promise[x] = "burn" /\ Pending(x)
    /\ (Answer(x, 0) /\ UNCHANGED fails) \/ Fails(x, TRUE)
    /\ UNCHANGED <<core, coreVars, used_events, amount_out, nativeVars, userVars, owned>>

\* Mutant of ft_on_transfer: an entry that is there stays.
FirstAmountOut(c, x) ==
    amount_out' = [amount_out EXCEPT ![c] = IF @ = NoRequest THEN x ELSE @]

\* A core sends the service the tokens it got for request x.
ft_on_transfer(c, x) == amount_out' = [amount_out EXCEPT ![c] = x]

\* A core swaps all, none or part of what it was sent and hands the rest back;
\* for an order it sends the proceeds to the receiver, for a request to the
\* service.  When it fails it has sent nothing and keeps the tokens.
Exchange(x, u) ==
    LET price == IF x \in Native \ unfunded THEN Amount ELSE 0
    IN  /\ x \in unfunded => u = 0
        /\ wnear' = wnear + price - (IF price = 0 THEN 0 ELSE u)
        /\ exchanged' = IF x \in Request THEN [exchanged EXCEPT ![x] = u] ELSE exchanged
        /\ paid' = IF x \in Order /\ u = Amount THEN [paid EXCEPT ![x] = @ + 1] ELSE paid
        /\ \/ x \in Request /\ u > 0 /\ ft_on_transfer(core[x], x)
           \/ (x \in Order \/ u < Amount) /\ UNCHANGED amount_out
        /\ Answer(x, u)

swap(x) ==
    /\ promise[x] = "swap" /\ Pending(x)
    /\ \/ Exchange(x, Amount) /\ UNCHANGED fails
       \/ (\E u \in 0..(Amount - 1) : Exchange(x, u))
          /\ IF x \in unfunded THEN UNCHANGED fails ELSE MayFail
       \/ Fails(x, x \notin unfunded) /\ UNCHANGED <<wnear, exchanged, paid, amount_out>>
    /\ UNCHANGED <<near, core, coreVars, used_events, sent, unfunded, taken, bridged,
                   refunded, owned>>
-----------------------------------------------------------------------------
(* The callbacks of an order.                                              *)

Answered(x, p) == promise[x] \in p /\ result[x] # NotReady

\* The chain is over and the order may be presented again.
revert_state(o) == remove_order_id(o) /\ Await(o, "none")

transfer_in_native_token(o) ==
    /\ Answered(o, {"near_withdraw"})
    /\ IF result[o] = Failed THEN revert_state(o)
       ELSE Await(o, "transfer") /\ UNCHANGED used_events
    /\ UNCHANGED <<core, coreVars, amount_out, nativeVars, userVars, fails, owned>>

\* Mutant of finish_transfer_in: a native order is released before its NEAR
\* are wrapped again.
finish_transfer_in_releasing(o) ==
    /\ Answered(o, {"transfer", "mint", "ft_transfer"})
    /\ IF result[o] # Failed THEN Await(o, "none") /\ UNCHANGED used_events
       ELSE /\ remove_order_id(o)
            /\ Await(o, IF Kind[o] = "native" THEN "near_deposit" ELSE "none")
    /\ UNCHANGED <<core, coreVars, amount_out, nativeVars, userVars, fails, owned>>

\* The NEAR of a native order are wrapped again, and the order stays recorded.
finish_transfer_in(o) ==
    /\ Answered(o, {"transfer", "mint", "ft_transfer"})
    /\ IF result[o] # Failed THEN Await(o, "none") /\ UNCHANGED used_events
       ELSE IF Kind[o] = "native" THEN Await(o, "near_deposit") /\ UNCHANGED used_events
       ELSE revert_state(o)
    /\ UNCHANGED <<core, coreVars, amount_out, nativeVars, userVars, fails, owned>>

\* The core of x serves it no more; it is put back or left out.
Release(x, back) ==
    /\ core' = [core EXCEPT ![x] = NoCore]
    /\ IF back THEN PushCore(core[x]) ELSE UNCHANGED core_idle

\* Mutant of callback_do_swap: the core is put back before it swaps.
callback_do_swap_early(o) ==
    /\ Answered(o, {"fund"})
    /\ IF result[o] = Failed THEN revert_state(o) /\ core' = [core EXCEPT ![o] = NoCore]
       ELSE Await(o, "swap") /\ UNCHANGED <<used_events, core>>
    /\ PushCore(core[o])
    /\ UNCHANGED <<core_total, adding, doubled, amount_out, nativeVars, userVars, fails, owned>>

callback_do_swap(o) ==
    /\ Answered(o, {"fund"})
    /\ IF result[o] = Failed THEN revert_state(o) /\ Release(o, TRUE)
       ELSE Await(o, "swap") /\ UNCHANGED <<used_events, core, core_idle>>
    /\ UNCHANGED <<core_total, adding, doubled, amount_out, nativeVars, userVars, fails, owned>>

\* Swapped: the core is idle again.  Nothing swapped: the receiver is sent the
\* tokens the core handed back.  Otherwise the core is left for the owner to
\* look at, and the order released only if the core failed.
callback_post_swap_in(o) ==
    /\ Answered(o, {"swap"})
    /\ Release(o, result[o] \in {0, Amount})
    /\ IF result[o] = Failed THEN revert_state(o)
       ELSE Await(o, IF result[o] = 0 THEN "return" ELSE "none") /\ UNCHANGED used_events
    /\ UNCHANGED <<core_total, adding, doubled, amount_out, nativeVars, userVars, fails, owned>>
-----------------------------------------------------------------------------
(* The requests.                                                           *)

\* Native NEAR come with the call and are wrapped; another token comes by
\* ft_transfer_call, which runs the service's function at once.
swap_out(x) ==
    /\ x \notin sent
    /\ sent' = sent \cup {x}
    /\ IF x \in Native THEN near' = near + Amount + Fee /\ Await(x, "near_deposit")
                       ELSE near' = near /\ Await(x, "process")
    /\ UNCHANGED <<core, coreVars, used_events, amount_out, wnear, paid, unfunded,
                   exchanged, taken, bridged, refunded, fails, owned>>

\* The event is emitted and the fee paid, if the service can, by a promise of
\* which nothing depends; the chain ends with value 0.
finish_swap_out(x) ==
    /\ bridged' = bridged \cup {x}
    /\ near' = IF x \in Native /\ near >= Fee THEN near - Fee ELSE near
    /\ Pass(x, "settle", 0)

\* The tokens of request r leave for x: burnt first if they are mintable.
bridge_out_token(x, r) ==
    /\ taken' = [taken EXCEPT ![x] = r]
    /\ IF x \in Mintable THEN Await(x, "burn") /\ UNCHANGED <<bridged, near>>
                         ELSE finish_swap_out(x)

Panic(x) == Pass(x, "settle", Failed) /\ UNCHANGED <<taken, bridged, near>>

\* It panics without an idle core, or when it is paused or the route is gone.
process_token_swap_out(x) ==
    /\ promise[x] = "process"
    /\ \/ x \notin Swapped /\ bridge_out_token(x, x) /\ UNCHANGED <<core, core_idle, fails>>
       \/ /\ x \in Swapped
          /\ \E c \in Core : PopCore(c) /\ core' = [core EXCEPT ![x] = c]
          /\ Await(x, "fund") /\ UNCHANGED <<taken, bridged, near, fails>>
       \/ /\ Panic(x) /\ UNCHANGED <<core, core_idle>>
          /\ IF x \in Swapped /\ \A c \in Core : core_idle[c] = 0
             THEN UNCHANGED fails ELSE MayFail
    /\ UNCHANGED <<core_total, adding, doubled, used_events, amount_out, wnear, paid,
                   sent, unfunded, exchanged, refunded, owned>>

\* A panic takes the pushed core back: it is lost until the owner resets it.
callback_swap_out_token(x) ==
    LET c == core[x] IN
    /\ x \in Request /\ Answered(x, {"swap"})
    /\ \/ /\ result[x] = Amount /\ amount_out[c] # NoRequest
          /\ Release(x, TRUE)
          /\ amount_out' = [amount_out EXCEPT ![c] = NoRequest]
          /\ bridge_out_token(x, amount_out[c])
       \/ /\ result[x] \in 0..(Amount - 1)
          /\ Release(x, TRUE)
          /\ Pass(x, "settle", Amount + Fee - result[x])
          /\ UNCHANGED <<amount_out, taken, bridged, near>>
       \/ /\ result[x] = Failed \/ (result[x] = Amount /\ amount_out[c] = NoRequest)
          /\ Release(x, FALSE)
          /\ Panic(x) /\ UNCHANGED amount_out
    /\ UNCHANGED <<core_total, adding, doubled, used_events, wnear, paid, sent,
                   unfunded, exchanged, refunded, fails, owned>>

finish_token_out(x) ==
    /\ Answered(x, {"burn"})
    /\ IF result[x] = Failed THEN Panic(x) ELSE finish_swap_out(x) /\ UNCHANGED taken
    /\ UNCHANGED <<core, coreVars, used_events, amount_out, wnear, paid, sent,
                   unfunded, exchanged, refunded, fails, owned>>

\* Mutant of Refund: whoever gets something back gets everything back.
RefundAll(x) == IF result[x] = 0 THEN 0 ELSE Amount + Fee

Refund(x) == IF result[x] = Failed THEN Amount + Fee ELSE result[x]

\* Whatever is handed back, the whole amount is unwrapped.
callback_process_native_swap(x) ==
    /\ promise[x] = "settle" /\ x \in Native
    /\ IF Refund(x) = 0 THEN Await(x, "none") ELSE Pass(x, "near_withdraw", Refund(x))
    /\ UNCHANGED <<core, coreVars, used_events, amount_out, nativeVars, userVars, fails, owned>>

\* Whether or not they were unwrapped.
callback_transfer_near(x) ==
    /\ promise[x] = "callback_transfer_near"
    /\ Await(x, "none")
    /\ \/ near >= result[x] /\ near' = near - result[x]
          /\ refunded' = [refunded EXCEPT ![x] = result[x]]
       \/ near < result[x] /\ UNCHANGED <<near, refunded>>
    /\ UNCHANGED <<wnear, core, coreVars, used_events, amount_out, paid, sent, unfunded,
                   exchanged, taken, bridged, fails, owned>>

\* The token's contract gives the user back what the service did not use.
ft_resolve_transfer(x) ==
    /\ promise[x] = "settle" /\ x \notin Native
    /\ Await(x, "none")
    /\ refunded' = [refunded EXCEPT ![x] = Refund(x)]
    /\ UNCHANGED <<core, coreVars, used_events, amount_out, nativeVars, paid, sent, unfunded,
                   exchanged, taken, bridged, fails, owned>>
-----------------------------------------------------------------------------
(* The owner looks after the cores.                                        *)

Serves(c) == \E x \in Job : core[x] = c

Owner == owned < MaxOwner /\ owned' = owned + 1

coresOnly == <<chainVars, used_events, amount_out, nativeVars, userVars, fails>>

\* The core is registered with every token first.
add_butter_core(c) ==
    /\ Owner
    /\ c \notin core_total
    /\ adding' = [adding EXCEPT ![c] = @ + 1]
    /\ doubled' = IF adding[c] > 0 THEN doubled \cup {c} ELSE doubled
    /\ UNCHANGED <<coresOnly, core_idle, core_total>>

\* The callback of add_butter_core panics if a registration failed.
callback_add_butter_core(c) ==
    /\ adding[c] > 0
    /\ adding' = [adding EXCEPT ![c] = @ - 1]
    /\ \/ PushCore(c) /\ core_total' = core_total \cup {c} /\ UNCHANGED fails
       \/ MayFail /\ UNCHANGED <<core_idle, core_total>>
    /\ UNCHANGED <<chainVars, used_events, amount_out, nativeVars, userVars, doubled, owned>>

\* Any account is put on the list, a core at work or one that is there too.
reset_butter_core(c) ==
    /\ Owner
    /\ PushCore(c)
    /\ doubled' = IF c \notin core_total \/ core_idle[c] > 0 \/ Serves(c)
                  THEN doubled \cup {c} ELSE doubled
    /\ UNCHANGED <<coresOnly, core_total, adding>>

clean_idle_core ==
    /\ Owner
    /\ core_total' = {c \in core_total : core_idle[c] = 0}
    /\ core_idle' = [c \in Core |-> 0]
    /\ UNCHANGED <<coresOnly, adding, doubled>>

OwnerNext ==
    \/ \E c \in Core : add_butter_core(c) \/ reset_butter_core(c)
    \/ clean_idle_core
-----------------------------------------------------------------------------
OrderStep(o) ==
    \/ near_withdraw(o) \/ near_deposit(o) \/ deliver(o) \/ fund(o) \/ swap(o)
    \/ transfer_in_native_token(o) \/ finish_transfer_in(o)
    \/ callback_do_swap(o) \/ callback_post_swap_in(o)

RequestStep(x) ==
    \/ near_withdraw(x) \/ near_deposit(x) \/ fund(x) \/ swap(x) \/ burn(x)
    \/ process_token_swap_out(x) \/ callback_swap_out_token(x) \/ finish_token_out(x)
    \/ callback_process_native_swap(x) \/ callback_transfer_near(x) \/ ft_resolve_transfer(x)

NearNext ==
    \/ \E o \in Order : swap_in(o) \/ OrderStep(o)
    \/ \E x \in Request : swap_out(x) \/ RequestStep(x)
    \/ \E c \in Core : callback_add_butter_core(c)
    \/ OwnerNext

\* The network executes every promise, and somebody presents every order.
NearFairness ==
    /\ \A o \in Order : WF_nearVars(OrderStep(o)) /\ WF_nearVars(swap_in(o))
    /\ \A x \in Request : WF_nearVars(RequestStep(x))

NearSpec == NearInit /\ [][NearNext]_nearVars /\ NearFairness
=============================================================================
