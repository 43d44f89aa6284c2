----------------------------- MODULE NearProofs -----------------------------
(***************************************************************************)
(* The NEAR service for every set of orders, requests and cores and every  *)
(* amount: its types, that an order is paid at most once, that a core      *)
(* serves one job at a time, and where the tokens of an order or a request *)
(* are: what leaves for a request is its own, who gets nothing sent gets   *)
(* the tokens back, and no order stays recorded and unpaid unless the      *)
(* service was short.                                                      *)
(***************************************************************************)
EXTENDS NearProperties, TLAPS, FiniteSetTheorems

Waits == {"fund", "swap"}
Payments == {"transfer", "mint", "ft_transfer"}

\* The strengthening of NearTypeOK.
NearTypes ==
    /\ promise \in [Job -> Promises]
    /\ result \in [Job -> Failed..(Amount + Fee)]
    /\ core \in [Job -> Core \cup {NoCore}]
    /\ \A o \in Order : promise[o] # "none" => o \in used_events
    /\ \A x \in Request : promise[x] # "none" => x \in sent
    /\ \A x \in Job : core[x] # NoCore <=> promise[x] \in Waits
    /\ core_idle \in [Core -> Nat]
    /\ wnear \in Nat /\ near \in Nat

USE DEF Job

LEMMA InitTypes == NearInit => NearTypes
  BY NearAssumption, SMTT(30) DEF NearInit, NearTypes, Promises, Waits, NotReady, Failed

\* A chain that goes on keeps the types; what else it needs is left to the
\* action: recorded, and served by a core exactly if it waits for one.
LEMMA PassTypes ==
    ASSUME NearTypes, NEW x \in Job, NEW p \in Promises, NEW v \in Failed..(Amount + Fee),
           Pass(x, p, v)
    PROVE  /\ promise' \in [Job -> Promises]
           /\ result' \in [Job -> Failed..(Amount + Fee)]
           /\ promise'[x] = p /\ result'[x] = v
           /\ \A y \in Job \ {x} : promise'[y] = promise[y] /\ result'[y] = result[y]
  BY NearAssumption DEF NearTypes, Pass

LEMMA AnswerTypes ==
    ASSUME NearTypes, NEW x \in Job, NEW v \in Failed..(Amount + Fee), Answer(x, v)
    PROVE  /\ promise' \in [Job -> Promises]
           /\ result' \in [Job -> Failed..(Amount + Fee)]
           /\ promise'[x] # "none" => promise[x] # "none"
           /\ promise[x] # "none" => (promise'[x] \in Waits <=> promise[x] \in Waits)
           /\ \A y \in Job \ {x} : promise'[y] = promise[y] /\ result'[y] = result[y]
           /\ promise'[x] = promise[x] => result'[x] = v
           /\ x \in Order => \/ promise'[x] = promise[x]
                             \/ promise'[x] = "none" /\ promise[x] \in {"return", "near_deposit"}
<1>1. CASE promise[x] \notin DOMAIN Unanswered(x)
  <2>1. Pass(x, promise[x], v)
    BY <1>1 DEF Answer
  <2>2. promise[x] \in Promises
    BY DEF NearTypes
  <2> QED
    BY <2>1, <2>2, PassTypes
<1>2. CASE x \in Request /\ promise[x] \in {"near_withdraw", "near_deposit", "fund"}
  <2>1. PICK p \in {"callback_transfer_near", "process", "swap"} :
           Pass(x, p, result[x]) /\ (p = "swap" <=> promise[x] = "fund")
    BY <1>2 DEF Answer, Unanswered
  <2>2. p \in Promises /\ result[x] \in Failed..(Amount + Fee)
    BY DEF NearTypes, Promises
  <2> QED
    BY <1>2, <2>1, <2>2, PassTypes, NearAssumption DEF Waits
<1>3. CASE x \in Order /\ promise[x] \in {"near_deposit", "return"}
  <2>1. Pass(x, "none", result[x])
    BY <1>3, NearAssumption DEF Answer, Unanswered
  <2>2. "none" \in Promises /\ result[x] \in Failed..(Amount + Fee)
    BY DEF NearTypes, Promises
  <2> QED
    BY <1>3, <2>1, <2>2, PassTypes, NearAssumption DEF Waits
<1> QED
  BY <1>1, <1>2, <1>3, NearAssumption DEF Unanswered

-----------------------------------------------------------------------------
(* Every step keeps the types.                                             *)

\* What the two lemmas leave: a promise that is executed.
LEMMA ExecuteTypes ==
    ASSUME NearTypes, NEW x \in Job, NEW v \in Failed..(Amount + Fee), Answer(x, v),
           promise[x] # "none", core' = core, core_idle' = core_idle,
           used_events' = used_events, sent' = sent, wnear' \in Nat, near' \in Nat
    PROVE  NearTypes'
<1>1. /\ promise' \in [Job -> Promises]
      /\ result' \in [Job -> Failed..(Amount + Fee)]
      /\ promise'[x] \in Waits <=> promise[x] \in Waits
      /\ \A y \in Job \ {x} : promise'[y] = promise[y]
  BY AnswerTypes
<1> QED
  BY <1>1 DEF NearTypes

\* A callback that goes on with promise p, or ends the chain.
LEMMA CallbackTypes ==
    ASSUME NearTypes, NEW x \in Job, NEW p \in Promises, NEW v \in Failed..(Amount + Fee),
           Pass(x, p, v),
           core' \in [Job -> Core \cup {NoCore}], core_idle' \in [Core -> Nat],
           core'[x] # NoCore <=> p \in Waits,
           \A y \in Job \ {x} : core'[y] = core[y],
           \A o \in Order \ {x} : o \in used_events => o \in used_events',
           x \in Order /\ p # "none" => x \in used_events',
           sent \subseteq sent', x \in Request /\ p # "none" => x \in sent',
           wnear' \in Nat, near' \in Nat
    PROVE  NearTypes'
<1>1. /\ promise' \in [Job -> Promises]
      /\ result' \in [Job -> Failed..(Amount + Fee)]
      /\ promise'[x] = p
      /\ \A y \in Job \ {x} : promise'[y] = promise[y]
  BY PassTypes
<1> QED
  BY <1>1 DEF NearTypes

LEMMA ResultRange ==
    /\ NotReady \in Failed..(Amount + Fee) /\ Failed \in Failed..(Amount + Fee)
    /\ \A u \in 0..Amount : u \in Failed..(Amount + Fee)
    /\ \A u \in 0..Amount : Amount + Fee - u \in Failed..(Amount + Fee)
    /\ 0 \in Failed..(Amount + Fee)
  BY NearAssumption DEF NotReady, Failed

LEMMA OrderTypes ==
    ASSUME NearTypes, NEW o \in Order, swap_in(o) \/ transfer_in_native_token(o)
              \/ finish_transfer_in(o) \/ callback_do_swap(o) \/ callback_post_swap_in(o)
    PROVE  NearTypes'
<1> USE ResultRange
<1>0. o \in Job /\ o \notin Request
  BY NearAssumption
<1>1. CASE process_transfer_in(o) /\ swap_in(o)
  <2>1. PICK p \in Promises \ ({"none"} \cup Waits) : Pass(o, p, NotReady)
    BY <1>1, NearAssumption DEF process_transfer_in, FirstPromise, Await, Promises, Waits
  <2>2. core[o] = NoCore
    BY <1>1 DEF NearTypes, process_transfer_in, Waits
  <2> QED
    BY <1>0, <1>1, <2>1, <2>2, CallbackTypes
    DEF NearTypes, process_transfer_in, swap_in, record_order_id, nativeVars, userVars
<1>2. CASE process_swap_in(o) /\ swap_in(o)
  <2>1. Pass(o, "fund", NotReady)
    BY <1>2 DEF process_swap_in, FirstPromise, Await
  <2>2. PICK c \in Core : PopCore(c) /\ core' = [core EXCEPT ![o] = c]
    BY <1>2 DEF process_swap_in
  <2>3. core_idle' \in [Core -> Nat] /\ core' \in [Job -> Core \cup {NoCore}] /\ core'[o] # NoCore
    BY <2>2, NearAssumption DEF PopCore, NearTypes
  <2>4. "fund" \in Promises /\ "fund" \in Waits
    BY DEF Promises, Waits
  <2> QED
    BY <1>0, <1>2, <2>1, <2>2, <2>3, <2>4, CallbackTypes
    DEF NearTypes, process_swap_in, swap_in, record_order_id, nativeVars, userVars
<1>3. CASE transfer_in_native_token(o) \/ finish_transfer_in(o)
  <2>1. promise[o] \notin Waits /\ core[o] = NoCore /\ o \in used_events
    BY <1>3 DEF NearTypes, transfer_in_native_token, finish_transfer_in, Answered, Waits
  <2>2. PICK p \in {"none", "transfer", "near_deposit"} :
           /\ Pass(o, p, NotReady)
           /\ p # "none" => used_events' = used_events
           /\ \A e \in Order \ {o} : e \in used_events => e \in used_events'
    BY <1>3 DEF transfer_in_native_token, finish_transfer_in, revert_state, remove_order_id, Await
  <2>3. p \in Promises /\ p \notin Waits
    BY DEF Promises, Waits
  <2>4. UNCHANGED <<core, core_idle, wnear, near, sent>>
    BY <1>3 DEF transfer_in_native_token, finish_transfer_in, coreVars, nativeVars, userVars
  <2> QED
    BY <1>0, <2>1, <2>2, <2>3, <2>4, CallbackTypes DEF NearTypes
<1>4. CASE callback_do_swap(o) \/ callback_post_swap_in(o)
  <2>1. /\ promise[o] \in Waits /\ core[o] \in Core /\ o \in used_events
        /\ UNCHANGED <<wnear, near, sent>>
    BY <1>4
    DEF NearTypes, callback_do_swap, callback_post_swap_in, Answered, Waits, nativeVars,
        userVars
  <2>2. PICK p \in {"none", "swap", "return"} :
           /\ Pass(o, p, NotReady)
           /\ p # "none" => used_events' = used_events
           /\ \A e \in Order \ {o} : e \in used_events => e \in used_events'
           /\ IF p = "swap" THEN UNCHANGED <<core, core_idle>>
              ELSE \E b \in BOOLEAN : Release(o, b)
    <3>1. \/ /\ Pass(o, "none", NotReady) /\ used_events' = used_events \ {o}
             /\ Release(o, TRUE) \/ Release(o, FALSE)
          \/ /\ Pass(o, "swap", NotReady) /\ UNCHANGED <<used_events, core, core_idle>>
          \/ /\ Pass(o, "none", NotReady) \/ Pass(o, "return", NotReady)
             /\ UNCHANGED used_events
             /\ Release(o, TRUE) \/ Release(o, FALSE)
      <4>1. CASE callback_do_swap(o)
        BY <4>1, Zenon DEF callback_do_swap, revert_state, remove_order_id, Await
      <4>2. CASE callback_post_swap_in(o)
        <5>1. Release(o, TRUE) \/ Release(o, FALSE)
          BY <4>2, Zenon DEF callback_post_swap_in, Release
        <5>2. \/ Pass(o, "none", NotReady) /\ used_events' = used_events \ {o}
              \/ /\ Pass(o, "none", NotReady) \/ Pass(o, "return", NotReady)
                 /\ UNCHANGED used_events
          BY <4>2 DEF callback_post_swap_in, revert_state, remove_order_id, Await
        <5> QED
          BY <5>1, <5>2
      <4> QED
        BY <1>4, <4>1, <4>2
    <3> QED
      BY <3>1
  <2>3. p \in Promises /\ (p \in Waits <=> p = "swap")
    BY DEF Promises, Waits
  <2>4. CASE p = "swap"
    BY <1>0, <2>1, <2>2, <2>3, <2>4, CallbackTypes DEF NearTypes
  <2>5. CASE p # "swap"
    <3>1. core' = [core EXCEPT ![o] = NoCore] /\ core_idle' \in [Core -> Nat]
      BY <2>1, <2>2, <2>5 DEF Release, PushCore, NearTypes
    <3> QED
      BY <1>0, <2>1, <2>2, <2>3, <2>5, <3>1, CallbackTypes DEF NearTypes
  <2> QED
    BY <2>4, <2>5
<1> QED
  BY <1>1, <1>2, <1>3, <1>4 DEF swap_in

\* The promises other contracts execute.
LEMMA PromiseTypes ==
    ASSUME NearTypes, NEW x \in Job,
           near_withdraw(x) \/ near_deposit(x) \/ fund(x) \/ swap(x)
              \/ (x \in Request /\ burn(x)) \/ (x \in Order /\ deliver(x))
    PROVE  NearTypes'
<1> USE ResultRange
<1>1. PICK v \in Failed..(Amount + Fee) : Answer(x, v)
  BY NearAssumption
  DEF near_withdraw, near_deposit, fund, swap, burn, deliver, Fails, Exchange
<1>2. promise[x] # "none" /\ UNCHANGED <<core, core_idle, used_events, sent>>
  BY DEF near_withdraw, near_deposit, fund, swap, burn, deliver, coreVars, userVars
<1>3. wnear' \in Nat /\ near' \in Nat
  <2>1. CASE near_withdraw(x) \/ near_deposit(x) \/ (x \in Request /\ burn(x))
    <3>1. near_withdraw(x) => wnear' \in Nat /\ near' \in Nat
      BY NearAssumption DEF NearTypes, near_withdraw
    <3>2. near_deposit(x) => wnear' \in Nat /\ near' \in Nat
      BY NearAssumption DEF NearTypes, near_deposit
    <3>3. burn(x) => wnear' \in Nat /\ near' \in Nat
      BY DEF NearTypes, burn, nativeVars
    <3> QED
      BY <2>1, <3>1, <3>2, <3>3
  <2>2. CASE fund(x)
    BY <2>2, NearAssumption DEF NearTypes, fund
  <2>3. CASE deliver(x)
    BY <2>3, NearAssumption DEF NearTypes, deliver
  <2>4. CASE swap(x)
    <3>1. CASE \E u \in 0..Amount : Exchange(x, u)
      BY <2>4, <3>1, NearAssumption DEF NearTypes, swap, Exchange
    <3> QED
      BY <2>4, <3>1, NearAssumption DEF NearTypes, swap
  <2> QED
    BY <2>1, <2>2, <2>3, <2>4
<1> QED
  BY <1>1, <1>2, <1>3, ExecuteTypes

LEMMA RequestTypes ==
    ASSUME NearTypes, NEW x \in Request,
           swap_out(x) \/ process_token_swap_out(x) \/ callback_swap_out_token(x)
              \/ finish_token_out(x) \/ callback_process_native_swap(x)
              \/ callback_transfer_near(x) \/ ft_resolve_transfer(x)
    PROVE  NearTypes'
<1> USE ResultRange
<1>0. x \in Job /\ x \notin Order
  BY NearAssumption
<1>a. UNCHANGED <<used_events, wnear>>
  BY DEF swap_out, process_token_swap_out, callback_swap_out_token, finish_token_out,
         callback_process_native_swap, callback_transfer_near, ft_resolve_transfer, nativeVars
<1>b. near' \in Nat
  <2>1. CASE swap_out(x) \/ callback_process_native_swap(x) \/ ft_resolve_transfer(x)
    BY <2>1, NearAssumption
    DEF NearTypes, swap_out, callback_process_native_swap, ft_resolve_transfer, nativeVars
  <2>2. CASE callback_transfer_near(x)
    BY <2>2, <1>0 DEF NearTypes, callback_transfer_near
  <2>3. CASE near' = near \/ finish_swap_out(x)
    BY <2>3, NearAssumption DEF NearTypes, finish_swap_out
  <2> QED
    BY <2>1, <2>2, <2>3
    DEF process_token_swap_out, callback_swap_out_token, finish_token_out, bridge_out_token, Panic
<1>d. sent \subseteq sent' /\ x \in sent'
  BY <1>0 DEF NearTypes, swap_out, process_token_swap_out, callback_swap_out_token,
      finish_token_out, callback_process_native_swap, callback_transfer_near,
      ft_resolve_transfer, Answered, userVars
<1> DEFINE Calm == {"none", "near_deposit", "process", "burn", "settle", "near_withdraw"}
<1>c. Calm \subseteq Promises /\ Calm \cap Waits = {} /\ "fund" \in Promises \cap Waits
  BY DEF Promises, Waits
<1> HIDE DEF Calm
<1>1. CASE UNCHANGED <<core, core_idle>> /\ promise[x] \notin Waits
           /\ \E p \in Calm, v \in Failed..(Amount + Fee) : Pass(x, p, v)
  BY <1>0, <1>a, <1>b, <1>c, <1>d, <1>1, CallbackTypes DEF NearTypes
<1>2. CASE swap_out(x) \/ finish_token_out(x) \/ callback_process_native_swap(x)
           \/ callback_transfer_near(x) \/ ft_resolve_transfer(x)
  <2>1. UNCHANGED <<core, core_idle>>
    BY <1>2 DEF swap_out, finish_token_out, callback_process_native_swap,
                callback_transfer_near, ft_resolve_transfer, coreVars
  <2>2. \E p \in Calm, v \in Failed..(Amount + Fee) : Pass(x, p, v)
    <3>1. Refund(x) \in Failed..(Amount + Fee)
      BY <1>0, NearAssumption DEF Refund, NearTypes, Failed
    <3> QED
      BY <1>2, <3>1
      DEF Calm, swap_out, finish_token_out, callback_process_native_swap, callback_transfer_near,
          ft_resolve_transfer, Await, Panic, finish_swap_out
  <2>3. CASE promise[x] \in Waits
    BY <1>0, <1>2, <2>3 DEF NearTypes, swap_out, finish_token_out, callback_process_native_swap,
          callback_transfer_near, ft_resolve_transfer, Answered, Waits
  <2> QED
    BY <1>1, <2>1, <2>2, <2>3
<1>3. CASE process_token_swap_out(x)
  <2>1. promise[x] \notin Waits
    BY <1>3 DEF process_token_swap_out, Waits
  <2>2. CASE UNCHANGED <<core, core_idle>> /\ (bridge_out_token(x, x) \/ Panic(x))
    BY <1>1, <2>1, <2>2 DEF Calm, bridge_out_token, Panic, finish_swap_out, Await
  <2>3. CASE Pass(x, "fund", NotReady)
             /\ \E c \in Core : PopCore(c) /\ core' = [core EXCEPT ![x] = c]
    <3>1. PICK c \in Core : PopCore(c) /\ core' = [core EXCEPT ![x] = c]
      BY <2>3
    <3>2. core_idle' \in [Core -> Nat] /\ core' \in [Job -> Core \cup {NoCore}]
          /\ core'[x] # NoCore
      BY <1>0, <3>1, NearAssumption DEF PopCore, NearTypes
    <3> QED
      BY <1>0, <1>a, <1>b, <1>c, <1>d, <2>3, <3>1, <3>2, CallbackTypes DEF NearTypes
  <2> QED
    BY <1>3, <2>2, <2>3 DEF process_token_swap_out, Await
<1>4. CASE callback_swap_out_token(x)
  <2>1. promise[x] \in Waits /\ core[x] \in Core
    BY <1>0, <1>4 DEF NearTypes, callback_swap_out_token, Answered, Waits
  <2>2. core' = [core EXCEPT ![x] = NoCore] /\ core_idle' \in [Core -> Nat]
    BY <1>4, <2>1 DEF callback_swap_out_token, Release, PushCore, NearTypes
  <2>3. \E p \in Calm, v \in Failed..(Amount + Fee) : Pass(x, p, v)
    <3>1. \A u \in 0..(Amount - 1) : Amount + Fee - u \in Failed..(Amount + Fee)
      BY NearAssumption DEF Failed
    <3> QED
      BY <1>4, <3>1
      DEF callback_swap_out_token, Calm, bridge_out_token, Panic, finish_swap_out, Await
  <2> QED
    BY <1>0, <1>a, <1>b, <1>c, <1>d, <2>1, <2>2, <2>3, CallbackTypes DEF NearTypes
<1> QED
  BY <1>2, <1>3, <1>4

LEMMA OwnerTypes ==
    ASSUME NearTypes, OwnerNext \/ \E c \in Core : callback_add_butter_core(c)
    PROVE  NearTypes'
<1>1. UNCHANGED <<chainVars, used_events, nativeVars, sent>>
  BY DEF userVars, OwnerNext, add_butter_core, reset_butter_core, clean_idle_core, coresOnly,
         callback_add_butter_core
<1>2. core_idle' \in [Core -> Nat]
  BY DEF OwnerNext, add_butter_core, reset_butter_core, clean_idle_core, PushCore,
         callback_add_butter_core, NearTypes
<1> QED
  BY <1>1, <1>2 DEF NearTypes, chainVars, nativeVars

LEMMA StepTypes == NearTypes /\ [NearNext]_nearVars => NearTypes'
<1> SUFFICES ASSUME NearTypes, [NearNext]_nearVars PROVE NearTypes'
  OBVIOUS
<1>1. CASE \E o \in Order : swap_in(o) \/ OrderStep(o)
  BY <1>1, OrderTypes, PromiseTypes DEF OrderStep
<1>2. CASE \E x \in Request : swap_out(x) \/ RequestStep(x)
  BY <1>2, RequestTypes, PromiseTypes DEF RequestStep
<1>3. CASE OwnerNext \/ \E c \in Core : callback_add_butter_core(c)
  BY <1>3, OwnerTypes
<1>4. CASE UNCHANGED nearVars
  BY <1>4 DEF NearTypes, nearVars, chainVars, coreVars, nativeVars, userVars
<1> QED
  BY <1>1, <1>2, <1>3, <1>4 DEF NearNext

\* Every promise is one the chain knows, an order under way is recorded, a
\* core serves exactly the chains that wait for it, and no balance is negative.
THEOREM NearTypeCorrect == NearSpec => []NearTypeOK
<1>1. NearTypes => NearTypeOK
  BY DEF NearTypes, NearTypeOK, Waits
<1> QED
  BY <1>1, InitTypes, StepTypes, PTL DEF NearSpec

-----------------------------------------------------------------------------
(* An order is paid at most once: whoever is paid is recorded, and the     *)
(* chain of the order can only end from there.                             *)

Settled(o) ==
    /\ o \in used_events
    /\ \/ promise[o] = "none"
       \/ promise[o] \in Payments /\ result[o] = 0
       \/ promise[o] = "swap" /\ result[o] = Amount

PaidInv ==
    /\ paid \in [Order -> Nat]
    /\ \A o \in Order : paid[o] <= 1 /\ (paid[o] = 1 => Settled(o))

\* What a step of order o may not disturb.
Apart(o) ==
    /\ \A e \in Order \ {o} : /\ paid'[e] = paid[e]
                              /\ promise'[e] = promise[e] /\ result'[e] = result[e]
                              /\ e \in used_events => e \in used_events'

LEMMA OneOrder ==
    ASSUME PaidInv, NEW o \in Order, Apart(o), paid' \in [Order -> Nat],
           paid'[o] <= 1, paid'[o] = 1 => Settled(o)'
    PROVE  PaidInv'
  BY DEF PaidInv, Apart, Settled

LEMMA PassApart ==
    ASSUME NearTypes, NEW x \in Job, NEW p, NEW v, Pass(x, p, v)
    PROVE  /\ promise'[x] = p /\ result'[x] = v
           /\ \A y \in Job \ {x} : promise'[y] = promise[y] /\ result'[y] = result[y]
  BY DEF NearTypes, Pass

\* Orders that are not paid may take any step that pays nobody.
LEMMA UnpaidStep ==
    ASSUME PaidInv, NearTypes, NEW o \in Order, NEW p, NEW v, Pass(o, p, v),
           paid' = paid, paid[o] # 1,
           \A e \in Order \ {o} : e \in used_events => e \in used_events'
    PROVE  PaidInv'
<1>1. Apart(o)
  BY PassApart DEF Apart
<1>2. paid'[o] <= 1 /\ paid'[o] # 1
  BY DEF PaidInv
<1> QED
  BY <1>1, <1>2, OneOrder DEF PaidInv

LEMMA SwapInPaid ==
    ASSUME PaidInv, NearTypes, NEW o \in Order, swap_in(o) PROVE PaidInv'
<1>1. o \notin used_events /\ used_events' = used_events \cup {o} /\ paid' = paid
  BY DEF swap_in, process_transfer_in, process_swap_in, record_order_id, userVars
<1>2. Pass(o, FirstPromise(o), NotReady)
  BY DEF swap_in, process_transfer_in, process_swap_in, Await
<1>3. paid[o] # 1
  BY <1>1 DEF PaidInv, Settled
<1> QED
  BY <1>1, <1>2, <1>3, UnpaidStep

LEMMA DeliverPaid ==
    ASSUME PaidInv, NearTypes, NEW o \in Order, deliver(o) PROVE PaidInv'
<1>1. promise[o] \in {"transfer", "mint", "ft_transfer", "return"} /\ result[o] = NotReady
      /\ used_events' = used_events
  BY NearAssumption DEF deliver, Pending
<1>2. paid[o] = 0
  BY <1>1, NearAssumption DEF PaidInv, Settled, NotReady, Payments
<1>3. PICK v \in {0, Failed} : Answer(o, v) /\ (v = 0 \/ paid' = paid)
           /\ (paid' = paid \/ paid' = [paid EXCEPT ![o] = @ + 1])
  BY DEF deliver, Fails
<1>4. /\ \A y \in Job \ {o} : promise'[y] = promise[y] /\ result'[y] = result[y]
      /\ promise'[o] = promise[o] => result'[o] = v
      /\ promise'[o] = promise[o] \/ promise'[o] = "none"
  BY <1>3, ResultRange, AnswerTypes
<1>5. promise[o] = "return" => promise'[o] = "none"
  BY <1>3, NearAssumption DEF Answer, Unanswered, Pass, NearTypes
<1>6. o \in used_events
  BY <1>1 DEF NearTypes
<1>7. paid' \in [Order -> Nat] /\ paid'[o] <= 1 /\ Apart(o)
  BY <1>1, <1>2, <1>3, <1>4 DEF PaidInv, Apart
<1>8. paid'[o] = 1 => Settled(o)'
  BY <1>1, <1>2, <1>3, <1>4, <1>5, <1>6 DEF Settled, Payments, Failed
<1> QED
  BY <1>7, <1>8, OneOrder

LEMMA SwapPaid ==
    ASSUME PaidInv, NearTypes, NEW o \in Order, swap(o) PROVE PaidInv'
<1>1. promise[o] = "swap" /\ result[o] = NotReady /\ used_events' = used_events
      /\ o \in used_events
  BY NearAssumption DEF swap, Pending, NearTypes
<1>2. paid[o] = 0
  BY <1>1, NearAssumption DEF PaidInv, Settled, NotReady, Payments
<1>3. PICK v \in Failed..(Amount + Fee) :
         /\ Answer(o, v)
         /\ paid' = paid \/ (v = Amount /\ paid' = [paid EXCEPT ![o] = @ + 1])
  BY ResultRange, NearAssumption DEF swap, Exchange, Fails
<1>4. Pass(o, "swap", v)
  BY <1>1, <1>3, NearAssumption DEF Answer, Unanswered
<1>5. promise'[o] = "swap" /\ result'[o] = v
      /\ \A y \in Job \ {o} : promise'[y] = promise[y] /\ result'[y] = result[y]
  BY <1>4, PassApart
<1>6. paid' \in [Order -> Nat] /\ paid'[o] <= 1 /\ Apart(o)
  BY <1>1, <1>2, <1>3, <1>5 DEF PaidInv, Apart
<1>7. paid'[o] = 1 => Settled(o)'
  BY <1>1, <1>2, <1>3, <1>5 DEF Settled
<1> QED
  BY <1>6, <1>7, OneOrder

\* The chain of a paid order ends, and the order stays recorded.
LEMMA PaidEnds ==
    ASSUME PaidInv, NearTypes, NEW o \in Order, Pass(o, "none", NotReady),
           paid' = paid, used_events' = used_events
    PROVE  PaidInv'
<1>1. promise'[o] = "none" /\ Apart(o)
  BY PassApart DEF Apart
<1> QED
  BY <1>1, OneOrder DEF PaidInv, Settled

LEMMA CallbackPaid ==
    ASSUME PaidInv, NearTypes, NEW o \in Order,
           transfer_in_native_token(o) \/ finish_transfer_in(o)
              \/ callback_do_swap(o) \/ callback_post_swap_in(o)
    PROVE  PaidInv'
<1>1. paid' = paid /\ \A e \in Order \ {o} : e \in used_events => e \in used_events'
  BY DEF transfer_in_native_token, finish_transfer_in, callback_do_swap, callback_post_swap_in,
         userVars, revert_state, remove_order_id
<1>2. \E p : Pass(o, p, NotReady)
  BY DEF transfer_in_native_token, finish_transfer_in, callback_do_swap, callback_post_swap_in,
         revert_state, Await
<1>3. CASE paid[o] # 1
  BY <1>1, <1>2, <1>3, UnpaidStep
<1>4. CASE paid[o] = 1
  <2>1. Settled(o)
    BY <1>4 DEF PaidInv
  <2>2. ~transfer_in_native_token(o) /\ ~callback_do_swap(o)
    BY <2>1 DEF Settled, Payments, transfer_in_native_token, callback_do_swap, Answered
  <2>3. Pass(o, "none", NotReady) /\ used_events' = used_events
    <3>1. CASE finish_transfer_in(o)
      BY <2>1, <3>1 DEF Settled, finish_transfer_in, Answered, Await, Failed
    <3>2. CASE callback_post_swap_in(o)
      BY <2>1, <3>2, NearAssumption
      DEF Settled, Payments, callback_post_swap_in, Answered, Await, Failed
    <3> QED
      BY <2>2, <3>1, <3>2
  <2> QED
    BY <1>1, <2>3, PaidEnds
<1> QED
  BY <1>3, <1>4

LEMMA PromisePaid ==
    ASSUME PaidInv, NearTypes, NEW o \in Order,
           near_withdraw(o) \/ near_deposit(o) \/ fund(o)
    PROVE  PaidInv'
<1>1. paid' = paid /\ used_events' = used_events
  BY DEF near_withdraw, near_deposit, fund, userVars
<1>2. \E p, v : Pass(o, p, v)
  BY DEF near_withdraw, near_deposit, fund, Fails, Answer
<1>3. paid[o] # 1
  BY DEF near_withdraw, near_deposit, fund, PaidInv, Settled, Payments
<1> QED
  BY <1>1, <1>2, <1>3, UnpaidStep

LEMMA RequestPaid ==
    ASSUME PaidInv, NearTypes, NEW x \in Request, swap_out(x) \/ RequestStep(x)
    PROVE  PaidInv'
<1>0. x \in Job /\ x \notin Order
  BY NearAssumption
<1>1. UNCHANGED <<paid, used_events>>
  BY <1>0 DEF swap_out, RequestStep, near_withdraw, near_deposit, fund, swap, burn, Exchange,
     process_token_swap_out, callback_swap_out_token, finish_token_out,
     callback_process_native_swap, callback_transfer_near, ft_resolve_transfer, userVars
<1>2. \E p, v : Pass(x, p, v)
  <2>1. CASE near_withdraw(x) \/ near_deposit(x) \/ fund(x) \/ swap(x) \/ burn(x)
    BY <2>1 DEF near_withdraw, near_deposit, fund, swap, burn, Exchange, Fails, Answer
  <2>2. CASE swap_out(x) \/ process_token_swap_out(x) \/ callback_swap_out_token(x)
             \/ finish_token_out(x)
    BY <2>2 DEF swap_out, process_token_swap_out, callback_swap_out_token, finish_token_out,
       bridge_out_token, finish_swap_out, Panic, Await
  <2>3. CASE callback_process_native_swap(x) \/ callback_transfer_near(x)
             \/ ft_resolve_transfer(x)
    BY <2>3 DEF callback_process_native_swap, callback_transfer_near, ft_resolve_transfer, Await
  <2> QED
    BY <2>1, <2>2, <2>3 DEF RequestStep
<1>3. \A o \in Order : promise'[o] = promise[o] /\ result'[o] = result[o]
  BY <1>0, <1>2, PassApart
<1> QED
  BY <1>1, <1>3 DEF PaidInv, Settled

LEMMA StepPaid == PaidInv /\ NearTypes /\ [NearNext]_nearVars => PaidInv'
<1> SUFFICES ASSUME PaidInv, NearTypes, [NearNext]_nearVars PROVE PaidInv'
  OBVIOUS
<1>1. CASE \E o \in Order : swap_in(o) \/ OrderStep(o)
  BY <1>1, SwapInPaid, PromisePaid, DeliverPaid, SwapPaid, CallbackPaid DEF OrderStep
<1>2. CASE \E x \in Request : swap_out(x) \/ RequestStep(x)
  BY <1>2, RequestPaid
<1>3. CASE UNCHANGED <<promise, result, used_events, paid>>
  BY <1>3 DEF PaidInv, Settled
<1>4. CASE OwnerNext \/ \E c \in Core : callback_add_butter_core(c)
  BY <1>3, <1>4 DEF OwnerNext, add_butter_core, reset_butter_core, clean_idle_core, coresOnly,
     callback_add_butter_core, chainVars, userVars
<1>5. CASE UNCHANGED nearVars
  BY <1>3, <1>5 DEF nearVars, chainVars, userVars
<1> QED
  BY <1>1, <1>2, <1>4, <1>5 DEF NearNext

\* Whatever is presented and however often, and whichever promises fail, an
\* order is paid at most once and one that is paid is recorded.
THEOREM PaysOnce == NearSpec => []PaidOnce
<1>1. NearInit => PaidInv
  BY DEF NearInit, PaidInv
<1>2. PaidInv => PaidOnce
  BY DEF PaidInv, PaidOnce, Settled
<1> QED
  BY <1>1, <1>2, InitTypes, StepTypes, StepPaid, PTL DEF NearSpec
-----------------------------------------------------------------------------
(* A core the owner did not list once too often is idle once or serves one *)
(* job; while it is being added it does neither.                           *)

Single(c) ==
    /\ core_idle[c] <= 1
    /\ Serves(c) => core_idle[c] = 0
    /\ \A x, y \in Job : core[x] = c /\ core[y] = c => x = y
    /\ adding[c] <= 1
    /\ adding[c] = 1 => c \notin core_total
    /\ c \notin core_total => core_idle[c] = 0 /\ ~Serves(c)

CoreInv ==
    /\ adding \in [Core -> Nat]
    /\ \A c \in Core \ doubled : Single(c)

\* A core is taken, is put back, or is left out.
LEMMA CoreMoves ==
    ASSUME CoreInv, NearTypes, NEW x \in Job, UNCHANGED <<core_total, adding, doubled>>,
           \/ UNCHANGED <<core, core_idle>>
           \/ \E c \in Core : PopCore(c) /\ core' = [core EXCEPT ![x] = c]
           \/ core[x] \in Core /\ (Release(x, TRUE) \/ Release(x, FALSE))
    PROVE  CoreInv'
<1> SUFFICES ASSUME NEW c \in Core \ doubled PROVE Single(c)'
  BY DEF CoreInv
<1>0. Single(c) /\ core \in [Job -> Core \cup {NoCore}] /\ core_idle \in [Core -> Nat]
  BY DEF CoreInv, NearTypes
<1>1. CASE UNCHANGED <<core, core_idle>>
  BY <1>0, <1>1 DEF Single, Serves
<1>2. CASE \E d \in Core : PopCore(d) /\ core' = [core EXCEPT ![x] = d]
  <2>1. PICK d \in Core : PopCore(d) /\ core' = [core EXCEPT ![x] = d]
    BY <1>2
  <2>2. CASE d = c
    <3>1. core_idle[c] = 1 /\ ~Serves(c) /\ core_idle'[c] = 0 /\ c \in core_total
      BY <1>0, <2>1, <2>2 DEF Single, PopCore
    <3>2. \A y \in Job : core'[y] = c => y = x
      BY <1>0, <2>1, <3>1 DEF Serves
    <3> QED
      BY <1>0, <3>1, <3>2 DEF Single
  <2>3. CASE d # c
    <3>1. core_idle'[c] = core_idle[c] /\ \A y \in Job : core'[y] = c => core[y] = c
      BY <1>0, <2>1, <2>3 DEF PopCore
    <3> QED
      BY <1>0, <3>1 DEF Single, Serves
  <2> QED
    BY <2>2, <2>3
<1>3. CASE core[x] \in Core /\ (Release(x, TRUE) \/ Release(x, FALSE))
  <2>1. core' = [core EXCEPT ![x] = NoCore]
        /\ (core_idle' = core_idle \/ core_idle' = [core_idle EXCEPT ![core[x]] = @ + 1])
    BY <1>3 DEF Release, PushCore
  <2>2. \A y \in Job : core'[y] = c => core[y] = c /\ y # x
    BY <1>0, <2>1, NearAssumption
  <2>3. CASE core[x] = c
    <3>1. core_idle[c] = 0 /\ core_idle'[c] <= 1 /\ c \in core_total
      BY <1>0, <2>1, <2>3 DEF Single, Serves
    <3>2. ~Serves(c)'
      BY <1>0, <2>2, <2>3 DEF Single, Serves
    <3> QED
      BY <1>0, <3>1, <3>2, <2>2 DEF Single
  <2>4. CASE core[x] # c
    <3>1. core_idle'[c] = core_idle[c]
      BY <1>0, <2>1, <2>4
    <3> QED
      BY <1>0, <2>2, <3>1 DEF Single, Serves
  <2> QED
    BY <2>3, <2>4
<1> QED
  BY <1>1, <1>2, <1>3

LEMMA OrderCores ==
    ASSUME CoreInv, NearTypes, NEW o \in Order, swap_in(o) \/ OrderStep(o) PROVE CoreInv'
<1>1. UNCHANGED <<core_total, adding, doubled>>
  BY DEF swap_in, OrderStep, near_withdraw, near_deposit, deliver, fund, swap,
     transfer_in_native_token, finish_transfer_in, callback_do_swap, callback_post_swap_in, coreVars
<1>2. CASE UNCHANGED <<core, core_idle>>
  BY <1>1, <1>2, CoreMoves
<1>3. CASE swap_in(o)
  BY <1>1, <1>3, CoreMoves DEF swap_in, process_transfer_in, process_swap_in
<1>4. CASE callback_do_swap(o) \/ callback_post_swap_in(o)
  <2>1. core[o] \in Core
    BY <1>4 DEF NearTypes, callback_do_swap, callback_post_swap_in, Answered, Waits
  <2>2. UNCHANGED <<core, core_idle>> \/ Release(o, TRUE) \/ Release(o, FALSE)
    BY <1>4, Zenon DEF callback_do_swap, callback_post_swap_in, Release
  <2> QED
    BY <1>1, <2>1, <2>2, CoreMoves
<1> QED
  BY <1>2, <1>3, <1>4 DEF OrderStep, near_withdraw, near_deposit, deliver, fund, swap,
     transfer_in_native_token, finish_transfer_in, coreVars

LEMMA RequestCores ==
    ASSUME CoreInv, NearTypes, NEW x \in Request, swap_out(x) \/ RequestStep(x) PROVE CoreInv'
<1>0. x \in Job
  OBVIOUS
<1>1. UNCHANGED <<core_total, adding, doubled>>
  BY DEF swap_out, RequestStep, near_withdraw, near_deposit, fund, swap, burn,
     process_token_swap_out, callback_swap_out_token, finish_token_out,
     callback_process_native_swap, callback_transfer_near, ft_resolve_transfer, coreVars
<1>2. CASE UNCHANGED <<core, core_idle>>
  BY <1>0, <1>1, <1>2, CoreMoves
<1>3. CASE process_token_swap_out(x)
  BY <1>0, <1>1, <1>3, CoreMoves DEF process_token_swap_out
<1>4. CASE callback_swap_out_token(x)
  <2>1. core[x] \in Core
    BY <1>0, <1>4 DEF NearTypes, callback_swap_out_token, Answered, Waits
  <2>2. Release(x, TRUE) \/ Release(x, FALSE)
    BY <1>4 DEF callback_swap_out_token
  <2> QED
    BY <1>0, <1>1, <2>1, <2>2, CoreMoves
<1> QED
  BY <1>2, <1>3, <1>4 DEF swap_out, RequestStep, near_withdraw, near_deposit, fund, swap, burn,
     finish_token_out, callback_process_native_swap, callback_transfer_near,
     ft_resolve_transfer, coreVars

LEMMA OwnerCores ==
    ASSUME CoreInv, NearTypes, OwnerNext \/ \E c \in Core : callback_add_butter_core(c)
    PROVE  CoreInv'
<1>0. core' = core /\ core_idle \in [Core -> Nat] /\ adding \in [Core -> Nat]
  BY DEF OwnerNext, add_butter_core, reset_butter_core, clean_idle_core, coresOnly,
     callback_add_butter_core, chainVars, NearTypes, CoreInv
<1>1. ASSUME NEW d \in Core, add_butter_core(d) PROVE CoreInv'
  <2>1. adding' = [adding EXCEPT ![d] = @ + 1] /\ UNCHANGED <<core_idle, core_total>>
        /\ d \notin core_total /\ doubled \subseteq doubled'
        /\ (adding[d] > 0 => d \in doubled')
    BY <1>1 DEF add_butter_core
  <2> QED
    BY <1>0, <2>1 DEF CoreInv, Single, Serves
<1>2. ASSUME NEW d \in Core, callback_add_butter_core(d) PROVE CoreInv'
  <2>1. /\ adding' = [adding EXCEPT ![d] = @ - 1] /\ adding[d] > 0 /\ doubled' = doubled
        /\ \/ UNCHANGED <<core_idle, core_total>>
           \/ /\ core_idle' = [core_idle EXCEPT ![d] = @ + 1]
              /\ core_total' = core_total \cup {d}
    BY <1>2 DEF callback_add_butter_core, PushCore
  <2>2. adding' \in [Core -> Nat]
    BY <1>0, <2>1
  <2>3. ASSUME NEW c \in Core \ doubled PROVE Single(c)'
    <3>1. Single(c)
      BY DEF CoreInv
    <3>2. CASE c = d
      <4>1. adding[c] = 1 /\ core_idle[c] = 0 /\ ~Serves(c) /\ adding'[c] = 0
        BY <1>0, <2>1, <3>1, <3>2 DEF Single
      <4> QED
        BY <1>0, <2>1, <3>1, <3>2, <4>1 DEF Single, Serves
    <3>3. CASE c # d
      BY <1>0, <2>1, <3>1, <3>3 DEF Single, Serves
    <3> QED
      BY <3>2, <3>3
  <2> QED
    BY <2>1, <2>2, <2>3 DEF CoreInv
<1>3. ASSUME NEW d \in Core, reset_butter_core(d) PROVE CoreInv'
  <2>1. /\ core_idle' = [core_idle EXCEPT ![d] = @ + 1] /\ UNCHANGED <<core_total, adding>>
        /\ doubled \subseteq doubled'
        /\ d \notin core_total \/ core_idle[d] > 0 \/ Serves(d) => d \in doubled'
    BY <1>3 DEF reset_butter_core, PushCore
  <2>2. ASSUME NEW c \in Core \ doubled' PROVE Single(c)'
    <3>1. Single(c)
      BY <2>1 DEF CoreInv
    <3>2. CASE c = d
      BY <1>0, <2>1, <3>1, <3>2 DEF Single, Serves
    <3>3. CASE c # d
      BY <1>0, <2>1, <3>1, <3>3 DEF Single, Serves
    <3> QED
      BY <3>2, <3>3
  <2> QED
    BY <1>0, <2>1, <2>2 DEF CoreInv
<1>4. ASSUME clean_idle_core PROVE CoreInv'
  <2>1. core_total' = {c \in core_total : core_idle[c] = 0} /\ core_idle' = [c \in Core |-> 0]
        /\ UNCHANGED <<adding, doubled>>
    BY <1>4 DEF clean_idle_core
  <2>2. ASSUME NEW c \in Core \ doubled PROVE Single(c)'
    <3>1. Single(c) /\ core_idle'[c] = 0
      BY <2>1 DEF CoreInv
    <3>2. c \notin core_total' => c \notin core_total \/ core_idle[c] = 1
      BY <1>0, <2>1, <3>1 DEF Single
    <3> QED
      BY <1>0, <2>1, <3>1, <3>2 DEF Single, Serves
  <2> QED
    BY <1>0, <2>1, <2>2 DEF CoreInv
<1> QED
  BY <1>1, <1>2, <1>3, <1>4 DEF OwnerNext

LEMMA StepCores == CoreInv /\ NearTypes /\ [NearNext]_nearVars => CoreInv'
<1> SUFFICES ASSUME CoreInv, NearTypes, [NearNext]_nearVars PROVE CoreInv'
  OBVIOUS
<1>1. CASE UNCHANGED nearVars
  BY <1>1 DEF nearVars, chainVars, coreVars, CoreInv, Single, Serves
<1> QED
  BY <1>1, OrderCores, RequestCores, OwnerCores DEF NearNext

\* On every way a swap may end, a core is never handed two jobs at a time nor
\* idle while it serves one, unless the owner listed it once too often.
THEOREM CoresServeOne == NearSpec => []CoreServesOne
<1>1. NearInit => CoreInv
  BY NearAssumption DEF NearInit, CoreInv, Single, Serves
<1>2. CoreInv => CoreServesOne
  BY DEF CoreInv, Single, CoreServesOne
<1> QED
  BY <1>1, <1>2, InitTypes, StepTypes, StepCores, PTL DEF NearSpec

-----------------------------------------------------------------------------
(* Where the tokens are.                                                   *)

Spare == Amount + Fee
Calm == ~Short

\* What a core swapped of a request that is given the rest back.
Part(x) == IF exchanged[x] = Amount THEN 0 ELSE exchanged[x]

FundTypes ==
    /\ exchanged \in [Request -> 0..Amount]
    /\ refunded \in [Request -> 0..Spare]
    /\ amount_out \in [Core -> Request \cup {NoRequest}]
    /\ taken \in [Request -> Request \cup {NoRequest}]
    /\ sent \subseteq Request /\ bridged \subseteq sent
    /\ fails \in Nat

\* How far the chain of a request tells what the core swapped, and what the
\* user is due when it ends without the tokens leaving.
Traced(x) ==
    /\ promise[x] \in Promises \ {"transfer", "mint", "ft_transfer", "return"}
    /\ x \notin sent => exchanged[x] = 0
    /\ promise[x] \in {"near_deposit", "process", "fund"} =>
           exchanged[x] = 0 /\ result[x] = NotReady
    /\ promise[x] = "near_deposit" => x \in Native
    /\ promise[x] = "swap" =>
           /\ result[x] \in {NotReady, Failed} \cup 0..Amount
           /\ exchanged[x] = IF result[x] \in 0..Amount THEN result[x] ELSE 0
    /\ promise[x] = "burn" => exchanged[x] \in {0, Amount} /\ result[x] \in {NotReady, Failed, 0}
    /\ promise[x] = "settle" => IF x \in bridged THEN result[x] = 0 ELSE Refund(x) = Spare - Part(x)
    /\ promise[x] \in {"near_withdraw", "callback_transfer_near"} =>
           x \in Native /\ result[x] = Spare - Part(x)

Given(x) ==
    /\ x \in bridged => promise[x] \in {"settle", "none"} /\ refunded[x] = 0
    /\ x \notin sent \/ promise[x] # "none" => refunded[x] = 0
    /\ x \in sent \ bridged /\ promise[x] = "none" =>
           refunded[x] = Spare - Part(x) \/ (x \in Native /\ refunded[x] = 0 /\ Short)

\* The entry of a core is of the request it serves, once it swapped all of it.
Own(x) ==
    /\ promise[x] = "swap" /\ result[x] = Amount => amount_out[core[x]] = x
    /\ promise[x] = "burn" \/ x \in bridged => taken[x] = x

RequestInv ==
    /\ FundTypes
    /\ \A x \in Request : Traced(x) /\ Given(x)

OwnInv == doubled = {} => \A x \in Request : Own(x)

-----------------------------------------------------------------------------

\* Which promises the chain of an order knows, and when it ends with the order
\* paid.
OrderPromises(o) ==
    [native |-> {"none", "near_withdraw", "transfer", "near_deposit"},
     mint |-> {"none", "mint"}, ft |-> {"none", "ft_transfer"},
     swap |-> {"none", "fund", "swap", "return"}][Kind[o]]

OrderOk(o) ==
    /\ promise[o] \in OrderPromises(o)
    /\ promise[o] \in Payments => result[o] \in {NotReady, Failed, 0}
    /\ promise[o] \in Payments /\ result[o] = 0 => paid[o] = 1
    /\ Kind[o] \in {"mint", "ft"} /\ promise[o] = "none" /\ o \in used_events => paid[o] = 1

OrderInv == \A o \in Order : OrderOk(o)

\* While the service is not short, every promise of NEAR succeeds: nothing that
\* was swapped comes back, and no order ends unpaid.
SmoothRequest(x) ==
    /\ promise[x] = "swap" => result[x] \in {NotReady, Amount}
    /\ promise[x] = "burn" => result[x] \in {NotReady, 0}
    /\ promise[x] \in {"settle", "near_withdraw", "callback_transfer_near"} /\ x \notin bridged =>
           exchanged[x] = 0

SmoothOrder(o) ==
    /\ promise[o] \notin {"near_deposit", "return"}
    /\ promise[o] \in {"near_withdraw", "transfer", "fund"} => result[o] \in {NotReady, 0}
    /\ promise[o] = "swap" /\ result[o] # NotReady => result[o] = Amount /\ paid[o] = 1
    /\ promise[o] = "none" /\ o \in used_events => paid[o] = 1

\* Native requests whose fee the service holds, jobs whose NEAR it holds, and
\* jobs whose NEAR are wrapped.
FeeHeld == {x \in Request \cap Native : promise[x] # "none" /\ x \notin bridged}

NearHeld ==
    {x \in Request \cap Native : promise[x] \in {"near_deposit", "callback_transfer_near"}}
    \cup {o \in Order : \/ promise[o] = "near_withdraw" /\ result[o] = 0
                        \/ promise[o] = "transfer" /\ result[o] = NotReady}

WrappedHeld ==
    {x \in Request \cap Native :
        \/ promise[x] \in {"process", "fund", "near_withdraw"}
        \/ promise[x] = "settle" /\ x \notin bridged}
    \cup {o \in Order : Kind[o] = "native" /\ paid[o] = 0 /\ o \notin NearHeld}

Books ==
    /\ near >= Fee * Cardinality(FeeHeld) + Amount * Cardinality(NearHeld)
    /\ wnear >= Amount * Cardinality(WrappedHeld)

CalmInv ==
    Calm => /\ Books
            /\ unfunded = {}
            /\ \A x \in Request : SmoothRequest(x)
            /\ \A o \in Order : SmoothOrder(o)

-----------------------------------------------------------------------------
(* Steps of requests.                                                      *)

\* What a promise that is executed hands on.
LEMMA AnswerRequest ==
    ASSUME NEW x \in Request, NEW v, Answer(x, v)
    PROVE  /\ promise[x] = "near_withdraw" => Pass(x, "callback_transfer_near", result[x])
           /\ promise[x] = "near_deposit" => Pass(x, "process", result[x])
           /\ promise[x] = "fund" => Pass(x, "swap", result[x])
           /\ promise[x] \notin {"near_withdraw", "near_deposit", "fund"} => Pass(x, promise[x], v)
  BY DEF Answer, Unanswered

LEMMA AnswerOrder ==
    ASSUME NEW o \in Order, NEW v, Answer(o, v)
    PROVE  /\ promise[o] \in {"near_deposit", "return"} => Pass(o, "none", result[o])
           /\ promise[o] \notin {"near_deposit", "return"} => Pass(o, promise[o], v)
  BY NearAssumption DEF Answer, Unanswered

\* What a step of request x leaves of the other requests.
Keeps(x) ==
    /\ \A y \in Request \ {x} :
        /\ exchanged'[y] = exchanged[y] /\ refunded'[y] = refunded[y]
        /\ y \in sent' <=> y \in sent
        /\ y \in bridged' <=> y \in bridged
    /\ Short => Short'

LEMMA OneRequest ==
    ASSUME RequestInv, NearTypes, NEW x \in Request, NEW p, NEW v, Pass(x, p, v), Keeps(x),
           FundTypes', Traced(x)', Given(x)'
    PROVE  RequestInv'
<1>1. \A y \in Request \ {x} : promise'[y] = promise[y] /\ result'[y] = result[y]
  BY PassApart
<1>2. ASSUME NEW y \in Request \ {x} PROVE Traced(y)' /\ Given(y)'
  <2>1. Traced(y) /\ Given(y)
    BY DEF RequestInv
  <2>2. Traced(y)'
    BY <1>1, <2>1 DEF Traced, Keeps, Refund, Part
  <2>3. Given(y)'
    BY <1>1, <2>1 DEF Given, Keeps, Part
  <2> QED
    BY <2>2, <2>3
<1> QED
  BY <1>2 DEF RequestInv

LEMMA ShortStays ==
    ASSUME FundTypes,
           fails' = fails \/ MayFail, doubled \subseteq doubled'
    PROVE  Short => Short'
  BY DEF FundTypes, Short, MayFail, Covered

LEMMA SwapOutFunds ==
    ASSUME RequestInv, NearTypes, NEW x \in Request, swap_out(x)
    PROVE  RequestInv'
<1>1. /\ x \notin sent /\ sent' = sent \cup {x}
      /\ UNCHANGED <<fails, doubled, exchanged, refunded, bridged, taken, amount_out>>
  BY DEF swap_out, coreVars
<1>2. PICK p \in {"near_deposit", "process"} :
         Pass(x, p, NotReady) /\ (p = "near_deposit" => x \in Native)
  BY DEF swap_out, Await
<1>3. promise'[x] = p /\ result'[x] = NotReady
  BY <1>2, PassApart
<1>4. Traced(x) /\ Given(x) /\ FundTypes
  BY DEF RequestInv
<1>5. FundTypes' /\ Keeps(x)
  BY <1>1, <1>4, ShortStays DEF FundTypes, Keeps
<1>6. Traced(x)'
  BY <1>1, <1>2, <1>3, <1>4 DEF Traced, Promises
<1>7. Given(x)'
  BY <1>1, <1>2, <1>3, <1>4 DEF Given, FundTypes
<1> QED
  BY <1>2, <1>5, <1>6, <1>7, OneRequest

LEMMA PromiseFunds ==
    ASSUME RequestInv, NearTypes, NEW x \in Request,
           near_withdraw(x) \/ near_deposit(x) \/ fund(x) \/ burn(x)
    PROVE  RequestInv'
<1>1. /\ promise[x] \in {"near_withdraw", "near_deposit", "fund", "burn"}
      /\ UNCHANGED <<doubled, exchanged, refunded, bridged, sent, taken, amount_out>>
      /\ fails' = fails \/ MayFail
  BY DEF near_withdraw, near_deposit, fund, burn, Fails, coreVars, userVars
<1>2. Traced(x) /\ Given(x) /\ FundTypes
  BY DEF RequestInv
<1>3. FundTypes' /\ Keeps(x)
  BY <1>1, <1>2, ShortStays DEF FundTypes, Keeps, MayFail
<1>4. PICK v \in {0, Failed} : Answer(x, v)
  BY DEF near_withdraw, near_deposit, fund, burn, Fails
<1>5. \/ promise[x] = "near_withdraw" /\ Pass(x, "callback_transfer_near", result[x])
      \/ promise[x] = "near_deposit" /\ Pass(x, "process", result[x])
      \/ promise[x] = "fund" /\ Pass(x, "swap", result[x])
      \/ promise[x] = "burn" /\ Pass(x, "burn", v)
  BY <1>1, <1>4, AnswerRequest
<1>6. PICK p, w : /\ Pass(x, p, w)
                  /\ \/ promise[x] = "near_withdraw" /\ p = "callback_transfer_near" /\ w = result[x]
                     \/ promise[x] = "near_deposit" /\ p = "process" /\ w = result[x]
                     \/ promise[x] = "fund" /\ p = "swap" /\ w = result[x]
                     \/ promise[x] = "burn" /\ p = "burn" /\ w = v
  BY <1>5
<1>7. promise'[x] = p /\ result'[x] = w
  BY <1>6, PassApart
<1>8. Traced(x)'
  BY <1>1, <1>2, <1>6, <1>7, NearAssumption DEF Traced, Promises, Part, NotReady, Failed
<1>9. Given(x)'
  BY <1>1, <1>2, <1>6, <1>7 DEF Given
<1> QED
  BY <1>3, <1>6, <1>8, <1>9, OneRequest

LEMMA SwapFunds ==
    ASSUME RequestInv, NearTypes, NEW x \in Request, swap(x)
    PROVE  RequestInv'
<1>1. /\ promise[x] = "swap" /\ result[x] = NotReady /\ core[x] \in Core /\ x \in sent
      /\ UNCHANGED <<doubled, refunded, bridged, sent, taken>>
      /\ fails' = fails \/ MayFail
  BY DEF swap, Pending, Fails, coreVars, NearTypes, Waits
<1>2. Traced(x) /\ Given(x) /\ FundTypes
  BY DEF RequestInv
<1>3. PICK v \in {Failed} \cup 0..Amount :
         /\ Answer(x, v)
         /\ exchanged' = [exchanged EXCEPT ![x] = IF v = Failed THEN 0 ELSE v]
         /\ amount_out' = amount_out \/ amount_out' = [amount_out EXCEPT ![core[x]] = x]
  <2>1. CASE \E u \in 0..Amount : Exchange(x, u)
    <3>1. PICK u \in 0..Amount : Exchange(x, u)
      BY <2>1
    <3>2. Answer(x, u) /\ exchanged' = [exchanged EXCEPT ![x] = u] /\ u # Failed
      BY <3>1, NearAssumption DEF Exchange, Failed
    <3>3. amount_out' = amount_out \/ amount_out' = [amount_out EXCEPT ![core[x]] = x]
      BY <3>1, NearAssumption DEF Exchange, ft_on_transfer
    <3> QED
      BY <3>2, <3>3
  <2>2. CASE Fails(x, x \notin unfunded) /\ UNCHANGED <<wnear, exchanged, paid, amount_out>>
    <3>1. exchanged = [exchanged EXCEPT ![x] = 0]
      BY <1>1, <1>2, NearAssumption DEF Traced, FundTypes, NotReady
    <3> QED
      BY <2>2, <3>1 DEF Fails
  <2> QED
    BY <2>1, <2>2, NearAssumption DEF swap
<1>4. Pass(x, "swap", v)
  BY <1>1, <1>3, AnswerRequest
<1>5. promise'[x] = "swap" /\ result'[x] = v
  BY <1>4, PassApart
<1>6. FundTypes' /\ Keeps(x)
  BY <1>1, <1>2, <1>3, ShortStays, NearAssumption DEF FundTypes, Keeps, MayFail
<1>7. exchanged'[x] = IF v = Failed THEN 0 ELSE v
  BY <1>2, <1>3 DEF FundTypes
<1>8. Traced(x)'
  BY <1>1, <1>2, <1>5, <1>7, NearAssumption DEF Traced, Promises, NotReady, Failed
<1>9. Given(x)'
  BY <1>1, <1>2, <1>5 DEF Given
<1> QED
  BY <1>4, <1>6, <1>8, <1>9, OneRequest

\* The tokens leave, are burnt first, are sent to a core, or stay.
Exits(x) ==
    \/ Pass(x, "settle", 0) /\ bridged' = bridged \cup {x}
    \/ Pass(x, "burn", NotReady) /\ bridged' = bridged /\ exchanged[x] \in {0, Amount}
    \/ Pass(x, "fund", NotReady) /\ bridged' = bridged /\ exchanged[x] = 0
    \/ Pass(x, "settle", Failed) /\ bridged' = bridged /\ exchanged[x] \in {0, Amount}
    \/ /\ Pass(x, "settle", Spare - exchanged[x]) /\ bridged' = bridged
       /\ exchanged[x] \in 0..(Amount - 1)

LEMMA LeaveFunds ==
    ASSUME RequestInv, NearTypes, NEW x \in Request, Exits(x),
           promise[x] \in {"process", "swap", "burn"},
           UNCHANGED <<sent, exchanged, refunded, doubled>>, fails' = fails \/ MayFail,
           amount_out' \in [Core -> Request \cup {NoRequest}],
           taken' \in [Request -> Request \cup {NoRequest}]
    PROVE  RequestInv'
<1>1. Traced(x) /\ Given(x) /\ FundTypes /\ x \in sent
  BY DEF RequestInv, NearTypes
<1>2. refunded[x] = 0 /\ x \notin bridged
  BY <1>1 DEF Given
<1>3. FundTypes' /\ Keeps(x)
  BY <1>1, ShortStays DEF FundTypes, Keeps, MayFail, Exits
<1> USE NearAssumption DEF NotReady, Failed
<1>4. ASSUME NEW p, NEW v, Pass(x, p, v), p \in {"settle", "burn", "fund"},
             p = "fund" => v = NotReady /\ exchanged[x] = 0,
             p = "burn" => v = NotReady /\ exchanged[x] \in {0, Amount},
             p = "settle" => IF x \in bridged' THEN v = 0
                             ELSE (IF v = Failed THEN Spare ELSE v) = Spare - Part(x),
             p # "settle" => x \notin bridged'
      PROVE  RequestInv'
  <2>1. promise'[x] = p /\ result'[x] = v
    BY <1>4, PassApart
  <2>2. Traced(x)'
    BY <1>1, <1>4, <2>1 DEF Traced, Promises, Refund, Part, Spare
  <2>3. Given(x)'
    BY <1>1, <1>2, <1>4, <2>1 DEF Given
  <2> QED
    BY <1>3, <1>4, <2>2, <2>3, OneRequest
<1>5. exchanged[x] \in {0, Amount} => Part(x) = 0
  BY DEF Part
<1>6. CASE Pass(x, "settle", 0) /\ bridged' = bridged \cup {x}
  BY <1>4, <1>6
<1>7. CASE Pass(x, "burn", NotReady) /\ bridged' = bridged /\ exchanged[x] \in {0, Amount}
  BY <1>2, <1>4, <1>7
<1>8. CASE Pass(x, "fund", NotReady) /\ bridged' = bridged /\ exchanged[x] = 0
  BY <1>2, <1>4, <1>8
<1>9. CASE Pass(x, "settle", Failed) /\ bridged' = bridged /\ exchanged[x] \in {0, Amount}
  BY <1>4, <1>5, <1>9, <1>2 DEF Spare
<1>10. CASE Pass(x, "settle", Spare - exchanged[x]) /\ bridged' = bridged
            /\ exchanged[x] \in 0..(Amount - 1)
  BY <1>4, <1>10, <1>2 DEF Spare, Part
<1> QED
  BY <1>6, <1>7, <1>8, <1>9, <1>10 DEF Exits

LEMMA ProcessFunds ==
    ASSUME RequestInv, NearTypes, NEW x \in Request, process_token_swap_out(x)
    PROVE  RequestInv'
<1>1. /\ promise[x] = "process" /\ exchanged[x] = 0
      /\ UNCHANGED <<sent, exchanged, refunded, doubled, amount_out>>
      /\ fails' = fails \/ MayFail
  BY DEF process_token_swap_out, RequestInv, Traced
<1>2. FundTypes
  BY DEF RequestInv
<1>3. /\ taken' = taken \/ taken' = [taken EXCEPT ![x] = x]
      /\ \/ Pass(x, "settle", 0) /\ bridged' = bridged \cup {x}
         \/ Pass(x, "burn", NotReady) /\ bridged' = bridged
         \/ Pass(x, "fund", NotReady) /\ bridged' = bridged
         \/ Pass(x, "settle", Failed) /\ bridged' = bridged
  BY DEF process_token_swap_out, bridge_out_token, finish_swap_out, Panic, Await
<1>4. /\ amount_out' \in [Core -> Request \cup {NoRequest}]
      /\ taken' \in [Request -> Request \cup {NoRequest}]
  BY <1>1, <1>2, <1>3 DEF FundTypes
<1>5. Exits(x)
  BY <1>1, <1>3 DEF Exits
<1> QED
  BY <1>1, <1>4, <1>5, LeaveFunds

LEMMA SwappedFunds ==
    ASSUME RequestInv, NearTypes, NEW x \in Request, callback_swap_out_token(x)
    PROVE  RequestInv'
<1>1. /\ promise[x] = "swap" /\ core[x] \in Core
      /\ UNCHANGED <<sent, exchanged, refunded, doubled, fails>>
  BY DEF callback_swap_out_token, Answered, NearTypes, Waits
<1>2. /\ result[x] \in {NotReady, Failed} \cup 0..Amount
      /\ exchanged[x] = IF result[x] \in 0..Amount THEN result[x] ELSE 0
  BY <1>1 DEF RequestInv, Traced
<1>3. FundTypes
  BY DEF RequestInv
<1>4. amount_out[core[x]] \in Request \cup {NoRequest}
  BY <1>1, <1>3 DEF FundTypes
<1>5. /\ amount_out' = amount_out \/ amount_out' = [amount_out EXCEPT ![core[x]] = NoRequest]
      /\ taken' = taken \/ taken' = [taken EXCEPT ![x] = amount_out[core[x]]]
      /\ \/ /\ result[x] = Amount
            /\ \/ Pass(x, "settle", 0) /\ bridged' = bridged \cup {x}
               \/ Pass(x, "burn", NotReady) /\ bridged' = bridged
         \/ /\ result[x] \in 0..(Amount - 1) /\ bridged' = bridged
            /\ Pass(x, "settle", Amount + Fee - result[x])
         \/ result[x] \in {Failed, Amount} /\ Pass(x, "settle", Failed) /\ bridged' = bridged
  BY DEF callback_swap_out_token, bridge_out_token, finish_swap_out, Panic, Await
<1>6. /\ amount_out' \in [Core -> Request \cup {NoRequest}]
      /\ taken' \in [Request -> Request \cup {NoRequest}]
  BY <1>3, <1>4, <1>5 DEF FundTypes
<1>7. Exits(x)
  BY <1>2, <1>5, NearAssumption DEF Exits, Spare, Failed
<1> QED
  BY <1>1, <1>6, <1>7, LeaveFunds

LEMMA BurntFunds ==
    ASSUME RequestInv, NearTypes, NEW x \in Request, finish_token_out(x)
    PROVE  RequestInv'
<1>1. /\ promise[x] = "burn" /\ exchanged[x] \in {0, Amount}
      /\ UNCHANGED <<sent, exchanged, refunded, doubled, fails, taken, amount_out>>
  BY DEF finish_token_out, Answered, Panic, coreVars, RequestInv, Traced
<1>2. /\ amount_out' \in [Core -> Request \cup {NoRequest}]
      /\ taken' \in [Request -> Request \cup {NoRequest}]
  BY <1>1 DEF RequestInv, FundTypes
<1>3. Exits(x)
  BY <1>1 DEF finish_token_out, finish_swap_out, Panic, Exits
<1> QED
  BY <1>1, <1>2, <1>3, LeaveFunds

LEMMA SettleFunds ==
    ASSUME RequestInv, NearTypes, NEW x \in Request,
           callback_process_native_swap(x) \/ ft_resolve_transfer(x)
    PROVE  RequestInv'
<1>1. /\ promise[x] = "settle" /\ x \in sent
      /\ UNCHANGED <<sent, exchanged, doubled, fails, bridged, taken, amount_out>>
  BY DEF callback_process_native_swap, ft_resolve_transfer, coreVars, userVars, NearTypes
<1>2. Traced(x) /\ Given(x) /\ FundTypes
  BY DEF RequestInv
<1>3. /\ refunded[x] = 0
      /\ x \in bridged => Refund(x) = 0
      /\ x \notin bridged => Refund(x) = Spare - Part(x)
  BY <1>1, <1>2, NearAssumption DEF Traced, Given, Refund, Failed
<1>4. Spare - Part(x) \in 1..Spare
  BY <1>2, NearAssumption DEF Part, FundTypes, Spare
<1>5. PICK p, v :
         /\ Pass(x, p, v)
         /\ \/ /\ refunded' = refunded /\ x \in Native
               /\ IF Refund(x) = 0 THEN p = "none" ELSE p = "near_withdraw" /\ v = Refund(x)
            \/ p = "none" /\ refunded' = [refunded EXCEPT ![x] = Refund(x)]
  BY DEF callback_process_native_swap, ft_resolve_transfer, Await, userVars
<1>6. promise'[x] = p /\ result'[x] = v
  BY <1>5, PassApart
<1>7. FundTypes' /\ Keeps(x)
  <2>1. refunded' \in [Request -> 0..Spare] /\ \A y \in Request \ {x} : refunded'[y] = refunded[y]
    BY <1>2, <1>3, <1>4, <1>5, NearAssumption DEF FundTypes, Spare
  <2> QED
    BY <1>1, <1>2, <2>1, ShortStays DEF FundTypes, Keeps
<1>8. Traced(x)'
  BY <1>1, <1>2, <1>3, <1>4, <1>5, <1>6 DEF Traced, Promises, Part
<1>9. Given(x)'
  <2>1. refunded'[x] = IF p = "none" THEN Refund(x) ELSE 0
    BY <1>2, <1>3, <1>5, <1>6 DEF FundTypes
  <2> QED
    BY <1>1, <1>3, <1>4, <1>5, <1>6, <2>1 DEF Given, Part
<1> QED
  BY <1>5, <1>7, <1>8, <1>9, OneRequest

\* It is not paid only if the service is short.
LEMMA RefundFunds ==
    ASSUME RequestInv, NearTypes, NEW x \in Request, callback_transfer_near(x),
           near < result[x] => Short
    PROVE  RequestInv'
<1>1. /\ promise[x] = "callback_transfer_near" /\ x \in sent
      /\ UNCHANGED <<sent, exchanged, doubled, fails, bridged, taken, amount_out>>
  BY DEF callback_transfer_near, coreVars, NearTypes
<1>2. Traced(x) /\ Given(x) /\ FundTypes
  BY DEF RequestInv
<1>3. Pass(x, "none", NotReady)
  BY DEF callback_transfer_near, Await
<1>4. promise'[x] = "none" /\ result'[x] = NotReady
  BY <1>3, PassApart
<1>5. /\ x \notin bridged /\ x \in Native /\ refunded[x] = 0
      /\ result[x] = Spare - Part(x) /\ result[x] \in 0..Spare
  BY <1>1, <1>2, NearAssumption DEF Traced, Given, Part, FundTypes, Spare
<1>6. \/ refunded' = [refunded EXCEPT ![x] = result[x]]
      \/ refunded' = refunded /\ Short
  BY DEF callback_transfer_near
<1>7. FundTypes' /\ Keeps(x)
  <2>1. refunded' \in [Request -> 0..Spare] /\ \A y \in Request \ {x} : refunded'[y] = refunded[y]
    BY <1>2, <1>5, <1>6 DEF FundTypes
  <2> QED
    BY <1>1, <1>2, <2>1, ShortStays DEF FundTypes, Keeps
<1>8. Traced(x)'
  BY <1>1, <1>2, <1>4 DEF Traced, Promises
<1>9. Given(x)'
  <2>1. refunded'[x] = result[x] \/ (refunded'[x] = 0 /\ Short /\ Short')
    BY <1>1, <1>2, <1>5, <1>6, ShortStays DEF FundTypes
  <2> QED
    BY <1>1, <1>4, <1>5, <2>1 DEF Given, Part
<1> QED
  BY <1>3, <1>7, <1>8, <1>9, OneRequest

\* Who else takes a step leaves the requests alone.
LEMMA OthersApart ==
    ASSUME NearTypes,
           \/ \E o \in Order : swap_in(o) \/ OrderStep(o)
           \/ OwnerNext
           \/ \E c \in Core : callback_add_butter_core(c)
           \/ UNCHANGED nearVars
    PROVE  /\ \A x \in Request :
                  promise'[x] = promise[x] /\ result'[x] = result[x] /\ core'[x] = core[x]
           /\ UNCHANGED <<sent, exchanged, refunded, bridged, taken, amount_out>>
           /\ fails' = fails \/ MayFail
           /\ doubled \subseteq doubled'
<1>1. ASSUME NEW o \in Order, swap_in(o) \/ OrderStep(o)
      PROVE  /\ \A x \in Request :
                  promise'[x] = promise[x] /\ result'[x] = result[x] /\ core'[x] = core[x]
             /\ UNCHANGED <<sent, exchanged, refunded, bridged, taken, amount_out, doubled>>
             /\ fails' = fails \/ MayFail
  <2>0. o \in Job /\ o \notin Request
    BY NearAssumption
  <2>1. CASE swap_in(o)
    <3>1. \E p : Pass(o, p, NotReady)
      BY <2>1 DEF swap_in, process_transfer_in, process_swap_in, Await
    <3>2. core' = core \/ \E c \in Core : core' = [core EXCEPT ![o] = c]
      BY <2>1 DEF swap_in, process_transfer_in, process_swap_in
    <3>3. UNCHANGED <<sent, exchanged, refunded, bridged, taken, amount_out, doubled, fails>>
      BY <2>1 DEF swap_in, userVars
    <3> QED
      BY <2>0, <3>1, <3>2, <3>3, PassApart DEF NearTypes
  <2>2. CASE near_withdraw(o) \/ near_deposit(o) \/ deliver(o) \/ fund(o) \/ swap(o)
    <3>1. \E p, v : Pass(o, p, v)
      BY <2>2 DEF near_withdraw, near_deposit, deliver, fund, swap, Exchange, Fails, Answer
    <3>2. core' = core /\ (fails' = fails \/ MayFail)
      BY <2>2 DEF near_withdraw, near_deposit, deliver, fund, swap, Fails
    <3>3. UNCHANGED <<sent, exchanged, refunded, bridged, taken, amount_out, doubled>>
      BY <2>0, <2>2
      DEF near_withdraw, near_deposit, deliver, fund, swap, Exchange, userVars, coreVars
    <3>4. \A x \in Request : promise'[x] = promise[x] /\ result'[x] = result[x]
      BY <2>0, <3>1, PassApart
    <3> QED
      BY <3>2, <3>3, <3>4
  <2>3. CASE transfer_in_native_token(o) \/ finish_transfer_in(o)
             \/ callback_do_swap(o) \/ callback_post_swap_in(o)
    <3>1. \E p, v : Pass(o, p, v)
      BY <2>3 DEF transfer_in_native_token, finish_transfer_in, callback_do_swap,
                  callback_post_swap_in, revert_state, Await
    <3>2. core' = core \/ core' = [core EXCEPT ![o] = NoCore]
      BY <2>3 DEF transfer_in_native_token, finish_transfer_in, callback_do_swap,
                  callback_post_swap_in, Release
    <3>3. UNCHANGED <<sent, exchanged, refunded, bridged, taken, amount_out, doubled, fails>>
      BY <2>3 DEF transfer_in_native_token, finish_transfer_in, callback_do_swap,
                  callback_post_swap_in, userVars, coreVars
    <3> QED
      BY <2>0, <3>1, <3>2, <3>3, PassApart DEF NearTypes
  <2> QED
    BY <1>1, <2>1, <2>2, <2>3 DEF OrderStep
<1>2. CASE OwnerNext \/ (\E c \in Core : callback_add_butter_core(c)) \/ UNCHANGED nearVars
  BY <1>2 DEF OwnerNext, add_butter_core, reset_butter_core, clean_idle_core, coresOnly,
     callback_add_butter_core, chainVars, coreVars, userVars, nearVars
<1> QED
  BY <1>1, <1>2

\* A refund that cannot be paid, only ever when the service is short.
Enough ==
    \A x \in Request :
        promise[x] = "callback_transfer_near" /\ near < result[x] => Short

LEMMA StepRequests == RequestInv /\ NearTypes /\ Enough /\ [NearNext]_nearVars => RequestInv'
<1> SUFFICES ASSUME RequestInv, NearTypes, Enough, [NearNext]_nearVars PROVE RequestInv'
  OBVIOUS
<1>1. CASE \E x \in Request : swap_out(x) \/ RequestStep(x)
  <2>1. PICK x \in Request : swap_out(x) \/ RequestStep(x)
    BY <1>1
  <2>2. callback_transfer_near(x) => (near < result[x] => Short)
    BY DEF Enough, callback_transfer_near
  <2> QED
    BY <2>1, <2>2, SwapOutFunds, PromiseFunds, SwapFunds, ProcessFunds, SwappedFunds, BurntFunds,
       SettleFunds, RefundFunds DEF RequestStep
<1>2. CASE \/ \E o \in Order : swap_in(o) \/ OrderStep(o)
           \/ OwnerNext
           \/ \E c \in Core : callback_add_butter_core(c)
           \/ UNCHANGED nearVars
  <2>1. /\ \A x \in Request : promise'[x] = promise[x] /\ result'[x] = result[x]
        /\ UNCHANGED <<sent, exchanged, refunded, bridged, taken, amount_out>>
        /\ fails' = fails \/ MayFail
        /\ doubled \subseteq doubled'
    BY <1>2, OthersApart
  <2>2. FundTypes' /\ (Short => Short')
    BY <2>1, ShortStays DEF RequestInv, FundTypes, MayFail
  <2>3. ASSUME NEW x \in Request PROVE Traced(x)' /\ Given(x)'
    BY <2>1, <2>2, <2>3 DEF RequestInv, Traced, Given, Refund, Part
  <2> QED
    BY <2>2, <2>3 DEF RequestInv
<1> QED
  BY <1>1, <1>2 DEF NearNext
-----------------------------------------------------------------------------
(* What leaves for a request is its own.                                   *)

LEMMA OneOwn ==
    ASSUME OwnInv, RequestInv, NearTypes, CoreInv, doubled = {}, NEW x \in Request,
           NEW p, NEW v, Pass(x, p, v),
           \/ amount_out' = amount_out
           \/ \E r : core[x] \in Core /\ amount_out' = [amount_out EXCEPT ![core[x]] = r],
           \A y \in Request \ {x} :
               core'[y] = core[y] /\ taken'[y] = taken[y] /\ (y \in bridged' <=> y \in bridged),
           Own(x)'
    PROVE  OwnInv'
<1> SUFFICES ASSUME NEW y \in Request \ {x} PROVE Own(y)'
  BY DEF OwnInv
<1>1. Own(y) /\ promise'[y] = promise[y] /\ result'[y] = result[y]
  BY PassApart DEF OwnInv
<1>2. promise[y] = "swap" => core[y] \in Core /\ amount_out'[core[y]] = amount_out[core[y]]
  <2>1. ASSUME promise[y] = "swap" PROVE core[y] \in Core
    BY <2>1 DEF NearTypes, Waits
  <2>2. ASSUME promise[y] = "swap", core[x] = core[y] PROVE FALSE
    <3>1. Single(core[y])
      BY <2>1, <2>2 DEF CoreInv
    <3> QED
      BY <2>2, <3>1 DEF Single
  <2> QED
    BY <2>1, <2>2 DEF RequestInv, FundTypes
<1> QED
  BY <1>1, <1>2 DEF Own

LEMMA RequestOwn ==
    ASSUME OwnInv, RequestInv, NearTypes, CoreInv, doubled = {}, NEW x \in Request,
           swap_out(x) \/ RequestStep(x)
    PROVE  OwnInv'
<1>0. Own(x) /\ Traced(x) /\ FundTypes /\ core \in [Job -> Core \cup {NoCore}]
  BY DEF OwnInv, RequestInv, NearTypes
<1>1. CASE swap_out(x) \/ callback_process_native_swap(x) \/ callback_transfer_near(x)
           \/ ft_resolve_transfer(x)
  <2>1. UNCHANGED <<amount_out, core, taken, bridged>>
    BY <1>1 DEF swap_out, callback_process_native_swap, callback_transfer_near,
                ft_resolve_transfer, userVars
  <2>2. PICK p, v : Pass(x, p, v) /\ p \notin {"swap", "burn"}
    BY <1>1 DEF swap_out, callback_process_native_swap, callback_transfer_near,
                ft_resolve_transfer, Await
  <2>3. Own(x)'
    BY <1>0, <2>1, <2>2, PassApart DEF Own
  <2> QED
    BY <2>1, <2>2, <2>3, OneOwn
<1>2. CASE near_withdraw(x) \/ near_deposit(x) \/ fund(x) \/ burn(x)
  <2>1. UNCHANGED <<amount_out, core, taken, bridged>>
    BY <1>2 DEF near_withdraw, near_deposit, fund, burn, userVars
  <2>2. PICK p, v : /\ Pass(x, p, v)
                    /\ p = "swap" => v = NotReady
                    /\ p = "burn" => promise[x] = "burn"
    BY <1>0, <1>2, AnswerRequest DEF near_withdraw, near_deposit, fund, burn, Fails, Traced
  <2>3. Own(x)'
    BY <1>0, <2>1, <2>2, PassApart, NearAssumption DEF Own, NotReady
  <2> QED
    BY <2>1, <2>2, <2>3, OneOwn
<1>3. CASE swap(x)
  <2>1. /\ promise[x] = "swap" /\ core[x] \in Core
        /\ UNCHANGED <<core, taken, bridged>>
    BY <1>0, <1>3 DEF swap, NearTypes, Waits
  <2>2. x \notin bridged
    BY <2>1 DEF RequestInv, Given
  <2>3. PICK v :
          /\ Pass(x, "swap", v)
          /\ \/ amount_out' = amount_out /\ v # Amount
             \/ amount_out' = [amount_out EXCEPT ![core[x]] = x]
    <3>1. CASE \E u \in 0..Amount : Exchange(x, u)
      BY <2>1, <3>1, AnswerRequest, NearAssumption DEF Exchange, ft_on_transfer
    <3>2. CASE Answer(x, Failed) /\ amount_out' = amount_out
      BY <2>1, <3>2, AnswerRequest, NearAssumption DEF Failed
    <3> QED
      BY <1>3, <3>1, <3>2, NearAssumption DEF swap, Fails
  <2>4. Own(x)'
    BY <1>0, <2>1, <2>2, <2>3, PassApart DEF Own, FundTypes
  <2> QED
    BY <2>1, <2>3, <2>4, OneOwn
<1>4. CASE process_token_swap_out(x)
  <2>1. amount_out' = amount_out
    BY <1>4 DEF process_token_swap_out
  <2>2. x \notin bridged
    BY <1>4 DEF process_token_swap_out, RequestInv, Given
  <2>3. core' = core \/ \E c : core' = [core EXCEPT ![x] = c]
    BY <1>4 DEF process_token_swap_out
  <2>4. PICK p, v : /\ Pass(x, p, v) /\ p # "swap"
                    /\ \/ taken' = taken /\ bridged' = bridged /\ p # "burn"
                       \/ taken' = [taken EXCEPT ![x] = x] /\ bridged' \subseteq bridged \cup {x}
                          /\ bridged \subseteq bridged'
    BY <1>4 DEF process_token_swap_out, bridge_out_token, finish_swap_out, Panic, Await
  <2>5. Own(x)'
    BY <1>0, <2>2, <2>4, PassApart DEF Own, FundTypes
  <2> QED
    BY <1>0, <2>1, <2>3, <2>4, <2>5, OneOwn DEF FundTypes
<1>5. CASE callback_swap_out_token(x)
  <2>1. promise[x] = "swap" /\ core[x] \in Core /\ core' = [core EXCEPT ![x] = NoCore]
    BY <1>0, <1>5 DEF callback_swap_out_token, Answered, NearTypes, Waits, Release
  <2>2. x \notin bridged
    BY <2>1 DEF RequestInv, Given
  <2>3. \/ amount_out' = amount_out
        \/ amount_out' = [amount_out EXCEPT ![core[x]] = NoRequest]
    BY <1>5 DEF callback_swap_out_token
  <2>4. PICK p, v : /\ Pass(x, p, v) /\ p # "swap"
                    /\ \/ taken' = taken /\ bridged' = bridged /\ p # "burn"
                       \/ /\ result[x] = Amount /\ taken' = [taken EXCEPT ![x] = amount_out[core[x]]]
                          /\ bridged' \subseteq bridged \cup {x} /\ bridged \subseteq bridged'
    <3>1. CASE result[x] = Amount /\ bridge_out_token(x, amount_out[core[x]])
      BY <3>1 DEF bridge_out_token, finish_swap_out, Await
    <3>2. CASE \E v : Pass(x, "settle", v) /\ UNCHANGED <<taken, bridged>>
      BY <3>2
    <3> QED
      BY <1>5, <3>1, <3>2 DEF callback_swap_out_token, Panic
  <2>5. Own(x)'
    BY <1>0, <2>1, <2>2, <2>4, PassApart DEF Own, FundTypes
  <2> QED
    BY <1>0, <2>1, <2>3, <2>4, <2>5, OneOwn DEF FundTypes
<1>6. CASE finish_token_out(x)
  <2>1. promise[x] = "burn" /\ UNCHANGED <<amount_out, core, taken>>
    BY <1>6 DEF finish_token_out, Answered, Panic
  <2>2. PICK v : Pass(x, "settle", v) /\ bridged' \subseteq bridged \cup {x}
                 /\ bridged \subseteq bridged'
    BY <1>6 DEF finish_token_out, finish_swap_out, Panic
  <2>3. Own(x)'
    BY <1>0, <2>1, <2>2, PassApart DEF Own
  <2> QED
    BY <2>1, <2>2, <2>3, OneOwn
<1> QED
  BY <1>1, <1>2, <1>3, <1>4, <1>5, <1>6 DEF RequestStep

LEMMA StepOwn ==
    OwnInv /\ RequestInv /\ NearTypes /\ CoreInv /\ [NearNext]_nearVars => OwnInv'
<1> SUFFICES ASSUME OwnInv, RequestInv, NearTypes, CoreInv, [NearNext]_nearVars, doubled' = {}
             PROVE  OwnInv'
  BY DEF OwnInv
<1>1. CASE \E x \in Request : swap_out(x) \/ RequestStep(x)
  <2>1. PICK x \in Request : swap_out(x) \/ RequestStep(x)
    BY <1>1
  <2>2. doubled' = doubled
    BY <2>1 DEF swap_out, RequestStep, near_withdraw, near_deposit, fund, swap, burn,
       process_token_swap_out, callback_swap_out_token, finish_token_out,
       callback_process_native_swap, callback_transfer_near, ft_resolve_transfer, coreVars
  <2> QED
    BY <2>1, <2>2, RequestOwn
<1>2. CASE \/ \E o \in Order : swap_in(o) \/ OrderStep(o)
           \/ OwnerNext
           \/ \E c \in Core : callback_add_butter_core(c)
           \/ UNCHANGED nearVars
  BY <1>2, OthersApart DEF OwnInv, Own
<1> QED
  BY <1>1, <1>2 DEF NearNext

LEMMA InitFunds == NearInit => RequestInv /\ OwnInv
  BY NearAssumption DEF NearInit, RequestInv, OwnInv, FundTypes, Traced, Given, Own, Promises, Spare

-----------------------------------------------------------------------------
(* No order of a mint or a transfer ends recorded and unpaid.              *)

\* Who else takes a step leaves the orders alone.
LEMMA OrdersApart ==
    ASSUME NearTypes,
           \/ \E x \in Request : swap_out(x) \/ RequestStep(x)
           \/ OwnerNext
           \/ \E c \in Core : callback_add_butter_core(c)
           \/ UNCHANGED nearVars
    PROVE  /\ \A o \in Order : promise'[o] = promise[o] /\ result'[o] = result[o]
           /\ UNCHANGED <<paid, used_events>>
<1>1. ASSUME NEW x \in Request, swap_out(x) \/ RequestStep(x)
      PROVE  /\ \A o \in Order : promise'[o] = promise[o] /\ result'[o] = result[o]
             /\ UNCHANGED <<paid, used_events>>
  <2>0. x \in Job /\ x \notin Order
    BY NearAssumption
  <2>1. UNCHANGED <<paid, used_events>>
    BY <2>0, <1>1 DEF swap_out, RequestStep, near_withdraw, near_deposit, fund, swap, burn, Exchange,
       process_token_swap_out, callback_swap_out_token, finish_token_out,
       callback_process_native_swap, callback_transfer_near, ft_resolve_transfer, userVars
  <2>2. \E p, v : Pass(x, p, v)
    <3>1. CASE near_withdraw(x) \/ near_deposit(x) \/ fund(x) \/ swap(x) \/ burn(x)
      BY <3>1 DEF near_withdraw, near_deposit, fund, swap, burn, Exchange, Fails, Answer
    <3>2. CASE swap_out(x) \/ process_token_swap_out(x) \/ callback_swap_out_token(x)
               \/ finish_token_out(x)
      BY <3>2 DEF swap_out, process_token_swap_out, callback_swap_out_token, finish_token_out,
         bridge_out_token, finish_swap_out, Panic, Await
    <3>3. CASE callback_process_native_swap(x) \/ callback_transfer_near(x)
               \/ ft_resolve_transfer(x)
      BY <3>3 DEF callback_process_native_swap, callback_transfer_near, ft_resolve_transfer, Await
    <3> QED
      BY <1>1, <3>1, <3>2, <3>3 DEF RequestStep
  <2> QED
    BY <2>0, <2>1, <2>2, PassApart
<1>2. CASE OwnerNext \/ (\E c \in Core : callback_add_butter_core(c)) \/ UNCHANGED nearVars
  BY <1>2 DEF OwnerNext, add_butter_core, reset_butter_core, clean_idle_core, coresOnly,
     callback_add_butter_core, chainVars, userVars, nearVars
<1> QED
  BY <1>1, <1>2

\* What a step of order o leaves of the other orders.
Leaves(o) ==
    \A e \in Order \ {o} : paid'[e] = paid[e] /\ (e \in used_events' <=> e \in used_events)

LEMMA OneOrderOk ==
    ASSUME OrderInv, NearTypes, NEW o \in Order, NEW p, NEW v, Pass(o, p, v), Leaves(o),
           OrderOk(o)'
    PROVE  OrderInv'
<1>1. \A e \in Order \ {o} : promise'[e] = promise[e] /\ result'[e] = result[e]
  BY PassApart
<1> QED
  BY <1>1 DEF OrderInv, OrderOk, OrderPromises, Leaves

\* The promises each kind of order asks for.
LEMMA Kinds ==
    ASSUME NEW o \in Order
    PROVE  /\ Kind[o] = "native" =>
                OrderPromises(o) = {"none", "near_withdraw", "transfer", "near_deposit"}
           /\ Kind[o] = "mint" => OrderPromises(o) = {"none", "mint"}
           /\ Kind[o] = "ft" => OrderPromises(o) = {"none", "ft_transfer"}
           /\ Kind[o] = "swap" => OrderPromises(o) = {"none", "fund", "swap", "return"}
           /\ FirstPromise(o) \in OrderPromises(o) \ ({"none"} \cup {"transfer", "return", "swap"})
           /\ Kind[o] \in {"native", "mint", "ft", "swap"}
  BY NearAssumption DEF OrderPromises, FirstPromise

LEMMA SwapInOk ==
    ASSUME OrderInv, PaidInv, NearTypes, NEW o \in Order, swap_in(o)
    PROVE  OrderInv'
<1>1. Pass(o, FirstPromise(o), NotReady) /\ paid' = paid /\ used_events' = used_events \cup {o}
  BY DEF swap_in, process_transfer_in, process_swap_in, record_order_id, Await, userVars
<1>2. promise'[o] = FirstPromise(o) /\ result'[o] = NotReady
  BY <1>1, PassApart
<1>3. OrderOk(o)'
  BY <1>2, Kinds, NearAssumption DEF OrderOk, NotReady, OrderPromises
<1> QED
  BY <1>1, <1>3, OneOrderOk DEF Leaves

LEMMA DeliverOk ==
    ASSUME OrderInv, PaidInv, NearTypes, NEW o \in Order, deliver(o)
    PROVE  OrderInv'
<1>0. OrderOk(o)
  BY DEF OrderInv
<1>1. promise[o] \in {"transfer", "mint", "ft_transfer", "return"} /\ result[o] = NotReady
      /\ used_events' = used_events
  BY NearAssumption DEF deliver, Pending
<1>2. paid[o] = 0 /\ paid \in [Order -> Nat]
  BY <1>1, NearAssumption DEF PaidInv, Settled, NotReady, Payments
<1>3. PICK v \in {0, Failed} : /\ Answer(o, v)
                               /\ IF v = 0 THEN paid' = [paid EXCEPT ![o] = @ + 1]
                                  ELSE paid' = paid
  BY DEF deliver, Fails, Failed
<1>4. CASE promise[o] = "return"
  <2>1. Pass(o, "none", result[o])
    BY <1>3, <1>4, AnswerOrder
  <2>2. promise'[o] = "none" /\ Kind[o] = "swap"
    BY <1>0, <1>4, <2>1, PassApart, Kinds DEF OrderOk
  <2>3. OrderOk(o)'
    BY <2>2, Kinds DEF OrderOk, Payments, OrderPromises
  <2> QED
    BY <1>1, <1>2, <1>3, <2>1, <2>3, OneOrderOk DEF Leaves
<1>5. CASE promise[o] # "return"
  <2>1. Pass(o, promise[o], v)
    BY <1>1, <1>3, <1>5, AnswerOrder
  <2>2. promise'[o] = promise[o] /\ result'[o] = v /\ (v = 0 => paid'[o] = 1)
    BY <1>2, <1>3, <2>1, PassApart
  <2>3. OrderOk(o)'
    BY <1>0, <1>1, <2>2, <1>5 DEF OrderOk, Payments, OrderPromises
  <2> QED
    BY <1>1, <1>2, <1>3, <2>1, <2>3, OneOrderOk DEF Leaves
<1> QED
  BY <1>4, <1>5

LEMMA OrderPromiseOk ==
    ASSUME OrderInv, PaidInv, NearTypes, NEW o \in Order,
           near_withdraw(o) \/ near_deposit(o) \/ fund(o) \/ swap(o)
    PROVE  OrderInv'
<1>0. OrderOk(o) /\ paid \in [Order -> Nat]
  BY DEF OrderInv, PaidInv
<1>1. /\ promise[o] \in {"near_withdraw", "near_deposit", "fund", "swap"}
      /\ used_events' = used_events
      /\ paid' = paid \/ paid' = [paid EXCEPT ![o] = @ + 1]
  BY DEF near_withdraw, near_deposit, fund, swap, Exchange, userVars
<1>2. PICK v : Answer(o, v)
  BY DEF near_withdraw, near_deposit, fund, swap, Exchange, Fails
<1>3. \E p, w : /\ Pass(o, p, w)
                /\ p = promise[o] \/ (promise[o] = "near_deposit" /\ p = "none")
  BY <1>1, <1>2, AnswerOrder
<1>4. PICK p, w : /\ Pass(o, p, w)
                  /\ p = promise[o] \/ (promise[o] = "near_deposit" /\ p = "none")
  BY <1>3
<1>5. promise'[o] = p
  BY <1>4, PassApart
<1>6. OrderOk(o)'
  BY <1>0, <1>1, <1>4, <1>5, Kinds DEF OrderOk, Payments, OrderPromises
<1> QED
  BY <1>0, <1>1, <1>4, <1>6, OneOrderOk DEF Leaves

LEMMA OrderCallbackOk ==
    ASSUME OrderInv, PaidInv, NearTypes, NEW o \in Order,
           transfer_in_native_token(o) \/ finish_transfer_in(o)
              \/ callback_do_swap(o) \/ callback_post_swap_in(o)
    PROVE  OrderInv'
<1>0. OrderOk(o)
  BY DEF OrderInv
<1>1. /\ paid' = paid /\ used_events \ {o} = used_events' \ {o}
      /\ promise[o] \in {"near_withdraw", "transfer", "mint", "ft_transfer", "fund", "swap"}
  BY DEF transfer_in_native_token, finish_transfer_in, callback_do_swap, callback_post_swap_in,
         Answered, revert_state, remove_order_id, userVars
<1>2. \/ Pass(o, "none", NotReady) /\ o \notin used_events'
      \/ promise[o] = "near_withdraw" /\ Pass(o, "transfer", NotReady)
      \/ promise[o] \in Payments /\ result[o] = 0 /\ Pass(o, "none", NotReady)
      \/ Kind[o] = "native" /\ Pass(o, "near_deposit", NotReady)
      \/ promise[o] = "fund" /\ Pass(o, "swap", NotReady)
      \/ promise[o] = "swap" /\ (Pass(o, "return", NotReady) \/ Pass(o, "none", NotReady))
  <2>1. CASE transfer_in_native_token(o)
    BY <2>1 DEF transfer_in_native_token, Answered, revert_state, remove_order_id, Await
  <2>2. CASE finish_transfer_in(o)
    <3>1. promise[o] \in Payments /\ result[o] \in {Failed, 0}
      BY <1>0, <2>2 DEF finish_transfer_in, Answered, Payments, OrderOk
    <3> QED
      BY <2>2, <3>1 DEF finish_transfer_in, revert_state, remove_order_id, Await, Failed
  <2>3. CASE callback_do_swap(o)
    BY <2>3, Zenon DEF callback_do_swap, Answered, revert_state, remove_order_id, Await
  <2>4. CASE callback_post_swap_in(o)
    BY <2>4 DEF callback_post_swap_in, Answered, revert_state, remove_order_id, Await
  <2> QED
    BY <2>1, <2>2, <2>3, <2>4
<1>3. PICK p : /\ Pass(o, p, NotReady)
               /\ \/ p = "none" /\ o \notin used_events'
                  \/ promise[o] = "near_withdraw" /\ p = "transfer"
                  \/ promise[o] \in Payments /\ result[o] = 0 /\ p = "none"
                  \/ Kind[o] = "native" /\ p = "near_deposit"
                  \/ promise[o] = "fund" /\ p = "swap"
                  \/ promise[o] = "swap" /\ p \in {"return", "none"}
  BY <1>2
<1>4. promise'[o] = p /\ result'[o] = NotReady
  BY <1>3, PassApart
<1>5. OrderOk(o)'
  BY <1>0, <1>1, <1>3, <1>4, Kinds DEF OrderOk, Payments, NotReady, OrderPromises
<1> QED
  BY <1>1, <1>3, <1>5, OneOrderOk DEF Leaves

LEMMA StepOrders == OrderInv /\ PaidInv /\ NearTypes /\ [NearNext]_nearVars => OrderInv'
<1> SUFFICES ASSUME OrderInv, PaidInv, NearTypes, [NearNext]_nearVars PROVE OrderInv'
  OBVIOUS
<1>1. CASE \E o \in Order : swap_in(o) \/ OrderStep(o)
  BY <1>1, SwapInOk, DeliverOk, OrderPromiseOk, OrderCallbackOk DEF OrderStep
<1>2. CASE \/ \E x \in Request : swap_out(x) \/ RequestStep(x)
           \/ OwnerNext
           \/ \E c \in Core : callback_add_butter_core(c)
           \/ UNCHANGED nearVars
  BY <1>2, OrdersApart DEF OrderInv, OrderOk, OrderPromises
<1> QED
  BY <1>1, <1>2 DEF NearNext

-----------------------------------------------------------------------------
(* The service's NEAR, while it is not short.                              *)

Fees(x) == IF x \in FeeHeld THEN Fee ELSE 0
Nears(x) == IF x \in NearHeld THEN Amount ELSE 0
Wraps(x) == IF x \in WrappedHeld THEN Amount ELSE 0

LEMMA CountOne ==
    ASSUME NEW k \in Nat, NEW S, NEW T, NEW x, IsFiniteSet(S), IsFiniteSet(T), S \ {x} = T \ {x}
    PROVE  /\ k * Cardinality(S) \in Nat /\ k * Cardinality(T) \in Nat
           /\ k * Cardinality(T) - (IF x \in T THEN k ELSE 0)
                = k * Cardinality(S) - (IF x \in S THEN k ELSE 0)
<1> DEFINE n == Cardinality(S \ {x})
<1>1. IsFiniteSet(S \ {x}) /\ n \in Nat /\ Cardinality(S) \in Nat /\ Cardinality(T) \in Nat
  BY FS_RemoveElement, FS_CardinalityType
<1>2. n = IF x \in S THEN Cardinality(S) - 1 ELSE Cardinality(S)
  BY FS_RemoveElement
<1>3. n = IF x \in T THEN Cardinality(T) - 1 ELSE Cardinality(T)
  BY FS_RemoveElement
<1> HIDE DEF n
<1>4. \A m \in Nat : k * (m + 1) = k * m + k /\ k * m \in Nat
  OBVIOUS
<1>5. Cardinality(S) = (IF x \in S THEN n + 1 ELSE n) /\ Cardinality(T) = (IF x \in T THEN n + 1 ELSE n)
  BY <1>1, <1>2, <1>3
<1>6. k * Cardinality(S) = (IF x \in S THEN k * n + k ELSE k * n)
  BY <1>1, <1>4, <1>5
<1>7. k * Cardinality(T) = (IF x \in T THEN k * n + k ELSE k * n)
  BY <1>1, <1>4, <1>5
<1> QED
  BY <1>1, <1>4, <1>6, <1>7

LEMMA HeldFinite == IsFiniteSet(FeeHeld) /\ IsFiniteSet(NearHeld) /\ IsFiniteSet(WrappedHeld)
<1>1. IsFiniteSet(Job)
  BY NearAssumption, FS_Union
<1>2. FeeHeld \in SUBSET Job /\ NearHeld \in SUBSET Job /\ WrappedHeld \in SUBSET Job
  BY DEF FeeHeld, NearHeld, WrappedHeld
<1> QED
  BY <1>1, <1>2, FS_Subset

\* What is held for a job, the service can pay.
LEMMA Afford ==
    ASSUME Books, NearTypes, NEW x \in Job
    PROVE  near >= Fees(x) + Nears(x) /\ wnear >= Wraps(x)
<1>1. ASSUME NEW k \in Nat, NEW S, IsFiniteSet(S)
      PROVE  k * Cardinality(S) \in Nat /\ k * Cardinality(S) >= (IF x \in S THEN k ELSE 0)
  <2>1. Cardinality(S) \in Nat /\ (x \in S => Cardinality(S) # 0)
    BY <1>1, FS_CardinalityType, FS_EmptySet
  <2>2. \A m \in Nat : k * m \in Nat /\ (m # 0 => k * m >= k)
    OBVIOUS
  <2> QED
    BY <2>1, <2>2
<1>2. /\ Fee * Cardinality(FeeHeld) >= Fees(x) /\ Amount * Cardinality(NearHeld) >= Nears(x)
      /\ Amount * Cardinality(WrappedHeld) >= Wraps(x)
      /\ Fee * Cardinality(FeeHeld) \in Nat /\ Amount * Cardinality(NearHeld) \in Nat
      /\ Amount * Cardinality(WrappedHeld) \in Nat
  BY <1>1, HeldFinite, NearAssumption DEF Fees, Nears, Wraps
<1> QED
  BY <1>2, NearAssumption DEF Books, NearTypes, Fees, Nears, Wraps

\* The books after a step of one job.
LEMMA Ledger ==
    ASSUME Books, NearTypes, NearTypes', NEW x \in Job, NEW p, NEW v, Pass(x, p, v),
           bridged \ {x} = bridged' \ {x}, \A o \in Order \ {x} : paid'[o] = paid[o],
           near' - Fees(x)' - Nears(x)' >= near - Fees(x) - Nears(x),
           wnear' - Wraps(x)' >= wnear - Wraps(x)
    PROVE  Books'
<1>1. \A y \in Job \ {x} : promise'[y] = promise[y] /\ result'[y] = result[y]
  BY PassApart
<1>2. FeeHeld \ {x} = FeeHeld' \ {x}
  BY <1>1 DEF FeeHeld
<1>3. NearHeld \ {x} = NearHeld' \ {x}
  BY <1>1 DEF NearHeld
<1>4. WrappedHeld \ {x} = WrappedHeld' \ {x}
  BY <1>1, <1>3 DEF WrappedHeld
<1>5. IsFiniteSet(FeeHeld') /\ IsFiniteSet(NearHeld') /\ IsFiniteSet(WrappedHeld')
  <2>1. IsFiniteSet(Job)
    BY NearAssumption, FS_Union
  <2>2. FeeHeld' \in SUBSET Job /\ NearHeld' \in SUBSET Job /\ WrappedHeld' \in SUBSET Job
    BY DEF FeeHeld, NearHeld, WrappedHeld
  <2> QED
    BY <2>1, <2>2, FS_Subset
<1>6. /\ Fee * Cardinality(FeeHeld) \in Nat /\ Fee * Cardinality(FeeHeld') \in Nat
      /\ Fee * Cardinality(FeeHeld') - Fees(x)' = Fee * Cardinality(FeeHeld) - Fees(x)
  BY <1>2, <1>5, HeldFinite, CountOne, NearAssumption DEF Fees
<1>7. /\ Amount * Cardinality(NearHeld) \in Nat /\ Amount * Cardinality(NearHeld') \in Nat
      /\ Amount * Cardinality(NearHeld') - Nears(x)' = Amount * Cardinality(NearHeld) - Nears(x)
  BY <1>3, <1>5, HeldFinite, CountOne, NearAssumption DEF Nears
<1>8. /\ Amount * Cardinality(WrappedHeld) \in Nat /\ Amount * Cardinality(WrappedHeld') \in Nat
      /\ Amount * Cardinality(WrappedHeld') - Wraps(x)' = Amount * Cardinality(WrappedHeld) - Wraps(x)
  BY <1>4, <1>5, HeldFinite, CountOne, NearAssumption DEF Wraps
<1>9. /\ Fees(x) \in Nat /\ Fees(x)' \in Nat /\ Nears(x) \in Nat /\ Nears(x)' \in Nat
      /\ Wraps(x) \in Nat /\ Wraps(x)' \in Nat
      /\ near \in Nat /\ near' \in Nat /\ wnear \in Nat /\ wnear' \in Nat
  BY NearAssumption DEF Fees, Nears, Wraps, NearTypes
<1> QED
  BY <1>6, <1>7, <1>8, <1>9 DEF Books

LEMMA CalmBefore ==
    ASSUME FundTypes, fails' = fails \/ MayFail, doubled \subseteq doubled', Calm'
    PROVE  Calm /\ ~MayFail /\ fails' = fails /\ doubled = {} /\ doubled' = {}
<1>2. fails \in Nat /\ fails' \in Nat
  BY DEF FundTypes, MayFail
<1>1. fails' = 0 /\ doubled' = {} /\ Covered
  BY <1>2 DEF Calm, Short, Covered
<1>3. ~MayFail
  BY <1>1, <1>2 DEF MayFail
<1> QED
  BY <1>1, <1>3 DEF Calm, Short

\* The state a step starts from while the service is not short.
CalmState == NearTypes /\ PaidInv /\ CoreInv /\ RequestInv /\ OwnInv /\ OrderInv /\ CalmInv /\ Calm

LEMMA RequestCalm ==
    ASSUME CalmState, NearTypes', NEW x \in Request, NEW p, NEW v, Pass(x, p, v),
           \A y \in Request \ {x} : exchanged'[y] = exchanged[y],
           bridged' \ {x} = bridged \ {x}, unfunded' = {}, UNCHANGED <<paid, used_events>>,
           near' - Fees(x)' - Nears(x)' >= near - Fees(x) - Nears(x),
           wnear' - Wraps(x)' >= wnear - Wraps(x),
           SmoothRequest(x)'
    PROVE  CalmInv'
<1>1. x \in Job /\ x \notin Order
  BY NearAssumption
<1>2. Books'
  BY <1>1, Ledger DEF CalmState, CalmInv
<1>3. \A y \in Job \ {x} : promise'[y] = promise[y] /\ result'[y] = result[y]
  BY PassApart DEF CalmState
<1>4. \A y \in Request \ {x} : SmoothRequest(y)'
  BY <1>3 DEF CalmState, CalmInv, SmoothRequest
<1>5. \A o \in Order : SmoothOrder(o)'
  BY <1>1, <1>3 DEF CalmState, CalmInv, SmoothOrder
<1> QED
  BY <1>2, <1>4, <1>5 DEF CalmInv

\* What is held for a request.
LEMMA RequestHeld ==
    ASSUME NEW x \in Request
    PROVE  /\ Fees(x) = IF x \in Native /\ promise[x] # "none" /\ x \notin bridged THEN Fee ELSE 0
           /\ Nears(x) = IF x \in Native /\ promise[x] \in {"near_deposit", "callback_transfer_near"}
                         THEN Amount ELSE 0
           /\ Wraps(x) = IF x \in Native /\ (\/ promise[x] \in {"process", "fund", "near_withdraw"}
                                             \/ promise[x] = "settle" /\ x \notin bridged)
                         THEN Amount ELSE 0
  BY NearAssumption DEF Fees, Nears, Wraps, FeeHeld, NearHeld, WrappedHeld

LEMMA RequestHeldNext ==
    ASSUME NEW x \in Request
    PROVE  /\ Fees(x)' = IF x \in Native /\ promise'[x] # "none" /\ x \notin bridged' THEN Fee ELSE 0
           /\ Nears(x)' = IF x \in Native /\ promise'[x] \in {"near_deposit", "callback_transfer_near"}
                          THEN Amount ELSE 0
           /\ Wraps(x)' = IF x \in Native /\ (\/ promise'[x] \in {"process", "fund", "near_withdraw"}
                                              \/ promise'[x] = "settle" /\ x \notin bridged')
                          THEN Amount ELSE 0
  BY NearAssumption DEF Fees, Nears, Wraps, FeeHeld, NearHeld, WrappedHeld

\* What is known of a request whose chain takes a step.
LEMMA RequestFacts ==
    ASSUME CalmState, NEW x \in Request
    PROVE  /\ Traced(x) /\ Given(x) /\ SmoothRequest(x) /\ FundTypes /\ Books /\ NearTypes
           /\ near \in Nat /\ wnear \in Nat /\ x \in Job /\ unfunded = {}
           /\ promise[x] # "none" => x \in sent
           /\ near >= Fees(x) + Nears(x) /\ wnear >= Wraps(x)
<1>1. x \in Job
  OBVIOUS
<1>2. Books
  BY DEF CalmState, CalmInv
<1> QED
  BY <1>1, <1>2, Afford DEF CalmState, CalmInv, RequestInv, NearTypes

LEMMA SwapOutCalm ==
    ASSUME CalmState, NearTypes', NEW x \in Request, swap_out(x) PROVE CalmInv'
<1> USE NearAssumption
<1>0. NearTypes /\ FundTypes /\ Traced(x) /\ near \in Nat /\ wnear \in Nat /\ unfunded = {}
  BY RequestFacts
<1>1. /\ x \notin sent /\ promise[x] = "none"
      /\ UNCHANGED <<used_events, wnear, paid, unfunded, exchanged, bridged>>
  BY <1>0 DEF swap_out, NearTypes
<1>2. PICK p \in {"near_deposit", "process"} :
         /\ Pass(x, p, NotReady)
         /\ IF x \in Native THEN p = "near_deposit" /\ near' = near + Amount + Fee
            ELSE p = "process" /\ near' = near
  BY DEF swap_out, Await
<1>3. promise'[x] = p
  BY <1>0, <1>2, PassApart
<1>4. /\ near' - Fees(x)' - Nears(x)' >= near - Fees(x) - Nears(x)
      /\ wnear' - Wraps(x)' >= wnear - Wraps(x)
  BY <1>0, <1>1, <1>2, <1>3, RequestHeld, RequestHeldNext
<1>5. SmoothRequest(x)'
  BY <1>2, <1>3 DEF SmoothRequest
<1> QED
  BY <1>0, <1>1, <1>2, <1>4, <1>5, RequestCalm

LEMMA PromiseCalm ==
    ASSUME CalmState, NearTypes', NEW x \in Request, ~MayFail,
           near_withdraw(x) \/ near_deposit(x) \/ fund(x) \/ burn(x)
    PROVE  CalmInv'
<1> USE NearAssumption
<1>0. /\ Traced(x) /\ Given(x) /\ SmoothRequest(x) /\ NearTypes
      /\ near \in Nat /\ wnear \in Nat /\ unfunded = {}
      /\ promise[x] # "none" => x \in sent
      /\ near >= Fees(x) + Nears(x) /\ wnear >= Wraps(x)
  BY RequestFacts
<1>1. UNCHANGED <<used_events, paid, exchanged, bridged>>
  BY DEF near_withdraw, near_deposit, fund, burn, userVars
<1>2. CASE near_withdraw(x)
  <2>1. promise[x] = "near_withdraw" /\ x \in Native /\ x \notin bridged /\ exchanged[x] = 0
        /\ unfunded' = unfunded
    BY <1>0, <1>2 DEF near_withdraw, Traced, Given, SmoothRequest, userVars
  <2>2. wnear >= Amount
    BY <1>0, <2>1, RequestHeld
  <2>3. wnear' = wnear - Amount /\ near' = near + Amount /\ Answer(x, 0)
    BY <1>2, <2>2 DEF near_withdraw, Fails
  <2>4. Pass(x, "callback_transfer_near", result[x])
    BY <2>1, <2>3, AnswerRequest
  <2>5. promise'[x] = "callback_transfer_near"
    BY <1>0, <2>4, PassApart
  <2>6. /\ near' - Fees(x)' - Nears(x)' >= near - Fees(x) - Nears(x)
        /\ wnear' - Wraps(x)' >= wnear - Wraps(x)
    BY <1>0, <1>1, <2>1, <2>3, <2>5, RequestHeld, RequestHeldNext
  <2>7. SmoothRequest(x)'
    BY <1>1, <2>1, <2>5 DEF SmoothRequest
  <2> QED
    BY <1>0, <1>1, <2>1, <2>4, <2>6, <2>7, RequestCalm
<1>3. CASE near_deposit(x)
  <2>1. promise[x] = "near_deposit" /\ x \in Native /\ x \notin bridged /\ unfunded' = unfunded
    BY <1>0, <1>3 DEF near_deposit, Traced, Given, userVars
  <2>2. near >= Amount
    BY <1>0, <2>1, RequestHeld
  <2>3. near' = near - Amount /\ wnear' = wnear + Amount /\ Answer(x, 0)
    BY <1>3, <2>2 DEF near_deposit, Fails
  <2>4. Pass(x, "process", result[x])
    BY <2>1, <2>3, AnswerRequest
  <2>5. promise'[x] = "process"
    BY <1>0, <2>4, PassApart
  <2>6. /\ near' - Fees(x)' - Nears(x)' >= near - Fees(x) - Nears(x)
        /\ wnear' - Wraps(x)' >= wnear - Wraps(x)
    BY <1>0, <1>1, <2>1, <2>3, <2>5, RequestHeld, RequestHeldNext
  <2>7. SmoothRequest(x)'
    BY <2>5 DEF SmoothRequest
  <2> QED
    BY <1>0, <1>1, <2>1, <2>4, <2>6, <2>7, RequestCalm
<1>4. CASE fund(x)
  <2>1. promise[x] = "fund" /\ x \notin bridged /\ result[x] = NotReady
    BY <1>0, <1>4 DEF fund, Traced, Given
  <2>2. x \in Native => wnear >= Amount
    BY <1>0, <2>1, RequestHeld
  <2>3. wnear' = wnear - (IF x \in Native THEN Amount ELSE 0) /\ near' = near /\ Answer(x, 0)
        /\ unfunded' = unfunded
    BY <1>0, <1>4, <2>2 DEF fund, Fails
  <2>4. Pass(x, "swap", result[x])
    BY <2>1, <2>3, AnswerRequest
  <2>5. promise'[x] = "swap" /\ result'[x] = NotReady
    BY <1>0, <2>1, <2>4, PassApart
  <2>6. /\ near' - Fees(x)' - Nears(x)' >= near - Fees(x) - Nears(x)
        /\ wnear' - Wraps(x)' >= wnear - Wraps(x)
    BY <1>0, <1>1, <2>1, <2>3, <2>5, RequestHeld, RequestHeldNext
  <2>7. SmoothRequest(x)'
    BY <2>5 DEF SmoothRequest
  <2> QED
    BY <1>0, <1>1, <2>3, <2>4, <2>6, <2>7, RequestCalm
<1>5. CASE burn(x)
  <2>1. promise[x] = "burn" /\ x \notin bridged
    BY <1>0, <1>5 DEF burn, Given
  <2>2. UNCHANGED <<near, wnear, unfunded>> /\ Answer(x, 0)
    BY <1>5 DEF burn, Fails, nativeVars, userVars
  <2>3. Pass(x, "burn", 0)
    BY <2>1, <2>2, AnswerRequest
  <2>4. promise'[x] = "burn" /\ result'[x] = 0
    BY <1>0, <2>3, PassApart
  <2>5. /\ near' - Fees(x)' - Nears(x)' >= near - Fees(x) - Nears(x)
        /\ wnear' - Wraps(x)' >= wnear - Wraps(x)
    BY <1>0, <1>1, <2>1, <2>2, <2>4, RequestHeld, RequestHeldNext
  <2>6. SmoothRequest(x)'
    BY <2>4 DEF SmoothRequest
  <2> QED
    BY <1>0, <1>1, <2>2, <2>3, <2>5, <2>6, RequestCalm
<1> QED
  BY <1>2, <1>3, <1>4, <1>5

\* All is swapped, and the proceeds are entered for the request.
LEMMA SwapCalm ==
    ASSUME CalmState, NearTypes', NEW x \in Request, ~MayFail, swap(x) PROVE CalmInv'
<1> USE NearAssumption
<1>0. /\ Traced(x) /\ Given(x) /\ NearTypes /\ FundTypes
      /\ near \in Nat /\ wnear \in Nat /\ unfunded = {}
  BY RequestFacts
<1>1. promise[x] = "swap" /\ x \notin bridged /\ UNCHANGED <<used_events, bridged, unfunded, near>>
  BY <1>0 DEF swap, Given
<1>2. Exchange(x, Amount)
  BY <1>0 DEF swap, Fails
<1>3. /\ Answer(x, Amount) /\ wnear' = wnear /\ paid' = paid
      /\ exchanged' = [exchanged EXCEPT ![x] = Amount]
  BY <1>0, <1>2 DEF Exchange
<1>4. Pass(x, "swap", Amount)
  BY <1>1, <1>3, AnswerRequest
<1>5. promise'[x] = "swap" /\ result'[x] = Amount
  BY <1>0, <1>4, PassApart
<1>6. /\ near' - Fees(x)' - Nears(x)' >= near - Fees(x) - Nears(x)
      /\ wnear' - Wraps(x)' >= wnear - Wraps(x)
  BY <1>0, <1>1, <1>3, <1>5, RequestHeld, RequestHeldNext
<1>7. SmoothRequest(x)'
  BY <1>5 DEF SmoothRequest
<1>8. \A y \in Request \ {x} : exchanged'[y] = exchanged[y]
  BY <1>0, <1>3 DEF FundTypes
<1> QED
  BY <1>0, <1>1, <1>3, <1>4, <1>6, <1>7, <1>8, RequestCalm

\* The tokens leave and the fee is paid, or they are burnt first.
LEMMA LeaveCalm ==
    ASSUME CalmState, NearTypes', NEW x \in Request, promise[x] \in {"process", "swap", "burn"},
           \/ finish_swap_out(x)
           \/ Pass(x, "burn", NotReady) /\ UNCHANGED <<bridged, near>>,
           UNCHANGED <<used_events, wnear, paid, unfunded, exchanged>>
    PROVE  CalmInv'
<1> USE NearAssumption
<1>0. /\ Given(x) /\ NearTypes
      /\ near \in Nat /\ wnear \in Nat /\ unfunded = {}
      /\ near >= Fees(x) + Nears(x)
  BY RequestFacts
<1>1. x \notin bridged
  BY <1>0 DEF Given
<1>2. CASE finish_swap_out(x)
  <2>1. Pass(x, "settle", 0) /\ bridged' = bridged \cup {x}
    BY <1>2 DEF finish_swap_out
  <2>2. promise'[x] = "settle"
    BY <1>0, <2>1, PassApart
  <2>3. Fees(x) = (IF x \in Native THEN Fee ELSE 0) /\ Nears(x) = 0
    BY <1>1, RequestHeld
  <2>4. near' = near - Fees(x)
    BY <1>0, <1>2, <2>3 DEF finish_swap_out
  <2>5. Fees(x)' = 0 /\ Nears(x)' = 0 /\ Wraps(x)' = 0 /\ Wraps(x) \in Nat
    BY <2>1, <2>2, RequestHeld, RequestHeldNext
  <2>6. /\ near' - Fees(x)' - Nears(x)' >= near - Fees(x) - Nears(x)
        /\ wnear' - Wraps(x)' >= wnear - Wraps(x)
    BY <1>0, <2>3, <2>4, <2>5
  <2>7. SmoothRequest(x)'
    BY <2>1, <2>2 DEF SmoothRequest
  <2> QED
    BY <1>0, <2>1, <2>6, <2>7, RequestCalm
<1>3. CASE Pass(x, "burn", NotReady) /\ UNCHANGED <<bridged, near>>
  <2>1. promise'[x] = "burn" /\ result'[x] = NotReady
    BY <1>0, <1>3, PassApart
  <2>2. /\ near' - Fees(x)' - Nears(x)' >= near - Fees(x) - Nears(x)
        /\ wnear' - Wraps(x)' >= wnear - Wraps(x)
    BY <1>0, <1>1, <1>3, <2>1, RequestHeld, RequestHeldNext
  <2>3. SmoothRequest(x)'
    BY <2>1 DEF SmoothRequest
  <2> QED
    BY <1>0, <1>3, <2>2, <2>3, RequestCalm
<1> QED
  BY <1>2, <1>3

LEMMA ProcessCalm ==
    ASSUME CalmState, NearTypes', NEW x \in Request, process_token_swap_out(x) PROVE CalmInv'
<1> USE NearAssumption
<1>0. /\ Traced(x) /\ Given(x) /\ NearTypes
      /\ near \in Nat /\ wnear \in Nat /\ unfunded = {}
  BY RequestFacts
<1>1. /\ promise[x] = "process" /\ exchanged[x] = 0 /\ x \notin bridged
      /\ UNCHANGED <<used_events, wnear, paid, unfunded, exchanged>>
  BY <1>0 DEF process_token_swap_out, Traced, Given
<1>2. CASE bridge_out_token(x, x)
  BY <1>1, <1>2, LeaveCalm DEF bridge_out_token, Await
<1>3. CASE \E p \in {"fund", "settle"} : \E v : Pass(x, p, v) /\ UNCHANGED <<bridged, near>>
  <2>1. PICK p \in {"fund", "settle"} : \E v : Pass(x, p, v) /\ UNCHANGED <<bridged, near>>
    BY <1>3
  <2>2. promise'[x] = p
    BY <1>0, <2>1, PassApart
  <2>3. /\ near' - Fees(x)' - Nears(x)' >= near - Fees(x) - Nears(x)
        /\ wnear' - Wraps(x)' >= wnear - Wraps(x)
    BY <1>0, <1>1, <2>1, <2>2, RequestHeld, RequestHeldNext
  <2>4. SmoothRequest(x)'
    BY <1>1, <2>1, <2>2 DEF SmoothRequest
  <2> QED
    BY <1>0, <1>1, <2>1, <2>3, <2>4, RequestCalm
<1> QED
  BY <1>2, <1>3 DEF process_token_swap_out, Await, Panic

LEMMA SwappedCalm ==
    ASSUME CalmState, NearTypes', NEW x \in Request, doubled = {}, callback_swap_out_token(x)
    PROVE  CalmInv'
<1> USE NearAssumption
<1>0. Own(x) /\ SmoothRequest(x)
  BY RequestFacts DEF CalmState, OwnInv
<1>1. promise[x] = "swap" /\ result[x] = Amount
  BY <1>0 DEF callback_swap_out_token, Answered, SmoothRequest
<1>2. amount_out[core[x]] = x /\ x # NoRequest
  BY <1>0, <1>1 DEF Own
<1>4. bridge_out_token(x, x)
  <2>1. result[x] \notin 0..(Amount - 1) /\ result[x] # Failed /\ amount_out[core[x]] # NoRequest
    BY <1>1, <1>2 DEF Failed
  <2> QED
    BY <1>2, <2>1 DEF callback_swap_out_token
<1>3. UNCHANGED <<used_events, wnear, paid, unfunded, exchanged>>
  BY DEF callback_swap_out_token
<1> QED
  BY <1>1, <1>3, <1>4, LeaveCalm DEF bridge_out_token, Await

LEMMA BurntCalm ==
    ASSUME CalmState, NearTypes', NEW x \in Request, finish_token_out(x) PROVE CalmInv'
<1>0. SmoothRequest(x)
  BY RequestFacts
<1>1. promise[x] = "burn" /\ result[x] = 0
  BY <1>0 DEF finish_token_out, Answered, SmoothRequest
<1>2. finish_swap_out(x) /\ UNCHANGED <<used_events, wnear, paid, unfunded, exchanged>>
  BY <1>1 DEF finish_token_out, Failed
<1> QED
  BY <1>1, <1>2, LeaveCalm

LEMMA SettleCalm ==
    ASSUME CalmState, NearTypes', NEW x \in Request,
           callback_process_native_swap(x) \/ ft_resolve_transfer(x)
    PROVE  CalmInv'
<1> USE NearAssumption
<1>0. /\ Traced(x) /\ SmoothRequest(x) /\ NearTypes /\ FundTypes
      /\ near \in Nat /\ wnear \in Nat /\ unfunded = {}
  BY RequestFacts
<1>1. /\ promise[x] = "settle"
      /\ UNCHANGED <<used_events, near, wnear, paid, unfunded, exchanged, bridged>>
  BY DEF callback_process_native_swap, ft_resolve_transfer, nativeVars, userVars
<1>2. PICK p, v :
         /\ Pass(x, p, v) /\ p \in {"none", "near_withdraw"}
         /\ x \in Native => (p = "none" <=> Refund(x) = 0)
         /\ x \notin Native => p = "none"
  BY DEF callback_process_native_swap, ft_resolve_transfer, Await
<1>3. promise'[x] = p
  BY <1>0, <1>2, PassApart
<1>4. x \in bridged <=> Refund(x) = 0
  BY <1>0, <1>1 DEF Traced, Refund, Part, Spare, FundTypes, Failed
<1>5. /\ near' - Fees(x)' - Nears(x)' >= near - Fees(x) - Nears(x)
      /\ wnear' - Wraps(x)' >= wnear - Wraps(x)
  BY <1>0, <1>1, <1>2, <1>3, <1>4, RequestHeld, RequestHeldNext
<1>6. SmoothRequest(x)'
  BY <1>0, <1>1, <1>2, <1>3 DEF SmoothRequest
<1> QED
  BY <1>0, <1>1, <1>2, <1>5, <1>6, RequestCalm

\* What was unwrapped and the fee are there for whom they are due.
LEMMA RefundDue ==
    ASSUME CalmState, NEW x \in Request, promise[x] = "callback_transfer_near"
    PROVE  x \in Native /\ x \notin bridged /\ result[x] = Spare /\ near >= result[x]
<1> USE NearAssumption
<1>0. /\ Traced(x) /\ Given(x) /\ SmoothRequest(x)
      /\ near \in Nat /\ near >= Fees(x) + Nears(x)
  BY RequestFacts
<1>1. x \in Native /\ x \notin bridged /\ exchanged[x] = 0 /\ result[x] = Spare
  BY <1>0 DEF Traced, Given, SmoothRequest, Part, Spare
<1> QED
  BY <1>0, <1>1, RequestHeld DEF Spare

LEMMA RefundCalm ==
    ASSUME CalmState, NearTypes', NEW x \in Request, callback_transfer_near(x) PROVE CalmInv'
<1> USE NearAssumption
<1>0. NearTypes /\ near \in Nat /\ wnear \in Nat /\ unfunded = {}
  BY RequestFacts
<1>1. /\ promise[x] = "callback_transfer_near" /\ Pass(x, "none", NotReady)
      /\ UNCHANGED <<used_events, wnear, paid, unfunded, exchanged, bridged>>
  BY DEF callback_transfer_near, Await
<1>2. x \in Native /\ x \notin bridged /\ result[x] = Spare /\ near >= result[x]
  BY <1>1, RefundDue
<1>3. near' = near - Spare
  BY <1>0, <1>2 DEF callback_transfer_near, Spare
<1>4. promise'[x] = "none"
  BY <1>0, <1>1, PassApart
<1>5. /\ near' - Fees(x)' - Nears(x)' >= near - Fees(x) - Nears(x)
      /\ wnear' - Wraps(x)' >= wnear - Wraps(x)
  BY <1>0, <1>1, <1>2, <1>3, <1>4, RequestHeld, RequestHeldNext DEF Spare
<1>6. SmoothRequest(x)'
  BY <1>4 DEF SmoothRequest
<1> QED
  BY <1>0, <1>1, <1>5, <1>6, RequestCalm

-----------------------------------------------------------------------------
(* Orders, while the service is not short.                                 *)

LEMMA OrderCalm ==
    ASSUME CalmState, NearTypes', NEW o \in Order, NEW p, NEW v, Pass(o, p, v), Leaves(o),
           UNCHANGED <<exchanged, bridged, unfunded>>,
           near' - Nears(o)' >= near - Nears(o), wnear' - Wraps(o)' >= wnear - Wraps(o),
           SmoothOrder(o)'
    PROVE  CalmInv'
<1>1. o \in Job /\ o \notin Request
  BY NearAssumption
<1>2. Books'
  <2>1. Fees(o) = 0 /\ Fees(o)' = 0
    BY <1>1 DEF Fees, FeeHeld
  <2>2. /\ near \in Nat /\ near' \in Nat /\ Nears(o) \in Nat /\ Nears(o)' \in Nat
    BY NearAssumption DEF CalmState, NearTypes, Nears
  <2>3. near' - Fees(o)' - Nears(o)' >= near - Fees(o) - Nears(o)
    BY <2>1, <2>2
  <2> QED
    BY <1>1, <2>3, Ledger DEF CalmState, CalmInv, Leaves
<1>3. \A y \in Job \ {o} : promise'[y] = promise[y] /\ result'[y] = result[y]
  BY <1>1, PassApart DEF CalmState
<1>4. \A y \in Request : SmoothRequest(y)'
  BY <1>1, <1>3 DEF CalmState, CalmInv, SmoothRequest
<1>5. \A e \in Order \ {o} : SmoothOrder(e)'
  BY <1>3 DEF CalmState, CalmInv, SmoothOrder, Leaves
<1> QED
  BY <1>2, <1>4, <1>5 DEF CalmState, CalmInv

LEMMA OrderHeld ==
    ASSUME NEW o \in Order
    PROVE  /\ Nears(o) = IF (promise[o] = "near_withdraw" /\ result[o] = 0)
                              \/ (promise[o] = "transfer" /\ result[o] = NotReady)
                         THEN Amount ELSE 0
           /\ Wraps(o) = IF Kind[o] = "native" /\ paid[o] = 0 /\ Nears(o) = 0 THEN Amount ELSE 0
  BY NearAssumption DEF Nears, Wraps, NearHeld, WrappedHeld

LEMMA OrderHeldNext ==
    ASSUME NEW o \in Order
    PROVE  /\ Nears(o)' = IF (promise'[o] = "near_withdraw" /\ result'[o] = 0)
                               \/ (promise'[o] = "transfer" /\ result'[o] = NotReady)
                          THEN Amount ELSE 0
           /\ Wraps(o)' = IF Kind[o] = "native" /\ paid'[o] = 0 /\ Nears(o)' = 0 THEN Amount ELSE 0
  BY NearAssumption DEF Nears, Wraps, NearHeld, WrappedHeld

LEMMA OrderFacts ==
    ASSUME CalmState, NEW o \in Order
    PROVE  /\ OrderOk(o) /\ SmoothOrder(o) /\ Books /\ NearTypes
           /\ near \in Nat /\ wnear \in Nat /\ o \in Job /\ unfunded = {}
           /\ paid \in [Order -> Nat] /\ paid[o] <= 1 /\ (paid[o] = 1 => Settled(o))
           /\ near >= Nears(o) /\ wnear >= Wraps(o)
<1>1. o \in Job /\ o \notin Request
  BY NearAssumption
<1>2. Books
  BY DEF CalmState, CalmInv
<1>3. Fees(o) = 0 /\ Nears(o) \in Nat
  BY <1>1, NearAssumption DEF Fees, FeeHeld, Nears
<1>4. near >= Fees(o) + Nears(o) /\ wnear >= Wraps(o)
  BY <1>1, <1>2, Afford DEF CalmState
<1> QED
  BY <1>1, <1>2, <1>3, <1>4 DEF CalmState, CalmInv, OrderInv, PaidInv, NearTypes

LEMMA SwapInCalm ==
    ASSUME CalmState, NearTypes', NEW o \in Order, swap_in(o) PROVE CalmInv'
<1> USE NearAssumption
<1>0. /\ NearTypes /\ near \in Nat /\ wnear \in Nat
  BY OrderFacts
<1>1. Pass(o, FirstPromise(o), NotReady) /\ o \notin used_events
      /\ used_events' = used_events \cup {o}
      /\ UNCHANGED <<paid, exchanged, bridged, unfunded, near, wnear>>
  BY DEF swap_in, process_transfer_in, process_swap_in, record_order_id, Await, nativeVars, userVars
<1>2. promise'[o] = FirstPromise(o) /\ result'[o] = NotReady /\ promise[o] = "none"
  BY <1>0, <1>1, PassApart DEF NearTypes
<1>3. FirstPromise(o) \in {"near_withdraw", "mint", "ft_transfer", "fund"}
  BY Kinds DEF FirstPromise
<1>4. Nears(o) = 0 /\ Nears(o)' = 0
  BY <1>2, <1>3, OrderHeld, OrderHeldNext DEF NotReady
<1>5. Wraps(o)' = Wraps(o)
  BY <1>1, <1>4, OrderHeld, OrderHeldNext
<1>6. SmoothOrder(o)'
  BY <1>2, <1>3 DEF SmoothOrder
<1>7. near' - Nears(o)' >= near - Nears(o) /\ wnear' - Wraps(o)' >= wnear - Wraps(o)
  <2>1. Wraps(o) \in Nat
    BY DEF Wraps
  <2> QED
    BY <1>0, <1>1, <1>4, <1>5, <2>1
<1> QED
  BY <1>1, <1>6, <1>7, OrderCalm DEF Leaves

LEMMA OrderPromiseCalm ==
    ASSUME CalmState, NearTypes', NEW o \in Order, ~MayFail,
           near_withdraw(o) \/ near_deposit(o) \/ fund(o)
    PROVE  CalmInv'
<1> USE NearAssumption DEF NotReady
<1>0. /\ OrderOk(o) /\ SmoothOrder(o) /\ NearTypes
      /\ near \in Nat /\ wnear \in Nat /\ o \in Job /\ unfunded = {}
      /\ paid \in [Order -> Nat] /\ paid[o] <= 1 /\ (paid[o] = 1 => Settled(o))
      /\ near >= Nears(o) /\ wnear >= Wraps(o)
  BY OrderFacts
<1>1. UNCHANGED <<used_events, paid, exchanged, bridged>>
  BY DEF near_withdraw, near_deposit, fund, userVars
<1>2. CASE near_withdraw(o)
  <2>1. promise[o] = "near_withdraw" /\ result[o] = NotReady
    BY <1>2 DEF near_withdraw, Pending
  <2>2. Kind[o] = "native" /\ paid[o] = 0
    BY <1>0, <2>1, Kinds DEF OrderOk, Settled, Payments
  <2>3. Nears(o) = 0 /\ Wraps(o) = Amount
    BY <2>1, <2>2, OrderHeld
  <2>4. /\ wnear' = wnear - Amount /\ near' = near + Amount /\ Answer(o, 0)
        /\ unfunded' = unfunded
    BY <1>0, <1>2, <2>3 DEF near_withdraw, Fails, userVars
  <2>5. Pass(o, "near_withdraw", 0)
    BY <2>1, <2>4, AnswerOrder
  <2>6. promise'[o] = "near_withdraw" /\ result'[o] = 0
    BY <1>0, <2>5, PassApart
  <2>7. Nears(o)' = Amount /\ Wraps(o)' = 0
    BY <2>6, OrderHeldNext
  <2>8. near' - Nears(o)' >= near - Nears(o) /\ wnear' - Wraps(o)' >= wnear - Wraps(o)
    BY <1>0, <2>3, <2>4, <2>7
  <2>9. SmoothOrder(o)'
    BY <2>6 DEF SmoothOrder
  <2> QED
    BY <1>1, <2>4, <2>5, <2>8, <2>9, OrderCalm DEF Leaves
<1>3. CASE near_deposit(o)
  BY <1>0, <1>3 DEF near_deposit, SmoothOrder
<1>4. CASE fund(o)
  <2>1. promise[o] = "fund" /\ result[o] = NotReady /\ o \notin Native
    BY <1>4 DEF fund, Pending
  <2>2. Kind[o] = "swap"
    BY <1>0, <2>1, Kinds DEF OrderOk
  <2>3. UNCHANGED <<near, wnear, unfunded>> /\ Answer(o, 0)
    BY <1>0, <1>4, <2>1 DEF fund, Fails
  <2>4. Pass(o, "fund", 0)
    BY <2>1, <2>3, AnswerOrder
  <2>5. promise'[o] = "fund" /\ result'[o] = 0
    BY <1>0, <2>4, PassApart
  <2>6. Nears(o) = 0 /\ Nears(o)' = 0 /\ Wraps(o) = 0 /\ Wraps(o)' = 0
    BY <2>1, <2>2, <2>5, OrderHeld, OrderHeldNext
  <2>7. near' - Nears(o)' >= near - Nears(o) /\ wnear' - Wraps(o)' >= wnear - Wraps(o)
    BY <1>0, <2>3, <2>6
  <2>8. SmoothOrder(o)'
    BY <2>5 DEF SmoothOrder
  <2> QED
    BY <1>1, <2>3, <2>4, <2>7, <2>8, OrderCalm DEF Leaves
<1> QED
  BY <1>2, <1>3, <1>4

\* The NEAR of a native order are there when they are transferred.
LEMMA DeliverCalm ==
    ASSUME CalmState, NearTypes', NEW o \in Order, ~MayFail, deliver(o) PROVE CalmInv'
<1> USE NearAssumption DEF NotReady
<1>0. /\ OrderOk(o) /\ SmoothOrder(o) /\ NearTypes
      /\ near \in Nat /\ wnear \in Nat /\ o \in Job /\ unfunded = {}
      /\ paid \in [Order -> Nat] /\ paid[o] <= 1 /\ (paid[o] = 1 => Settled(o))
      /\ near >= Nears(o) /\ wnear >= Wraps(o)
  BY OrderFacts
<1>1. /\ promise[o] \in {"transfer", "mint", "ft_transfer"} /\ result[o] = NotReady
      /\ UNCHANGED <<used_events, exchanged, bridged, wnear, unfunded>>
  BY <1>0 DEF deliver, Pending, SmoothOrder
<1>2. Kind[o] = "native" <=> promise[o] = "transfer"
  BY <1>0, <1>1, Kinds DEF OrderOk
<1>3. paid[o] = 0
  BY <1>0, <1>1 DEF Settled, Payments
<1>4. Nears(o) = (IF Kind[o] = "native" THEN Amount ELSE 0) /\ Wraps(o) \in Nat
  BY <1>1, <1>2, OrderHeld DEF Wraps
<1>5. near' = near - Nears(o) /\ Answer(o, 0) /\ paid' = [paid EXCEPT ![o] = @ + 1]
  BY <1>0, <1>4 DEF deliver, Fails
<1>6. Pass(o, promise[o], 0)
  BY <1>1, <1>5, AnswerOrder
<1>7. promise'[o] = promise[o] /\ result'[o] = 0
  BY <1>0, <1>6, PassApart
<1>8. Nears(o)' = 0 /\ Wraps(o)' = 0
  BY <1>0, <1>1, <1>3, <1>5, <1>7, OrderHeldNext
<1>9. near' - Nears(o)' >= near - Nears(o) /\ wnear' - Wraps(o)' >= wnear - Wraps(o)
  BY <1>0, <1>1, <1>4, <1>5, <1>8
<1>10. SmoothOrder(o)'
  BY <1>1, <1>7 DEF SmoothOrder
<1>11. Leaves(o)
  BY <1>0, <1>1, <1>5 DEF Leaves
<1> QED
  BY <1>1, <1>6, <1>9, <1>10, <1>11, OrderCalm

LEMMA OrderSwapCalm ==
    ASSUME CalmState, NearTypes', NEW o \in Order, ~MayFail, swap(o) PROVE CalmInv'
<1> USE NearAssumption DEF NotReady
<1>0. /\ OrderOk(o) /\ NearTypes
      /\ near \in Nat /\ wnear \in Nat /\ o \in Job /\ unfunded = {}
      /\ paid \in [Order -> Nat] /\ paid[o] <= 1 /\ (paid[o] = 1 => Settled(o))
  BY OrderFacts
<1>1. /\ promise[o] = "swap" /\ result[o] = NotReady /\ o \notin Native /\ o \notin Request
      /\ UNCHANGED <<used_events, bridged, unfunded, near>>
  BY DEF swap, Pending
<1>2. Kind[o] = "swap" /\ paid[o] = 0
  BY <1>0, <1>1, Kinds DEF OrderOk, Settled, Payments
<1>3. Exchange(o, Amount)
  BY <1>0 DEF swap, Fails
<1>4. /\ Answer(o, Amount) /\ wnear' = wnear /\ exchanged' = exchanged
      /\ paid' = [paid EXCEPT ![o] = @ + 1]
  BY <1>0, <1>1, <1>3 DEF Exchange
<1>5. Pass(o, "swap", Amount)
  BY <1>1, <1>4, AnswerOrder
<1>6. promise'[o] = "swap" /\ result'[o] = Amount /\ paid'[o] = 1
  BY <1>0, <1>2, <1>4, <1>5, PassApart
<1>7. Nears(o) = 0 /\ Nears(o)' = 0 /\ Wraps(o) = 0 /\ Wraps(o)' = 0
  BY <1>1, <1>2, <1>6, OrderHeld, OrderHeldNext
<1>8. near' - Nears(o)' >= near - Nears(o) /\ wnear' - Wraps(o)' >= wnear - Wraps(o)
  BY <1>0, <1>1, <1>4, <1>7
<1>9. SmoothOrder(o)'
  BY <1>6 DEF SmoothOrder
<1>10. Leaves(o)
  BY <1>0, <1>1, <1>4 DEF Leaves
<1> QED
  BY <1>1, <1>4, <1>5, <1>8, <1>9, <1>10, OrderCalm

LEMMA OrderCallbackCalm ==
    ASSUME CalmState, NearTypes', NEW o \in Order,
           transfer_in_native_token(o) \/ finish_transfer_in(o)
              \/ callback_do_swap(o) \/ callback_post_swap_in(o)
    PROVE  CalmInv'
<1> USE NearAssumption DEF NotReady
<1>0. /\ OrderOk(o) /\ SmoothOrder(o) /\ NearTypes
      /\ near \in Nat /\ wnear \in Nat /\ o \in Job /\ unfunded = {}
      /\ paid \in [Order -> Nat] /\ paid[o] <= 1 /\ (paid[o] = 1 => Settled(o))
  BY OrderFacts
<1>1. UNCHANGED <<exchanged, bridged, unfunded, near, wnear, paid>>
  BY DEF transfer_in_native_token, finish_transfer_in, callback_do_swap, callback_post_swap_in,
         nativeVars, userVars
<1>2. \/ /\ promise[o] = "near_withdraw" /\ result[o] = 0
         /\ Pass(o, "transfer", NotReady) /\ used_events' = used_events
      \/ /\ promise[o] \in Payments /\ Pass(o, "none", NotReady)
         /\ \/ result[o] = 0 /\ used_events' = used_events
            \/ promise[o] # "transfer" /\ used_events' = used_events \ {o}
      \/ promise[o] = "fund" /\ Pass(o, "swap", NotReady) /\ used_events' = used_events
      \/ /\ promise[o] = "swap" /\ result[o] = Amount
         /\ Pass(o, "none", NotReady) /\ used_events' = used_events
  <2>1. CASE transfer_in_native_token(o)
    BY <1>0, <2>1 DEF transfer_in_native_token, Answered, Await, SmoothOrder, Failed
  <2>2. CASE finish_transfer_in(o)
    <3>1. promise[o] \in Payments /\ result[o] \in {Failed, 0} /\ (promise[o] = "transfer" => result[o] = 0)
      BY <1>0, <2>2 DEF finish_transfer_in, Answered, Payments, OrderOk, SmoothOrder, Failed
    <3>2. Kind[o] = "native" => promise[o] = "transfer"
      BY <1>0, <3>1, Kinds DEF OrderOk, Payments
    <3> QED
      BY <2>2, <3>1, <3>2 DEF finish_transfer_in, revert_state, remove_order_id, Await, Failed
  <2>3. CASE callback_do_swap(o)
    <3>1. promise[o] = "fund" /\ result[o] = 0
      BY <1>0, <2>3 DEF callback_do_swap, Answered, SmoothOrder
    <3>2. Pass(o, "swap", NotReady) /\ used_events' = used_events
      BY <2>3, <3>1 DEF callback_do_swap, Await, Failed
    <3> QED
      BY <3>1, <3>2
  <2>4. CASE callback_post_swap_in(o)
    BY <1>0, <2>4 DEF callback_post_swap_in, Answered, Await, SmoothOrder, Failed
  <2> QED
    BY <2>1, <2>2, <2>3, <2>4
<1>3. PICK p :
      /\ Pass(o, p, NotReady)
      /\ \/ promise[o] = "near_withdraw" /\ result[o] = 0 /\ p = "transfer" /\ used_events' = used_events
         \/ /\ promise[o] \in Payments /\ p = "none"
            /\ \/ result[o] = 0 /\ used_events' = used_events
               \/ promise[o] # "transfer" /\ used_events' = used_events \ {o}
         \/ promise[o] = "fund" /\ p = "swap" /\ used_events' = used_events
         \/ promise[o] = "swap" /\ result[o] = Amount /\ p = "none" /\ used_events' = used_events
  BY <1>2
<1>4. promise'[o] = p /\ result'[o] = NotReady
  BY <1>0, <1>3, PassApart
<1>5. near' - Nears(o)' >= near - Nears(o) /\ wnear' - Wraps(o)' >= wnear - Wraps(o)
  <2>1. Nears(o)' = (IF p = "transfer" THEN Amount ELSE 0) /\ Nears(o)' <= Nears(o)
    BY <1>3, <1>4, OrderHeld, OrderHeldNext DEF Payments
  <2>2. Wraps(o)' <= Wraps(o)
    <3>1. CASE p = "transfer"
      BY <2>1, <3>1, OrderHeldNext DEF Wraps
    <3>2. CASE p # "transfer"
      <4>1. Kind[o] = "native" => paid[o] = 1
        BY <1>0, <1>3, <3>2, Kinds DEF OrderOk, Payments
      <4> QED
        BY <1>1, <4>1, OrderHeldNext DEF Wraps
    <3> QED
      BY <3>1, <3>2
  <2>3. Nears(o) \in Nat /\ Nears(o)' \in Nat /\ Wraps(o) \in Nat /\ Wraps(o)' \in Nat
    BY DEF Nears, Wraps
  <2> QED
    BY <1>0, <1>1, <2>1, <2>2, <2>3
<1>6. SmoothOrder(o)'
  BY <1>0, <1>1, <1>3, <1>4 DEF SmoothOrder, OrderOk, Payments
<1>7. Leaves(o)
  BY <1>1, <1>3 DEF Leaves
<1> QED
  BY <1>1, <1>3, <1>5, <1>6, <1>7, OrderCalm

-----------------------------------------------------------------------------
(* The three promises.                                                     *)

\* A step makes the service short, or a promise that could succeed did.
LEMMA StepFails ==
    ASSUME NearTypes, NearNext \/ UNCHANGED nearVars
    PROVE  (fails' = fails \/ MayFail) /\ doubled \subseteq doubled'
<1>1. CASE \E x \in Request : swap_out(x) \/ RequestStep(x)
  <2>1. PICK x \in Request : swap_out(x) \/ RequestStep(x)
    BY <1>1
  <2>2. CASE swap_out(x) \/ callback_swap_out_token(x) \/ finish_token_out(x)
             \/ callback_process_native_swap(x) \/ callback_transfer_near(x)
             \/ ft_resolve_transfer(x)
    BY <2>2 DEF swap_out, callback_swap_out_token, finish_token_out,
       callback_process_native_swap, callback_transfer_near, ft_resolve_transfer, coreVars
  <2>3. CASE near_withdraw(x) \/ near_deposit(x) \/ fund(x) \/ burn(x) \/ swap(x)
    BY <2>3 DEF near_withdraw, near_deposit, fund, burn, swap, Fails, coreVars
  <2>4. CASE process_token_swap_out(x)
    BY <2>4 DEF process_token_swap_out
  <2> QED
    BY <2>1, <2>2, <2>3, <2>4 DEF RequestStep
<1>2. CASE \/ \E o \in Order : swap_in(o) \/ OrderStep(o)
           \/ OwnerNext
           \/ \E c \in Core : callback_add_butter_core(c)
           \/ UNCHANGED nearVars
  BY <1>2, OthersApart
<1> QED
  BY <1>1, <1>2 DEF NearNext

\* Everything that holds of a state together.
FundInv ==
    /\ NearTypes /\ PaidInv /\ CoreInv /\ RequestInv /\ OwnInv /\ OrderInv /\ CalmInv
    /\ used_events \subseteq Order

LEMMA StepRecords == NearTypes /\ [NearNext]_nearVars => used_events' \subseteq used_events \cup Order
<1> SUFFICES ASSUME NearTypes, [NearNext]_nearVars
             PROVE  used_events' \subseteq used_events \cup Order
  OBVIOUS
<1>1. CASE \E o \in Order : swap_in(o) \/ OrderStep(o)
  BY <1>1 DEF swap_in, process_transfer_in, process_swap_in, record_order_id, OrderStep,
     near_withdraw, near_deposit, deliver, fund, swap, transfer_in_native_token,
     finish_transfer_in, callback_do_swap, callback_post_swap_in, revert_state, remove_order_id
<1>2. CASE \/ \E x \in Request : swap_out(x) \/ RequestStep(x)
           \/ OwnerNext
           \/ \E c \in Core : callback_add_butter_core(c)
           \/ UNCHANGED nearVars
  BY <1>2, OrdersApart
<1> QED
  BY <1>1, <1>2 DEF NearNext

LEMMA StepCalm == FundInv /\ NearTypes' /\ [NearNext]_nearVars => CalmInv'
<1> SUFFICES ASSUME FundInv, NearTypes', NearNext \/ UNCHANGED nearVars, Calm'
             PROVE  CalmInv'
  BY DEF CalmInv
<1>1. Calm /\ ~MayFail /\ doubled = {}
  BY StepFails, CalmBefore DEF FundInv, RequestInv
<1>2. CalmState
  BY <1>1 DEF FundInv, CalmState
<1>3. CASE \E o \in Order : swap_in(o) \/ OrderStep(o)
  BY <1>1, <1>2, <1>3, SwapInCalm, OrderPromiseCalm, DeliverCalm, OrderSwapCalm, OrderCallbackCalm
  DEF OrderStep
<1>4. CASE \E x \in Request : swap_out(x) \/ RequestStep(x)
  BY <1>1, <1>2, <1>4, SwapOutCalm, PromiseCalm, SwapCalm, ProcessCalm, SwappedCalm, BurntCalm,
     SettleCalm, RefundCalm DEF RequestStep
<1>5. CASE OwnerNext \/ (\E c \in Core : callback_add_butter_core(c)) \/ UNCHANGED nearVars
  <2>1. UNCHANGED <<promise, result, near, wnear, paid, used_events, exchanged, bridged, unfunded>>
    BY <1>5 DEF OwnerNext, add_butter_core, reset_butter_core, clean_idle_core, coresOnly,
       callback_add_butter_core, chainVars, nativeVars, userVars, nearVars
  <2>2. Books'
    BY <1>2, <2>1 DEF CalmState, CalmInv, Books, FeeHeld, NearHeld, WrappedHeld
  <2>3. /\ \A x \in Request : SmoothRequest(x)'
        /\ \A o \in Order : SmoothOrder(o)'
    BY <1>2, <2>1 DEF CalmState, CalmInv, SmoothRequest, SmoothOrder
  <2> QED
    BY <1>2, <2>1, <2>2, <2>3 DEF CalmState, CalmInv
<1> QED
  BY <1>3, <1>4, <1>5 DEF NearNext

LEMMA RefundsPaid == FundInv => Enough
<1> SUFFICES ASSUME FundInv, NEW x \in Request, promise[x] = "callback_transfer_near",
                    near < result[x], Calm
             PROVE  FALSE
  BY DEF Enough, Calm
<1>1. near >= result[x]
  BY RefundDue DEF FundInv, CalmState
<1>2. near \in Nat /\ result[x] \in Int
  BY NearAssumption DEF FundInv, NearTypes, Failed
<1> QED
  BY <1>1, <1>2

LEMMA InitCalm == NearInit => OrderInv /\ CalmInv
<1> SUFFICES ASSUME NearInit PROVE OrderInv /\ CalmInv
  OBVIOUS
<1> USE NearAssumption
<1>1. /\ \A x \in Job : promise[x] = "none"
      /\ wnear = Wrapped /\ near = Reserve /\ unfunded = {} /\ used_events = {}
      /\ \A o \in Order : paid[o] = 0
  BY DEF NearInit
<1>2. OrderInv
  BY <1>1, Kinds DEF OrderInv, OrderOk, Payments
<1>3. FeeHeld = {} /\ NearHeld = {} /\ WrappedHeld = {o \in Order : Kind[o] = "native"}
  BY <1>1 DEF FeeHeld, NearHeld, WrappedHeld
<1>4. Calm => Books
  BY <1>1, <1>3, FS_EmptySet DEF Calm, Short, Covered, Books
<1>5. /\ \A x \in Request : SmoothRequest(x)
      /\ \A o \in Order : SmoothOrder(o)
  BY <1>1 DEF SmoothRequest, SmoothOrder
<1> QED
  BY <1>1, <1>2, <1>4, <1>5 DEF CalmInv

LEMMA Funds == NearSpec => []FundInv
<1>1. NearInit => FundInv
  <2>1. NearInit => PaidInv
    BY DEF NearInit, PaidInv
  <2>2. NearInit => CoreInv
    BY NearAssumption DEF NearInit, CoreInv, Single, Serves
  <2> QED
    BY <2>1, <2>2, InitTypes, InitFunds, InitCalm DEF FundInv, NearInit
<1>2. FundInv /\ [NearNext]_nearVars => FundInv'
  BY RefundsPaid, StepTypes, StepPaid, StepCores, StepRequests, StepOwn, StepOrders, StepCalm, StepRecords
  DEF FundInv
<1> QED
  BY <1>1, <1>2, PTL DEF NearSpec

\* Unless the owner listed a core twice, what leaves for a request is what was
\* swapped for it, whichever cores are busy and whatever entries of amount_out
\* stayed behind; and who had tokens leave is never given any back.
THEOREM LeavesOwn == NearSpec => []LeavesAsOwn
<1>1. FundInv => LeavesAsOwn
  BY DEF FundInv, RequestInv, OwnInv, FundTypes, Own, Given, LeavesAsOwn
<1> QED
  BY <1>1, Funds, PTL

\* A user whose request is over and left nothing got the rest back with the
\* fee: the NEAR that refunds and orders unwrap are covered by what is held
\* for them, so that only a service that is short can fail a user.
THEOREM UsersMadeWhole == NearSpec => []MadeWhole
<1>1. FundInv => MadeWhole
  BY NearAssumption DEF FundInv, RequestInv, FundTypes, Given, Part, Spare, MadeWhole
<1> QED
  BY <1>1, Funds, PTL

\* No order stays recorded, over and unpaid, unless the service was short:
\* a mint or a transfer never does.
THEOREM NoOrderStranded == NearSpec => []NotStranded
<1>1. ASSUME FundInv PROVE NotStranded
  <2> SUFFICES ASSUME NEW o \in used_events, promise[o] = "none", paid[o] = 0
               PROVE  Kind[o] \in {"native", "swap"} /\ Short
    BY DEF NotStranded
  <2>1. o \in Order
    BY <1>1 DEF FundInv
  <2>2. Kind[o] \in {"native", "swap"}
    BY <1>1, <2>1, Kinds DEF FundInv, OrderInv, OrderOk
  <2>3. ~Calm
    BY <1>1, <2>1 DEF FundInv, CalmInv, SmoothOrder
  <2> QED
    BY <2>2, <2>3 DEF Calm
<1> QED
  BY <1>1, Funds, PTL
=============================================================================
