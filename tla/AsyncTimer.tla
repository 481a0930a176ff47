----------------------------- MODULE AsyncTimer -----------------------------
(***************************************************************************)
(* The deadline of a timed actor-receive and the wakeup that should meet   *)
(* it: actor_receive_internal and the WAIT_TIMER branch of coro_yield in   *)
(* src/src/async-scheduler.c, and the time arithmetic of                   *)
(* event_stream_generate_wakeup in src/src/event-stream.c.                 *)
(*                                                                         *)
(* The clock counts microseconds in the code; here a millisecond has Grain *)
(* instants.  Times are kept as the time still to go, so the clock itself  *)
(* is unbounded and the state space is finite.                             *)
(***************************************************************************)
EXTENDS Naturals

CONSTANTS
    Coro,        \* actors that receive with a timeout
    Grain,       \* clock instants per millisecond
    MaxTimeout,  \* bound on the timeout argument, in milliseconds
    MaxPending   \* bound on the wakeups pending at once

VARIABLES
    phase,   \* "running", "yielding" (the deadline is set, the wakeup is not
             \* armed yet), "waiting", "resumed"
    left,    \* wait_deadline - now, 0 once the deadline has passed
    due      \* next_signal_time - now of each pending wakeup, 0 once it can
             \* be dispatched; Off for a wakeup that is not pending

vars == <<phase, left, due>>

Off == MaxTimeout * Grain + 1
Wakeups == 1..MaxPending

Init ==
    /\ phase = [c \in Coro |-> "running"]
    /\ left = [c \in Coro |-> 0]
    /\ due = [i \in Wakeups |-> Off]

\* actor_receive_internal: deadline = now + timeout_ms.
actor_receive_internal(c, timeout_ms) ==
    /\ phase[c] = "running"
    /\ phase' = [phase EXCEPT ![c] = "yielding"]
    /\ left' = [left EXCEPT ![c] = timeout_ms * Grain]
    /\ UNCHANGED due

\* The milliseconds coro_yield asks for: the whole ones left, at least one.
WakeupMs(c) == IF left[c] < Grain THEN 1 ELSE left[c] \div Grain

\* coro_yield (WAIT_TIMER): arm a one-shot wakeup that many milliseconds out.
coro_yield(c) ==
    /\ phase[c] = "yielding"
    /\ phase' = [phase EXCEPT ![c] = "waiting"]
    /\ \E i \in Wakeups : /\ due[i] = Off
                          /\ due' = [due EXCEPT ![i] = WakeupMs(c) * Grain]
    /\ UNCHANGED left

\* Time passes.
Elapse(t) == IF t = 0 \/ t = Off THEN t ELSE t - 1
Clock ==
    /\ left' = [c \in Coro |-> Elapse(left[c])]
    /\ due' = [i \in Wakeups |-> Elapse(due[i])]
    /\ UNCHANGED phase

\* A wakeup is dispatched and its tick runs phase 1b, which resumes every
\* actor whose deadline has passed.  Nothing is armed for the others.
tick(i) ==
    /\ due[i] = 0
    /\ due' = [due EXCEPT ![i] = Off]
    /\ phase' = [d \in Coro |-> IF phase[d] = "waiting" /\ left[d] = 0
                                THEN "resumed" ELSE phase[d]]
    /\ UNCHANGED left

\* Phase 2 of that tick returns from the receive.
run(c) ==
    /\ phase[c] = "resumed"
    /\ phase' = [phase EXCEPT ![c] = "running"]
    /\ UNCHANGED <<left, due>>

Next ==
    \/ \E c \in Coro, timeout_ms \in 1..MaxTimeout :
          actor_receive_internal(c, timeout_ms)
    \/ \E c \in Coro : coro_yield(c) \/ run(c)
    \/ \E i \in Wakeups : tick(i)
    \/ Clock

Spec == Init /\ [][Next]_vars

\* Time goes on, the running C code goes on, and the command loop dispatches
\* every timeout event that is due.
FairSpec ==
    /\ Spec /\ WF_vars(Clock)
    /\ \A c \in Coro : WF_vars(coro_yield(c)) /\ WF_vars(run(c))
    /\ \A i \in Wakeups : WF_vars(tick(i))

-----------------------------------------------------------------------------
\* A blocked receive times out: coro_yield arms its wakeup "at the timeout
\* deadline so the tick can fire" the timeout "even if nothing else on the
\* system pokes the event loop".
ReceiveTimesOut == \A c \in Coro : phase[c] = "waiting" ~> phase[c] = "resumed"
=============================================================================
