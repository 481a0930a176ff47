--------------------------- MODULE CoroLifecycle ----------------------------
(***************************************************************************)
(* What the coroutine scheduler promises, whatever drives it: the life     *)
(* cycle of a coroutine (RUNNABLE, RUNNING, SUSPENDED, DEAD, freed), one   *)
(* coroutine running at a time, and only suspended coroutines woken.       *)
(***************************************************************************)
CONSTANTS Coro, Nil

VARIABLES state, running

vars == <<state, running>>

Init == state = [c \in Coro |-> "UNBORN"] /\ running = Nil

InState(s) == {c \in Coro : state[c] = s}

Spawn(c) ==
    /\ state[c] = "UNBORN"
    /\ state' = [state EXCEPT ![c] = "RUNNABLE"]
    /\ UNCHANGED running

\* Messages, deadlines, transfers and ticks wake suspended coroutines.
Wake(S) ==
    /\ S \subseteq InState("SUSPENDED")
    /\ state' = [c \in Coro |-> IF c \in S THEN "RUNNABLE" ELSE state[c]]
    /\ UNCHANGED running

Dispatch(c) ==
    /\ running = Nil
    /\ state[c] = "RUNNABLE"
    /\ state' = [state EXCEPT ![c] = "RUNNING"]
    /\ running' = c

Block ==
    /\ running # Nil
    /\ state' = [state EXCEPT ![running] = "SUSPENDED"]
    /\ running' = Nil

\* The running coroutine ends and wakes its joiner and its monitors.
Die(S) ==
    /\ running # Nil
    /\ S \subseteq InState("SUSPENDED")
    /\ state' = [c \in Coro |-> IF c = running THEN "DEAD"
                                ELSE IF c \in S THEN "RUNNABLE" ELSE state[c]]
    /\ running' = Nil

Reap(t) ==
    /\ running # Nil
    /\ state[t] = "DEAD"
    /\ state' = [state EXCEPT ![t] = "REAPED"]
    /\ UNCHANGED running

Next ==
    \/ \E c \in Coro : Spawn(c) \/ Dispatch(c) \/ Reap(c)
    \/ \E S \in SUBSET Coro : Wake(S) \/ Die(S)
    \/ Block

Spec == Init /\ [][Next]_vars
=============================================================================
