----------------------------- MODULE DeepBinding -----------------------------
(***************************************************************************)
(* Dynamic variables as each thread of Lisp sees them, the main one and    *)
(* each coroutine: every thread has a stack of bindings of its own, and a  *)
(* coroutine looks a variable up in its own stack, then in the stack of    *)
(* the main thread as it is at that moment, then in the global cell.       *)
(* Passing control changes none of these.  (async.texi says more: that a   *)
(* coroutine also inherits the bindings of its spawner.)                   *)
(***************************************************************************)
EXTENDS Naturals, Sequences

CONSTANTS
  Sym,
  Form,   \* the forms that leave an unwind function on the stack
  Val, Coro, Main

VARIABLES
  env,      \* env[t]: the bindings of thread t, the innermost last
  global,   \* the values outside every binding
  running   \* the thread that executes Lisp

vars == <<env, global, running>>

Thread == Coro \cup {Main}

Init ==
  /\ env = [t \in Thread |-> <<>>]
  /\ global \in [Sym -> Val]
  /\ running = Main

\* The positions of thread t's bindings of x.
At(t, x) == {i \in DOMAIN env[t] : env[t][i].sym = x}

Innermost(S) == CHOOSE i \in S : \A j \in S : j <= i

Let(x, v) ==
  /\ env' = [env EXCEPT ![running] = Append(@, [sym |-> x, val |-> v])]
  /\ UNCHANGED <<global, running>>

\* The entry of a form takes a place on the stack and binds nothing.
Enter(f) ==
  /\ env' = [env EXCEPT ![running] = Append(@, [sym |-> f])]
  /\ UNCHANGED <<global, running>>

\* Any number of the innermost bindings end together, as an error ends them.
Unbind(n) ==
  /\ n <= Len(env[running])
  /\ env' = [env EXCEPT ![running] = SubSeq(@, 1, n)]
  /\ UNCHANGED <<global, running>>

Set(x, v) ==
  /\ UNCHANGED running
  /\ \/ /\ At(running, x) /= {}
        /\ env' = [env EXCEPT ![running][Innermost(At(running, x))].val = v]
        /\ UNCHANGED global
     \/ /\ At(running, x) = {} /\ At(Main, x) /= {}
        /\ env' = [env EXCEPT ![Main][Innermost(At(Main, x))].val = v]
        /\ UNCHANGED global
     \/ /\ At(running, x) = {} /\ At(Main, x) = {}
        /\ global' = [global EXCEPT ![x] = v]
        /\ UNCHANGED env

Pass(t) ==
  /\ running' = t
  /\ UNCHANGED <<env, global>>

\* A coroutine ends: its bindings end with it.
End ==
  /\ running \in Coro
  /\ env' = [env EXCEPT ![running] = <<>>]
  /\ running' = Main
  /\ UNCHANGED global

Next ==
  \/ \E x \in Sym, v \in Val : Let(x, v) \/ Set(x, v)
  \/ \E f \in Form : Enter(f)
  \/ \E n \in 0 .. Len(env[running]) : Unbind(n)
  \/ \E t \in Thread : Pass(t)
  \/ End

Spec == Init /\ [][Next]_vars
=============================================================================
