---------------------------- MODULE CoroBindings ----------------------------
(***************************************************************************)
(* Dynamic variables across a coroutine switch.                            *)
(*                                                                         *)
(* XEmacs binds shallowly: a symbol's value cell holds the current value,  *)
(* and specpdl, a stack, holds the values to put back.  Every coroutine    *)
(* has a specpdl of its own.  When it yields, coro_yield swaps the value   *)
(* of each binding on it with the value cell, from the top down; when the  *)
(* tick switches it in again, it swaps them from the bottom up.  Entries   *)
(* that carry an unwind function are left alone: those are unwind-protect  *)
(* forms, save-current-buffer, and any binding of a variable that is, or   *)
(* would become, local to the current buffer, such as default-directory.   *)
(*                                                                         *)
(* The entries that coro_spawn copies from the spawner lie below the       *)
(* coroutine's own, and no switch ever touches them: they are left out.    *)
(***************************************************************************)
EXTENDS Naturals, Sequences

CONSTANTS
  Sym,       \* the dynamic variables
  Local,     \* those bound through an unwind function: buffer-local ones
  Val,
  Coro,
  Main,      \* the thread that runs the command loop and the scheduler
  Room,      \* CORO_SPECPDL_INITIAL_SIZE: own entries of a coroutine's array
  MaxDepth   \* a bound on the bindings of one thread

ASSUME MainAssumption == Main \notin Coro
ASSUME LocalAssumption == Local \subseteq Sym
ASSUME BoundAssumption == Room \in Nat /\ MaxDepth \in Nat

VARIABLES
  value,     \* the value cells
  specpdl,   \* specpdl[t]: the entries [sym, old_value] of thread t
  running,   \* current_coro, or Main
  state,     \* the coroutines' states
  moved,     \* moved[c]: the array c runs on is no longer coro_specpdl
  broken,    \* a coroutine yielded on such an array: undefined from here on
  inherits   \* history: inherits[c]: until c first runs, the values of the
             \* variables that its spawner had bound and nobody has bound or
             \* set since

vars == <<value, specpdl, running, state, moved, broken, inherits>>

Thread == Coro \cup {Main}
Plain == Sym \ Local
Entry == [sym : Sym, old_value : Val]

Init ==
  /\ value \in [Sym -> Val]
  /\ specpdl = [t \in Thread |-> <<>>]
  /\ running = Main
  /\ state = [c \in Coro |-> "unborn"]
  /\ moved = [c \in Coro |-> FALSE]
  /\ broken = FALSE
  /\ inherits = [c \in Coro |-> <<>>]

-----------------------------------------------------------------------------
(***************************************************************************)
(* The swap of a range of entries.                                         *)
(***************************************************************************)

\* specpdl_swap_one on entry i of a record of value cells and entries; the
\* ranges call it only for the entries without an unwind function.
SwapOne(s, i) ==
  LET x == s.stack[i].sym
  IN IF x \in Local THEN s
     ELSE [cells |-> [s.cells EXCEPT ![x] = s.stack[i].old_value],
           stack |-> [s.stack EXCEPT ![i].old_value = s.cells[x]]]

\* The whole stack swapped: entry order[1], then entry order[2], and so on.
SwapRange(cells, stack, order) ==
  LET done[n \in 0 .. Len(stack)] ==
        IF n = 0 THEN [cells |-> cells, stack |-> stack]
        ELSE SwapOne(done[n - 1], order[n])
  IN done[Len(stack)]

Downward(stack) == [n \in 1 .. Len(stack) |-> Len(stack) + 1 - n]
Upward(stack) == [n \in 1 .. Len(stack) |-> n]

specpdl_unwind_range(cells, stack) == SwapRange(cells, stack, Downward(stack))

\* Mutant of specpdl_rebind_range: from the top down.
rebind_from_top(cells, stack) == SwapRange(cells, stack, Downward(stack))

specpdl_rebind_range(cells, stack) == SwapRange(cells, stack, Upward(stack))

\* The cells after unbind_to has taken every entry off the stack, down to
\* depth n, and put its old value back.
UnbindTo(cells, stack, n) ==
  LET undone[k \in n .. Len(stack)] ==
        IF k = Len(stack) THEN cells
        ELSE [undone[k + 1] EXCEPT ![stack[k + 1].sym] = stack[k + 1].old_value]
  IN undone[n]

-----------------------------------------------------------------------------
(***************************************************************************)
(* What the running thread does to its variables.                          *)
(***************************************************************************)

BoundBy(t) == {specpdl[t][i].sym : i \in DOMAIN specpdl[t]}

\* x is no longer what a spawner left it.
Forget(x) ==
  inherits' = [c \in Coro |-> [y \in DOMAIN inherits[c] \ {x} |-> inherits[c][y]]]

\* SPECPDL_RESERVE (1) before each binding: grow_specpdl may move the array,
\* and only the global specpdl is told.
Reserve ==
  \/ /\ running = Main \/ Len(specpdl[running]) + 1 < Room
     /\ UNCHANGED moved
  \/ /\ running \in Coro
     /\ Len(specpdl[running]) + 1 >= Room
     /\ \E m \in {moved[running], TRUE} : moved' = [moved EXCEPT ![running] = m]

\* specbind, specbind_magic: the old value goes to the stack.
specbind(x, v) ==
  /\ ~broken
  /\ Len(specpdl[running]) < MaxDepth
  /\ Reserve
  /\ specpdl' = [specpdl EXCEPT ![running] =
                   Append(@, [sym |-> x, old_value |-> value[x]])]
  /\ value' = [value EXCEPT ![x] = v]
  /\ Forget(x)
  /\ UNCHANGED <<running, state, broken>>

\* unbind_to, at the end of one form or, by a throw or an error, of several.
unbind_to(n) ==
  /\ ~broken
  /\ n < Len(specpdl[running])
  /\ value' = UnbindTo(value, specpdl[running], n)
  /\ specpdl' = [specpdl EXCEPT ![running] = SubSeq(@, 1, n)]
  /\ UNCHANGED <<running, state, moved, broken, inherits>>

\* setq.
Fset(x, v) ==
  /\ ~broken
  /\ value' = [value EXCEPT ![x] = v]
  /\ Forget(x)
  /\ UNCHANGED <<specpdl, running, state, moved, broken>>

-----------------------------------------------------------------------------
(***************************************************************************)
(* The switches.                                                           *)
(***************************************************************************)

\* The main thread's entries are copied; no value cell changes, and the
\* coroutine has no entry of its own.
coro_spawn(c) ==
  /\ ~broken
  /\ state[c] = "unborn"
  /\ state' = [state EXCEPT ![c] = "suspended"]
  /\ inherits' = [inherits EXCEPT ![c] = [x \in BoundBy(running) |-> value[x]]]
  /\ UNCHANGED <<value, specpdl, running, moved, broken>>

\* async_scheduler_tick switches c in, above whatever Main has bound now.
SwitchIn(c) ==
  /\ ~broken
  /\ running = Main
  /\ state[c] = "suspended"
  /\ state' = [state EXCEPT ![c] = "running"]
  /\ running' = c
  /\ LET r == specpdl_rebind_range(value, specpdl[c])
     IN /\ value' = r.cells
        /\ specpdl' = [specpdl EXCEPT ![c] = r.stack]
  /\ inherits' = [inherits EXCEPT ![c] = <<>>]
  /\ UNCHANGED <<moved, broken>>

\* coro_yield on the array that the coroutine was given.
coro_yield(c) ==
  /\ ~broken
  /\ running = c
  /\ ~moved[c]
  /\ state' = [state EXCEPT ![c] = "suspended"]
  /\ running' = Main
  /\ LET r == specpdl_unwind_range(value, specpdl[c])
     IN /\ value' = r.cells
        /\ specpdl' = [specpdl EXCEPT ![c] = r.stack]
  /\ inherits' = [inherits EXCEPT ![c] = <<>>]
  /\ UNCHANGED <<moved, broken>>

\* coro_yield once grow_specpdl has moved the array: the range it walks runs
\* from the freed array to the new one.
YieldMoved(c) ==
  /\ ~broken
  /\ running = c
  /\ moved[c]
  /\ broken' = TRUE
  /\ UNCHANGED <<value, specpdl, running, state, moved, inherits>>

\* Mutant of coro_trampoline: the handler is reached without an unbind_to.
trampoline_bound(c) ==
  /\ ~broken
  /\ running = c
  /\ state' = [state EXCEPT ![c] = "dead"]
  /\ running' = Main
  /\ UNCHANGED <<value, specpdl, moved, broken, inherits>>

\* The function returns, or an error reaches the condition-case of
\* coro_trampoline: in both cases its own entries have been unbound.
coro_trampoline(c) ==
  /\ ~broken
  /\ running = c
  /\ value' = UnbindTo(value, specpdl[c], 0)
  /\ specpdl' = [specpdl EXCEPT ![c] = <<>>]
  /\ state' = [state EXCEPT ![c] = "dead"]
  /\ running' = Main
  /\ UNCHANGED <<moved, broken, inherits>>

Next ==
  \/ \E x \in Sym, v \in Val : specbind(x, v) \/ Fset(x, v)
  \/ \E n \in 0 .. MaxDepth : unbind_to(n)
  \/ \E c \in Coro : coro_spawn(c) \/ SwitchIn(c) \/ coro_yield(c)
                     \/ YieldMoved(c) \/ coro_trampoline(c)

Spec == Init /\ [][Next]_vars

-----------------------------------------------------------------------------
(***************************************************************************)
(* Properties.                                                             *)
(***************************************************************************)

\* Apart from the types: current_coro is the one coroutine that is RUNNING, and
\* none has bindings of its own before it is switched in or after its end.
TypeOK ==
  /\ value \in [Sym -> Val]
  /\ specpdl \in [Thread -> Seq(Entry)]
  /\ running \in Thread
  /\ state \in [Coro -> {"unborn", "suspended", "running", "dead"}]
  /\ moved \in [Coro -> BOOLEAN] /\ broken \in BOOLEAN
  /\ inherits \in [Coro -> UNION {[S -> Val] : S \in SUBSET Sym}]
  /\ \A c \in Coro : /\ state[c] = "running" <=> running = c
                     /\ state[c] \in {"unborn", "dead"} => specpdl[c] = <<>>

\* A coroutine inherits the bindings of its spawner (async.texi, and the test
\* of coro_spawn): when it first runs, it finds the variables that were
\* let-bound where it was spawned as they were there.
InheritsLets ==
  [][\A c \in Coro, x \in Sym :
       /\ state[c] = "suspended" /\ state'[c] = "running"
       /\ x \in DOMAIN inherits[c]
       => value'[x] = inherits[c][x]]_vars

(***************************************************************************)
(* The deep bindings that the shallow ones stand for.  The entries in      *)
(* force are those of Main and, above them, those of the running           *)
(* coroutine; the value of a binding in force is the old value of the next *)
(* entry above it for the same variable, or the value cell.  A suspended   *)
(* coroutine's entries hold their own values.                              *)
(***************************************************************************)
InForce == IF running = Main THEN specpdl[Main]
           ELSE specpdl[Main] \o specpdl[running]

Above(stack, x, i) == {j \in 1 .. Len(stack) : j > i /\ stack[j].sym = x}

Lowest(S) == CHOOSE j \in S : \A k \in S : j <= k

NextValue(cells, stack, x, i) ==
  IF Above(stack, x, i) = {} THEN cells[x]
  ELSE stack[Lowest(Above(stack, x, i))].old_value

ValueAbove(x, i) == NextValue(value, InForce, x, i)

BoundValue(t, i) ==
  LET e == specpdl[t][i]
  IN IF t = Main THEN ValueAbove(e.sym, i)
     ELSE IF t = running THEN ValueAbove(e.sym, Len(specpdl[Main]) + i)
     ELSE e.old_value

\* An entry with an unwind function binds none of the plain variables.
DeepEnv ==
  [t \in Thread |->
     [i \in 1 .. Len(specpdl[t]) |->
        IF specpdl[t][i].sym \in Local THEN [sym |-> specpdl[t][i].sym]
        ELSE [sym |-> specpdl[t][i].sym, val |-> BoundValue(t, i)]]]

DeepGlobal == [x \in Plain |-> ValueAbove(x, 0)]

DB == INSTANCE DeepBinding
        WITH Sym <- Plain, Form <- Local, env <- DeepEnv, global <- DeepGlobal

\* For the ordinary variables, swapping values at each switch implements a
\* stack of bindings per coroutine: a coroutine finds its variables as it left
\* them, at every level of nesting, and changes nobody else's.
ImplementsDeepBinding == DB!Spec
=============================================================================
