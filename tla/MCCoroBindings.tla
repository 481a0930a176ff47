--------------------------- MODULE MCCoroBindings ---------------------------
(***************************************************************************)
(* CoroBindings for TLC: the coroutines are interchangeable.               *)
(***************************************************************************)
EXTENDS CoroBindings, TLC

Perms == Permutations(Coro)
=============================================================================
