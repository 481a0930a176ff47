-------------------------- MODULE MCAsyncScheduler --------------------------
(***************************************************************************)
(* Instances of AsyncScheduler for TLC.                                    *)
(***************************************************************************)
EXTENDS AsyncScheduler, TLC

\* Coroutines differ only by what happens to them.
Symmetry == Permutations(Coro)
=============================================================================
