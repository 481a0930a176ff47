----------------------------- MODULE MCFileLock -----------------------------
(***************************************************************************)
(* FileLock for TLC: the sessions share a host, and are interchangeable.   *)
(***************************************************************************)
EXTENDS FileLock, TLC

OneHost == [s \in Session |-> "host"]

Perms == Permutations(Session)
=============================================================================
