---------------------------- MODULE FileLockProofs ----------------------------
(***************************************************************************)
(* The invariants of FileLock, for any number of sessions and hosts and    *)
(* any set of faults.                                                      *)
(*                                                                         *)
(* Only session s ever makes the link name s, so "the link does not name   *)
(* s" can only be made false by s itself.  Mine collects what s therefore  *)
(* knows at each place of the code, whatever the others do.  Calm adds     *)
(* what holds until the first session ends, steals or goes on unlocked:    *)
(* every owner that was read is still running, so that nothing is zapped.  *)
(***************************************************************************)
EXTENDS FileLock, TLAPS

\* Where s has no lock: it saw another owner, or none, and has not yet tried
\* to make a link again, or it has just released its own.
Mine(s) ==
  /\ pc[s] \in {"ask", "steal", "unlink", "resymlink", "released"} => link /= s
  /\ pc[s] \in {"judge", "ujudge"} /\ saw[s] /= s => link /= s
  /\ /\ \/ pc[s] \in {"idle", "supersession", "symlink", "owner"}
        \/ pc[s] \in {"uowner", "ujudge"} /\ op[s] = "query"
     /\ buf[s] /= "modified" /\ ~cut[s]
     => link /= s
  /\ link = s => held[s]
  /\ op[s] = "query" => pc[s] \in {"uowner", "ujudge"}

\* What undisturbed sessions may rely on.
Calm(s) ==
  /\ Running(s)
  /\ pc[s] \notin {"steal", "unlink", "resymlink"}
  /\ held[s] => link = s
  /\ pc[s] \in {"granted", "write", "stat"} => held[s]
  /\ pc[s] \in {"judge", "ujudge"} /\ saw[s] = s => link = s
  /\ pc[s] = "supersession" => ~sure[s]
  /\ pc[s] \in {"symlink", "owner", "judge", "granted", "write"} /\ sure[s]
     => held[s] /\ ~stale[s]

IInv ==
  /\ TypeOK
  /\ \A s \in Session : Mine(s)
  /\ ~disturbed => \A s \in Session : Calm(s)

-----------------------------------------------------------------------------
\* Initially no link exists and no session does anything.
LEMMA InitIInv == Init => IInv
<1> SUFFICES ASSUME Init PROVE IInv
  OBVIOUS
<1>1. TypeOK
  BY DEF Init, TypeOK
<1>2. ASSUME NEW s \in Session PROVE Mine(s) /\ Calm(s)
  BY NilAssumption DEF Init, Mine, Calm, Running
<1> QED
  BY <1>1, <1>2 DEF IInv

\* The first change to a buffer only starts lock_file.
LEMMA EditStep ==
  ASSUME IInv, NEW s \in Session, Edit(s)
  PROVE IInv'
<1>1. TypeOK'
  BY DEF IInv, TypeOK, LockOp, UnlockOp, Edit, Start, At, Goto, VerifyModtime
<1>2. ASSUME NEW t \in Session PROVE Mine(t)'
  BY NilAssumption DEF IInv, TypeOK, Mine, Edit, Start, At, Goto, VerifyModtime
<1>3. ASSUME ~disturbed', NEW t \in Session PROVE Calm(t)'
  BY <1>3, NilAssumption DEF IInv, TypeOK, Mine, Calm, Running, Edit,
     Start, At, Goto, VerifyModtime
<1> QED
  BY <1>1, <1>2, <1>3 DEF IInv

\* So does set-buffer-modified-p.
LEMMA MarkModifiedStep ==
  ASSUME IInv, NEW s \in Session, MarkModified(s)
  PROVE IInv'
<1>1. TypeOK'
  BY DEF IInv, TypeOK, LockOp, UnlockOp, MarkModified, Start, At, Goto,
     VerifyModtime
<1>2. ASSUME NEW t \in Session PROVE Mine(t)'
  BY NilAssumption DEF IInv, TypeOK, Mine, MarkModified, Start, At, Goto,
     VerifyModtime
<1>3. ASSUME ~disturbed', NEW t \in Session PROVE Calm(t)'
  BY <1>3, NilAssumption DEF IInv, TypeOK, Mine, Calm, Running,
     MarkModified, Start, At, Goto, VerifyModtime
<1> QED
  BY <1>1, <1>2, <1>3 DEF IInv

\* And lock-buffer.
LEMMA LockBufferStep ==
  ASSUME IInv, NEW s \in Session, LockBuffer(s)
  PROVE IInv'
<1>1. TypeOK'
  BY DEF IInv, TypeOK, LockOp, UnlockOp, LockBuffer, Start, At, Goto,
     VerifyModtime
<1>2. ASSUME NEW t \in Session PROVE Mine(t)'
  BY NilAssumption DEF IInv, TypeOK, Mine, LockBuffer, Start, At, Goto,
     VerifyModtime
<1>3. ASSUME ~disturbed', NEW t \in Session PROVE Calm(t)'
  BY <1>3, NilAssumption DEF IInv, TypeOK, Mine, Calm, Running, LockBuffer,
     Start, At, Goto, VerifyModtime
<1> QED
  BY <1>1, <1>2, <1>3 DEF IInv

\* And write-region.
LEMMA WriteRegionStep ==
  ASSUME IInv, NEW s \in Session, WriteRegion(s)
  PROVE IInv'
<1>1. TypeOK'
  BY DEF IInv, TypeOK, LockOp, UnlockOp, WriteRegion, Start, At, Goto,
     VerifyModtime
<1>2. ASSUME NEW t \in Session PROVE Mine(t)'
  BY NilAssumption DEF IInv, TypeOK, Mine, WriteRegion, Start, At, Goto,
     VerifyModtime
<1>3. ASSUME ~disturbed', NEW t \in Session PROVE Calm(t)'
  BY <1>3, NilAssumption DEF IInv, TypeOK, Mine, Calm, Running,
     WriteRegion, Start, At, Goto, VerifyModtime
<1> QED
  BY <1>1, <1>2, <1>3 DEF IInv

\* Going ahead over a newer file: that write was never sure.
LEMMA GoAheadStep ==
  ASSUME IInv, NEW s \in Session, GoAhead(s)
  PROVE IInv'
<1>1. TypeOK'
  BY DEF IInv, TypeOK, LockOp, UnlockOp, GoAhead, At, Goto
<1>2. ASSUME NEW t \in Session PROVE Mine(t)'
  BY NilAssumption DEF IInv, TypeOK, Mine, GoAhead, At, Goto
<1>3. ASSUME ~disturbed', NEW t \in Session PROVE Calm(t)'
  BY <1>3, NilAssumption DEF IInv, TypeOK, Mine, Calm, Running, GoAhead,
     At, Goto
<1> QED
  BY <1>1, <1>2, <1>3 DEF IInv

\* Giving up before the lock leaves it as it was.
LEMMA DoNotModifyStep ==
  ASSUME IInv, NEW s \in Session, DoNotModify(s)
  PROVE IInv'
<1>1. TypeOK'
  BY DEF IInv, TypeOK, LockOp, UnlockOp, DoNotModify, At, Goto, Return, Leave
<1>2. ASSUME NEW t \in Session PROVE Mine(t)'
  BY NilAssumption DEF IInv, TypeOK, Mine, DoNotModify, At, Goto, Return, Leave
<1>3. ASSUME ~disturbed', NEW t \in Session PROVE Calm(t)'
  BY <1>3, NilAssumption DEF IInv, TypeOK, Mine, Calm, Running,
     DoNotModify, At, Goto, Return, Leave
<1> QED
  BY <1>1, <1>2, <1>3 DEF IInv

\* Reverting instead goes on to unlock_file.
LEMMA RevertInsteadStep ==
  ASSUME IInv, NEW s \in Session, RevertInstead(s)
  PROVE IInv'
<1>1. TypeOK'
  BY DEF IInv, TypeOK, LockOp, UnlockOp, RevertInstead, At, Goto
<1>2. ASSUME NEW t \in Session PROVE Mine(t)'
  BY NilAssumption DEF IInv, TypeOK, Mine, RevertInstead, At, Goto
<1>3. ASSUME ~disturbed', NEW t \in Session PROVE Calm(t)'
  BY <1>3, NilAssumption DEF IInv, TypeOK, Mine, Calm, Running,
     RevertInstead, At, Goto
<1> QED
  BY <1>1, <1>2, <1>3 DEF IInv

\* symlink (2) creates the link only where there is none.
LEMMA SymlinkStep ==
  ASSUME IInv, NEW s \in Session, Symlink(s)
  PROVE IInv'
<1>1. TypeOK'
  BY DEF IInv, TypeOK, LockOp, UnlockOp, Symlink, At, Goto, Take,
     GoUnlocked, lockVars, bufVars
<1>2. ASSUME NEW t \in Session PROVE Mine(t)'
  BY NilAssumption DEF IInv, TypeOK, Mine, Symlink, At, Goto, Take,
     GoUnlocked, lockVars, bufVars
<1>3. ASSUME ~disturbed', NEW t \in Session PROVE Calm(t)'
  BY <1>3, NilAssumption DEF IInv, TypeOK, Mine, Calm, Running, Symlink,
     At, Goto, Take, GoUnlocked, lockVars, bufVars
<1> QED
  BY <1>1, <1>2, <1>3 DEF IInv

\* What readlink returns is the link of that moment.
LEMMA ReadLinkStep ==
  ASSUME IInv, NEW s \in Session, ReadLink(s)
  PROVE IInv'
<1>1. TypeOK'
  BY DEF IInv, TypeOK, LockOp, UnlockOp, ReadLink, At, Goto
<1>2. ASSUME NEW t \in Session PROVE Mine(t)'
  BY NilAssumption DEF IInv, TypeOK, Mine, ReadLink, At, Goto
<1>3. ASSUME ~disturbed', NEW t \in Session PROVE Calm(t)'
  BY <1>3, NilAssumption DEF IInv, TypeOK, Mine, Calm, Running, ReadLink,
     At, Goto
<1> QED
  BY <1>1, <1>2, <1>3 DEF IInv

\* current_lock_owner, on behalf of lock_if_free.
LEMMA JudgeStep ==
  ASSUME IInv, NEW s \in Session, Judge(s)
  PROVE IInv'
<1>1. TypeOK'
  BY DEF IInv, TypeOK, LockOp, UnlockOp, Judge, At, Goto, Zap, GoUnlocked,
     Obsolete, Clashes, bufVars
<1>2. ASSUME NEW t \in Session PROVE Mine(t)'
  BY NilAssumption DEF IInv, TypeOK, Mine, Judge, At, Goto, Zap,
     GoUnlocked, Obsolete, Clashes, bufVars
<1>3. ASSUME ~disturbed', NEW t \in Session PROVE Calm(t)'
  BY <1>3, NilAssumption DEF IInv, TypeOK, Mine, Calm, Running, Judge, At,
     Goto, Zap, GoUnlocked, Obsolete, Clashes, bufVars
<1> QED
  BY <1>1, <1>2, <1>3 DEF IInv

\* The user takes the lock: disturbed from here on.
LEMMA AskStealStep ==
  ASSUME IInv, NEW s \in Session, AskSteal(s)
  PROVE IInv'
<1>1. TypeOK'
  BY DEF IInv, TypeOK, LockOp, UnlockOp, AskSteal, At, Goto
<1>2. ASSUME NEW t \in Session PROVE Mine(t)'
  BY NilAssumption DEF IInv, TypeOK, Mine, AskSteal, At, Goto
<1>3. ASSUME ~disturbed', NEW t \in Session PROVE Calm(t)'
  BY <1>3, NilAssumption DEF IInv, TypeOK, Mine, Calm, Running, AskSteal,
     At, Goto
<1> QED
  BY <1>1, <1>2, <1>3 DEF IInv

\* The user ignores the lock: disturbed from here on.
LEMMA AskProceedStep ==
  ASSUME IInv, NEW s \in Session, AskProceed(s)
  PROVE IInv'
<1>1. TypeOK'
  BY DEF IInv, TypeOK, LockOp, UnlockOp, AskProceed, At, Goto, GoUnlocked
<1>2. ASSUME NEW t \in Session PROVE Mine(t)'
  BY NilAssumption DEF IInv, TypeOK, Mine, AskProceed, At, Goto, GoUnlocked
<1>3. ASSUME ~disturbed', NEW t \in Session PROVE Calm(t)'
  BY <1>3, NilAssumption DEF IInv, TypeOK, Mine, Calm, Running, AskProceed,
     At, Goto, GoUnlocked
<1> QED
  BY <1>1, <1>2, <1>3 DEF IInv

\* Giving up at a clash: s had no lock.
LEMMA AskQuitStep ==
  ASSUME IInv, NEW s \in Session, AskQuit(s)
  PROVE IInv'
<1>1. TypeOK'
  BY DEF IInv, TypeOK, LockOp, UnlockOp, AskQuit, At, Goto, Return, Leave
<1>2. ASSUME NEW t \in Session PROVE Mine(t)'
  BY NilAssumption DEF IInv, TypeOK, Mine, AskQuit, At, Goto, Return, Leave
<1>3. ASSUME ~disturbed', NEW t \in Session PROVE Calm(t)'
  BY <1>3, NilAssumption DEF IInv, TypeOK, Mine, Calm, Running, AskQuit,
     At, Goto, Return, Leave
<1> QED
  BY <1>1, <1>2, <1>3 DEF IInv

\* lock_file_1 with FORCE, which only disturbed states reach.
LEMMA StealStep ==
  ASSUME IInv, NEW s \in Session, Steal(s)
  PROVE IInv'
<1>1. TypeOK'
  BY DEF IInv, TypeOK, LockOp, UnlockOp, Steal, At, Goto, Take, lockVars,
     bufVars
<1>2. ASSUME NEW t \in Session PROVE Mine(t)'
  BY NilAssumption DEF IInv, TypeOK, Mine, Steal, At, Goto, Take, lockVars,
     bufVars
<1>3. ASSUME ~disturbed', NEW t \in Session PROVE Calm(t)'
  BY <1>3, NilAssumption DEF IInv, TypeOK, Mine, Calm, Running, Steal, At,
     Goto, Take, lockVars, bufVars
<1> QED
  BY <1>1, <1>2, <1>3 DEF IInv

\* The buffer is modified under its lock.
LEMMA ModifyStep ==
  ASSUME IInv, NEW s \in Session, Modify(s)
  PROVE IInv'
<1>1. TypeOK'
  BY DEF IInv, TypeOK, LockOp, UnlockOp, Modify, At, Goto, Return, Leave
<1>2. ASSUME NEW t \in Session PROVE Mine(t)'
  BY NilAssumption DEF IInv, TypeOK, Mine, Modify, At, Goto, Return, Leave
<1>3. ASSUME ~disturbed', NEW t \in Session PROVE Calm(t)'
  BY <1>3, NilAssumption DEF IInv, TypeOK, Mine, Calm, Running, Modify, At,
     Goto, Return, Leave
<1> QED
  BY <1>1, <1>2, <1>3 DEF IInv

\* The error leaves the lock, and cut says so.
LEMMA HookFailsStep ==
  ASSUME IInv, NEW s \in Session, HookFails(s)
  PROVE IInv'
<1>1. TypeOK'
  BY DEF IInv, TypeOK, LockOp, UnlockOp, HookFails, At, Goto, Return, Leave
<1>2. ASSUME NEW t \in Session PROVE Mine(t)'
  BY NilAssumption DEF IInv, TypeOK, Mine, HookFails, At, Goto, Return, Leave
<1>3. ASSUME ~disturbed', NEW t \in Session PROVE Calm(t)'
  BY <1>3, NilAssumption DEF IInv, TypeOK, Mine, Calm, Running, HookFails,
     At, Goto, Return, Leave
<1> QED
  BY <1>1, <1>2, <1>3 DEF IInv

\* write-region opens the file.
LEMMA OpenStep ==
  ASSUME IInv, NEW s \in Session, Open(s)
  PROVE IInv'
<1>1. TypeOK'
  BY DEF IInv, TypeOK, LockOp, UnlockOp, Open, At, Goto
<1>2. ASSUME NEW t \in Session PROVE Mine(t)'
  BY NilAssumption DEF IInv, TypeOK, Mine, Open, At, Goto
<1>3. ASSUME ~disturbed', NEW t \in Session PROVE Calm(t)'
  BY <1>3, NilAssumption DEF IInv, TypeOK, Mine, Calm, Running, Open, At, Goto
<1> QED
  BY <1>1, <1>2, <1>3 DEF IInv

\* Only the holder writes, so no other sure session is made stale.
LEMMA WriteStep ==
  ASSUME IInv, NEW s \in Session, Write(s)
  PROVE IInv'
<1>1. TypeOK'
  BY DEF IInv, TypeOK, LockOp, UnlockOp, Write, At, Goto
<1>2. ASSUME NEW t \in Session PROVE Mine(t)'
  BY NilAssumption DEF IInv, TypeOK, Mine, Write, At, Goto
<1>3. ASSUME ~disturbed', NEW t \in Session PROVE Calm(t)'
  BY <1>3, NilAssumption DEF IInv, TypeOK, Mine, Calm, Running, Write, At, Goto
<1> QED
  BY <1>1, <1>2, <1>3 DEF IInv

\* The modification time is taken.
LEMMA StatStep ==
  ASSUME IInv, NEW s \in Session, Stat(s)
  PROVE IInv'
<1>1. TypeOK'
  BY DEF IInv, TypeOK, LockOp, UnlockOp, Stat, At, Goto
<1>2. ASSUME NEW t \in Session PROVE Mine(t)'
  BY NilAssumption DEF IInv, TypeOK, Mine, Stat, At, Goto
<1>3. ASSUME ~disturbed', NEW t \in Session PROVE Calm(t)'
  BY <1>3, NilAssumption DEF IInv, TypeOK, Mine, Calm, Running, Stat, At, Goto
<1> QED
  BY <1>1, <1>2, <1>3 DEF IInv

\* The commands that unlock a modified buffer.
LEMMA UnmodifyStep ==
  ASSUME IInv, NEW s \in Session, Unmodify(s)
  PROVE IInv'
<1>1. TypeOK'
  BY DEF IInv, TypeOK, LockOp, UnlockOp, Unmodify, Start, At, Goto
<1>2. ASSUME NEW t \in Session PROVE Mine(t)'
  BY NilAssumption DEF IInv, TypeOK, Mine, Unmodify, Start, At, Goto
<1>3. ASSUME ~disturbed', NEW t \in Session PROVE Calm(t)'
  BY <1>3, NilAssumption DEF IInv, TypeOK, Mine, Calm, Running, Unmodify,
     Start, At, Goto
<1> QED
  BY <1>1, <1>2, <1>3 DEF IInv

\* Visiting unlocks whatever the buffer was.
LEMMA VisitStep ==
  ASSUME IInv, NEW s \in Session, Visit(s)
  PROVE IInv'
<1>1. TypeOK'
  BY DEF IInv, TypeOK, LockOp, UnlockOp, Visit, Start, At, Goto
<1>2. ASSUME NEW t \in Session PROVE Mine(t)'
  BY NilAssumption DEF IInv, TypeOK, Mine, Visit, Start, At, Goto
<1>3. ASSUME ~disturbed', NEW t \in Session PROVE Calm(t)'
  BY <1>3, NilAssumption DEF IInv, TypeOK, Mine, Calm, Running, Visit,
     Start, At, Goto
<1> QED
  BY <1>1, <1>2, <1>3 DEF IInv

\* kill-buffer.
LEMMA KillBufferStep ==
  ASSUME IInv, NEW s \in Session, KillBuffer(s)
  PROVE IInv'
<1>1. TypeOK'
  BY DEF IInv, TypeOK, LockOp, UnlockOp, KillBuffer, Start, At, Goto
<1>2. ASSUME NEW t \in Session PROVE Mine(t)'
  BY NilAssumption DEF IInv, TypeOK, Mine, KillBuffer, Start, At, Goto
<1>3. ASSUME ~disturbed', NEW t \in Session PROVE Calm(t)'
  BY <1>3, NilAssumption DEF IInv, TypeOK, Mine, Calm, Running, KillBuffer,
     Start, At, Goto
<1> QED
  BY <1>1, <1>2, <1>3 DEF IInv

\* kill-emacs.
LEMMA KillEmacsStep ==
  ASSUME IInv, NEW s \in Session, KillEmacs(s)
  PROVE IInv'
<1>1. TypeOK'
  BY DEF IInv, TypeOK, LockOp, UnlockOp, KillEmacs, Start, At, Goto, End, Leave
<1>2. ASSUME NEW t \in Session PROVE Mine(t)'
  BY NilAssumption DEF IInv, TypeOK, Mine, KillEmacs, Start, At, Goto, End,
     Leave
<1>3. ASSUME ~disturbed', NEW t \in Session PROVE Calm(t)'
  BY <1>3, NilAssumption DEF IInv, TypeOK, Mine, Calm, Running, KillEmacs,
     Start, At, Goto, End, Leave
<1> QED
  BY <1>1, <1>2, <1>3 DEF IInv

\* unlock_file removes a link only if it read its own name, which only s writes.
LEMMA UnlockStep ==
  ASSUME IInv, NEW s \in Session, Unlock(s)
  PROVE IInv'
<1>1. TypeOK'
  BY DEF IInv, TypeOK, LockOp, UnlockOp, Unlock, At, Goto, Obsolete, bufVars
<1>2. ASSUME NEW t \in Session PROVE Mine(t)'
  BY NilAssumption DEF IInv, TypeOK, Mine, Unlock, At, Goto, Obsolete, bufVars
<1>3. ASSUME ~disturbed', NEW t \in Session PROVE Calm(t)'
  BY <1>3, NilAssumption DEF IInv, TypeOK, Mine, Calm, Running, Unlock, At,
     Goto, Obsolete, bufVars
<1> QED
  BY <1>1, <1>2, <1>3 DEF IInv

\* The caller of unlock_file ends: s has no lock.
LEMMA UnlockedStep ==
  ASSUME IInv, NEW s \in Session, Unlocked(s)
  PROVE IInv'
<1>1. TypeOK'
  BY DEF IInv, TypeOK, LockOp, UnlockOp, Unlocked, At, Goto, End, Leave, Return
<1>2. ASSUME NEW t \in Session PROVE Mine(t)'
  BY NilAssumption DEF IInv, TypeOK, Mine, Unlocked, At, Goto, End, Leave,
     Return
<1>3. ASSUME ~disturbed', NEW t \in Session PROVE Calm(t)'
  BY <1>3, NilAssumption DEF IInv, TypeOK, Mine, Calm, Running, Unlocked,
     At, Goto, End, Leave, Return
<1> QED
  BY <1>1, <1>2, <1>3 DEF IInv

\* file-locked-p.
LEMMA FileLockedPStep ==
  ASSUME IInv, NEW s \in Session, FileLockedP(s)
  PROVE IInv'
<1>1. TypeOK'
  BY DEF IInv, TypeOK, LockOp, UnlockOp, FileLockedP, Start, At, Goto, Zap,
     Obsolete, Return, Leave
<1>2. ASSUME NEW t \in Session PROVE Mine(t)'
  BY NilAssumption DEF IInv, TypeOK, Mine, FileLockedP, Start, At, Goto,
     Zap, Obsolete, Return, Leave
<1>3. ASSUME ~disturbed', NEW t \in Session PROVE Calm(t)'
  BY <1>3, NilAssumption DEF IInv, TypeOK, Mine, Calm, Running,
     FileLockedP, Start, At, Goto, Zap, Obsolete, Return, Leave
<1> QED
  BY <1>1, <1>2, <1>3 DEF IInv

\* A crash: disturbed from here on.
LEMMA CrashStep ==
  ASSUME IInv, NEW s \in Session, Crash(s)
  PROVE IInv'
<1>1. TypeOK'
  BY DEF IInv, TypeOK, LockOp, UnlockOp, Crash, Goto, End, Leave
<1>2. ASSUME NEW t \in Session PROVE Mine(t)'
  BY NilAssumption DEF IInv, TypeOK, Mine, Crash, Goto, End, Leave
<1>3. ASSUME ~disturbed', NEW t \in Session PROVE Calm(t)'
  BY <1>3, NilAssumption DEF IInv, TypeOK, Mine, Calm, Running, Crash,
     Goto, End, Leave
<1> QED
  BY <1>1, <1>2, <1>3 DEF IInv

\* A stuttering step.
LEMMA StutterStep == IInv /\ UNCHANGED vars => IInv'
BY DEF IInv, TypeOK, Mine, Calm, Running, vars

\* Every step of every session keeps the inductive invariant.
LEMMA NextIInv == IInv /\ [Next]_vars => IInv'
<1> SUFFICES ASSUME IInv, [Next]_vars PROVE IInv'
  OBVIOUS
<1>1. ASSUME NEW s \in Session, LockStep(s) PROVE IInv'
  BY <1>1, EditStep, MarkModifiedStep, LockBufferStep, WriteRegionStep,
     GoAheadStep, DoNotModifyStep, RevertInsteadStep, SymlinkStep,
     ReadLinkStep, JudgeStep, AskStealStep, AskProceedStep, AskQuitStep,
     StealStep
     DEF LockStep
<1>2. ASSUME NEW s \in Session, CallerStep(s) PROVE IInv'
  BY <1>2, ModifyStep, HookFailsStep, OpenStep, WriteStep, StatStep,
     UnmodifyStep, VisitStep, KillBufferStep, KillEmacsStep, UnlockStep,
     UnlockedStep, FileLockedPStep, CrashStep
     DEF CallerStep
<1> QED
  BY <1>1, <1>2, StutterStep DEF Next

\* The three properties are consequences of the inductive invariant.
LEMMA IInvImplies == IInv => Exclusive /\ NoBlindOverwrite /\ NoLeak
<1> SUFFICES ASSUME IInv PROVE Exclusive /\ NoBlindOverwrite /\ NoLeak
  OBVIOUS
<1>1. Exclusive
  BY DEF IInv, Calm, Exclusive
<1>2. NoBlindOverwrite
  BY DEF IInv, Calm, NoBlindOverwrite
<1>3. NoLeak
  BY DEF IInv, Mine, NoLeak
<1> QED
  BY <1>1, <1>2, <1>3

\* The inductive invariant holds throughout.
LEMMA AlwaysIInv == Spec => []IInv
<1>1. Init => IInv
  BY InitIInv
<1>2. IInv /\ [Next]_vars => IInv'
  BY NextIInv
<1> QED
  BY <1>1, <1>2, PTL DEF Spec

\* Every variable of the lock protocol keeps its type.
THEOREM TypeCorrect == Spec => []TypeOK
<1>1. IInv => TypeOK
  BY DEF IInv
<1> QED
  BY AlwaysIInv, <1>1, PTL

\* Until a session ends, steals or goes on unlocked, a session that holds the
\* lock of filelock.c is the one that the lock file names.
THEOREM LockExclusive == Spec => []Exclusive
BY AlwaysIInv, IInvImplies, PTL

\* Under the same condition, write-region by a session that had the lock when
\* it compared the modification times overwrites nothing it has not seen.
THEOREM OverwriteSeen == Spec => []NoBlindOverwrite
BY AlwaysIInv, IInvImplies, PTL

\* A session at rest with an unmodified buffer, or none, has left no lock
\* behind, whatever the others did, unless an error cut one of its commands.
THEOREM LockReleased == Spec => []NoLeak
BY AlwaysIInv, IInvImplies, PTL

=============================================================================
