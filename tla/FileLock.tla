------------------------------- MODULE FileLock -------------------------------
(***************************************************************************)
(* The advisory locks of filelock.c: before the first change to a buffer   *)
(* that visits a file, and around every write of that file, a session      *)
(* makes the symbolic link .#FILE# point at its own USER@HOST.PID.         *)
(*                                                                         *)
(* Several sessions, on one or more hosts, each visit the same file in one *)
(* buffer.  Every system call on the link is a step of its own, since no   *)
(* two of them are atomic together: symlink, readlink, then kill(pid, 0)   *)
(* with the unlink it decides.  A session may crash between any two steps  *)
(* and leaves its link behind; a restarted Emacs is another session.       *)
(***************************************************************************)
EXTENDS Naturals, FiniteSets

CONSTANTS
  Session,  \* the Emacs processes, each with a pid of its own
  Host,     \* Host[s]: the machine that session s runs on
  Fault,    \* the calls that may fail: some of FaultKind
  Nil       \* no lock file: readlink says ENOENT

FaultKind == {"symlink", "open", "write", "hook", "crash"}

ASSUME NilAssumption == Nil \notin Session
ASSUME HostAssumption == DOMAIN Host = Session
ASSUME FaultAssumption == Fault \subseteq FaultKind

VARIABLES
  link,      \* the session that the lock file names, or Nil
  pc,        \* where each session is in lock_file, unlock_file or their caller
  op,        \* the command that called lock_file or unlock_file
  saw,       \* what current_lock_owner read in the lock file
  buf,       \* the session's buffer: "none", "clean" or "modified"
  stale,     \* the file changed on disk since the buffer read or saved it
  held,      \* history: the session made or found its own link, and has not
             \* come to the end of an unlock_file since
  sure,      \* history: the buffer was up to date, and the lock its own, when
             \* the running lock_file compared the modification times
  cut,       \* history: a command failed between locking and modifying
  disturbed  \* history: a session has ended, has been told to steal, or has
             \* gone on without the lock

lockVars == <<link, held>>
bufVars == <<buf, stale>>
vars == <<link, pc, op, saw, buf, stale, held, sure, cut, disturbed>>

LockOp == {"edit", "mark", "relock", "save", "export"}
UnlockOp == {"unmark", "undo", "kill", "visit", "exit", "release", "failed"}

TypeOK ==
  /\ link \in Session \cup {Nil}
  /\ pc \in [Session -> {"idle", "supersession", "symlink", "owner", "judge",
                         "ask", "steal", "unlink", "resymlink", "granted",
                         "write", "stat", "uowner", "ujudge", "released",
                         "dead"}]
  /\ op \in [Session -> LockOp \cup UnlockOp \cup {"query", "none"}]
  /\ saw \in [Session -> Session \cup {Nil}]
  /\ buf \in [Session -> {"none", "clean", "modified"}]
  /\ stale \in [Session -> BOOLEAN]
  /\ held \in [Session -> BOOLEAN]
  /\ sure \in [Session -> BOOLEAN]
  /\ cut \in [Session -> BOOLEAN]
  /\ disturbed \in BOOLEAN

Init ==
  /\ link = Nil
  /\ pc = [s \in Session |-> "idle"]
  /\ op = [s \in Session |-> "none"]
  /\ saw = [s \in Session |-> Nil]
  /\ buf = [s \in Session |-> "clean"]
  /\ stale = [s \in Session |-> FALSE]
  /\ held = [s \in Session |-> FALSE]
  /\ sure = [s \in Session |-> FALSE]
  /\ cut = [s \in Session |-> FALSE]
  /\ disturbed = FALSE

-----------------------------------------------------------------------------
(***************************************************************************)
(* Steps that several actions share.                                       *)
(***************************************************************************)

\* kill (pid, 0) finds a process with that pid on this host.
Running(s) == pc[s] /= "dead"

At(s, place) == pc[s] = place

Goto(s, place) == pc' = [pc EXCEPT ![s] = place]

\* The command is over, with the variables it used.
Leave(s, place) ==
  /\ Goto(s, place)
  /\ op' = [op EXCEPT ![s] = "none"]
  /\ saw' = [saw EXCEPT ![s] = Nil]
  /\ sure' = [sure EXCEPT ![s] = FALSE]

\* Back to the command loop.
Return(s) == Leave(s, "idle")

\* The process is gone, its buffer with it.
End(s) ==
  /\ Leave(s, "dead")
  /\ buf' = [buf EXCEPT ![s] = "none"]
  /\ disturbed' = TRUE

\* Session s starts command o at place.
Start(s, o, place) ==
  /\ At(s, "idle")
  /\ Goto(s, place)
  /\ op' = [op EXCEPT ![s] = o]

\* The link now names s.
Take(s) ==
  /\ link' = s
  /\ held' = [held EXCEPT ![s] = TRUE]

\* What current_lock_owner calls a dead owner: the pid of no process of this
\* host.  The owners of other hosts are taken to be alive.
Obsolete(s, owner) ==
  owner /= Nil /\ owner /= s /\ Host[owner] = Host[s] /\ ~Running(owner)

Clashes(s, owner) ==
  owner /= Nil /\ owner /= s /\ ~Obsolete(s, owner)

-----------------------------------------------------------------------------
(***************************************************************************)
(* The commands that call lock_file.                                       *)
(***************************************************************************)

\* lock_file up to the call of lock_if_free: it compares the modification
\* times before it has the lock.
VerifyModtime(s, o) ==
  /\ Start(s, o, IF stale[s] THEN "supersession" ELSE "symlink")
  /\ sure' = [sure EXCEPT ![s] = ~stale[s] /\ link = s]
  /\ UNCHANGED <<link, saw, buf, stale, held, cut, disturbed>>

\* prepare_to_modify_buffer: only the first change to an unmodified buffer
\* locks its file.
Edit(s) == buf[s] = "clean" /\ VerifyModtime(s, "edit")

\* (set-buffer-modified-p t), which locks only if the buffer is unmodified.
MarkModified(s) == buf[s] = "clean" /\ VerifyModtime(s, "mark")

\* (lock-buffer), which locks only if the buffer is modified.
LockBuffer(s) == buf[s] = "modified" /\ VerifyModtime(s, "relock")

\* write-region to the visited file: with VISIT a save, without it an export
\* that leaves the buffer as modified as it was.
WriteRegion(s) ==
  /\ buf[s] /= "none"
  /\ \E o \in {"save", "export"} : VerifyModtime(s, o)

\* The three answers of ask-user-about-supersession-threat.
GoAhead(s) ==
  /\ At(s, "supersession")
  /\ Goto(s, "symlink")
  /\ UNCHANGED <<link, op, saw, buf, stale, held, sure, cut, disturbed>>

DoNotModify(s) ==
  /\ At(s, "supersession")
  /\ Return(s)
  /\ UNCHANGED <<link, buf, stale, held, cut, disturbed>>

\* "Revert": the change is given up, after the buffer was read again and
\* insert-file-contents, with VISIT, went on to unlock_file.
RevertInstead(s) ==
  /\ At(s, "supersession")
  /\ Goto(s, "uowner")
  /\ op' = [op EXCEPT ![s] = "visit"]
  /\ buf' = [buf EXCEPT ![s] = "clean"]
  /\ stale' = [stale EXCEPT ![s] = FALSE]
  /\ UNCHANGED <<link, saw, held, sure, cut, disturbed>>

-----------------------------------------------------------------------------
(***************************************************************************)
(* lock_if_free and the end of lock_file.                                  *)
(***************************************************************************)

\* lock_file returns without the lock, and its caller goes on.
GoUnlocked(s) ==
  /\ Goto(s, "granted")
  /\ disturbed' = TRUE

\* symlink (2) creates the lock file, or says EEXIST, or fails otherwise: that
\* last case is the -1 that lock_file takes for leave to go on.
Symlink(s) ==
  /\ At(s, "symlink")
  /\ \/ /\ link = Nil
        /\ Take(s)
        /\ Goto(s, "granted")
        /\ UNCHANGED disturbed
     \/ /\ link /= Nil
        /\ Goto(s, "owner")
        /\ UNCHANGED <<lockVars, disturbed>>
     \/ /\ "symlink" \in Fault
        /\ GoUnlocked(s)
        /\ UNCHANGED lockVars
  /\ UNCHANGED <<op, saw, bufVars, sure, cut>>

\* current_lock_owner reads the link.
ReadLink(s) ==
  /\ \/ At(s, "owner") /\ Goto(s, "judge")
     \/ At(s, "uowner") /\ Goto(s, "ujudge")
  /\ saw' = [saw EXCEPT ![s] = link]
  /\ UNCHANGED <<link, op, buf, stale, held, sure, cut, disturbed>>

\* current_lock_owner removes whatever link is there if the one it read was
\* obsolete.
Zap(s) ==
  /\ link' = IF Obsolete(s, saw[s]) THEN Nil ELSE link

\* Mutant of Judge: a clash is taken for a lock of one's own.
JudgeNoClash(s) ==
  /\ At(s, "judge")
  /\ Zap(s)
  /\ Goto(s, "granted")
  /\ UNCHANGED <<op, saw, bufVars, held, sure, cut, disturbed>>

\* lock_if_free decides: our own lock (2), a clash (1), or, the lock having
\* vanished or having been zapped (0 or -1), "something's wrong".
Judge(s) ==
  /\ At(s, "judge")
  /\ Zap(s)
  /\ \/ /\ saw[s] = s
        /\ Goto(s, "granted")
        /\ held' = [held EXCEPT ![s] = TRUE]
        /\ UNCHANGED disturbed
     \/ /\ Clashes(s, saw[s])
        /\ Goto(s, "ask")
        /\ UNCHANGED <<held, disturbed>>
     \/ /\ saw[s] = Nil \/ Obsolete(s, saw[s])
        /\ GoUnlocked(s)
        /\ UNCHANGED held
  /\ UNCHANGED <<op, saw, bufVars, sure, cut>>

\* ask-user-about-lock: steal the lock, proceed without it, or give up.
AskSteal(s) ==
  /\ At(s, "ask")
  /\ Goto(s, "steal")
  /\ disturbed' = TRUE
  /\ UNCHANGED <<link, op, saw, buf, stale, held, sure, cut>>

AskProceed(s) ==
  /\ At(s, "ask")
  /\ GoUnlocked(s)
  /\ UNCHANGED <<link, op, saw, buf, stale, held, sure, cut>>

AskQuit(s) ==
  /\ At(s, "ask")
  /\ Return(s)
  /\ UNCHANGED <<link, buf, stale, held, cut, disturbed>>

\* lock_file_1 with FORCE: symlink, unlink, symlink again.  Whether the last
\* one succeeded is not looked at.
Steal(s) ==
  /\ \/ /\ pc[s] \in {"steal", "resymlink"}
        /\ link = Nil
        /\ Take(s)
        /\ Goto(s, "granted")
     \/ /\ At(s, "steal")
        /\ link /= Nil
        /\ Goto(s, "unlink")
        /\ UNCHANGED lockVars
     \/ /\ At(s, "unlink")
        /\ link' = Nil
        /\ Goto(s, "resymlink")
        /\ UNCHANGED held
     \/ /\ \/ At(s, "resymlink") /\ link /= Nil
           \/ pc[s] \in {"steal", "resymlink"} /\ "symlink" \in Fault
        /\ Goto(s, "granted")
        /\ UNCHANGED lockVars
  /\ UNCHANGED <<op, saw, bufVars, sure, cut, disturbed>>

-----------------------------------------------------------------------------
(***************************************************************************)
(* What the callers do once lock_file has returned.                        *)
(***************************************************************************)

\* The change itself, or MODIFF++ with SAVE_MODIFF = 0.
Modify(s) ==
  /\ At(s, "granted")
  /\ op[s] \in {"edit", "mark", "relock"}
  /\ buf' = [buf EXCEPT ![s] = "modified"]
  /\ cut' = [cut EXCEPT ![s] = FALSE]
  /\ Return(s)
  /\ UNCHANGED <<link, stale, held, disturbed>>

\* The command ends in an error between locking and modifying, and nothing
\* unlocks the file: an extent's before-change-functions
\* (report_extent_modification) or, in write-region, an annotation function
\* signals it.  Errors in the before-change and first-change hooks are trapped.
HookFails(s) ==
  /\ "hook" \in Fault
  /\ At(s, "granted")
  /\ op[s] \in {"edit", "save", "export"}
  /\ cut' = [cut EXCEPT ![s] = TRUE]
  /\ Return(s)
  /\ UNCHANGED <<link, buf, stale, held, disturbed>>

\* Mutant of Open: the error path does not unlock.
OpenLeaves(s) ==
  /\ At(s, "granted")
  /\ op[s] \in {"save", "export"}
  /\ \/ /\ Goto(s, "write")
        /\ UNCHANGED <<op, saw, sure>>
     \/ /\ "open" \in Fault
        /\ Return(s)
  /\ UNCHANGED <<link, buf, stale, held, cut, disturbed>>

\* write-region opens the file, which truncates it, or reports the failure
\* once the file is unlocked.
Open(s) ==
  /\ At(s, "granted")
  /\ op[s] \in {"save", "export"}
  /\ \/ /\ Goto(s, "write")
        /\ UNCHANGED op
     \/ /\ "open" \in Fault
        /\ Goto(s, "uowner")
        /\ op' = [op EXCEPT ![s] = "failed"]
  /\ UNCHANGED <<link, saw, buf, stale, held, sure, cut, disturbed>>

\* The text is written: every other buffer of the file is out of date, and so
\* is this one until its modification time is taken.  A failure, of a_write,
\* fsync or close, is reported only at the end.
Write(s) ==
  /\ At(s, "write")
  /\ Goto(s, "stat")
  /\ stale' = [t \in Session |-> TRUE]
  /\ \/ UNCHANGED op
     \/ "write" \in Fault /\ op[s] = "save" /\ op' = [op EXCEPT ![s] = "failed"]
  /\ UNCHANGED <<link, saw, buf, held, sure, cut, disturbed>>

\* qxe_stat: when visiting, the modification time found now becomes the
\* buffer's, whether or not the write had failed.
Stat(s) ==
  /\ At(s, "stat")
  /\ Goto(s, "uowner")
  /\ stale' = IF op[s] = "export" THEN stale ELSE [stale EXCEPT ![s] = FALSE]
  /\ UNCHANGED <<link, op, saw, buf, held, sure, cut, disturbed>>

-----------------------------------------------------------------------------
(***************************************************************************)
(* unlock_file and the commands that call it.                              *)
(***************************************************************************)

\* (set-buffer-modified-p nil), unlock-buffer, or an undo that comes back to
\* the unmodified text: each unlocks only a modified buffer.
Unmodify(s) ==
  /\ buf[s] = "modified"
  /\ \E o \in {"unmark", "release", "undo"} : Start(s, o, "uowner")
  /\ UNCHANGED <<link, saw, buf, stale, held, sure, cut, disturbed>>

\* insert-file-contents with VISIT (find-file, revert-buffer): SAVE_MODIFF is
\* set first, then the file is unlocked whether or not it was modified.
Visit(s) ==
  /\ Start(s, "visit", "uowner")
  /\ buf' = [buf EXCEPT ![s] = "clean"]
  /\ stale' = [stale EXCEPT ![s] = FALSE]
  /\ UNCHANGED <<link, saw, held, sure, cut, disturbed>>

\* kill-buffer calls unlock_buffer, which does nothing for an unmodified one.
KillBuffer(s) ==
  /\ At(s, "idle")
  /\ \/ buf[s] = "modified" /\ Start(s, "kill", "uowner") /\ UNCHANGED buf
     \/ buf[s] = "clean" /\ buf' = [buf EXCEPT ![s] = "none"] /\ UNCHANGED <<pc, op>>
  /\ UNCHANGED <<link, saw, stale, held, sure, cut, disturbed>>

\* kill-emacs calls unlock_all_files, which skips the unmodified buffers.
KillEmacs(s) ==
  /\ At(s, "idle")
  /\ \/ /\ buf[s] = "modified"
        /\ Start(s, "exit", "uowner")
        /\ UNCHANGED <<saw, buf, sure, disturbed>>
     \/ /\ buf[s] /= "modified"
        /\ End(s)
  /\ UNCHANGED <<link, stale, held, cut>>

\* Mutant of Unlock: the owner is not looked at.
UnlockAnyOwner(s) ==
  /\ At(s, "ujudge")
  /\ op[s] /= "query"
  /\ Goto(s, "released")
  /\ link' = Nil
  /\ held' = [held EXCEPT ![s] = FALSE]
  /\ UNCHANGED <<op, saw, bufVars, sure, cut, disturbed>>

\* unlock_file, once the link is read: it removes whatever link is there if
\* the one it read was its own, or obsolete.
Unlock(s) ==
  /\ At(s, "ujudge")
  /\ op[s] /= "query"
  /\ Goto(s, "released")
  /\ link' = IF saw[s] = s \/ Obsolete(s, saw[s]) THEN Nil ELSE link
  /\ held' = [held EXCEPT ![s] = FALSE]
  /\ UNCHANGED <<op, saw, bufVars, sure, cut, disturbed>>

\* The end of the caller.  Undo unlocks twice: Funlock_buffer, then
\* (set-buffer-modified-p nil).
Unlocked(s) ==
  /\ At(s, "released")
  /\ \/ /\ op[s] = "undo"
        /\ Goto(s, "uowner")
        /\ op' = [op EXCEPT ![s] = "unmark"]
        /\ UNCHANGED <<saw, buf, sure, disturbed>>
     \/ op[s] = "exit" /\ End(s)
     \/ /\ op[s] \notin {"undo", "exit"}
        /\ Return(s)
        /\ buf' = [buf EXCEPT ![s] = CASE op[s] \in {"save", "unmark"} -> "clean"
                                       [] op[s] = "kill" -> "none"
                                       [] OTHER -> @]
        /\ UNCHANGED disturbed
  /\ cut' = [cut EXCEPT ![s] = FALSE]
  /\ UNCHANGED <<link, stale, held>>

\* (file-locked-p FILE) also zaps an obsolete lock.
FileLockedP(s) ==
  \/ /\ Start(s, "query", "uowner")
     /\ UNCHANGED <<link, saw, buf, stale, held, sure, cut, disturbed>>
  \/ /\ At(s, "ujudge")
     /\ op[s] = "query"
     /\ Zap(s)
     /\ Return(s)
     /\ UNCHANGED <<buf, stale, held, cut, disturbed>>

\* The process dies, wherever it is; its lock file stays.
Crash(s) ==
  /\ "crash" \in Fault
  /\ Running(s)
  /\ End(s)
  /\ UNCHANGED <<link, stale, held, cut>>

LockStep(s) ==
  \/ Edit(s) \/ MarkModified(s) \/ LockBuffer(s) \/ WriteRegion(s)
  \/ GoAhead(s) \/ DoNotModify(s) \/ RevertInstead(s)
  \/ Symlink(s) \/ ReadLink(s) \/ Judge(s)
  \/ AskSteal(s) \/ AskProceed(s) \/ AskQuit(s) \/ Steal(s)

CallerStep(s) ==
  \/ Modify(s) \/ HookFails(s) \/ Open(s) \/ Write(s) \/ Stat(s)
  \/ Unmodify(s) \/ Visit(s) \/ KillBuffer(s) \/ KillEmacs(s)
  \/ Unlock(s) \/ Unlocked(s) \/ FileLockedP(s) \/ Crash(s)

Next == \E s \in Session : LockStep(s) \/ CallerStep(s)

Spec == Init /\ [][Next]_vars

-----------------------------------------------------------------------------
(***************************************************************************)
(* Properties.                                                             *)
(***************************************************************************)

\* Until a session ends, is told to steal, or goes on unlocked, the session
\* that holds the lock is the one the link names: no other session's unlock
\* takes it away, so two sessions never both hold it.
Exclusive == ~disturbed => \A s \in Session : held[s] => link = s

\* Under the same condition, a write that began with the lock in hand never
\* overwrites text that its session has not seen.  It could be wrong because
\* lock_file compares the modification times before it has the lock.
NoBlindOverwrite ==
  ~disturbed => \A s \in Session : pc[s] = "write" /\ sure[s] => ~stale[s]

\* Whatever the other sessions do, steal and crash included, a session at rest
\* whose buffer is unmodified or gone does not keep its file locked: nothing
\* would unlock it any more, as kill-buffer and kill-emacs skip unmodified
\* buffers.  It makes no claim after a command that failed between locking and
\* modifying (cut), which does leave its lock, until one that unlocks has run.
NoLeak ==
  \A s \in Session :
    pc[s] = "idle" /\ buf[s] /= "modified" /\ ~cut[s] => link /= s
=============================================================================
