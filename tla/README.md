# Formal models of XEmacs: coroutines, buffer text and file locks

This directory holds TLA+ specifications of parts of XEmacs 21.5, the TLC
configurations that check them on small instances, and TLAPS proofs of their
main invariants for every instance. Paths are relative to the repository, lines
refer to the commit the models were written from. `PROJECT.json` is the index:
components, runs, the definition-to-source map, findings, hazards, theorems.

The editor is about 325 000 lines of C and 160 000 lines of Lisp, most of them
sequential commands or adapters to toolkits. What is both new in this fork and
hard to test is the asynchronous layer: coroutines with stacks of their own,
actors with mailboxes, HTTP transfers that suspend their caller, all driven by
one-shot timeouts of an event loop that predates them. That is the core modelled
first. Two parts of the classic editor follow that are hard to test for other
reasons: the file locks, because several processes work on one link without any
atomic step wider than a system call, and the buffer text with its undo list,
because long sequences of legal edits, undos, saves and quits must keep several
representations of the same thing in agreement.

## 1. Inventory

### The asynchronous layer

**Coroutine scheduler and actors** (`src/async-scheduler.c`, `.h`,
`src/coro-asm.S`).
State: per coroutine `state` (RUNNABLE, RUNNING, SUSPENDED, DEAD),
`wait_reason`, `result` and `error` slots, `mailbox`, one `join_waiter`,
`monitor_list`, a private binding stack and saved handler, catch and GC chains;
globally `all_coros` (newest first), the graveyard `dead_coros`,
`current_coro`, the re-entrancy guard `in_tick` and `async_tick_forbidden`.
Operations: spawn, yield, resume (with a value or an error), send, receive (with
or without a timeout), join, monitor, the trampoline's tail when a body ends, and
the tick: poll the transfers, wake yields (1a) and deadlines (1b), run each
RUNNABLE coroutine of the list (2), re-arm.
Hard: any Lisp runs between a switch in and a switch out, so everything that
the tick or a waker remembers across it may be out of date; ticks are lost when
they fire in the wrong place; each waker must know whether somebody else has
already woken the coroutine; and nothing but a pending timeout makes the next
tick happen.
Correct when: the lists match the states, a resume reaches only a coroutine in
the wait it is meant for, slots are not overwritten before they are read,
messages arrive once and in order, a joiner learns how its target ended, and
whoever can run does run.

**HTTP transfers** (`src/async-http.c`). State: the list of requests in flight,
each with its buffers, destination file and `waiting_coro`; curl's handles.
Operations: start, socket-ready callback, completion check, cleanup on failure.
They call `coro_yield(WAIT_FD)` and `coro_resume`, and are polled by the tick
and by `poll_fds_for_input`. Correct when: a request resumes its coroutine
exactly once, and only while it waits for it.

**Event loop** (`src/event-unixoid.c`, `src/event-stream.c`, `src/signal.c`).
State: descriptor masks and callbacks, the pending timeouts.
`poll_fds_for_input` calls socket callbacks and then the tick;
`next_event_internal` brackets its wait so that no tick runs inside it; a
wakeup's timeout event is dispatched by the command loop, or by a nested
`sleep-for` or `accept-process-output`. Correct when: a one-shot timeout that the
scheduler counts on is not spent in vain.

**Lisp layer** (`lisp/async-core.el`, `actor.el`, `async-file.el`,
`async-http.el`): `await`, `async-let`, the actor registry, wrappers. `await`
joins a handle and then looks at the error slot of *its own* coroutine.

**ELPA client** (`lisp/elpa.el`): plans dependencies, downloads, validates and
installs in a staging directory; `elpa--sync-await` runs a coroutine to the end
or to a time limit. Hard: failures between the steps of an installation, and the
coroutine that is still running after the time limit.

### The classic editor

| part | state and operations | what makes it correct | modelled in |
|---|---|---|---|
| buffer text (`insdel.c`, `marker.c`) | gap, end gap, markers, point; insert, delete, replace, move and make gaps, quit | text as a flat string; markers stay with their characters; point and its marker agree | `BufferText`, `FlatText` |
| undo (`undo.c`, `simple.el`) | list of changes, boundaries and modification times; record, undo, truncate | undoing restores the text of each boundary; an undo never claims that the buffer is saved when it is not; whole groups | `BufferText` |
| file locks (`filelock.c`, `fileio.c`, `userlock.el`) | a symbolic link per file; lock, steal, unlock by several processes | one owner, no blind overwriting, no lock left behind | `FileLock` |
| evaluator stacks (`eval.c`, `symbols.c`) | special bindings, catches, handlers | switching coroutines leaves each with its own bindings | `CoroBindings`, `DeepBinding` (bindings only) |
| extents, line-number cache, gap arrays (`extents.c`, `line-number.c`, `array.c`) | positions that follow edits, caches of them | agreement with a search of the text | planned |
| hash tables (`elhash.c`) | open addressing, weak tables | an abstract map under put, remove, resize | planned |
| processes (`process.c`, `process-unix.c`) | status, buffered output, exit notices | no output after the sentinel, no status lost | planned |
| collector (`gc.c`, `alloc.c`) | roots, marks | whatever a suspended stack can reach is marked | planned |
| everything else (redisplay, windows, specifiers, toolkits, Mule, regex, reader, bytecode, dumper, modules, helper programs, ports, Lisp library) | see `components` in `PROJECT.json` | not planned, with the reasons given there | |

How they interact: `prepare_to_modify_buffer` locks the file before the first
change of an unmodified buffer, saving and undoing back to the saved text unlock
it; every insertion and deletion writes to the undo list before it changes the
text; the undo list remembers the modification time of the file; and coroutine
switches exchange the binding stacks that `let` and `setq` work on.

## 2. Modules

| module | role |
|---|---|
| `AsyncScheduler` | scheduler, actors, suspension by transfers, event loop |
| `CoroLifecycle` | abstract specification: the life cycle of coroutines |
| `AsyncTimer` | deadlines and wakeups of timed receives on a fine clock |
| `CoroBindings` | special bindings across coroutine switches |
| `DeepBinding` | abstract specification: a stack of bindings per thread |
| `FileLock` | the link, the sessions that lock and unlock it, and their buffers |
| `BufferText` | gap, markers, point, undo list |
| `FlatText` | abstract specification: a sequence of characters with markers |
| `MCAsyncScheduler`, `MCCoroBindings`, `MCFileLock`, `MCBufferText` | symmetry sets and constants of the runs |
| `AsyncSchedulerProofs` | inductive invariant, list, pointer and cursor theorems, refinement |
| `AsyncDeliveryProofs` | slots, verdicts of joins, mailboxes |
| `AsyncWakeupProofs` | every coroutine that can run has a tick to come |
| `FileLockProofs` | inductive invariant of the locks, and their three safety properties |
| `BufferGapProofs` | what the functions on a block of memory do to text and markers |
| `BufferUndoProofs` | what an undo list remembers, and how each record changes that |
| `BufferTextProofs` | inductive invariant of the buffer, its four invariants, refinement |
| `CoroBindingsProofs` | the swaps of the binding stacks in closed form, type correctness, refinement |

### AsyncScheduler

A step is one run of C code between two points where control can go elsewhere.
Since coroutines are cooperative, a primitive is atomic, and the interleaving
is in *which* Lisp code calls which primitive next: the running coroutine may
call any primitive at any time, and so may top-level Lisp between ticks.

Variables carry the names of the C fields. Coroutine structs are members of
`Coro`; a struct is used once (`UNBORN` before allocation, `REAPED` after the
free in a join). `all_coros` is a set together with the spawn numbers `born`:
spawn prepends and death unlinks, so the list order is spawn order, newest
first; `Successor` is `c->next` and `From(c)` the list from `c` on.
`monitor_list[t][w]` counts registrations. A message is its serial number among
those sent to that actor. `wakeups` counts the pending one-shot timeouts, whose
delays (1 or 10 ms) do not matter here; `inflight` is the set of coroutines that
are the `waiting_coro` of some request. `op` and `peer` record which primitive's
C frame a suspended coroutine is in, i.e. what it does with its slots when it is
switched in. `sent`, `last`, `body` and `outcome` are history variables.

| action | code |
|---|---|
| `coro_spawn` | `coro_spawn`: prepend, set the argument, arm a wakeup |
| `actor_send_internal` | queue; wake a receiver blocked without timeout; arm only from top level |
| `actor_receive_queued`, `actor_receive_wait` | the two branches of `actor_receive_internal` |
| `actor_join_dead`, `actor_join_live` | the two branches of `Factor_join_internal` |
| `actor_monitor_internal` | register a watcher |
| `async_coroutine_yield`, `async_http_start` | the other callers of `coro_yield` |
| `coro_trampoline_exit` | the tail of `coro_trampoline`: joiner, monitors, lists, switch out |
| `tick_begin` | `async_http_tick` and phases 1a and 1b of `async_scheduler_tick` |
| `tick_run_next` | one iteration of phase 2 up to the switch in, and the return from the primitive |
| `tick_end` | the end of phase 2, with the re-arming for transfers |
| `async_scheduler_tick_from_timer` | a wakeup dispatched by the command loop |
| `nested_timer_dispatch` | the same event dispatched below a running coroutine |
| `async_scheduler_tick_poll` | a tick from `poll_fds_for_input` or from Lisp |
| `poll_fds_for_input` | socket callbacks where the tick is blocked |
| `next_event_enter`, `next_event_leave` | the bracket of `next_event_internal` |

Constants: `noninteractive` (batch mode arms nothing), `Primitives` (which
primitives the Lisp programs use, to keep instances small), `NestedEvents` (do
bodies wait for events themselves), and the bounds `MaxWakeups`, `MaxSent`,
`MaxMonitors`.

A definition `X_y` is a faulty variant of the definition `X` after it, of the
kind a change to the code might introduce; `PROJECT.json` says which property
each one violates. They are not used by the specification.

### CoroLifecycle

What the scheduler promises whatever drives it: spawn, wake of suspended
coroutines only, dispatch of one runnable coroutine when none runs, block, die,
reap a dead one. `AsyncScheduler` implements it with `running <- current_coro`.

### AsyncTimer

Times are kept as *time to go*, so the clock is unbounded and the state space is
finite. `Grain` instants make a millisecond (microseconds in the code).
`WakeupMs` is the rounding in `coro_yield`.

### CoroBindings and DeepBinding

A symbol's value cell holds its current value and `specpdl` the values to put
back, one stack per coroutine and one for the main thread. `specbind` and
`unbind_to` are the two ends of a `let`, `Fset` is `setq`, `SwitchIn` and
`coro_yield` swap the range of the coroutine's own entries
(`specpdl_rebind_range` from the bottom up, `specpdl_unwind_range` from the top
down), `coro_trampoline` ends a coroutine. `Local` are the variables that are
bound through an unwind function because they are, or become, local to a buffer;
the swap skips those entries. `Reserve` is `SPECPDL_RESERVE`: `grow_specpdl` may
move the array a coroutine runs on. The scheduler goes on using the old one, so a
yield after that reads freed memory; `YieldMoved` then sets `broken`, and no
step follows. `inherits` is a history variable: what the spawner had bound, for
coroutines that have not run yet.

In `DeepBinding` each thread has a stack of bindings of its own, a coroutine
looks a variable up in its own stack, then in that of the main thread as it is
now, then globally, and passing control changes nothing. The refinement maps each
entry to the value it stands for: the old value of the next entry above it for
the same variable, or the value cell. It covers the variables that are not in
`Local`: an entry for one of `Local` is in `DeepBinding` a form on the stack
(`Enter`) that binds nothing. Where a variable is in `Local`, a coroutine that yields
inside a `let` leaves its value in force for everybody (a hazard). The copies of
the spawner's entries at the bottom of a coroutine's stack are left out, since
no switch and no `unbind_to` of the coroutine reaches them; that they are of no
use to it is the finding `InheritsLets`.

### FileLock

Each session is an Emacs process with one buffer that visits the file. Its
`pc` is the place in `lock_file`, `unlock_file` or their caller, `op` the command
it runs, and every system call on the link is a step: `symlink` (`Symlink`,
`Steal`), `readlink` (`ReadLink`), `kill(pid, 0)` with the `unlink` it decides
(`Judge`, `Unlock`, `FileLockedP`), `unlink` (`Steal`).

| action | code |
|---|---|
| `Edit`, `MarkModified`, `LockBuffer`, `WriteRegion` | the callers of `lock_file`, up to the comparison of modification times |
| `GoAhead`, `DoNotModify`, `RevertInstead` | the answers of `ask-user-about-supersession-threat` |
| `Symlink`, `ReadLink`, `Judge` | `lock_if_free`, `current_lock_owner` |
| `AskSteal`, `AskProceed`, `AskQuit`, `Steal` | `ask-user-about-lock`, `lock_file_1` with FORCE |
| `Modify`, `HookFails` | the change, or an error of Lisp that runs before it (an extent's before-change function, an annotation function) |
| `Open`, `Write`, `Stat` | `write-region` up to `unlock_file`, with its failures |
| `Unmodify`, `Visit`, `KillBuffer`, `KillEmacs` | the callers of `unlock_file` |
| `Unlock`, `Unlocked` | `unlock_file`, and what its caller does after it |
| `FileLockedP`, `Crash` | `file-locked-p`; the death of a process at any step |

`stale[s]` says that the file changed since the buffer of `s` read or saved it
(`verify-visited-file-modtime`). `held`, `sure`, `cut` and `disturbed` are
history variables that the properties speak of. `Fault` is the set of calls that
may fail. A restarted Emacs has another pid and is another session.

### BufferText and FlatText

The variable `b` is the buffer's block of memory with `gpt`, `gap_size`,
`end_gap_size`, `z`, point and the memory positions of the markers. The
functions `gap_left`, `gap_right`, `move_gap`, `merge_gap_with_end_gap`,
`make_gap`, `InsertString`, `DeleteRange` and `ReplaceChar` map one buffer to the
next, in the order of the C code: nothing else runs inside them but a quit, and a
quit can only come while the gap moves. The actions
`buffer_insert_string_1`, `buffer_delete_range` and `buffer_replace_char` add
the undo records and the modification count; `Quit` is the command that was
stopped while the gap moved. `FlatText` is a sequence of characters with
markers, and knows no gap. It has no bound on a text or on an insertion: the
characters that an insertion brings are read off the new text.

The undo list is a sequence with the newest entry first. Boundaries, and the end
of the list, carry the text that the buffer had there, which the code does not
keep: that is what `UndoRestores` compares with. `undo` starts the command,
`UndoMark`, `UndoUnmodified`, `UndoInsert` and `UndoDelete` are the turns of the
loop of `primitive-undo`, and `UndoQuit` stops it inside an entry.
`truncate_undo_list` is the collector's cut; a pending list that shares the cells
is cut with it. An entry `(t . MODTIME)` carries `obsolete`, which a save sets:
the model gives every save a modification time of its own. `saved` and `want`
are history variables; `saved` is `None` after a quit that came when undo had
already marked the buffer unmodified.

## 3. Runs

| run | instance | checks |
|---|---|---|
| `scheduling` | 3 coroutines; join, yield, http; 2 wakeups | `ListsMatchStates`, `WaitersSuspended`, `CursorLive`, `JoinerGetsVerdict`, `NoLostWakeup`, `ImplementsLifecycle` |
| `mailboxes` | 2 actors; send, both receives, monitor, nested event waits; 2 messages each | `TypeOK`, `NoMessageLost`, `InOrderDelivery`, `NoClobber` |
| `progress` | 2 coroutines; join, yield, http; fair | `EventuallyRuns`, `TransfersPolled` |
| `redelivery` | 2 actors | violated: `NoRedelivery` |
| `sender_tick` | 2 actors | violated: `RunnableHasTick` |
| `await_verdict` | 2 coroutines | violated: `AwaitVerdict` |
| `timer_fires` | 1 actor, fair | violated: `ReceiveTimesOut` |
| `bindings` | 2 coroutines, 2 variables (1 local), 2 values, 2 bindings per thread, room for 2 entries | `TypeOK`, `ImplementsDeepBinding` |
| `inherited_let` | 1 coroutine, 2 variables | violated: `InheritsLets` |
| `file_locks` | 2 sessions on one host, every fault | `Exclusive`, `NoBlindOverwrite`, `NoLeak` |
| `buffer_text` | 2 characters, 3 markers, up to 3 characters of text (2 with undo), insertions of 1 or 2, undo lists of up to 4 entries before a command and 6 before an undo | `TypeOK`, `PointMarkerAtPoint`, `UndoRestores`, `SavedText`, `ImplementsFlatText` |
| `undo_groups` | the same with up to 2 characters | violated: `UndoWholeGroups` |

*Why these bounds.* Three coroutines are the least with a joiner, its target and
a bystander between them on the list, or two joiners of one target, and they put
a coroutine before, at and behind the cursor. Two messages suffice for an order
and for a queue that is not empty when a receiver is woken. `MaxWakeups` limits
only steps that could be repeated for ever; the properties distinguish no wakeup
from at least one, and two let a wakeup be left over. With three instants per
millisecond a rounding error is visible and less than a millisecond. The
theorems hold without these bounds.

Two bindings per thread let a coroutine bind the same variable twice, or both
variables, while the main thread does the same, so that the order of the swaps
matters at each level; with room for two entries the array is moved. Two
sessions are what each race on the link needs, as the link names one owner and a
system call of the other comes between two of the first; where they are
interesting with three (two sessions that zap the lock of a dead third), the
properties make no claim, and `FileLockProofs` has any number of sessions on any
hosts. Text of three characters has the gap and a marker at the front, inside,
between and at the end, and a deletion at the end that leaves the gap alone;
`Slack` = 1 stands for the extra room that `make_gap` asks for, so that
insertions meet all three of gap, end gap and reallocation. The lists of `MaxEdit` = 4 and `MaxUndo` = 6 entries hold two
groups, undone, redone and undone again; the thresholds of truncation, 4 and 5,
are counted in entries instead of bytes and lie among them. With undo on, markers other
than point are moved by the text only (a guard in `set_marker_internal`), and
the text has at most `MaxUndoText` characters: `ImplementsFlatText` and
`PointMarkerAtPoint` get their larger texts from the buffers without undo.

*Fairness* (`FairSpec`). The tick's loop and its end are C code that goes on
(weak fairness). `LeaveCPU`: a body that runs eventually yields, waits or ends;
this is what cooperative scheduling asks of bodies, and no property could hold
without it. `next_event_leave`: a wait in `next_event_internal` ends when a
timeout is due. `async_scheduler_tick_from_timer` is strongly fair because
it is disabled again and again while the command loop is inside
`next_event_internal` or a tick, and each time round the loop dispatches the
oldest pending event, so every timeout's turn comes. No fairness is assumed of
transfers, of messages or of polling ticks. In `AsyncTimer`, time, the C code
and the dispatch of due timeouts are weakly fair.

Deadlock checking is on in the runs of the scheduler, the timer and the buffer:
in all of them top-level Lisp, or the command loop, can go on. It is off in
`file_locks`, where all sessions may have ended, and in `bindings` and
`inherited_let`, where nothing follows a yield on a moved array.

*The violated properties* say what a document or a comment says, and each is a
finding in `PROJECT.json`:

1. `NoRedelivery`. A message that wakes a receiver is returned from the result
   slot and stays in the mailbox, so it is received twice.
2. `RunnableHasTick`. A coroutine sends to an actor that was spawned after it,
   then ends. The cursor of the tick has already passed the recipient, so the
   tick ends with the recipient `RUNNABLE` and no wakeup pending. While the tick
   is in progress the property demands nothing: the sender may still yield, and
   the tick may still come to the recipient, as the comment says.
3. `AwaitVerdict`. An await that comes after the target's death loses the
   target's error; a body that handled a failed transfer and returned is
   reported as failed.
4. `ReceiveTimesOut`. The wakeup of a timed receive comes up to a millisecond
   early and is not repeated.
5. `InheritsLets`. A coroutine spawned inside a `let` runs after the `let` has
   ended, and finds the global value: the copied entries hold only values to put
   back, and no switch applies them. A test that ticks inside the `let` passes.
6. `UndoWholeGroups`. Replace one character in an unmodified buffer, save, undo:
   the new character is deleted, the old one does not come back, and the command
   is over. `record_change` puts a `(t . MODTIME)` between its two records, the
   save makes it obsolete, and an obsolete one ends the loop of `primitive-undo`
   as a boundary does. The next undo command goes on with the rest.

`NoLostWakeup`, `EventuallyRuns`, `InOrderDelivery` and `JoinerGetsVerdict` say
exactly what remains true besides these: the exceptions they make (a receiver
woken by a coroutine; joiners that were not evicted; a message seen again but
never skipped) are the findings, no more. `JoinerGetsVerdict` speaks of joiners
that are woken: a second joiner of the same target evicts the first, which then
waits for ever (listed as a hazard).

`NoLostWakeup` assumes `~NestedEvents`, and `progress` runs with it `FALSE`:
where bodies wait for events themselves, a coroutine in `sleep-for` can spend the
wakeup of another one, and both properties would fail. The hazard is listed, and
no property covers it. The mailbox properties do not depend on it and are checked with nested waits.

`Exclusive` and `NoBlindOverwrite` hold until `disturbed`: a session has ended,
was told to steal, or went on without the lock, be it that the user said so, that
the link could not be made, or that the lock vanished between two system calls.
After that the code gives no guarantee; the ways in which two sessions then
take each other's lock away are listed as hazards. `NoLeak` holds with all of
them, its one exception being an error between locking and modifying (`cut`),
after which the lock does stay: no property covers that hazard. `UndoRestores` demands nothing at an
obsolete `(t . MODTIME)`, which is no boundary; `SavedText` demands nothing after
a quit that left a half-undone buffer marked unmodified.

## 4. Proofs

All theorems are about `Spec`. Those on the scheduler hold for every `Coro`
(finite or not) and every value of the other constants; from `CoroAssumption`
(`Nil` is no coroutine), `ModeAssumption` and `BoundAssumption`; those on the
locks for every set of sessions, every assignment of hosts and every set of
faults; from `NilAssumption`, `HostAssumption` and `FaultAssumption`; those on
the buffer for every set of characters and of markers, every size of the file, the
extra room, the insertions, the texts and the lists, and any two thresholds; from
`MarkerAssumption` (the marker of point is one of the markers and does not
advance), `SlackAssumption`, `ThresholdAssumption` and `BoundAssumption` (they are
natural numbers; nothing says that the higher threshold is the greater one) and
`NoneAssumption` (`None` is no list); those on the bindings for every set of
variables, of values and of coroutines, any depth of nesting and any room in the
arrays; from `MainAssumption` (the main thread is no coroutine),
`LocalAssumption` and `BoundAssumption`. TLC evaluates the assumptions in every run.

**`AsyncSchedulerProofs`.** `IInv` strengthens `TypeOK`, `ListsMatchStates`,
`WaitersSuspended` and `CursorLive` by
 - `FrameOK`: the frame that a coroutine is in fits its wait reason. Without it a
   resume of a joiner might find a coroutine that is in another primitive;
 - `BirthOrder`: coroutines that were spawned have distinct positive spawn
   numbers. Without it the list has no order, and neither the newest coroutine
   nor the successor of one is determined;
 - `CursorPast`: the saved successor is not the running coroutine, so that the
   running coroutine's death cannot unlink it.

There is one lemma per group of actions, then `Invariance`, and from it
`TypeCorrect`, `ListsConsistent`, `ResumesAreSafe` and `CursorSurvives`.
That a nonempty set of spawned coroutines has a newest one follows from the
well-foundedness of the natural numbers. `Refinement` shows that the initial states map
to initial states and each action to a step of `CoroLifecycle` or a stutter;
`IInv` is needed for "only suspended coroutines are woken".

**`AsyncDeliveryProofs`.** `SlotsNotClobbered` follows from `IInv` action by
action: all wakers test for, or hold a pointer to, a suspended coroutine.
`JoinsDeliver` needs `VerdictInv`: a joiner that was resumed and has not run yet
(`VerdictPending`) has in its slots the verdict of the peer it joined, which is
dead; and a dead coroutine's slots do not change (`Kept`). `MailInv` describes a
mailbox as the newest messages sent, with consecutive serials; the newest one
received is the last that was taken out, or the head, which a blocked receive
returned through the result slot; and a receiver that was resumed with a message
holds the head (`ReceiveOK`). From it come `ReceivedInOrder` and `NothingLost`.

**`AsyncWakeupProofs`.** `DriveInv` strengthens `NoLostWakeup`: a coroutine that
yielded has a wakeup pending even while a tick is in progress (the tick has
resumed everyone who had yielded before it began, and will not look again), one
that waits for a transfer has a wakeup or a tick that will re-arm at its end, one
that can run has a wakeup or lies ahead of the cursor; and a tick never runs
inside `next_event_internal`. The interesting cases are a dying
coroutine whose joiner is before the cursor, a spawn during a tick and `tick_end`.

**`FileLockProofs`.** `IInv` is `TypeOK` with two invariants per session. `Mine`
says when the link does *not* name `s`: after it saw another owner or none and
has not tried to make a link since, after it released its own, and while it is
at rest with an unmodified buffer. Only `s` can make the link name `s`, so no
other session's step can break it, and it holds through steals and crashes; it
gives `LockReleased`. `Calm` holds until `disturbed`: every session still runs,
so that no owner that somebody read is obsolete and nothing is zapped; who holds
the lock is named by the link; a session in its command has the lock; and a session
that was sure of its buffer when it compared modification times holds the lock
and is not stale. A write makes the other sessions' buffers stale, and no other
session can be sure of one then, since both would be named by the link; this gives
`LockExclusive` and `OverwriteSeen`. There is one lemma per action.

**`BufferGapProofs`.** `Sound`, the first part of `TypeOK`, says how the block of
memory is laid out: its length is that of the characters, the gap and the end
gap, and no marker lies inside the gap. For a sound buffer a gap motion to any
place (`MoveGap`), the merging of the end gap (`MergeGap`) and a new gap
(`MakeGap`) change neither the characters nor the position of any marker, and
keep it sound. On these rest `Inserted`, `Deleted` and `Replaced`, which say
character by character and marker by marker what `buffer_insert_string_1`,
`buffer_delete_range` and `buffer_replace_char` do, whichever of the gaps they
use. Soundness is what makes them provable: a marker inside the gap would have a
position that depends on where the gap is.

**`BufferUndoProofs`.** `History(list, T)` says that `T` is the sequence of texts
that an undo list leads back through: undoing entry `i` turns `T[i]` into
`T[i + 1]`, and a boundary carries the text found there. In particular every
entry lies within the text it is applied to. Recording a change puts a text in
front of `T`, merging an insertion with the previous one does not change the
older texts, truncation takes a prefix, undoing takes the head off. `Honest`
says of a `(t . MODTIME)` that is not obsolete that it stands at the saved text,
with one exception: `record_change` writes both its records before the buffer
counts as modified, so that there is such an entry between the two, in the middle
of the replacement.

**`BufferTextProofs`.** `IInv` is `TypeOK`, point's agreement with its marker,
`UndoRestores`, and the two lists: `ListsLead`, by which both `undo_list` and
`pending` have a history that begins with the present text and is honest, and
`Unmodified`, which is `SavedText` during an undo command too. The
invariants alone are not inductive. `UndoRestores` says nothing of the entries
not reached yet, so nothing would follow from it for the next step; and
`pending`, an older part of the list, leads back from the same text as the list
that meanwhile has grown by the records of the undo itself. The exception for the
replaced character appears as `Halfway`. TLC checked `IInv`, part by part, on the
instance of `buffer_text` before the proof. There is one lemma per action; from
`InvariantHolds` come `TypeCorrect`, `PointFollowed`, `UndoIsExact` and
`SavedIsSaved`. `Refinement` maps the insertions and deletions, also those that
undo makes, the replacement and `set_marker_internal` to the step of `FlatText`
of that name, and everything else to a stutter; that an entry of the pending list
lies within the text, which the undo actions do not test, is again `ListsLead`.

**`CoroBindingsProofs`.** `unbind_to` and the two swaps go entry by entry, so
what they do to a whole stack is first found in closed form, by looking at the
least number of entries for which it would be wrong. `NextValue` is where every
value is: the old value of the next entry above that binds the variable, or its
cell. `UnbindToIs`: unbinding down to `n` leaves in each cell the `NextValue`
above `n`. `UnwindIs`: the swap from the top down leaves in each cell the
`NextValue` above the bottom, and in each entry the value that the binding had.
`RebindIs`: one swap undoes itself, and the swap from the bottom up goes through
the entries in the opposite order, so it is the inverse of the one from the top
down; hence `RebindFinds`, that after it each binding has the value its entry
carried. `Layer`, `Shift` and `LowerLayer` put one stack on the other: the
entries of the main thread see, instead of the cells, what the coroutine's own
entries would put back. With these, each operation is a change of one layer
(`Push`, `Pop`, `SetBound`, `SetFree`) or of who runs (`Switch`). `TypeCorrect`
says with the types that only the coroutine that is `RUNNING` runs, and that one
which has not started or has ended has no entries; it is the whole invariant that
`Refinement` needs, since the map takes each value from wherever it is. There is
one lemma per action; a yield on a moved array is a stutter that nothing follows,
so the theorem says nothing of what the code does after it.

**Only model-checked.** Liveness (`EventuallyRuns`, `TransfersPolled`), since the
prover does not handle fairness; `AsyncTimer`; and the violated properties.

## 5. What the models leave out

 - The handler, catch and GC chains exchanged at a switch, and marking (planned,
   below); `AsyncScheduler` and `CoroBindings` are not composed, as no action of
   the scheduler reads a Lisp variable. Throws out of a coroutine: bodies end by returning or by an
   error.
 - What a read of a freed struct yields. Using a handle after the join that freed
   it is excluded by `IsHandle` and by the states the actions test.
 - `is_actor`: every coroutine has a mailbox, since calling `actor-receive` in a
   plain coroutine is an assertion failure.
 - Requests from top-level Lisp (no coroutine waits for them), headers, bodies,
   download files.
 - The moment at which transfers complete: any transfer may complete or fail at
   any poll. Deadlines in `AsyncScheduler` may pass at any tick; `AsyncTimer` has
   the clock.
 - Hooks and callbacks that run Lisp inside `next_event_internal`.
 - In `CoroBindings`: unwind-protect forms (they are entries with a function, as
   the buffer-local ones are, and no switch touches them), `makunbound`, and
   variables that become buffer-local while they are bound.
 - In `FileLock`: `inhibit-clash-detection`, a query whose Lisp changes the
   current buffer (`lock_file` then returns), links that are no
   USER@HOST.PID, the window between `kill(pid, 0)` and `unlink` in
   `current_lock_owner`, a pid that is used again, `append` and auto-saving. A
   write without VISIT goes to the visited file or not at all.
 - In `BufferText`: narrowing, indirect buffers, several bytes per character,
   extents, the line-number cache and change hooks; point positions and extents
   in the undo list; a replacement by a character of another length; changes that
   leave no undo record (`not_real_change`); output of processes between two
   undo commands (a hazard); `undo` with a count.

## 6. Plan

Modelled so far, in the order of the plan: the scheduler with its proofs, the
bindings, the file locks, and the buffer text with its markers and undo list, each
with its proofs. Next, in this order:

1. `AsyncHttp`: requests with buffers and files, curl's socket callbacks,
   failures; refining the transfers of `AsyncScheduler`.
2. `ElpaInstall`: the installation as a transaction with failures at every step,
   `elpa--sync-await` and the dependency planner against a reference closure.
3. `LineNumbers` and `Extents` on top of `BufferText`.
4. `ProcessStatus`: output and exit notices.
5. `HashTable` against an abstract map.
6. The handler and GC chains of a coroutine, and what the collector marks.
