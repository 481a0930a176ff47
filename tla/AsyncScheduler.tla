--------------------------- MODULE AsyncScheduler ---------------------------
(***************************************************************************)
(* The cooperative coroutine scheduler of src/src/async-scheduler.c with   *)
(* its actors (mailbox, join, monitor), its event-loop wakeups, and the    *)
(* part of src/src/async-http.c that suspends and resumes a coroutine.     *)
(*                                                                         *)
(* One step is one run of C code between two points where control can go   *)
(* elsewhere: a primitive called by the running coroutine or by top-level  *)
(* Lisp, the part of a tick up to the first coro_swap, one iteration of    *)
(* the tick's phase 2 loop, the end of the tick.  What a coroutine's Lisp  *)
(* body does is arbitrary: whichever coroutine runs may call any primitive *)
(* next.                                                                   *)
(*                                                                         *)
(* A definition X_y is a faulty variant of the definition X below it; the  *)
(* properties are run against these to show that they can fail.            *)
(***************************************************************************)
EXTENDS Naturals, Sequences

CONSTANTS
    Coro,            \* the coroutine structs; each is allocated at most once
    Nil,             \* NULL, or the Lisp object nil
    noninteractive,  \* batch mode: no event loop, ticks are explicit calls
    Primitives,      \* the primitives the Lisp programs call
    NestedEvents,    \* do coroutine bodies wait for events (sleep-for,
                     \* accept-process-output)?
    MaxWakeups,      \* bound on pending wakeups when a step may arm one
    MaxSent,         \* bound on the messages sent to one actor
    MaxMonitors      \* bound on the registrations on one target

ASSUME CoroAssumption == Nil \notin Coro
ASSUME ModeAssumption ==
    /\ noninteractive \in BOOLEAN /\ NestedEvents \in BOOLEAN
    /\ Primitives \subseteq {"send", "receive", "timed_receive", "monitor",
                              "join", "yield", "http"}
ASSUME BoundAssumption == /\ MaxWakeups \in Nat
                          /\ MaxSent \in Nat
                          /\ MaxMonitors \in Nat

VARIABLES
    state,         \* coro_state_t; "UNBORN" before malloc, "REAPED" after free
    wait_reason,   \* what a suspended coroutine waits for
    result,        \* value delivered on resume
    error,         \* error delivered on resume, Nil if none
    mailbox,       \* serial numbers of the queued messages, oldest first
    join_waiter,   \* the one coroutine waiting for this one to finish
    monitor_list,  \* monitor_list[t][w]: how often w is registered on t
    born, spawned, \* spawn order (all_coros is kept newest first) and the
                   \* number of coroutines spawned so far
    all_coros,     \* the list of live coroutines
    dead_coros,    \* the graveyard
    current_coro,  \* the coroutine running, Nil for top-level Lisp or the tick
    in_tick,       \* re-entrancy guard of async_scheduler_tick
    next_c,        \* the phase 2 loop's saved successor
    async_tick_forbidden, \* is next_event_internal on the C stack?
    wakeups,       \* pending one-shot timeouts whose callback is a tick
    inflight,      \* coroutines that are the waiting_coro of an HTTP request
    op,            \* the primitive whose C frame a suspended coroutine is in
    peer,          \* the coroutine that frame joins
    sent, last,    \* history: serial of the newest message sent to, and of
                   \* the newest received by, each actor
    body,          \* history: how the coroutine's Lisp body ended
    outcome        \* history: what the last primitive that waits returned to
                   \* the running coroutine

slots == <<state, wait_reason, result, error>>
links == <<join_waiter, monitor_list, born, spawned, all_coros, dead_coros>>
sched == <<current_coro, in_tick, next_c, async_tick_forbidden, wakeups>>
frame == <<inflight, op, peer>>
hist  == <<sent, last, body, outcome>>
vars  == <<slots, mailbox, links, sched, frame, hist>>

States  == {"UNBORN", "RUNNABLE", "RUNNING", "SUSPENDED", "DEAD", "REAPED"}
Reasons == {"NONE", "FD", "TIMER", "MAILBOX", "JOIN"}
Ops     == {"body", "yield", "receive", "join", "http"}

\* Lisp values and errors, up to what tells them apart.
Arg     == <<"arg">>                \* what coro_spawn and the trampoline store
Msg(i)  == <<"msg", i>>
Ret(c)  == <<"ret", c>>             \* the value c's body returns
Reply   == <<"http">>
Errors  == {<<"timeout">>, <<"http-error">>} \cup ({"signal"} \X Coro)
Slots   == {Nil} \cup Errors
Values  == {Nil, Arg, Reply} \cup ({"msg"} \X Nat) \cup ({"ret"} \X Coro)
None    == <<"none">>
Outcomes == {None} \cup ({"received"} \X Values)
            \cup ({"joined", "reaped"} \X Coro \X Slots \X Values)

Live == {"RUNNABLE", "RUNNING", "SUSPENDED"}

\* A handle that async-coroutine-p accepts.
IsHandle(c) == state[c] \in Live \cup {"DEAD"}

Waiting(c, r) == state[c] = "SUSPENDED" /\ wait_reason[c] = r

\* What a message wakes: an actor blocked on its mailbox, without timeout.
WokeMailbox_runnable(t) == state[t] \in Live
WokeMailbox(t) == Waiting(t, "MAILBOX")

\* nconc2: a message goes to the end of the mailbox.
Nconc_front(q, m) == <<m>> \o q
Nconc_setq(q, m) == <<m>>
Nconc(q, m) == Append(q, m)

\* The wakeups that coro_yield arms for each reason.
YieldWakeups_io(r) == IF r \in {"FD", "TIMER"} THEN 1 ELSE 0
YieldWakeups(r) == IF r \in {"NONE", "FD", "TIMER"} THEN 1 ELSE 0

\* Top-level Lisp: no tick on the C stack, not inside next_event_internal.
TopLevel == ~in_tick /\ ~async_tick_forbidden

\* A context in which Lisp runs and can call the primitives.
LispRuns == current_coro # Nil \/ TopLevel

\* async_schedule_wakeup_tick: batch mode arms nothing.
Arm(n) == IF noninteractive THEN wakeups ELSE wakeups + n

\* The bound on the steps that arm a wakeup and could be repeated for ever.
MayArm == noninteractive \/ wakeups < MaxWakeups

-----------------------------------------------------------------------------
(* The list of live coroutines: spawn prepends, death unlinks, so its      *)
(* order is spawn order, newest first.                                     *)

NewestOf(S) == IF S = {} THEN Nil
               ELSE CHOOSE c \in S : \A d \in S : born[d] <= born[c]

\* c->next on all_coros.
Successor_stale(c) ==
    NewestOf({d \in all_coros \cup dead_coros : born[d] < born[c]})
Successor(c) == NewestOf({d \in all_coros : born[d] < born[c]})

\* The part of the list from c on.
From(c) == IF c = Nil THEN {} ELSE {d \in all_coros : born[d] <= born[c]}

-----------------------------------------------------------------------------
Init ==
    /\ state = [c \in Coro |-> "UNBORN"]
    /\ wait_reason = [c \in Coro |-> "NONE"]
    /\ result = [c \in Coro |-> Nil]
    /\ error = [c \in Coro |-> Nil]
    /\ mailbox = [c \in Coro |-> <<>>]
    /\ join_waiter = [c \in Coro |-> Nil]
    /\ monitor_list = [t \in Coro |-> [w \in Coro |-> 0]]
    /\ born = [c \in Coro |-> 0] /\ spawned = 0
    /\ all_coros = {} /\ dead_coros = {}
    /\ current_coro = Nil /\ in_tick = FALSE /\ next_c = Nil
    /\ async_tick_forbidden = FALSE
    /\ wakeups = 0
    /\ inflight = {}
    /\ op = [c \in Coro |-> "body"]
    /\ peer = [c \in Coro |-> Nil]
    /\ sent = [c \in Coro |-> 0]
    /\ last = [c \in Coro |-> 0]
    /\ body = [c \in Coro |-> "running"]
    /\ outcome = None

-----------------------------------------------------------------------------
(* Primitives that do not suspend their caller.                            *)

\* async-spawn-coroutine, actor-spawn-internal: prepend a runnable coroutine
\* and arm a wakeup (its wait_reason is WAIT_NONE, so from a coroutine too).
coro_spawn(c) ==
    /\ LispRuns /\ MayArm
    /\ state[c] = "UNBORN"
    /\ state' = [state EXCEPT ![c] = "RUNNABLE"]
    /\ result' = [result EXCEPT ![c] = Arg]
    /\ spawned' = spawned + 1
    /\ born' = [born EXCEPT ![c] = spawned + 1]
    /\ all_coros' = all_coros \cup {c}
    /\ wakeups' = Arm(1)
    /\ UNCHANGED <<wait_reason, error, mailbox, join_waiter, monitor_list,
                   dead_coros, current_coro, in_tick, next_c,
                   async_tick_forbidden, frame, hist>>

\* actor-send-internal: queue the message; an actor waiting for its mailbox
\* is resumed with it.  Only top-level Lisp arms a wakeup.
actor_send_internal(t) ==
    LET woke_mailbox == WokeMailbox(t)
        m == sent[t] + 1
    IN
    /\ "send" \in Primitives /\ LispRuns
    /\ IsHandle(t)
    /\ sent[t] < MaxSent
    /\ current_coro = Nil => MayArm
    /\ mailbox' = [mailbox EXCEPT ![t] = Nconc(@, m)]
    /\ sent' = [sent EXCEPT ![t] = m]
    /\ IF woke_mailbox
       THEN /\ state' = [state EXCEPT ![t] = "RUNNABLE"]
            /\ wait_reason' = [wait_reason EXCEPT ![t] = "NONE"]
            /\ result' = [result EXCEPT ![t] = Msg(m)]
            /\ error' = [error EXCEPT ![t] = Nil]
       ELSE UNCHANGED slots
    /\ wakeups' = IF woke_mailbox /\ current_coro = Nil THEN Arm(1) ELSE wakeups
    /\ UNCHANGED <<links, current_coro, in_tick, next_c, async_tick_forbidden,
                   frame, last, body, outcome>>

\* actor-monitor-internal: register watcher w on target t.
actor_monitor_internal(t, w) ==
    /\ "monitor" \in Primitives /\ LispRuns
    /\ IsHandle(t) /\ IsHandle(w)
    /\ monitor_list[t][w] < MaxMonitors
    /\ monitor_list' = [monitor_list EXCEPT ![t][w] = @ + 1]
    /\ UNCHANGED <<slots, mailbox, join_waiter, born, spawned, all_coros, dead_coros,
                   sched, frame, hist>>

\* actor-receive-internal with a message queued: take the oldest.
actor_receive_queued ==
    LET c == current_coro IN
    /\ c # Nil /\ Primitives \cap {"receive", "timed_receive"} # {}
    /\ mailbox[c] # <<>>
    /\ mailbox' = [mailbox EXCEPT ![c] = Tail(@)]
    /\ last' = [last EXCEPT ![c] = Head(mailbox[c])]
    /\ outcome' = <<"received", Msg(Head(mailbox[c]))>>
    /\ UNCHANGED <<slots, links, sched, frame, sent, body>>

\* actor-join-internal on a target in the graveyard: return its result slot
\* and free it.
actor_join_dead(t) ==
    LET c == current_coro IN
    /\ c # Nil /\ "join" \in Primitives
    /\ state[t] = "DEAD"
    /\ state' = [state EXCEPT ![t] = "REAPED"]
    /\ dead_coros' = dead_coros \ {t}
    /\ outcome' = <<"reaped", t, error[c], result[t]>>
    /\ UNCHANGED <<wait_reason, result, error, mailbox, join_waiter,
                   monitor_list, born, spawned, all_coros, sched, frame,
                   sent, last, body>>

-----------------------------------------------------------------------------
(* Primitives that suspend their caller.                                   *)

\* coro_yield: leave the CPU for reason r, in the frame of primitive o, and
\* arm the wakeups that reason calls for.
coro_yield(r, o) ==
    LET c == current_coro
        n == YieldWakeups(r)
    IN
    /\ n > 0 => MayArm
    /\ state' = [state EXCEPT ![c] = "SUSPENDED"]
    /\ wait_reason' = [wait_reason EXCEPT ![c] = r]
    /\ op' = [op EXCEPT ![c] = o]
    /\ current_coro' = Nil
    /\ wakeups' = Arm(n)
    /\ outcome' = None
    /\ UNCHANGED <<result, error, mailbox, monitor_list, born, spawned,
                   all_coros, dead_coros, in_tick, next_c, async_tick_forbidden,
                   sent, last, body>>

\* async-coroutine-yield.
async_coroutine_yield ==
    /\ current_coro # Nil /\ "yield" \in Primitives
    /\ coro_yield("NONE", "yield")
    /\ UNCHANGED <<join_waiter, inflight, peer>>

\* actor-receive-internal on an empty mailbox, without and with a timeout.
actor_receive_wait(timed) ==
    /\ current_coro # Nil
    /\ mailbox[current_coro] = <<>>
    /\ IF timed
       THEN "timed_receive" \in Primitives /\ coro_yield("TIMER", "receive")
       ELSE "receive" \in Primitives /\ coro_yield("MAILBOX", "receive")
    /\ UNCHANGED <<join_waiter, inflight, peer>>

\* actor-join-internal on a live target: take its one join_waiter slot.
actor_join_live(t) ==
    /\ current_coro # Nil /\ "join" \in Primitives
    /\ state[t] \in Live
    /\ join_waiter' = [join_waiter EXCEPT ![t] = current_coro]
    /\ peer' = [peer EXCEPT ![current_coro] = t]
    /\ coro_yield("JOIN", "join")
    /\ UNCHANGED inflight

\* async_http_start from a coroutine: hand the request to curl and wait.
async_http_start ==
    /\ current_coro # Nil /\ "http" \in Primitives
    /\ inflight' = inflight \cup {current_coro}
    /\ coro_yield("FD", "http")
    /\ UNCHANGED <<join_waiter, peer>>

-----------------------------------------------------------------------------
(* The body ends: the tail of coro_trampoline.                             *)

\* c->join_waiter = NULL once the joiner is resumed.
JoinerServed_kept(c) == join_waiter
JoinerServed(c) == [join_waiter EXCEPT ![c] = Nil]

\* coro_list_remove.
Unlinked_kept(c) == all_coros
Unlinked(c) == all_coros \ {c}

coro_trampoline_exit(how) ==
    LET c == current_coro
        e == IF how = "signalled" THEN <<"signal", c>> ELSE error[c]
        j == join_waiter[c]
        notified == {w \in Coro : monitor_list[c][w] > 0 /\ state[w] \in Live}
        woken == {w \in notified : WokeMailbox(w)}
        first(w) == sent[w] + 1
        exits(w) == [i \in 1..monitor_list[c][w] |-> sent[w] + i]
    IN
    /\ c # Nil
    /\ state' = [x \in Coro |-> IF x = c THEN "DEAD"
                                ELSE IF x = j \/ x \in woken THEN "RUNNABLE"
                                ELSE state[x]]
    /\ wait_reason' = [x \in Coro |-> IF x = j \/ x \in woken THEN "NONE"
                                      ELSE wait_reason[x]]
    /\ result' = [x \in Coro |-> IF x = j THEN IF e = Nil THEN Ret(c) ELSE Nil
                                 ELSE IF x \in woken THEN Msg(first(x))
                                 ELSE IF x = c /\ e = Nil THEN Ret(c)
                                 ELSE result[x]]
    /\ error' = [x \in Coro |-> IF x \in {c, j} THEN e
                                ELSE IF x \in woken THEN Nil ELSE error[x]]
    /\ mailbox' = [x \in Coro |-> IF x \in notified THEN mailbox[x] \o exits(x)
                                  ELSE mailbox[x]]
    /\ sent' = [x \in Coro |-> IF x \in notified
                               THEN sent[x] + monitor_list[c][x] ELSE sent[x]]
    /\ join_waiter' = JoinerServed(c)
    /\ monitor_list' = [monitor_list EXCEPT ![c] = [w \in Coro |-> 0]]
    /\ all_coros' = Unlinked(c)
    /\ dead_coros' = dead_coros \cup {c}
    /\ current_coro' = Nil
    /\ wakeups' = IF j # Nil THEN Arm(1) ELSE wakeups
    /\ body' = [body EXCEPT ![c] = how]
    /\ outcome' = None
    /\ UNCHANGED <<born, spawned, in_tick, next_c, async_tick_forbidden, frame,
                   last>>

-----------------------------------------------------------------------------
(* The tick.                                                               *)

\* req->waiting_coro = NULL and the request leaves inflight_requests.
StillInflight_kept(done) == inflight
StillInflight(done) == inflight \ done

\* async_http_check_completed for the requests in ok and failed, then the
\* wait conditions of phases 1a (yields) and 1b (deadlines in late passed).
Resumed(ok, failed, yielded, late) ==
    LET r == ok \cup failed \cup yielded \cup late IN
    /\ state' = [c \in Coro |-> IF c \in r THEN "RUNNABLE" ELSE state[c]]
    /\ wait_reason' = [c \in Coro |-> IF c \in r THEN "NONE" ELSE wait_reason[c]]
    /\ result' = [c \in Coro |-> IF c \in ok THEN Reply
                                 ELSE IF c \in failed \cup late THEN Nil
                                 ELSE result[c]]
    /\ error' = [c \in Coro |-> IF c \in failed THEN <<"http-error">>
                                ELSE IF c \in late THEN <<"timeout">>
                                ELSE IF c \in r THEN Nil ELSE error[c]]
    /\ inflight' = StillInflight(ok \cup failed)

\* Phase 1a: the coroutines that yielded voluntarily.
Yielded_any == {c \in all_coros : state[c] = "SUSPENDED"}
Yielded == {c \in all_coros : Waiting(c, "NONE")}

\* A tick up to phase 2.
tick_begin ==
    /\ ~in_tick /\ ~async_tick_forbidden
    /\ all_coros # {}
    /\ in_tick' = TRUE
    /\ next_c' = NewestOf(all_coros)
    /\ \E ok \in SUBSET inflight : \E failed \in SUBSET (inflight \ ok) :
       \E late \in SUBSET {c \in all_coros : Waiting(c, "TIMER")} :
           Resumed(ok, failed, Yielded, late)
    /\ UNCHANGED <<mailbox, links, current_coro, async_tick_forbidden,
                   op, peer, hist>>

\* A tick that returns at once: re-entered, forbidden, or nothing to run.
TickBlocked == in_tick \/ async_tick_forbidden \/ all_coros = {}

\* The timeout event of a wakeup is dispatched by the command loop.
async_scheduler_tick_from_timer ==
    /\ TopLevel /\ wakeups > 0
    /\ wakeups' = wakeups - 1
    /\ IF TickBlocked THEN UNCHANGED <<slots, mailbox, links, current_coro,
                                       in_tick, next_c, async_tick_forbidden,
                                       frame, hist>>
                      ELSE tick_begin

\* The same event dispatched by the sleep-for or accept-process-output of a
\* running coroutine: the one-shot timeout is spent and the tick is blocked.
nested_timer_dispatch_again ==
    /\ NestedEvents /\ current_coro # Nil
    /\ wakeups' = wakeups - 1
    /\ UNCHANGED <<slots, mailbox, links, current_coro, in_tick, next_c,
                   async_tick_forbidden, frame, hist>>
nested_timer_dispatch ==
    /\ NestedEvents /\ current_coro # Nil
    /\ wakeups > 0
    /\ wakeups' = wakeups - 1
    /\ UNCHANGED <<slots, mailbox, links, current_coro, in_tick, next_c,
                   async_tick_forbidden, frame, hist>>

\* poll_fds_for_input, or an explicit (async-scheduler-tick) in Lisp.
async_scheduler_tick_poll ==
    /\ TopLevel /\ MayArm
    /\ tick_begin
    /\ UNCHANGED wakeups

\* One iteration of phase 2: the next RUNNABLE coroutine of the list is
\* switched in and returns from the primitive it was suspended in.
tick_run_next ==
    LET ready == {d \in From(next_c) : state[d] = "RUNNABLE"}
        c == NewestOf(ready)
        isMsg == op[c] = "receive" /\ result[c] # Nil
    IN
    /\ in_tick /\ current_coro = Nil
    /\ ready # {}
    /\ state' = [state EXCEPT ![c] = "RUNNING"]
    /\ current_coro' = c
    /\ next_c' = Successor(c)
    /\ outcome' = CASE op[c] = "receive" -> <<"received", result[c]>>
                    [] op[c] = "join" -> <<"joined", peer[c], error[c], result[c]>>
                    [] OTHER -> None
    /\ last' = IF isMsg THEN [last EXCEPT ![c] = result[c][2]] ELSE last
    /\ op' = [op EXCEPT ![c] = "body"]
    /\ peer' = [peer EXCEPT ![c] = Nil]
    /\ UNCHANGED <<wait_reason, result, error, mailbox, links, in_tick,
                   async_tick_forbidden, wakeups, inflight, sent, body>>

\* Does a coroutine wait for a transfer when the tick ends?
HasWaitFd_no == FALSE
HasWaitFd == \E c \in all_coros : Waiting(c, "FD")

\* Phase 2 is over: re-arm while a coroutine waits for a transfer.
tick_end ==
    /\ in_tick /\ current_coro = Nil
    /\ \A d \in From(next_c) : state[d] # "RUNNABLE"
    /\ in_tick' = FALSE
    /\ next_c' = Nil
    /\ wakeups' = IF HasWaitFd THEN Arm(1) ELSE wakeups
    /\ UNCHANGED <<slots, mailbox, links, current_coro, async_tick_forbidden,
                   frame, hist>>

-----------------------------------------------------------------------------
(* The event loop around the scheduler.                                    *)

\* poll_fds_for_input where the tick that ends it is blocked (below
\* next_event_internal, or below a coroutine that waits for events): only the
\* callback async_http_socket_ready of a ready curl socket has an effect.
poll_fds_for_input ==
    /\ ~noninteractive
    /\ async_tick_forbidden \/ (current_coro # Nil /\ NestedEvents)
    /\ \E ok \in SUBSET inflight : \E failed \in SUBSET (inflight \ ok) :
         /\ ok \cup failed # {}
         /\ Resumed(ok, failed, {}, {})
    /\ UNCHANGED <<mailbox, links, sched, op, peer, hist>>

\* next_event_internal brackets its wait with async_tick_forbid_start.
next_event_enter ==
    /\ TopLevel
    /\ async_tick_forbidden' = TRUE
    /\ UNCHANGED <<slots, mailbox, links, current_coro, in_tick, next_c,
                   wakeups, frame, hist>>

next_event_leave ==
    /\ async_tick_forbidden
    /\ async_tick_forbidden' = FALSE
    /\ UNCHANGED <<slots, mailbox, links, current_coro, in_tick, next_c,
                   wakeups, frame, hist>>

-----------------------------------------------------------------------------
Next ==
    \/ \E c \in Coro : coro_spawn(c)
    \/ \E t \in Coro : actor_send_internal(t)
    \/ \E t, w \in Coro : actor_monitor_internal(t, w)
    \/ actor_receive_queued
    \/ \E t \in Coro : actor_join_dead(t)
    \/ async_coroutine_yield
    \/ \E timed \in BOOLEAN : actor_receive_wait(timed)
    \/ \E t \in Coro : actor_join_live(t)
    \/ async_http_start
    \/ \E how \in {"returned", "signalled"} : coro_trampoline_exit(how)
    \/ async_scheduler_tick_from_timer
    \/ nested_timer_dispatch
    \/ async_scheduler_tick_poll
    \/ tick_run_next
    \/ tick_end
    \/ poll_fds_for_input
    \/ next_event_enter
    \/ next_event_leave

Spec == Init /\ [][Next]_vars

\* The running coroutine gives up the CPU, as cooperative scheduling asks.
LeaveCPU ==
    \/ async_coroutine_yield
    \/ \E timed \in BOOLEAN : actor_receive_wait(timed)
    \/ \E t \in Coro : actor_join_live(t)
    \/ async_http_start
    \/ \E how \in {"returned", "signalled"} : coro_trampoline_exit(how)

\* The tick loop goes on, bodies give up the CPU, and the command loop, which
\* alternates between next_event_internal and the dispatch of what it
\* returned, gets round to every timeout event.
FairSpec ==
    /\ Spec
    /\ WF_vars(tick_run_next) /\ WF_vars(tick_end) /\ WF_vars(LeaveCPU)
    /\ WF_vars(next_event_leave) /\ SF_vars(async_scheduler_tick_from_timer)

-----------------------------------------------------------------------------
(* Safety.                                                                 *)

\* Every field holds a value of its C or Lisp type: the scheduler's own state,
\* and the values it passes around.
ControlTypes ==
    /\ state \in [Coro -> States]
    /\ wait_reason \in [Coro -> Reasons]
    /\ join_waiter \in [Coro -> Coro \cup {Nil}]
    /\ spawned \in Nat /\ born \in [Coro -> 0..spawned]
    /\ all_coros \subseteq Coro /\ dead_coros \subseteq Coro
    /\ current_coro \in Coro \cup {Nil}
    /\ in_tick \in BOOLEAN /\ async_tick_forbidden \in BOOLEAN
    /\ next_c \in Coro \cup {Nil}
    /\ inflight \subseteq Coro
    /\ op \in [Coro -> Ops]
    /\ peer \in [Coro -> Coro \cup {Nil}]

DataTypes ==
    /\ result \in [Coro -> Values]
    /\ error \in [Coro -> Slots]
    /\ mailbox \in [Coro -> Seq(Nat)]
    /\ monitor_list \in [Coro -> [Coro -> Nat]]
    /\ wakeups \in Nat
    /\ sent \in [Coro -> Nat] /\ last \in [Coro -> Nat]
    /\ body \in [Coro -> {"running", "returned", "signalled"}]
    /\ outcome \in Outcomes

TypeOK == ControlTypes /\ DataTypes

\* The lists are what the states say: a coroutine is on all_coros from spawn
\* to death and in the graveyard from death to join, and only the coroutine
\* the tick switched to is RUNNING.
ListsMatchStates ==
    /\ all_coros = {c \in Coro : state[c] \in Live}
    /\ dead_coros = {c \in Coro : state[c] = "DEAD"}
    /\ \A c \in Coro : state[c] = "RUNNING" <=> c = current_coro
    /\ current_coro # Nil => in_tick

\* The pointers that coro_resume follows lead to suspended coroutines: a
\* join_waiter is blocked in the join that stored it, and the waiting_coro of
\* a transfer is blocked in the request that started it.  So no resume ever
\* hits a running, dead or freed coroutine.
WaitersSuspended ==
    /\ \A t \in Coro : LET j == join_waiter[t] IN
         j # Nil => /\ Waiting(j, "JOIN")
                    /\ peer[j] = t
                    /\ state[t] \in Live
    /\ \A c \in inflight : Waiting(c, "FD")

\* The successor that phase 2 saved before the switch is still on the list
\* after it, whatever the coroutine did meanwhile.
CursorLive == next_c # Nil => in_tick /\ next_c \in all_coros

\* A joiner that waited for t gets t's verdict, neither an earlier value of
\* its own slots nor that of another waker.
JoinerGetsVerdict ==
    outcome[1] = "joined" =>
        LET t == outcome[2] IN
        /\ state[t] \in {"DEAD", "REAPED"}
        /\ outcome[3] = error[t]
        /\ error[t] = Nil => outcome[4] = Ret(t)

\* In a session with an event loop, whose Lisp bodies do not wait for events
\* themselves, a coroutine that can run, has yielded or waits for a transfer
\* is never left without a tick to come.  (A receiver woken by a coroutine is
\* the exception: see RunnableHasTick.)
Driven(c) ==
    \/ wakeups > 0
    \/ in_tick /\ (state[c] = "RUNNABLE" => c \in From(next_c))

NoLostWakeup ==
    (~noninteractive /\ ~NestedEvents) =>
        \A c \in all_coros :
            \/ state[c] = "RUNNABLE" /\ op[c] # "receive"
            \/ Waiting(c, "NONE") \/ Waiting(c, "FD")
            => Driven(c)

\* An actor receives its messages in the order they were sent and skips none
\* (the newest serial it has received moves up by one at a time).
InOrderDelivery ==
    [][\A c \in Coro : last'[c] \in {last[c], last[c] + 1}]_vars

\* No message is lost: what an actor has not received yet is in its mailbox.
NoMessageLost ==
    \A c \in Coro : \A i \in (last[c] + 1)..sent[c] :
        \E k \in 1..Len(mailbox[c]) : mailbox[c][k] = i

\* A resumed coroutine finds what its waker left: nobody overwrites the
\* result and error of a coroutine that is already RUNNABLE.
NoClobber ==
    [][\A c \in Coro : state[c] = "RUNNABLE" /\ state'[c] = "RUNNABLE" =>
            result'[c] = result[c] /\ error'[c] = error[c]]_vars

-----------------------------------------------------------------------------
(* Refinement and liveness.                                                *)

Lifecycle == INSTANCE CoroLifecycle WITH running <- current_coro

\* The scheduler implements the life cycle that the documentation describes.
ImplementsLifecycle == Lifecycle!Spec

\* A coroutine that has yielded, or was spawned, joined or resumed by a
\* transfer, gets to run.
EventuallyRuns ==
    \A c \in Coro :
        (\/ state[c] = "RUNNABLE" /\ op[c] # "receive"
         \/ Waiting(c, "NONE")) ~> state[c] = "RUNNING"

\* A transfer in progress is polled again and again until it completes.
TransfersPolled ==
    \A c \in Coro : []<>(Waiting(c, "FD") => in_tick)

-----------------------------------------------------------------------------
(* What the documentation and the comments say and the code does not do.   *)

\* actor-receive returns "the next message" (actor.el:21): the head of the
\* queue is one the actor has not received yet.
NoRedelivery ==
    \A c \in Coro : mailbox[c] # <<>> => Head(mailbox[c]) > last[c]

\* The comment in actor_send_internal: a recipient woken by a coroutine is
\* picked up by the tick in flight, or the sender's own yield has armed a
\* wakeup.  So once the tick is over, with every sender at its end or in a
\* yield, a coroutine that can run is one that a pending wakeup will run.
RunnableHasTick ==
    ~in_tick => \A c \in all_coros : state[c] = "RUNNABLE" => wakeups > 0

\* An await reports how the awaited coroutine ended: an error its body did
\* not catch is re-signaled at the await (async.texi:79), a normal return is
\* not (await signals the error slot of its own coroutine).
AwaitVerdict ==
    outcome[1] \in {"joined", "reaped"} =>
        LET t == outcome[2] IN
        outcome[3] = IF body[t] = "signalled" THEN <<"signal", t>> ELSE Nil
=============================================================================
