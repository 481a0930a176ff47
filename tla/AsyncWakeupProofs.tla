------------------------- MODULE AsyncWakeupProofs --------------------------
(***************************************************************************)
(* No wakeup is lost: in a session with an event loop, every coroutine that*)
(* can run, has yielded or waits for a transfer has a tick to come.        *)
(***************************************************************************)
EXTENDS AsyncSchedulerProofs

\* An event loop runs, and coroutine bodies do not wait for events.
Interactive == ~noninteractive /\ ~NestedEvents

\* What each coroutine is owed.  One that yielded has a wakeup pending: the
\* tick in flight, if any, resumed all that had yielded before it began.
Owed(c) ==
    /\ Waiting(c, "NONE") => wakeups > 0
    /\ Waiting(c, "FD") => wakeups > 0 \/ in_tick
    /\ (state[c] = "RUNNABLE" /\ op[c] # "receive") =>
         wakeups > 0 \/ (in_tick /\ c \in From(next_c))

\* The strengthening of NoLostWakeup that is inductive.
DriveInv ==
    /\ ~(in_tick /\ async_tick_forbidden)
    /\ Interactive => \A c \in Coro : Owed(c)

\* A step that leaves a wakeup pending owes nothing.
LEMMA DriveArmed ==
    ASSUME wakeups' > 0, DriveInv, UNCHANGED <<in_tick, async_tick_forbidden>>
    PROVE  DriveInv'
  BY DEF DriveInv, Owed, Waiting

\* A step that leaves the lists, the tick and the wakeups alone, and puts no
\* coroutine into a state in which it is owed a tick.
LEMMA DriveSame ==
    ASSUME DriveInv, wakeups \in Nat, wakeups' \in Nat, wakeups' >= wakeups,
           UNCHANGED <<in_tick, next_c, born, all_coros, async_tick_forbidden>>,
           \A c \in Coro :
             \/ state'[c] = state[c] /\ wait_reason'[c] = wait_reason[c]
                /\ op'[c] = op[c]
             \/ state'[c] = "RUNNABLE" /\ op'[c] = "receive"
             \/ state'[c] = "SUSPENDED" /\ wait_reason'[c] \in {"MAILBOX", "TIMER", "JOIN"}
             \/ state'[c] \in {"RUNNING", "DEAD", "REAPED"}
    PROVE  DriveInv'
<1>1. From(next_c)' = From(next_c)
  BY DEF From
<1> QED BY <1>1 DEF DriveInv, Owed, Waiting

\* With an event loop, arming a wakeup adds one.
LEMMA ArmMore ==
    ASSUME IInv, Interactive, NEW n \in Nat
    PROVE  Arm(n) = wakeups + n /\ wakeups \in Nat
  BY DEF IInv, TypeOK, DataTypes, Interactive, Arm

\* The tick begins: everything that has yielded is RUNNABLE and on the list
\* from the cursor on.
LEMMA DriveTick ==
    ASSUME IInv, DriveInv, tick_begin
    PROVE  DriveInv'
<1> USE CoroAssumption DEF IInv, TypeOK
<1>1. /\ in_tick' = TRUE /\ ~async_tick_forbidden' /\ next_c' = NewestOf(all_coros)
      /\ UNCHANGED <<all_coros, born, op>>
  BY DEF tick_begin, links
<1>2. \A c \in Coro : state'[c] = "RUNNABLE" => c \in all_coros
  <2>1. \A c \in Coro : state'[c] = "RUNNABLE" => state[c] \in Live
    <3>1. PICK ok \in SUBSET inflight : \E failed \in SUBSET (inflight \ ok) :
           \E late \in SUBSET {d \in all_coros : Waiting(d, "TIMER")} :
             Resumed(ok, failed, Yielded, late)
      BY DEF tick_begin
    <3> QED BY <3>1 DEF Resumed, WaitersSuspended, Waiting, Yielded, Live
  <2> QED BY <2>1 DEF ListsMatchStates
<1>3. \A c \in Coro : ~(state'[c] = "SUSPENDED" /\ wait_reason'[c] = "NONE")
  <2>1. PICK ok \in SUBSET inflight : \E failed \in SUBSET (inflight \ ok) :
           \E late \in SUBSET {d \in all_coros : Waiting(d, "TIMER")} :
             Resumed(ok, failed, Yielded, late)
    BY DEF tick_begin
  <2>2. \A c \in Coro : Waiting(c, "NONE") => c \in Yielded
    BY DEF Yielded, Waiting, ListsMatchStates, Live
  <2> QED BY <2>1, <2>2 DEF Resumed, Waiting
<1>4. \A c \in all_coros : c \in From(next_c)'
  <2> SUFFICES ASSUME NEW c \in all_coros PROVE c \in From(next_c)'
    OBVIOUS
  <2>1. all_coros \in SUBSET Coro /\ all_coros # {}
    BY DEF ControlTypes
  <2>2. next_c' \in all_coros /\ born[c] <= born[next_c']
    BY <1>1, <2>1, NewestInSet
  <2> QED BY <1>1, <2>1, <2>2 DEF From
<1> QED BY <1>1, <1>2, <1>3, <1>4 DEF DriveInv, Owed, Waiting

\* Phase 2 goes to the newest RUNNABLE coroutine from the cursor on, so the
\* others stay ahead of it.
LEMMA DriveRun ==
    ASSUME IInv, DriveInv, tick_run_next
    PROVE  DriveInv'
<1> USE CoroAssumption DEF IInv, TypeOK
<1> DEFINE ready == {d \in From(next_c) : state[d] = "RUNNABLE"}
           c == NewestOf(ready)
<1>1. ready \in SUBSET Coro /\ ready # {}
  BY DEF From, ControlTypes, tick_run_next
<1>2. c \in ready /\ \A d \in ready : born[d] <= born[c]
  BY <1>1, NewestInSet
<1>3. /\ state' = [state EXCEPT ![c] = "RUNNING"] /\ next_c' = Successor(c)
      /\ op' = [op EXCEPT ![c] = "body"]
      /\ UNCHANGED <<wait_reason, in_tick, async_tick_forbidden, wakeups,
                     born, all_coros>>
  BY DEF tick_run_next, links
<1>4. c \in Coro /\ c \in all_coros /\ state[c] = "RUNNABLE"
  BY <1>1, <1>2 DEF From
<1>5. ASSUME NEW d \in ready, d # c PROVE d \in From(next_c)'
  <2> DEFINE S == {x \in all_coros : born[x] < born[c]}
  <2>1. d \in Coro /\ d \in all_coros /\ state[d] = "RUNNABLE"
    BY <1>1 DEF From
  <2>2. born[d] < born[c]
    <3>0. \A x \in Coro : born[x] \in Nat
      BY DEF ControlTypes
    <3>1. born[d] \in Nat /\ born[c] \in Nat /\ born[d] <= born[c]
      BY <1>2, <1>4, <2>1, <3>0
    <3>2. born[d] # born[c]
      BY <1>4, <1>5, <2>1 DEF BirthOrder
    <3> QED BY <3>1, <3>2
  <2>3. S \in SUBSET Coro /\ S # {} /\ d \in S
    BY <2>1, <2>2 DEF ControlTypes
  <2>4. NewestOf(S) \in S /\ born[d] <= born[NewestOf(S)]
    BY <2>3, NewestInSet
  <2>5. next_c' = NewestOf(S)
    BY <1>3 DEF Successor
  <2> HIDE DEF S
  <2>6. next_c' # Nil
    BY <2>3, <2>4, <2>5
  <2> QED BY <1>3, <2>1, <2>4, <2>5, <2>6 DEF From
<1> HIDE DEF c
<1>6. ASSUME NEW d \in Coro, Owed(d) PROVE Owed(d)'
  <2>1. CASE d = c
    BY <1>3, <1>4, <2>1 DEF Owed, Waiting, ControlTypes
  <2>2. CASE d # c
    <3>1. state'[d] = state[d] /\ op'[d] = op[d]
      BY <1>3, <1>4, <2>2 DEF ControlTypes
    <3>2. d \in From(next_c) /\ state[d] = "RUNNABLE" => d \in From(next_c)'
      BY <1>5, <2>2
    <3> QED BY <1>3, <1>6, <3>1, <3>2 DEF Owed, Waiting
  <2> QED BY <2>1, <2>2
<1> QED BY <1>3, <1>6 DEF DriveInv

\* The tick ends: no RUNNABLE coroutine is left ahead of the cursor, and a
\* wakeup is armed if a transfer is pending.
LEMMA DriveEnd ==
    ASSUME IInv, DriveInv, tick_end
    PROVE  DriveInv'
<1> USE CoroAssumption DEF IInv, TypeOK
<1>1. /\ in_tick' = FALSE /\ UNCHANGED <<state, wait_reason, op>>
      /\ wakeups' = IF HasWaitFd THEN Arm(1) ELSE wakeups
      /\ \A d \in From(next_c) : state[d] # "RUNNABLE"
  BY DEF tick_end, slots, frame
<1>2. ASSUME Interactive, NEW c \in Coro PROVE Owed(c)'
  <2>1. wakeups \in Nat /\ wakeups' \in Nat /\ wakeups' >= wakeups
    BY <1>1, <1>2, ArmMore
  <2>2. Waiting(c, "FD") => wakeups' > 0
    <3>1. Waiting(c, "FD") => HasWaitFd
      BY DEF HasWaitFd, Waiting, ListsMatchStates, Live
    <3> QED BY <1>1, <1>2, <3>1, ArmMore
  <2>3. Owed(c)
    BY <1>2 DEF DriveInv
  <2> QED BY <1>1, <2>1, <2>2, <2>3 DEF Owed, Waiting
<1> QED BY <1>1, <1>2 DEF DriveInv

\* A coroutine that ends arms a wakeup for its joiner; its monitors are woken
\* inside a receive.
LEMMA DriveExit ==
    ASSUME IInv, DriveInv, NEW how, coro_trampoline_exit(how)
    PROVE  DriveInv'
<1> USE CoroAssumption DEF IInv, TypeOK
<1> DEFINE c == current_coro
           j == join_waiter[c]
           woken == {w \in {x \in Coro : monitor_list[c][x] > 0 /\ state[x] \in Live} :
                        WokeMailbox(w)}
<1>1. /\ state' = [x \in Coro |-> IF x = c THEN "DEAD"
                                  ELSE IF x = j \/ x \in woken THEN "RUNNABLE"
                                  ELSE state[x]]
      /\ wait_reason' = [x \in Coro |-> IF x = j \/ x \in woken THEN "NONE"
                                        ELSE wait_reason[x]]
      /\ all_coros' = all_coros \ {c}
      /\ wakeups' = IF j # Nil THEN Arm(1) ELSE wakeups
      /\ UNCHANGED <<born, in_tick, next_c, async_tick_forbidden, op>>
  BY DEF coro_trampoline_exit, Unlinked, frame
<1>2. \A x \in woken : op[x] = "receive"
  BY DEF WokeMailbox, Waiting, FrameOK
<1> HIDE DEF c, j, woken
<1>3. ASSUME Interactive, NEW x \in Coro PROVE Owed(x)'
  <2>0. Owed(x)
    BY <1>3 DEF DriveInv
  <2>1. CASE j # Nil
    <3>1. wakeups' > 0
      BY <1>1, <1>3, <2>1, ArmMore
    <3> QED BY <3>1 DEF Owed, Waiting
  <2>2. CASE j = Nil
    <3>1. wakeups' = wakeups
      BY <1>1, <2>2
    <3>2. CASE x = c
      BY <1>1, <3>2 DEF Owed, Waiting
    <3>3. CASE x # c
      <4>1. x \in From(next_c) => x \in From(next_c)'
        BY <1>1, <3>3 DEF From
      <4>2. CASE x \in woken
        BY <1>1, <1>2, <3>3, <4>2 DEF Owed, Waiting
      <4>3. CASE x \notin woken
        <5>1. state'[x] = state[x] /\ wait_reason'[x] = wait_reason[x]
          BY <1>1, <2>2, <3>3, <4>3
        <5> QED BY <1>1, <2>0, <3>1, <4>1, <5>1 DEF Owed, Waiting
      <4> QED BY <4>2, <4>3
    <3> QED BY <3>2, <3>3
  <2> QED BY <2>1, <2>2
<1> QED BY <1>1, <1>3 DEF DriveInv

\* A send wakes its recipient inside a receive.
LEMMA DriveSend ==
    ASSUME IInv, DriveInv, NEW t \in Coro, actor_send_internal(t)
    PROVE  DriveInv'
<1> USE CoroAssumption DEF IInv, TypeOK
<1>1. UNCHANGED <<in_tick, next_c, born, all_coros, async_tick_forbidden, op>>
  BY DEF actor_send_internal, links, frame
<1>2. wakeups \in Nat /\ wakeups' \in Nat /\ wakeups' >= wakeups
  BY DEF DataTypes, actor_send_internal, Arm
<1>3. CASE WokeMailbox(t)
  <2>1. /\ state' = [state EXCEPT ![t] = "RUNNABLE"] /\ op[t] = "receive"
        /\ wait_reason' = [wait_reason EXCEPT ![t] = "NONE"]
    BY <1>3 DEF actor_send_internal, WokeMailbox, Waiting, FrameOK
  <2> QED BY <1>1, <1>2, <2>1, DriveSame DEF ControlTypes
<1>4. CASE ~WokeMailbox(t)
  <2>1. UNCHANGED <<state, wait_reason>>
    BY <1>4 DEF actor_send_internal, slots
  <2> QED BY <1>1, <1>2, <2>1, DriveSame
<1> QED BY <1>3, <1>4

\* coro_yield arms a wakeup unless another coroutine will do the waking.
LEMMA DriveYield ==
    ASSUME IInv, DriveInv, current_coro # Nil, NEW r \in Reasons, NEW o,
           coro_yield(r, o)
    PROVE  DriveInv'
<1> USE CoroAssumption DEF IInv, TypeOK
<1>1. /\ current_coro \in Coro
      /\ state' = [state EXCEPT ![current_coro] = "SUSPENDED"]
      /\ wait_reason' = [wait_reason EXCEPT ![current_coro] = r]
      /\ op' = [op EXCEPT ![current_coro] = o]
      /\ UNCHANGED <<in_tick, next_c, born, all_coros, async_tick_forbidden>>
      /\ wakeups' = Arm(YieldWakeups(r))
  BY DEF ControlTypes, coro_yield
<1>2. CASE ~Interactive
  BY <1>1, <1>2 DEF DriveInv, Interactive
<1>3. CASE Interactive /\ r \in {"NONE", "FD", "TIMER"}
  <2>1. wakeups' > 0
    BY <1>1, <1>3, ArmMore DEF YieldWakeups
  <2> QED BY <1>1, <2>1, DriveArmed
<1>4. CASE Interactive /\ r \in {"MAILBOX", "JOIN"}
  <2>1. wakeups' = wakeups /\ wakeups \in Nat
    BY <1>1, <1>4, ArmMore DEF YieldWakeups
  <2> QED BY <1>1, <1>4, <2>1, DriveSame DEF ControlTypes
<1> QED BY <1>2, <1>3, <1>4 DEF Reasons

\* A transfer that completes below next_event_internal, where no tick is in
\* flight, has a wakeup pending.
LEMMA DrivePollFds ==
    ASSUME IInv, DriveInv, poll_fds_for_input
    PROVE  DriveInv'
<1> USE CoroAssumption DEF IInv, TypeOK
<1>0. UNCHANGED <<in_tick, next_c, born, all_coros, async_tick_forbidden, wakeups, op>>
  BY DEF poll_fds_for_input, sched, links
<1>1. PICK ok \in SUBSET inflight : \E failed \in SUBSET (inflight \ ok) :
          ok \cup failed # {} /\ Resumed(ok, failed, {}, {})
  BY DEF poll_fds_for_input
<1>2. PICK failed \in SUBSET (inflight \ ok) :
          ok \cup failed # {} /\ Resumed(ok, failed, {}, {})
  BY <1>1
<1>3. CASE ~Interactive
  BY <1>0, <1>3 DEF DriveInv, Interactive
<1>4. CASE Interactive
  <2>1. ~in_tick
    BY <1>4 DEF poll_fds_for_input, DriveInv, Interactive
  <2>2. PICK c \in ok \cup failed : c \in Coro /\ Waiting(c, "FD")
    BY <1>2 DEF WaitersSuspended, ControlTypes
  <2>3. wakeups > 0
    BY <1>4, <2>1, <2>2 DEF DriveInv, Owed
  <2> QED BY <1>0, <2>3, DriveArmed
<1> QED BY <1>3, <1>4

\* Every step leaves each coroutine what it is owed.
LEMMA DriveStep ==
    ASSUME IInv, DriveInv, [Next]_vars
    PROVE  DriveInv'
<1> USE CoroAssumption
<1>w. wakeups \in Nat
  BY DEF IInv, TypeOK, DataTypes
<1>1. ASSUME NEW c \in Coro, coro_spawn(c) PROVE DriveInv'
  <2>0. UNCHANGED <<in_tick, async_tick_forbidden>> /\ wakeups' = Arm(1)
    BY <1>1 DEF coro_spawn
  <2>1. CASE Interactive
    <3>1. wakeups' > 0
      BY <2>0, <2>1, ArmMore
    <3> QED BY <2>0, <3>1, DriveArmed
  <2>2. CASE ~Interactive
    BY <2>0, <2>2 DEF DriveInv, Interactive
  <2> QED BY <2>1, <2>2
<1>2. ASSUME NEW t \in Coro, actor_send_internal(t) PROVE DriveInv'
  BY <1>2, DriveSend
<1>3. ASSUME NEW t \in Coro, actor_join_dead(t) PROVE DriveInv'
  <2>1. /\ UNCHANGED <<in_tick, next_c, born, all_coros, async_tick_forbidden,
                       wakeups, wait_reason, op>>
        /\ state' = [state EXCEPT ![t] = "REAPED"]
    BY <1>3 DEF actor_join_dead, sched, frame
  <2>2. state \in [Coro -> States]
    BY DEF IInv, TypeOK, ControlTypes
  <2> QED BY <1>w, <2>1, <2>2, DriveSame
<1>4. CASE \/ async_coroutine_yield
           \/ \E timed \in BOOLEAN : actor_receive_wait(timed)
           \/ \E t \in Coro : actor_join_live(t)
           \/ async_http_start
  <2>1. current_coro # Nil /\ \E r \in Reasons, o \in Ops : coro_yield(r, o)
    BY <1>4 DEF async_coroutine_yield, actor_receive_wait, actor_join_live,
                async_http_start, Reasons, Ops
  <2> QED BY <2>1, DriveYield
<1>5. ASSUME NEW how \in {"returned", "signalled"}, coro_trampoline_exit(how)
      PROVE  DriveInv'
  BY <1>5, DriveExit
<1>6. CASE async_scheduler_tick_poll
  BY <1>6, DriveTick DEF async_scheduler_tick_poll
<1>7. CASE async_scheduler_tick_from_timer
  <2>1. CASE ~TickBlocked
    BY <1>7, <2>1, DriveTick DEF async_scheduler_tick_from_timer
  <2>2. CASE TickBlocked
    <3>1. all_coros = {} /\ UNCHANGED <<state, wait_reason, in_tick,
                                        async_tick_forbidden>>
      BY <1>7, <2>2 DEF async_scheduler_tick_from_timer, TickBlocked, TopLevel, slots
    <3>2. \A c \in Coro : state[c] \notin Live
      BY <3>1 DEF IInv, ListsMatchStates
    <3> QED BY <3>1, <3>2 DEF DriveInv, Owed, Waiting, Live
  <2> QED BY <2>1, <2>2
<1>8. CASE tick_run_next
  BY <1>8, DriveRun
<1>9. CASE tick_end
  BY <1>9, DriveEnd
<1>10. CASE poll_fds_for_input
  BY <1>10, DrivePollFds
<1>11. CASE nested_timer_dispatch
  BY <1>11 DEF nested_timer_dispatch, DriveInv, Interactive
<1>12. CASE next_event_enter \/ next_event_leave
  <2>1. /\ UNCHANGED <<state, wait_reason, in_tick, next_c, born, all_coros,
                       wakeups, op>>
        /\ ~(in_tick /\ async_tick_forbidden')
    BY <1>12 DEF next_event_enter, next_event_leave, TopLevel, slots, links, frame
  <2>2. From(next_c)' = From(next_c)
    BY <2>1 DEF From
  <2> QED BY <2>1, <2>2 DEF DriveInv, Owed, Waiting
<1>13. CASE \/ \E t, w \in Coro : actor_monitor_internal(t, w)
            \/ actor_receive_queued \/ UNCHANGED vars
  <2>1. /\ UNCHANGED <<state, wait_reason, in_tick, next_c, born, all_coros,
                       async_tick_forbidden, wakeups, op>>
    BY <1>13 DEF actor_monitor_internal, actor_receive_queued, vars, slots,
                 links, sched, frame
  <2> QED BY <1>w, <2>1, DriveSame
<1> QED BY <1>1, <1>2, <1>3, <1>4, <1>5, <1>6, <1>7, <1>8, <1>9, <1>10, <1>11,
           <1>12, <1>13 DEF Next

\* In a session with an event loop, whose bodies do not wait for events, no
\* coroutine that can run, has yielded or waits for a transfer is left without
\* a tick to come.
THEOREM WakeupsNotLost == Spec => []NoLostWakeup
<1>1. Init => DriveInv
  BY DEF Init, DriveInv, Owed, Waiting
<1>2. IInv /\ DriveInv /\ [Next]_vars => DriveInv'
  BY DriveStep
<1>3. IInv /\ DriveInv => NoLostWakeup
  BY DEF IInv, TypeOK, ControlTypes, DriveInv, Interactive, Owed, Waiting,
         NoLostWakeup, Driven
<1> QED BY <1>1, <1>2, <1>3, Invariance, PTL DEF Spec
=============================================================================
