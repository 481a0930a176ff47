------------------------ MODULE AsyncSchedulerProofs ------------------------
(***************************************************************************)
(* The inductive invariant of AsyncScheduler, proved for any number of     *)
(* coroutines and any bounds, what follows from it, and the refinement of  *)
(* CoroLifecycle.                                                          *)
(***************************************************************************)
EXTENDS AsyncScheduler, WellFoundedInduction, TLAPS

\* A non-empty set of numbers has a least element.
LEMMA LeastNat ==
    ASSUME NEW T, T \subseteq Nat, T # {}
    PROVE  \E x \in T : \A y \in T : x <= y
<1>1. \E x \in T : \A y \in T : ~ (<<y, x>> \in OpToRel(<, Nat))
  BY NatLessThanWellFounded, WFMin, Zenon
<1>2. \A x, y \in Nat : ~(<<y, x>> \in OpToRel(<, Nat)) => x <= y
  BY DEF OpToRel
<1> QED BY <1>1, <1>2

\* The walk along all_coros is well defined: a non-empty set of coroutines
\* has a newest member, and NewestOf picks it.
LEMMA NewestInSet ==
    ASSUME ControlTypes, NEW S \in SUBSET Coro, S # {}
    PROVE  NewestOf(S) \in S /\ \A d \in S : born[d] <= born[NewestOf(S)]
<1>0. spawned \in Nat /\ \A x \in S : born[x] \in 0..spawned
  BY DEF ControlTypes
<1> DEFINE T == {spawned - born[x] : x \in S}
<1>1. T \subseteq Nat /\ T # {}
  BY <1>0
<1>2. PICK m \in T : \A y \in T : m <= y
  BY <1>1, LeastNat
<1>3. PICK x \in S : m = spawned - born[x]
  BY <1>2
<1>4. ASSUME NEW y \in S PROVE born[y] <= born[x]
  <2>1. spawned - born[y] \in T
    OBVIOUS
  <2> HIDE DEF T
  <2>2. spawned - born[x] <= spawned - born[y]
    BY <1>2, <1>3, <2>1
  <2> QED BY <1>0, <2>2
<1> QED BY <1>4 DEF NewestOf

\* The primitive a coroutine is suspended in fits the reason it waits for,
\* and what a receive will return is a message or nil.
FrameOK ==
    \A c \in Coro :
        /\ Waiting(c, "NONE") => op[c] = "yield"
        /\ Waiting(c, "FD") => op[c] = "http"
        /\ Waiting(c, "TIMER") \/ Waiting(c, "MAILBOX") => op[c] = "receive"
        /\ Waiting(c, "JOIN") => op[c] = "join"
        /\ state[c] \notin {"SUSPENDED", "RUNNABLE"} => op[c] = "body"
        /\ op[c] = "join" => peer[c] \in Coro
        /\ state[c] = "RUNNABLE" /\ op[c] = "receive" =>
               result[c] \in {Nil} \cup ({"msg"} \X Nat)

\* Spawn order is a total order of the coroutines spawned so far.
BirthOrder ==
    /\ \A c \in Coro : state[c] # "UNBORN" => born[c] > 0
    /\ \A c, d \in Coro : /\ state[c] # "UNBORN" /\ state[d] # "UNBORN"
                          /\ born[c] = born[d]
                          => c = d

\* Phase 2 saved the cursor's successor, not the coroutine it switched to.
CursorPast == next_c # Nil => next_c # current_coro

\* The inductive invariant.
IInv ==
    /\ TypeOK
    /\ ListsMatchStates
    /\ WaitersSuspended
    /\ CursorLive
    /\ CursorPast
    /\ FrameOK
    /\ BirthOrder

\* A freshly started XEmacs satisfies the inductive invariant.
LEMMA InitIInv == Init => IInv
<1> SUFFICES ASSUME Init PROVE IInv
  OBVIOUS
<1> USE CoroAssumption DEF Init
<1>1. ControlTypes
  <2>1. born \in [Coro -> 0..spawned] /\ spawned \in Nat
    OBVIOUS
  <2> QED BY <2>1 DEF ControlTypes, States, Reasons, Ops
<1>2. DataTypes
  BY DEF DataTypes, Values, Slots, Outcomes, None
<1>3. ListsMatchStates /\ CursorLive /\ CursorPast /\ BirthOrder
  BY DEF ListsMatchStates, CursorLive, CursorPast, BirthOrder, Live
<1>4. WaitersSuspended /\ FrameOK
  BY DEF WaitersSuspended, FrameOK, Waiting
<1> QED BY <1>1, <1>2, <1>3, <1>4 DEF IInv, TypeOK

\* coro_spawn preserves the invariant: the new coroutine is the newest.
LEMMA SpawnStep == ASSUME IInv, NEW c \in Coro, coro_spawn(c) PROVE IInv'
<1> USE CoroAssumption DEF IInv, TypeOK
<1>1. ControlTypes'
  BY DEF ControlTypes, coro_spawn, States, frame
<1>2. DataTypes'
  BY DEF DataTypes, coro_spawn, Values, hist, Arm
<1>3. ListsMatchStates'
  BY DEF ControlTypes, coro_spawn, ListsMatchStates, Live
<1>4. WaitersSuspended'
  BY DEF ControlTypes, coro_spawn, WaitersSuspended, Live, Waiting, frame
<1>5. CursorLive' /\ CursorPast'
  BY DEF coro_spawn, CursorLive, CursorPast
<1>6. FrameOK'
  BY DEF ControlTypes, coro_spawn, FrameOK, Waiting, frame
<1>7. BirthOrder'
  BY DEF ControlTypes, coro_spawn, BirthOrder
<1> QED BY <1>1, <1>2, <1>3, <1>4, <1>5, <1>6, <1>7

\* actor_send_internal resumes at most an actor blocked on its mailbox.
LEMMA SendStep == ASSUME IInv, NEW t \in Coro, actor_send_internal(t) PROVE IInv'
<1> USE CoroAssumption DEF IInv, TypeOK
<1>1. ControlTypes'
  BY DEF ControlTypes, actor_send_internal, slots, links, frame, States,
         Reasons
<1>2. DataTypes'
  <2>1. sent[t] + 1 \in Nat /\ Msg(sent[t] + 1) \in Values /\ Nil \in Slots
    BY DEF DataTypes, Msg, Values, Slots
  <2>2. result' \in [Coro -> Values] /\ error' \in [Coro -> Slots]
    <3>1. CASE WokeMailbox(t)
      <4>1. /\ result' = [result EXCEPT ![t] = Msg(sent[t] + 1)]
            /\ error' = [error EXCEPT ![t] = Nil]
        BY <3>1 DEF actor_send_internal
      <4> QED BY <2>1, <4>1 DEF DataTypes
    <3>2. CASE ~WokeMailbox(t)
      BY <3>2 DEF DataTypes, actor_send_internal, slots
    <3> QED BY <3>1, <3>2
  <2>3. mailbox' \in [Coro -> Seq(Nat)]
    BY <2>1 DEF DataTypes, actor_send_internal, Nconc
  <2> QED BY <2>1, <2>2, <2>3 DEF DataTypes, actor_send_internal, links, Arm
<1>3. ListsMatchStates'
  BY DEF ControlTypes, actor_send_internal, WokeMailbox, IsHandle, Waiting,
         slots, links, ListsMatchStates, Live
<1>4. WaitersSuspended'
  <2>1. \A x \in Coro : state[x] \in Live => state'[x] \in Live
    BY DEF ControlTypes, actor_send_internal, slots, Live
  <2>2. \A x \in Coro : wait_reason[x] # "MAILBOX" =>
          state'[x] = state[x] /\ wait_reason'[x] = wait_reason[x]
    BY DEF ControlTypes, actor_send_internal, slots, WokeMailbox, Waiting
  <2>3. UNCHANGED <<join_waiter, peer, inflight>>
    BY DEF actor_send_internal, links, frame
  <2> QED BY <2>1, <2>2, <2>3 DEF ControlTypes, WaitersSuspended, Waiting
<1>5. CursorLive' /\ CursorPast'
  BY DEF actor_send_internal, links, CursorLive, CursorPast
<1>6. FrameOK'
  <2>1. sent[t] + 1 \in Nat
    BY DEF DataTypes
  <2>2. UNCHANGED <<op, peer>>
    BY DEF actor_send_internal, frame
  <2>3. CASE WokeMailbox(t)
    <3>1. /\ state' = [state EXCEPT ![t] = "RUNNABLE"]
          /\ wait_reason' = [wait_reason EXCEPT ![t] = "NONE"]
          /\ result' = [result EXCEPT ![t] = Msg(sent[t] + 1)]
      BY <2>3 DEF actor_send_internal
    <3>2. result \in [Coro -> Values]
      BY DEF DataTypes
    <3> QED BY <2>1, <2>2, <2>3, <3>1, <3>2
            DEF ControlTypes, FrameOK, Waiting, WokeMailbox, Msg
  <2>4. CASE ~WokeMailbox(t)
    BY <2>2, <2>4 DEF actor_send_internal, slots, FrameOK, Waiting
  <2> QED BY <2>3, <2>4
<1>7. BirthOrder'
  BY DEF ControlTypes, actor_send_internal, WokeMailbox, Waiting, slots, links,
         BirthOrder
<1> QED BY <1>1, <1>2, <1>3, <1>4, <1>5, <1>6, <1>7

\* actor-monitor-internal only registers a watcher.
LEMMA MonitorStep ==
    ASSUME IInv, NEW t \in Coro, NEW w \in Coro, actor_monitor_internal(t, w)
    PROVE  IInv'
<1> USE CoroAssumption DEF IInv, TypeOK
<1>1. ControlTypes'
  BY DEF ControlTypes, actor_monitor_internal, slots, sched, frame
<1>2. DataTypes'
  <2>1. monitor_list' \in [Coro -> [Coro -> Nat]]
    BY DEF DataTypes, actor_monitor_internal
  <2> QED BY <2>1 DEF DataTypes, actor_monitor_internal, slots, sched, hist
<1>3. ListsMatchStates'
  BY DEF actor_monitor_internal, slots, sched, ListsMatchStates
<1>4. WaitersSuspended'
  BY DEF actor_monitor_internal, slots, frame, WaitersSuspended, Waiting
<1>5. CursorLive' /\ CursorPast'
  BY DEF actor_monitor_internal, sched, CursorLive, CursorPast
<1>6. FrameOK'
  BY DEF actor_monitor_internal, slots, frame, FrameOK, Waiting
<1>7. BirthOrder'
  BY DEF actor_monitor_internal, slots, BirthOrder
<1> QED BY <1>1, <1>2, <1>3, <1>4, <1>5, <1>6, <1>7

\* actor-receive-internal takes the head of a mailbox of numbers.
LEMMA ReceiveQueuedStep == ASSUME IInv, actor_receive_queued PROVE IInv'
<1> USE CoroAssumption DEF IInv, TypeOK
<1>1. ControlTypes'
  BY DEF ControlTypes, actor_receive_queued, slots, links, sched, frame
<1>2. DataTypes'
  <2>1. /\ current_coro \in Coro
        /\ mailbox[current_coro] \in Seq(Nat)
        /\ mailbox[current_coro] # <<>>
    BY DEF ControlTypes, DataTypes, actor_receive_queued
  <2>2. /\ Head(mailbox[current_coro]) \in Nat
        /\ Tail(mailbox[current_coro]) \in Seq(Nat)
    BY <2>1
  <2>3. outcome' \in Outcomes
    BY <2>2 DEF actor_receive_queued, Outcomes, Values, Msg
  <2> QED BY <2>1, <2>2, <2>3
          DEF DataTypes, actor_receive_queued, slots, links, sched
<1>3. ListsMatchStates'
  BY DEF actor_receive_queued, slots, links, sched, ListsMatchStates
<1>4. WaitersSuspended'
  BY DEF actor_receive_queued, slots, links, frame, WaitersSuspended, Waiting
<1>5. CursorLive' /\ CursorPast'
  BY DEF actor_receive_queued, links, sched, CursorLive, CursorPast
<1>6. FrameOK'
  BY DEF actor_receive_queued, slots, frame, FrameOK, Waiting
<1>7. BirthOrder'
  BY DEF actor_receive_queued, slots, links, BirthOrder
<1> QED BY <1>1, <1>2, <1>3, <1>4, <1>5, <1>6, <1>7

\* actor-join-internal frees a coroutine of the graveyard, which nobody waits
\* for and no cursor points to.
LEMMA JoinDeadStep == ASSUME IInv, NEW t \in Coro, actor_join_dead(t) PROVE IInv'
<1> USE CoroAssumption DEF IInv, TypeOK
<1>1. ControlTypes'
  BY DEF ControlTypes, actor_join_dead, sched, frame, States
<1>2. DataTypes'
  <2>1. /\ current_coro \in Coro
        /\ error[current_coro] \in Slots /\ result[t] \in Values
    BY DEF ControlTypes, DataTypes, actor_join_dead
  <2>2. outcome' \in Outcomes
    BY <2>1 DEF actor_join_dead, Outcomes
  <2> QED BY <2>2 DEF DataTypes, actor_join_dead, sched
<1>3. ListsMatchStates'
  BY DEF ControlTypes, actor_join_dead, sched, ListsMatchStates, Live
<1>4. WaitersSuspended'
  BY DEF ControlTypes, actor_join_dead, frame, WaitersSuspended, Live, Waiting
<1>5. CursorLive' /\ CursorPast'
  BY DEF actor_join_dead, sched, CursorLive, CursorPast
<1>6. FrameOK'
  BY DEF ControlTypes, actor_join_dead, frame, FrameOK, Waiting
<1>7. BirthOrder'
  BY DEF ControlTypes, actor_join_dead, BirthOrder
<1> QED BY <1>1, <1>2, <1>3, <1>4, <1>5, <1>6, <1>7

\* The part of a suspension that all the primitives share.
LEMMA CoroYieldStep ==
    ASSUME IInv, current_coro # Nil, NEW r, NEW o, coro_yield(r, o),
           \/ <<r, o>> \in {<<"NONE", "yield">>, <<"TIMER", "receive">>,
                            <<"MAILBOX", "receive">>}
              /\ UNCHANGED <<join_waiter, inflight, peer>>
           \/ /\ r = "FD" /\ o = "http"
              /\ inflight' = inflight \cup {current_coro}
              /\ UNCHANGED <<join_waiter, peer>>
           \/ /\ r = "JOIN" /\ o = "join" /\ inflight' = inflight
              /\ \E t \in Coro :
                   /\ state[t] \in Live
                   /\ join_waiter' = [join_waiter EXCEPT ![t] = current_coro]
                   /\ peer' = [peer EXCEPT ![current_coro] = t]
    PROVE  IInv'
<1> USE CoroAssumption DEF IInv, TypeOK
<1>0. /\ current_coro \in Coro /\ state[current_coro] = "RUNNING"
      /\ r \in Reasons /\ o \in Ops
      /\ state' = [state EXCEPT ![current_coro] = "SUSPENDED"]
      /\ wait_reason' = [wait_reason EXCEPT ![current_coro] = r]
  BY DEF ControlTypes, ListsMatchStates, coro_yield, Reasons, Ops
<1>1. ControlTypes'
  BY <1>0 DEF ControlTypes, coro_yield, States
<1>2. DataTypes'
  BY DEF DataTypes, coro_yield, YieldWakeups, Outcomes, None, Arm
<1>3. ListsMatchStates'
  BY <1>0 DEF ControlTypes, coro_yield, ListsMatchStates, Live
<1>4. WaitersSuspended'
  <2>1. \A x \in Coro : x # current_coro /\ state[x] = "SUSPENDED"
          => state'[x] = state[x] /\ wait_reason'[x] = wait_reason[x]
    BY <1>0 DEF ControlTypes
  <2>2. ASSUME NEW x \in inflight' PROVE Waiting(x, "FD")'
    BY <1>0, <2>1 DEF ControlTypes, WaitersSuspended, Waiting
  <2>3. ASSUME NEW x \in Coro, join_waiter'[x] # Nil
        PROVE  /\ state'[join_waiter'[x]] = "SUSPENDED"
               /\ wait_reason'[join_waiter'[x]] = "JOIN"
               /\ peer'[join_waiter'[x]] = x
               /\ state'[x] \in Live
    <3>1. \A y \in Coro : state[y] \in Live => state'[y] \in Live
      BY <1>0 DEF ControlTypes, Live
    <3>2. CASE join_waiter' = join_waiter /\ peer' = peer
      BY <1>0, <2>1, <2>3, <3>1, <3>2 DEF ControlTypes, WaitersSuspended, Waiting
    <3>3. CASE ~(join_waiter' = join_waiter /\ peer' = peer)
      <4>1. PICK t \in Coro :
              /\ state[t] \in Live
              /\ join_waiter' = [join_waiter EXCEPT ![t] = current_coro]
              /\ peer' = [peer EXCEPT ![current_coro] = t]
        BY <3>3
      <4>2. r = "JOIN"
        BY <3>3
      <4>3. CASE x = t
        BY <1>0, <3>1, <4>1, <4>2, <4>3 DEF ControlTypes, Waiting
      <4>4. CASE x # t
        BY <1>0, <2>1, <2>3, <3>1, <4>1, <4>4
           DEF ControlTypes, WaitersSuspended, Waiting
      <4> QED BY <4>3, <4>4
    <3> QED BY <3>2, <3>3
  <2> QED BY <2>2, <2>3 DEF WaitersSuspended, Waiting
<1>5. CursorLive' /\ CursorPast'
  BY DEF coro_yield, CursorLive, CursorPast
<1>6. FrameOK'
  BY <1>0 DEF ControlTypes, coro_yield, FrameOK, Waiting
<1>7. BirthOrder'
  BY <1>0 DEF ControlTypes, coro_yield, BirthOrder
<1> QED BY <1>1, <1>2, <1>3, <1>4, <1>5, <1>6, <1>7

\* The four primitives that suspend their caller.
LEMMA SuspendStep ==
    ASSUME IInv,
           \/ async_coroutine_yield
           \/ \E timed \in BOOLEAN : actor_receive_wait(timed)
           \/ \E t \in Coro : actor_join_live(t)
           \/ async_http_start
    PROVE  IInv'
<1>1. CASE async_coroutine_yield
  BY <1>1, CoroYieldStep DEF async_coroutine_yield
<1>2. ASSUME NEW timed \in BOOLEAN, actor_receive_wait(timed) PROVE IInv'
  <2>1. CASE timed
    BY <1>2, <2>1, CoroYieldStep DEF actor_receive_wait
  <2>2. CASE ~timed
    BY <1>2, <2>2, CoroYieldStep DEF actor_receive_wait
  <2> QED BY <2>1, <2>2
<1>3. ASSUME NEW t \in Coro, actor_join_live(t) PROVE IInv'
  BY <1>3, CoroYieldStep DEF actor_join_live
<1>4. CASE async_http_start
  BY <1>4, CoroYieldStep DEF async_http_start
<1> QED BY <1>1, <1>2, <1>3, <1>4

\* next_event_internal and a nested dispatch touch the flag and the wakeups.
LEMMA NextEventStep ==
    ASSUME IInv,
           next_event_enter \/ next_event_leave \/ nested_timer_dispatch
    PROVE  IInv'
<1> USE CoroAssumption DEF IInv, TypeOK
<1>1. ControlTypes'
  BY DEF ControlTypes, next_event_enter, next_event_leave,
         nested_timer_dispatch, slots, links, frame
<1>2. DataTypes'
  BY DEF DataTypes, next_event_enter, next_event_leave, nested_timer_dispatch,
         slots, links, hist
<1>3. ListsMatchStates'
  BY DEF next_event_enter, next_event_leave, nested_timer_dispatch, slots,
         links, ListsMatchStates
<1>4. WaitersSuspended'
  BY DEF next_event_enter, next_event_leave, nested_timer_dispatch, slots,
         links, frame, WaitersSuspended, Waiting
<1>5. CursorLive' /\ CursorPast'
  BY DEF next_event_enter, next_event_leave, nested_timer_dispatch, links,
         CursorLive, CursorPast
<1>6. FrameOK'
  BY DEF next_event_enter, next_event_leave, nested_timer_dispatch, slots,
         frame, FrameOK, Waiting
<1>7. BirthOrder'
  BY DEF next_event_enter, next_event_leave, nested_timer_dispatch, slots,
         links, BirthOrder
<1> QED BY <1>1, <1>2, <1>3, <1>4, <1>5, <1>6, <1>7

\* The end of a tick drops the cursor.
LEMMA TickEndStep == ASSUME IInv, tick_end PROVE IInv'
<1> USE CoroAssumption DEF IInv, TypeOK
<1>1. ControlTypes'
  BY DEF ControlTypes, tick_end, slots, links, frame
<1>2. DataTypes'
  BY DEF DataTypes, tick_end, slots, links, hist, Arm
<1>3. ListsMatchStates'
  BY DEF tick_end, slots, links, ListsMatchStates
<1>4. WaitersSuspended'
  BY DEF tick_end, slots, links, frame, WaitersSuspended, Waiting
<1>5. CursorLive' /\ CursorPast'
  BY DEF tick_end, links, CursorLive, CursorPast
<1>6. FrameOK'
  BY DEF tick_end, slots, frame, FrameOK, Waiting
<1>7. BirthOrder'
  BY DEF tick_end, slots, links, BirthOrder
<1> QED BY <1>1, <1>2, <1>3, <1>4, <1>5, <1>6, <1>7

\* Completions and phases 1a and 1b only resume coroutines that are suspended,
\* and none of them is the waiter of a join.
LEMMA ResumedStep ==
    ASSUME IInv,
           NEW ok \in SUBSET inflight, NEW failed \in SUBSET (inflight \ ok),
           NEW yielded \in SUBSET Yielded,
           NEW late \in SUBSET {c \in all_coros : Waiting(c, "TIMER")},
           Resumed(ok, failed, yielded, late),
           wakeups' \in Nat,
           UNCHANGED <<mailbox, links, current_coro, async_tick_forbidden,
                       op, peer, hist>>,
           \/ UNCHANGED <<in_tick, next_c>>
           \/ /\ ~in_tick /\ in_tick' = TRUE
              /\ all_coros # {} /\ next_c' = NewestOf(all_coros)
    PROVE  IInv'
<1> USE CoroAssumption DEF IInv, TypeOK
<1> DEFINE r == ok \cup failed \cup yielded \cup late
<1>a. /\ UNCHANGED <<mailbox, current_coro, async_tick_forbidden, op, peer>>
      /\ UNCHANGED <<join_waiter, monitor_list, born, spawned, all_coros,
                      dead_coros, sent, last, body, outcome>>
  BY DEF links, hist
<1>b. /\ state' = [c \in Coro |-> IF c \in r THEN "RUNNABLE" ELSE state[c]]
      /\ wait_reason' = [c \in Coro |-> IF c \in r THEN "NONE" ELSE wait_reason[c]]
      /\ inflight' = inflight \ (ok \cup failed)
  BY DEF Resumed, StillInflight
<1>c. /\ r \subseteq Coro
      /\ \A c \in r : /\ state[c] = "SUSPENDED" /\ wait_reason[c] # "JOIN"
                      /\ wait_reason[c] = "FD" => c \in ok \cup failed
                      /\ op[c] = "receive" => c \in late
  BY DEF ControlTypes, WaitersSuspended, Waiting, Yielded, FrameOK
<1>d. next_c' # Nil => /\ in_tick' /\ next_c' \in all_coros
                       /\ next_c' # current_coro
  <2>1. CASE UNCHANGED <<in_tick, next_c>>
    BY <2>1 DEF CursorLive, CursorPast
  <2>2. CASE ~in_tick /\ in_tick' = TRUE /\ all_coros # {}
             /\ next_c' = NewestOf(all_coros)
    <3>1. all_coros \in SUBSET Coro /\ current_coro = Nil
      BY <2>2 DEF ControlTypes, ListsMatchStates
    <3>2. next_c' \in all_coros
      BY <2>2, <3>1, NewestInSet
    <3> QED BY <2>2, <3>1, <3>2
  <2> QED BY <2>1, <2>2
<1>e. in_tick' \in BOOLEAN /\ next_c' \in Coro \cup {Nil} /\ (in_tick => in_tick')
  BY <1>d DEF ControlTypes
<1> HIDE DEF r
<1>1. ControlTypes'
  BY <1>a, <1>b, <1>e DEF ControlTypes, States, Reasons
<1>2. DataTypes'
  <2>1. /\ Reply \in Values /\ Nil \in Values
        /\ {Nil, <<"http-error">>, <<"timeout">>} \subseteq Slots
    BY DEF Values, Slots, Errors
  <2>2. result' \in [Coro -> Values] /\ error' \in [Coro -> Slots]
    BY <2>1 DEF DataTypes, Resumed
  <2> QED BY <1>a, <2>2 DEF DataTypes
<1>3. ListsMatchStates'
  BY <1>a, <1>b, <1>c, <1>e DEF ControlTypes, ListsMatchStates, Live
<1>4. WaitersSuspended'
  <2>1. \A x \in Coro : x \notin r =>
          state'[x] = state[x] /\ wait_reason'[x] = wait_reason[x]
    BY <1>b
  <2>2. \A x \in Coro : state[x] \in Live => state'[x] \in Live
    BY <1>b DEF Live
  <2>3. \A x \in inflight' : x \in Coro /\ x \notin r
    BY <1>b, <1>c DEF ControlTypes, WaitersSuspended, Waiting
  <2>4. \A x \in Coro : wait_reason[x] = "JOIN" => x \notin r
    BY <1>c
  <2> QED BY <1>a, <1>b, <2>1, <2>2, <2>3, <2>4
          DEF ControlTypes, WaitersSuspended, Waiting
<1>5. CursorLive' /\ CursorPast'
  BY <1>a, <1>d DEF CursorLive, CursorPast
<1>6. FrameOK'
  <2>1. \A c \in Coro : result'[c] = IF c \in ok THEN Reply
                                     ELSE IF c \in failed \cup late THEN Nil
                                     ELSE result[c]
    BY DEF Resumed
  <2>2. \A c \in late : c \notin ok
    BY DEF WaitersSuspended, Waiting
  <2> SUFFICES ASSUME NEW c \in Coro
      PROVE /\ state'[c] = "SUSPENDED" /\ wait_reason'[c] = "NONE" => op[c] = "yield"
            /\ state'[c] = "SUSPENDED" /\ wait_reason'[c] = "FD" => op[c] = "http"
            /\ state'[c] = "SUSPENDED" /\ wait_reason'[c] \in {"TIMER", "MAILBOX"}
                  => op[c] = "receive"
            /\ state'[c] = "SUSPENDED" /\ wait_reason'[c] = "JOIN" => op[c] = "join"
            /\ state'[c] \notin {"SUSPENDED", "RUNNABLE"} => op[c] = "body"
            /\ op[c] = "join" => peer[c] \in Coro
            /\ state'[c] = "RUNNABLE" /\ op[c] = "receive" =>
                  result'[c] \in {Nil} \cup ({"msg"} \X Nat)
    BY <1>a DEF FrameOK, Waiting
  <2>3. CASE c \in r
    BY <1>b, <1>c, <2>1, <2>2, <2>3 DEF FrameOK
  <2>4. CASE c \notin r
    <3>1. /\ state'[c] = state[c] /\ wait_reason'[c] = wait_reason[c]
          /\ result'[c] = result[c]
      BY <1>b, <2>1, <2>4 DEF r
    <3> QED BY <3>1 DEF FrameOK, Waiting
  <2> QED BY <2>3, <2>4
<1>7. BirthOrder'
  BY <1>a, <1>b, <1>c DEF BirthOrder
<1> QED BY <1>1, <1>2, <1>3, <1>4, <1>5, <1>6, <1>7

\* A tick up to phase 2: the cursor is the newest live coroutine.
LEMMA TickBeginStep ==
    ASSUME IInv, wakeups' \in Nat, tick_begin
    PROVE  IInv'
<1>1. PICK ok \in SUBSET inflight : \E failed \in SUBSET (inflight \ ok) :
           \E late \in SUBSET {c \in all_coros : Waiting(c, "TIMER")} :
             Resumed(ok, failed, Yielded, late)
  BY DEF tick_begin
<1>2. PICK failed \in SUBSET (inflight \ ok) :
           \E late \in SUBSET {c \in all_coros : Waiting(c, "TIMER")} :
             Resumed(ok, failed, Yielded, late)
  BY <1>1
<1>3. PICK late \in SUBSET {c \in all_coros : Waiting(c, "TIMER")} :
             Resumed(ok, failed, Yielded, late)
  BY <1>2
<1>4. Yielded \in SUBSET Yielded
  OBVIOUS
<1> QED BY <1>3, <1>4, ResumedStep DEF tick_begin

\* A wakeup is dispatched: its tick begins, or is blocked and changes nothing.
LEMMA TimerStep ==
    ASSUME IInv, async_scheduler_tick_from_timer
    PROVE  IInv'
<1>1. wakeups' \in Nat
  BY DEF IInv, TypeOK, DataTypes, async_scheduler_tick_from_timer
<1>2. CASE ~TickBlocked
  BY <1>1, <1>2, TickBeginStep DEF async_scheduler_tick_from_timer
<1>3. CASE TickBlocked
  <2> USE CoroAssumption DEF IInv, TypeOK
  <2>0. UNCHANGED <<slots, mailbox, links, current_coro, in_tick, next_c,
                    async_tick_forbidden, frame, hist>>
    BY <1>3 DEF async_scheduler_tick_from_timer
  <2>1. ControlTypes'
    BY <2>0 DEF ControlTypes, slots, links, frame
  <2>2. DataTypes'
    BY <1>1, <2>0 DEF DataTypes, slots, links, hist
  <2>3. ListsMatchStates' /\ CursorLive' /\ CursorPast'
    BY <2>0 DEF ListsMatchStates, CursorLive, CursorPast, slots, links
  <2>4. WaitersSuspended'
    BY <2>0 DEF WaitersSuspended, Waiting, slots, links, frame
  <2>5. FrameOK' /\ BirthOrder'
    BY <2>0 DEF FrameOK, BirthOrder, Waiting, slots, links, frame
  <2> QED BY <2>1, <2>2, <2>3, <2>4, <2>5
<1> QED BY <1>2, <1>3

\* poll_fds_for_input, with the tick that ends it or without.
LEMMA PollStep ==
    ASSUME IInv, async_scheduler_tick_poll \/ poll_fds_for_input
    PROVE  IInv'
<1>0. wakeups' \in Nat
  BY DEF IInv, TypeOK, DataTypes, async_scheduler_tick_poll, poll_fds_for_input,
         sched
<1>1. CASE async_scheduler_tick_poll
  BY <1>0, <1>1, TickBeginStep DEF async_scheduler_tick_poll
<1>2. CASE poll_fds_for_input
  <2>1. PICK ok \in SUBSET inflight : \E failed \in SUBSET (inflight \ ok) :
          Resumed(ok, failed, {}, {})
    BY <1>2 DEF poll_fds_for_input
  <2>2. PICK failed \in SUBSET (inflight \ ok) : Resumed(ok, failed, {}, {})
    BY <2>1
  <2>3. /\ {} \in SUBSET Yielded
        /\ {} \in SUBSET {c \in all_coros : Waiting(c, "TIMER")}
    OBVIOUS
  <2> QED BY <1>0, <1>2, <2>2, <2>3, ResumedStep DEF poll_fds_for_input, sched
<1> QED BY <1>1, <1>2

\* Phase 2 switches to a runnable coroutine of the list, whose successor is on
\* the list too.
LEMMA RunNextStep == ASSUME IInv, tick_run_next PROVE IInv'
<1> USE CoroAssumption DEF IInv, TypeOK
<1> DEFINE ready == {d \in From(next_c) : state[d] = "RUNNABLE"}
           c == NewestOf(ready)
<1>a. c \in ready
  <2>1. ready \in SUBSET Coro /\ ready # {}
    BY DEF ControlTypes, From, tick_run_next
  <2> QED BY <2>1, NewestInSet
<1>b. c \in Coro /\ c \in all_coros /\ state[c] = "RUNNABLE" /\ c # Nil
  BY <1>a DEF ControlTypes, From
<1>c. Successor(c) \in all_coros \cup {Nil} /\ Successor(c) # c
  <2> DEFINE S == {d \in all_coros : born[d] < born[c]}
  <2>1. CASE S = {}
    BY <1>b, <2>1 DEF Successor, NewestOf
  <2>2. CASE S # {}
    <3>1. S \in SUBSET Coro
      BY DEF ControlTypes
    <3>2. NewestOf(S) \in S
      BY <2>2, <3>1, NewestInSet
    <3>3. born[c] \in Nat
      BY <1>b DEF ControlTypes
    <3> QED BY <3>2, <3>3 DEF Successor
  <2> QED BY <2>1, <2>2
<1>d. /\ in_tick /\ in_tick' = in_tick /\ current_coro = Nil /\ current_coro' = c
      /\ next_c' = Successor(c)
      /\ state' = [state EXCEPT ![c] = "RUNNING"]
      /\ op' = [op EXCEPT ![c] = "body"] /\ peer' = [peer EXCEPT ![c] = Nil]
      /\ outcome' = CASE op[c] = "receive" -> <<"received", result[c]>>
                      [] op[c] = "join" -> <<"joined", peer[c], error[c], result[c]>>
                      [] OTHER -> None
      /\ last' = IF op[c] = "receive" /\ result[c] # Nil
                 THEN [last EXCEPT ![c] = result[c][2]] ELSE last
      /\ UNCHANGED <<wait_reason, result, error, mailbox, async_tick_forbidden,
                     wakeups, inflight, sent, body>>
      /\ UNCHANGED <<join_waiter, monitor_list, born, spawned, all_coros, dead_coros>>
  BY DEF tick_run_next, links
<1> HIDE DEF c, ready
<1>1. ControlTypes'
  BY <1>b, <1>c, <1>d DEF ControlTypes, States, Ops
<1>2. DataTypes'
  <2>1. result[c] \in Values /\ error[c] \in Slots
    BY <1>b DEF DataTypes
  <2>2. outcome' \in Outcomes
    <3>1. CASE op[c] = "receive"
      BY <1>d, <2>1, <3>1 DEF Outcomes
    <3>2. CASE op[c] = "join"
      <4>1. peer[c] \in Coro
        BY <1>b, <3>2 DEF FrameOK
      <4> QED BY <1>d, <2>1, <3>2, <4>1 DEF Outcomes
    <3>3. CASE op[c] \notin {"receive", "join"}
      BY <1>d, <3>3 DEF Outcomes
    <3> QED BY <3>1, <3>2, <3>3
  <2>3. last' \in [Coro -> Nat]
    <3>1. CASE op[c] = "receive" /\ result[c] # Nil
      <4>1. result[c][2] \in Nat
        BY <1>b, <3>1 DEF FrameOK
      <4> QED BY <1>d, <3>1, <4>1 DEF DataTypes
    <3>2. CASE ~(op[c] = "receive" /\ result[c] # Nil)
      BY <1>d, <3>2 DEF DataTypes
    <3> QED BY <3>1, <3>2
  <2> QED BY <1>d, <2>2, <2>3 DEF DataTypes
<1>3. ListsMatchStates'
  BY <1>b, <1>d DEF ControlTypes, ListsMatchStates, Live
<1>4. WaitersSuspended'
  BY <1>b, <1>d DEF ControlTypes, WaitersSuspended, Waiting, Live
<1>5. CursorLive' /\ CursorPast'
  BY <1>c, <1>d DEF CursorLive, CursorPast
<1>6. FrameOK'
  BY <1>b, <1>d DEF ControlTypes, FrameOK, Waiting
<1>7. BirthOrder'
  BY <1>b, <1>d DEF ControlTypes, BirthOrder
<1> QED BY <1>1, <1>2, <1>3, <1>4, <1>5, <1>6, <1>7

\* A coroutine that ends leaves the list and resumes suspended coroutines only.
LEMMA ExitStep ==
    ASSUME IInv, NEW how \in {"returned", "signalled"}, coro_trampoline_exit(how)
    PROVE  IInv'
<1> USE CoroAssumption DEF IInv, TypeOK
<1> DEFINE c == current_coro
           e == IF how = "signalled" THEN <<"signal", c>> ELSE error[c]
           j == join_waiter[c]
           notified == {w \in Coro : monitor_list[c][w] > 0 /\ state[w] \in Live}
           woken == {w \in notified : WokeMailbox(w)}
           first(w) == sent[w] + 1
           exits(w) == [i \in 1..monitor_list[c][w] |-> sent[w] + i]
           resumed == {x \in Coro : x = j \/ x \in woken}
<1>a. /\ c \in Coro /\ c # Nil /\ state[c] = "RUNNING" /\ in_tick
      /\ j \in Coro \cup {Nil}
  BY DEF ControlTypes, ListsMatchStates, coro_trampoline_exit
<1>b. \A x \in resumed : state[x] = "SUSPENDED"
  BY <1>a DEF WaitersSuspended, WokeMailbox, Waiting
<1>c. /\ state' = [x \in Coro |-> IF x = c THEN "DEAD"
                                  ELSE IF x \in resumed THEN "RUNNABLE"
                                  ELSE state[x]]
      /\ wait_reason' = [x \in Coro |-> IF x \in resumed THEN "NONE"
                                        ELSE wait_reason[x]]
      /\ join_waiter' = [join_waiter EXCEPT ![c] = Nil]
      /\ all_coros' = all_coros \ {c} /\ dead_coros' = dead_coros \cup {c}
      /\ current_coro' = Nil
      /\ UNCHANGED <<born, spawned, in_tick, next_c, async_tick_forbidden, last>>
      /\ UNCHANGED <<inflight, op, peer>>
  BY DEF coro_trampoline_exit, JoinerServed, Unlinked, frame
<1>d. /\ result' = [x \in Coro |-> IF x = j THEN IF e = Nil THEN Ret(c) ELSE Nil
                                   ELSE IF x \in woken THEN Msg(first(x))
                                   ELSE IF x = c /\ e = Nil THEN Ret(c)
                                   ELSE result[x]]
      /\ error' = [x \in Coro |-> IF x \in {c, j} THEN e
                                  ELSE IF x \in woken THEN Nil ELSE error[x]]
      /\ mailbox' = [x \in Coro |-> IF x \in notified THEN mailbox[x] \o exits(x)
                                    ELSE mailbox[x]]
      /\ sent' = [x \in Coro |-> IF x \in notified
                                 THEN sent[x] + monitor_list[c][x] ELSE sent[x]]
      /\ monitor_list' = [monitor_list EXCEPT ![c] = [w \in Coro |-> 0]]
      /\ wakeups' = IF j # Nil THEN Arm(1) ELSE wakeups
      /\ body' = [body EXCEPT ![c] = how]
      /\ outcome' = None
  BY DEF coro_trampoline_exit
<1>e. /\ \A x \in woken : wait_reason[x] = "MAILBOX"
      /\ j # Nil => wait_reason[j] = "JOIN" /\ peer[j] = c
  BY <1>a DEF WaitersSuspended, WokeMailbox, Waiting
<1>f. j \notin woken
  BY <1>a, <1>e
<1> HIDE DEF c, e, j, notified, woken, resumed
<1>1. ControlTypes'
  BY <1>a, <1>c DEF ControlTypes, States, Reasons
<1>2. DataTypes'
  <2>1. e \in Slots /\ Nil \in Slots
    BY <1>a DEF DataTypes, e, Slots, Errors
  <2>2. error' \in [Coro -> Slots]
    BY <1>d, <2>1 DEF DataTypes
  <2>3. Ret(c) \in Values /\ Nil \in Values
    BY <1>a DEF Values, Ret
  <2>4. ASSUME NEW x \in Coro
        PROVE  /\ Msg(first(x)) \in Values
               /\ sent[x] + monitor_list[c][x] \in Nat
               /\ exits(x) \in Seq(Nat)
    <3> DEFINE n == monitor_list[c][x]
    <3>1. n \in Nat /\ sent[x] \in Nat
      BY <1>a DEF DataTypes
    <3> HIDE DEF n
    <3>2. [i \in 1..n |-> sent[x] + i] \in Seq(Nat) /\ sent[x] + n \in Nat
      BY <3>1
    <3>3. Msg(sent[x] + 1) \in Values
      BY <3>1 DEF Values, Msg
    <3> QED BY <3>2, <3>3 DEF n
  <2> HIDE DEF exits, first
  <2>5. result' \in [Coro -> Values]
    BY <1>d, <2>3, <2>4 DEF DataTypes
  <2>6. mailbox' \in [Coro -> Seq(Nat)]
    BY <1>d, <2>4 DEF DataTypes
  <2>7. sent' \in [Coro -> Nat] /\ monitor_list' \in [Coro -> [Coro -> Nat]]
    BY <1>a, <1>d, <2>4 DEF DataTypes
  <2>8. wakeups' \in Nat /\ outcome' \in Outcomes
    BY <1>d DEF DataTypes, Arm, Outcomes
  <2>9. last' \in [Coro -> Nat]
        /\ body' \in [Coro -> {"running", "returned", "signalled"}]
    BY <1>a, <1>c, <1>d DEF DataTypes
  <2> QED BY <2>2, <2>5, <2>6, <2>7, <2>8, <2>9 DEF DataTypes
<1>3. ListsMatchStates'
  BY <1>a, <1>b, <1>c DEF ControlTypes, ListsMatchStates, Live
<1>4. WaitersSuspended'
  <2>1. ASSUME NEW t \in Coro, join_waiter'[t] # Nil
        PROVE  /\ state'[join_waiter'[t]] = "SUSPENDED"
               /\ wait_reason'[join_waiter'[t]] = "JOIN"
               /\ peer'[join_waiter'[t]] = t
               /\ state'[t] \in Live
    <3> DEFINE k == join_waiter[t]
    <3>1. t # c /\ join_waiter'[t] = k /\ k \in Coro
      BY <1>a, <1>c, <2>1 DEF ControlTypes
    <3>2. /\ state[k] = "SUSPENDED" /\ wait_reason[k] = "JOIN" /\ peer[k] = t
          /\ state[t] \in Live
      BY <2>1, <3>1 DEF WaitersSuspended, Waiting
    <3>3. k \notin resumed /\ k # c
      BY <1>a, <1>e, <3>1, <3>2 DEF resumed
    <3> QED BY <1>c, <3>1, <3>2, <3>3 DEF Live
  <2>2. ASSUME NEW x \in inflight'
        PROVE  state'[x] = "SUSPENDED" /\ wait_reason'[x] = "FD"
    <3>1. /\ x \in Coro /\ state[x] = "SUSPENDED" /\ wait_reason[x] = "FD"
      BY <1>c DEF ControlTypes, WaitersSuspended, Waiting
    <3>2. x \notin resumed /\ x # c
      BY <1>a, <1>e, <3>1 DEF resumed
    <3> QED BY <1>c, <3>1, <3>2
  <2> QED BY <2>1, <2>2 DEF WaitersSuspended, Waiting
<1>5. CursorLive' /\ CursorPast'
  BY <1>a, <1>c DEF CursorLive, CursorPast, c
<1>6. FrameOK'
  <2> SUFFICES ASSUME NEW x \in Coro
      PROVE /\ state'[x] = "SUSPENDED" /\ wait_reason'[x] = "NONE" => op[x] = "yield"
            /\ state'[x] = "SUSPENDED" /\ wait_reason'[x] = "FD" => op[x] = "http"
            /\ state'[x] = "SUSPENDED" /\ wait_reason'[x] \in {"TIMER", "MAILBOX"}
                  => op[x] = "receive"
            /\ state'[x] = "SUSPENDED" /\ wait_reason'[x] = "JOIN" => op[x] = "join"
            /\ state'[x] \notin {"SUSPENDED", "RUNNABLE"} => op[x] = "body"
            /\ op[x] = "join" => peer[x] \in Coro
            /\ state'[x] = "RUNNABLE" /\ op[x] = "receive" =>
                  result'[x] \in {Nil} \cup ({"msg"} \X Nat)
    BY <1>c DEF FrameOK, Waiting
  <2>1. CASE x = c
    <3>1. op[x] = "body" /\ state'[x] = "DEAD"
      BY <1>a, <1>c, <2>1 DEF FrameOK
    <3> QED BY <3>1
  <2>2. CASE x = j /\ x # c
    <3>1. op[x] = "join" /\ state'[x] = "RUNNABLE"
      BY <1>a, <1>b, <1>c, <1>e, <2>2 DEF FrameOK, Waiting, resumed
    <3> QED BY <3>1 DEF FrameOK
  <2>3. CASE x \in woken /\ x # j /\ x # c
    <3>1. op[x] = "receive" /\ state'[x] = "RUNNABLE"
      BY <1>b, <1>c, <1>e, <2>3 DEF FrameOK, Waiting, resumed
    <3>2. result'[x] = Msg(first(x)) /\ sent[x] + 1 \in Nat
      BY <1>d, <2>3 DEF DataTypes
    <3> QED BY <3>1, <3>2 DEF FrameOK, Msg
  <2>4. CASE x \notin resumed /\ x # c
    <3>1. /\ state'[x] = state[x] /\ wait_reason'[x] = wait_reason[x]
          /\ result'[x] = result[x]
      BY <1>c, <1>d, <2>4 DEF resumed
    <3> QED BY <3>1 DEF FrameOK, Waiting
  <2> QED BY <2>1, <2>2, <2>3, <2>4 DEF resumed
<1>7. BirthOrder'
  BY <1>a, <1>b, <1>c DEF BirthOrder
<1> QED BY <1>1, <1>2, <1>3, <1>4, <1>5, <1>6, <1>7

\* Steps of the rest of XEmacs change nothing here.
LEMMA StutterStep == ASSUME IInv, UNCHANGED vars PROVE IInv'
<1> USE DEF IInv, TypeOK, vars
<1>1. ControlTypes'
  BY DEF ControlTypes, slots, links, sched, frame
<1>2. DataTypes'
  BY DEF DataTypes, slots, links, sched, hist
<1>3. ListsMatchStates' /\ CursorLive' /\ CursorPast' /\ BirthOrder'
  BY DEF ListsMatchStates, CursorLive, CursorPast, BirthOrder, slots, links, sched
<1>4. WaitersSuspended' /\ FrameOK'
  BY DEF WaitersSuspended, FrameOK, Waiting, slots, links, frame
<1> QED BY <1>1, <1>2, <1>3, <1>4

\* Every step of the scheduler preserves the inductive invariant.
LEMMA NextIInv == ASSUME IInv, [Next]_vars PROVE IInv'
<1>1. ASSUME NEW c \in Coro, coro_spawn(c) PROVE IInv'
  BY <1>1, SpawnStep
<1>2. ASSUME NEW t \in Coro, actor_send_internal(t) PROVE IInv'
  BY <1>2, SendStep
<1>3. ASSUME NEW t \in Coro, NEW w \in Coro, actor_monitor_internal(t, w)
      PROVE  IInv'
  BY <1>3, MonitorStep
<1>4. CASE actor_receive_queued
  BY <1>4, ReceiveQueuedStep
<1>5. ASSUME NEW t \in Coro, actor_join_dead(t) PROVE IInv'
  BY <1>5, JoinDeadStep
<1>6. CASE \/ async_coroutine_yield
           \/ \E timed \in BOOLEAN : actor_receive_wait(timed)
           \/ \E t \in Coro : actor_join_live(t)
           \/ async_http_start
  BY <1>6, SuspendStep
<1>7. ASSUME NEW how \in {"returned", "signalled"}, coro_trampoline_exit(how)
      PROVE  IInv'
  BY <1>7, ExitStep
<1>8. CASE async_scheduler_tick_from_timer
  BY <1>8, TimerStep
<1>9. CASE async_scheduler_tick_poll \/ poll_fds_for_input
  BY <1>9, PollStep
<1>10. CASE tick_run_next
  BY <1>10, RunNextStep
<1>11. CASE tick_end
  BY <1>11, TickEndStep
<1>12. CASE next_event_enter \/ next_event_leave \/ nested_timer_dispatch
  BY <1>12, NextEventStep
<1>13. CASE UNCHANGED vars
  BY <1>13, StutterStep
<1> QED BY <1>1, <1>2, <1>3, <1>4, <1>5, <1>6, <1>7, <1>8, <1>9, <1>10, <1>11,
           <1>12, <1>13 DEF Next

\* The inductive invariant holds in every reachable state.
THEOREM Invariance == Spec => []IInv
<1>1. Init => IInv
  BY InitIInv
<1>2. IInv /\ [Next]_vars => IInv'
  BY NextIInv
<1> QED BY <1>1, <1>2, PTL DEF Spec

\* Whatever a program does, no field of the scheduler leaves its type.
THEOREM TypeCorrect == Spec => []TypeOK
<1>1. IInv => TypeOK
  BY DEF IInv
<1> QED BY <1>1, Invariance, PTL

\* The live list, the graveyard and current_coro agree with the states of all
\* the coroutines.
THEOREM ListsConsistent == Spec => []ListsMatchStates
<1>1. IInv => ListsMatchStates
  BY DEF IInv
<1> QED BY <1>1, Invariance, PTL

\* Every coroutine that a join or a transfer will resume is suspended in it.
THEOREM ResumesAreSafe == Spec => []WaitersSuspended
<1>1. IInv => WaitersSuspended
  BY DEF IInv
<1> QED BY <1>1, Invariance, PTL

\* The phase 2 cursor survives whatever the coroutine it switched to does.
THEOREM CursorSurvives == Spec => []CursorLive
<1>1. IInv => CursorLive
  BY DEF IInv
<1> QED BY <1>1, Invariance, PTL

-----------------------------------------------------------------------------
\* A step that resumes suspended coroutines only is a wakeup of the life cycle.
LEMMA WakeMaps ==
    ASSUME TypeOK, NEW S \in SUBSET Coro, \A c \in S : state[c] = "SUSPENDED",
           state' = [c \in Coro |-> IF c \in S THEN "RUNNABLE" ELSE state[c]],
           UNCHANGED current_coro
    PROVE  Lifecycle!Next
<1>1. Lifecycle!Wake(S)
  BY DEF Lifecycle!Wake, Lifecycle!InState
<1> QED BY <1>1 DEF Lifecycle!Next

\* Completions, yields and deadlines are wakeups.
LEMMA ResumedMaps ==
    ASSUME IInv,
           NEW ok \in SUBSET inflight, NEW failed \in SUBSET (inflight \ ok),
           NEW yielded \in SUBSET Yielded,
           NEW late \in SUBSET {c \in all_coros : Waiting(c, "TIMER")},
           Resumed(ok, failed, yielded, late), UNCHANGED current_coro
    PROVE  Lifecycle!Next
<1> DEFINE S == ok \cup failed \cup yielded \cup late
<1>1. S \in SUBSET Coro /\ \A c \in S : state[c] = "SUSPENDED"
  BY DEF IInv, TypeOK, ControlTypes, WaitersSuspended, Waiting, Yielded
<1>2. state' = [c \in Coro |-> IF c \in S THEN "RUNNABLE" ELSE state[c]]
  BY DEF Resumed
<1> HIDE DEF S
<1> QED BY <1>1, <1>2, WakeMaps DEF IInv

\* So is the part of a tick before phase 2.
LEMMA TickMaps == ASSUME IInv, tick_begin PROVE Lifecycle!Next
<1>1. PICK ok \in SUBSET inflight : \E failed \in SUBSET (inflight \ ok) :
           \E late \in SUBSET {c \in all_coros : Waiting(c, "TIMER")} :
             Resumed(ok, failed, Yielded, late)
  BY DEF tick_begin
<1>2. PICK failed \in SUBSET (inflight \ ok) :
           \E late \in SUBSET {c \in all_coros : Waiting(c, "TIMER")} :
             Resumed(ok, failed, Yielded, late)
  BY <1>1
<1>3. PICK late \in SUBSET {c \in all_coros : Waiting(c, "TIMER")} :
             Resumed(ok, failed, Yielded, late)
  BY <1>2
<1>4. Yielded \in SUBSET Yielded
  OBVIOUS
<1> QED BY <1>3, <1>4, ResumedMaps DEF tick_begin

\* A send wakes its recipient or changes nothing of the life cycle.
LEMMA SendMaps ==
    ASSUME IInv, NEW t \in Coro, actor_send_internal(t)
    PROVE  Lifecycle!Next \/ UNCHANGED Lifecycle!vars
<1>1. CASE WokeMailbox(t)
  <2>1. state' = [state EXCEPT ![t] = "RUNNABLE"] /\ UNCHANGED current_coro
    BY <1>1 DEF actor_send_internal
  <2>2. state \in [Coro -> States] /\ state[t] = "SUSPENDED"
    BY <1>1 DEF IInv, TypeOK, ControlTypes, WokeMailbox, Waiting
  <2>3. state' = [c \in Coro |-> IF c \in {t} THEN "RUNNABLE" ELSE state[c]]
    BY <2>1, <2>2
  <2> QED BY <2>1, <2>2, <2>3, WakeMaps DEF IInv
<1>2. CASE ~WokeMailbox(t)
  BY <1>2 DEF actor_send_internal, slots, Lifecycle!vars
<1> QED BY <1>1, <1>2

\* coro_yield is Block.
LEMMA BlockMaps ==
    ASSUME current_coro # Nil, NEW r, NEW o, coro_yield(r, o)
    PROVE  Lifecycle!Next
<1>1. Lifecycle!Block
  BY DEF coro_yield, Lifecycle!Block
<1> QED BY <1>1 DEF Lifecycle!Next

\* One iteration of phase 2 is Dispatch.
LEMMA DispatchMaps == ASSUME IInv, tick_run_next PROVE Lifecycle!Next
<1> DEFINE ready == {d \in From(next_c) : state[d] = "RUNNABLE"}
           c == NewestOf(ready)
<1>1. ready \in SUBSET Coro /\ ready # {}
  BY DEF IInv, TypeOK, ControlTypes, From, tick_run_next
<1>2. c \in ready
  BY <1>1, NewestInSet DEF IInv, TypeOK
<1>3. c \in Coro /\ state[c] = "RUNNABLE" /\ current_coro = Nil
      /\ current_coro' = c /\ state' = [state EXCEPT ![c] = "RUNNING"]
  BY <1>1, <1>2 DEF tick_run_next
<1> HIDE DEF c
<1>4. Lifecycle!Dispatch(c)
  BY <1>3 DEF Lifecycle!Dispatch
<1> QED BY <1>3, <1>4 DEF Lifecycle!Next

\* The end of a body is Die.
LEMMA DieMaps ==
    ASSUME IInv, NEW how, coro_trampoline_exit(how)
    PROVE  Lifecycle!Next
<1> DEFINE c == current_coro
           j == join_waiter[c]
           woken == {w \in {x \in Coro : monitor_list[c][x] > 0 /\ state[x] \in Live} :
                        WokeMailbox(w)}
           S == {x \in Coro : x = j \/ x \in woken}
<1>1. c # Nil /\ c \in Coro /\ current_coro' = Nil
  BY DEF IInv, TypeOK, ControlTypes, coro_trampoline_exit
<1>2. \A x \in S : state[x] = "SUSPENDED"
  BY <1>1, CoroAssumption DEF IInv, WaitersSuspended, WokeMailbox, Waiting
<1>3. state' = [x \in Coro |-> IF x = c THEN "DEAD"
                               ELSE IF x \in S THEN "RUNNABLE" ELSE state[x]]
  BY DEF coro_trampoline_exit
<1>4. S \in SUBSET Coro
  OBVIOUS
<1> HIDE DEF S
<1>5. Lifecycle!Die(S)
  BY <1>1, <1>2, <1>3, <1>4 DEF Lifecycle!Die, Lifecycle!InState
<1> QED BY <1>4, <1>5 DEF Lifecycle!Next

\* Every step of the scheduler is a step of the life cycle, or none.
LEMMA StepMaps ==
    ASSUME IInv, [Next]_vars
    PROVE  [Lifecycle!Next]_(Lifecycle!vars)
<1> DEFINE Goal == Lifecycle!Next \/ UNCHANGED Lifecycle!vars
<1> SUFFICES Goal
  OBVIOUS
<1>1. ASSUME NEW c \in Coro, coro_spawn(c) PROVE Goal
  <2>1. Lifecycle!Spawn(c)
    BY <1>1 DEF coro_spawn, Lifecycle!Spawn
  <2> QED BY <2>1 DEF Lifecycle!Next
<1>2. ASSUME NEW t \in Coro, actor_send_internal(t) PROVE Goal
  BY <1>2, SendMaps
<1>3. ASSUME NEW t \in Coro, actor_join_dead(t) PROVE Goal
  <2>1. Lifecycle!Reap(t)
    BY <1>3 DEF actor_join_dead, sched, Lifecycle!Reap
  <2> QED BY <2>1 DEF Lifecycle!Next
<1>4. CASE \/ async_coroutine_yield
           \/ \E timed \in BOOLEAN : actor_receive_wait(timed)
           \/ \E t \in Coro : actor_join_live(t)
           \/ async_http_start
  <2>1. current_coro # Nil /\ \E r, o : coro_yield(r, o)
    BY <1>4 DEF async_coroutine_yield, actor_receive_wait, actor_join_live,
                async_http_start
  <2> QED BY <2>1, BlockMaps
<1>5. ASSUME NEW how \in {"returned", "signalled"}, coro_trampoline_exit(how)
      PROVE  Goal
  BY <1>5, DieMaps
<1>6. CASE async_scheduler_tick_from_timer \/ async_scheduler_tick_poll
  BY <1>6, TickMaps DEF async_scheduler_tick_from_timer,
     async_scheduler_tick_poll, slots, Lifecycle!vars
<1>7. CASE tick_run_next
  BY <1>7, DispatchMaps
<1>8. CASE poll_fds_for_input
  <2>1. PICK ok \in SUBSET inflight : \E failed \in SUBSET (inflight \ ok) :
          Resumed(ok, failed, {}, {})
    BY <1>8 DEF poll_fds_for_input
  <2>2. PICK failed \in SUBSET (inflight \ ok) : Resumed(ok, failed, {}, {})
    BY <2>1
  <2>3. /\ {} \in SUBSET Yielded
        /\ {} \in SUBSET {c \in all_coros : Waiting(c, "TIMER")}
        /\ UNCHANGED current_coro
    BY <1>8 DEF poll_fds_for_input, sched
  <2> QED BY <2>2, <2>3, ResumedMaps
<1>9. CASE \/ \E t, w \in Coro : actor_monitor_internal(t, w)
           \/ actor_receive_queued \/ nested_timer_dispatch \/ tick_end
           \/ next_event_enter \/ next_event_leave
           \/ UNCHANGED vars
  BY <1>9 DEF actor_monitor_internal, actor_receive_queued, nested_timer_dispatch,
     tick_end, next_event_enter, next_event_leave, vars, slots, sched, Lifecycle!vars
<1> QED BY <1>1, <1>2, <1>3, <1>4, <1>5, <1>6, <1>7, <1>8, <1>9 DEF Next

\* The scheduler implements the abstract life cycle of CoroLifecycle.
THEOREM Refinement == Spec => ImplementsLifecycle
<1>1. Init => Lifecycle!Init
  BY DEF Init, Lifecycle!Init
<1>2. IInv /\ [Next]_vars => [Lifecycle!Next]_(Lifecycle!vars)
  BY StepMaps
<1> QED BY <1>1, <1>2, Invariance, PTL DEF Spec, ImplementsLifecycle, Lifecycle!Spec
=============================================================================
