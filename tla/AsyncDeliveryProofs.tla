------------------------ MODULE AsyncDeliveryProofs -------------------------
(***************************************************************************)
(* What the scheduler delivers: a resumed coroutine finds what its waker   *)
(* left, a joiner its target's verdict, an actor its messages in order.    *)
(***************************************************************************)
EXTENDS AsyncSchedulerProofs, SequenceTheorems

\* What coro_resume left for coroutine c is still there after the step.
Kept(c) ==
    /\ state[c] \in {"DEAD", "REAPED"} =>
         state'[c] \in {"DEAD", "REAPED"} /\ error'[c] = error[c]
         /\ result'[c] = result[c]
    /\ state[c] = "RUNNABLE" =>
         /\ error'[c] = error[c] /\ result'[c] = result[c]
         /\ state'[c] = "RUNNABLE" => op'[c] = op[c] /\ peer'[c] = peer[c]

\* Completions, yields and deadlines change the slots of suspended coroutines
\* only, and resume no joiner.
LEMMA ResumedKeeps ==
    ASSUME IInv, NEW c \in Coro,
           NEW ok \in SUBSET inflight, NEW failed \in SUBSET (inflight \ ok),
           NEW yielded \in SUBSET Yielded,
           NEW late \in SUBSET {d \in all_coros : Waiting(d, "TIMER")},
           Resumed(ok, failed, yielded, late), UNCHANGED <<op, peer>>
    PROVE  /\ Kept(c)
           /\ state[c] # "RUNNABLE" /\ state'[c] = "RUNNABLE" => op'[c] # "join"
<1> DEFINE r == ok \cup failed \cup yielded \cup late
<1>1. c \in r => state[c] = "SUSPENDED" /\ op[c] # "join"
  BY DEF IInv, WaitersSuspended, Waiting, Yielded, FrameOK
<1>2. c \notin r => /\ state'[c] = state[c]
                    /\ result'[c] = result[c] /\ error'[c] = error[c]
  BY DEF Resumed
<1> HIDE DEF r
<1> QED BY <1>1, <1>2 DEF Kept

\* So does the part of a tick before phase 2.
LEMMA TickKeeps ==
    ASSUME IInv, NEW c \in Coro, tick_begin
    PROVE  /\ Kept(c)
           /\ state[c] # "RUNNABLE" /\ state'[c] = "RUNNABLE" => op'[c] # "join"
<1>1. PICK ok \in SUBSET inflight : \E failed \in SUBSET (inflight \ ok) :
           \E late \in SUBSET {d \in all_coros : Waiting(d, "TIMER")} :
             Resumed(ok, failed, Yielded, late)
  BY DEF tick_begin
<1>2. PICK failed \in SUBSET (inflight \ ok) :
           \E late \in SUBSET {d \in all_coros : Waiting(d, "TIMER")} :
             Resumed(ok, failed, Yielded, late)
  BY <1>1
<1>3. PICK late \in SUBSET {d \in all_coros : Waiting(d, "TIMER")} :
             Resumed(ok, failed, Yielded, late)
  BY <1>2
<1>4. Yielded \in SUBSET Yielded
  OBVIOUS
<1> QED BY <1>3, <1>4, ResumedKeeps DEF tick_begin

\* Whoever is resumed inside a join is so by the end of the coroutine it joins.
Delivered(c) ==
    state[c] # "RUNNABLE" /\ state'[c] = "RUNNABLE" /\ op'[c] = "join" =>
        /\ state'[peer'[c]] = "DEAD"
        /\ error'[c] = error'[peer'[c]]
        /\ error'[peer'[c]] = Nil => result'[c] = Ret(peer'[c])

\* The end of a body writes the slots of its own coroutine and of suspended
\* ones, and hands its joiner its verdict.
LEMMA ExitKeeps ==
    ASSUME IInv, NEW how, coro_trampoline_exit(how), NEW d \in Coro
    PROVE  Kept(d) /\ Delivered(d)
<1> DEFINE c == current_coro
           e == IF how = "signalled" THEN <<"signal", c>> ELSE error[c]
           j == join_waiter[c]
           notified == {w \in Coro : monitor_list[c][w] > 0 /\ state[w] \in Live}
           woken == {w \in notified : WokeMailbox(w)}
           first(w) == sent[w] + 1
<1>1. /\ c \in Coro /\ state[c] = "RUNNING"
      /\ j # Nil => /\ j \in Coro /\ peer[j] = c /\ state[j] = "SUSPENDED"
                    /\ wait_reason[j] = "JOIN"
      /\ \A w \in woken : state[w] = "SUSPENDED" /\ wait_reason[w] = "MAILBOX"
  BY CoroAssumption DEF IInv, TypeOK, ControlTypes, ListsMatchStates,
     WaitersSuspended, WokeMailbox, Waiting, coro_trampoline_exit
<1>2. /\ state' = [x \in Coro |-> IF x = c THEN "DEAD"
                                  ELSE IF x = j \/ x \in woken THEN "RUNNABLE"
                                  ELSE state[x]]
      /\ result' = [x \in Coro |-> IF x = j THEN IF e = Nil THEN Ret(c) ELSE Nil
                                   ELSE IF x \in woken THEN Msg(first(x))
                                   ELSE IF x = c /\ e = Nil THEN Ret(c)
                                   ELSE result[x]]
      /\ error' = [x \in Coro |-> IF x \in {c, j} THEN e
                                  ELSE IF x \in woken THEN Nil ELSE error[x]]
      /\ UNCHANGED <<op, peer>>
  BY DEF coro_trampoline_exit, frame
<1>3. d \in woken => op[d] = "receive"
  BY <1>1 DEF IInv, FrameOK, Waiting
<1> HIDE DEF c, e, j, woken
<1>4. Kept(d)
  <2>1. CASE d \in {c, j} \/ d \in woken
    BY <1>1, <1>2, <2>1, CoroAssumption DEF Kept
  <2>2. CASE d \notin {c, j} /\ d \notin woken
    BY <1>2, <2>2 DEF Kept
  <2> QED BY <2>1, <2>2
<1>5. Delivered(d)
  <2>1. CASE d = j /\ d # c
    BY <1>1, <1>2, <2>1, CoroAssumption DEF Delivered
  <2>2. CASE d # j \/ d = c
    BY <1>2, <1>3, <2>2 DEF Delivered
  <2> QED BY <2>1, <2>2
<1> QED BY <1>4, <1>5

\* No step overwrites what a resumed or a finished coroutine holds, and only
\* the end of its target resumes a joiner.
LEMMA StepKeeps ==
    ASSUME IInv, [Next]_vars, NEW d \in Coro
    PROVE  Kept(d) /\ Delivered(d)
<1> USE CoroAssumption DEF IInv, TypeOK
<1> DEFINE Goal == Kept(d) /\ Delivered(d)
<1>1. ASSUME NEW c \in Coro, coro_spawn(c) PROVE Goal
  BY <1>1 DEF ControlTypes, coro_spawn, FrameOK, frame, Kept, Delivered
<1>2. ASSUME NEW t \in Coro, actor_send_internal(t) PROVE Goal
  <2>0. UNCHANGED <<op, peer>>
    BY <1>2 DEF actor_send_internal, frame
  <2>1. CASE WokeMailbox(t) /\ d = t
    <3>1. state[d] = "SUSPENDED" /\ op[d] = "receive"
      BY <2>1 DEF WokeMailbox, Waiting, FrameOK
    <3> QED BY <2>0, <3>1 DEF Kept, Delivered
  <2>2. CASE ~(WokeMailbox(t) /\ d = t)
    <3>1. state'[d] = state[d] /\ result'[d] = result[d] /\ error'[d] = error[d]
      <4>1. CASE WokeMailbox(t)
        <5>1. /\ state' = [state EXCEPT ![t] = "RUNNABLE"]
              /\ result' = [result EXCEPT ![t] = Msg(sent[t] + 1)]
              /\ error' = [error EXCEPT ![t] = Nil]
          BY <1>2, <4>1 DEF actor_send_internal
        <5>2. state \in [Coro -> States] /\ result \in [Coro -> Values]
              /\ error \in [Coro -> Slots]
          BY DEF ControlTypes, DataTypes
        <5> QED BY <2>2, <4>1, <5>1, <5>2
      <4>2. CASE ~WokeMailbox(t)
        BY <1>2, <4>2 DEF actor_send_internal, slots
      <4> QED BY <4>1, <4>2
    <3> QED BY <2>0, <3>1 DEF Kept, Delivered
  <2> QED BY <2>1, <2>2
<1>3. ASSUME NEW t \in Coro, actor_join_dead(t) PROVE Goal
  BY <1>3 DEF ControlTypes, actor_join_dead, frame, Kept, Delivered
<1>4. ASSUME current_coro # Nil, NEW r, NEW o, coro_yield(r, o),
             \A x \in Coro : x # current_coro => peer'[x] = peer[x]
      PROVE  Goal
  <2>1. /\ current_coro \in Coro /\ state[current_coro] = "RUNNING"
        /\ state' = [state EXCEPT ![current_coro] = "SUSPENDED"]
        /\ op' = [op EXCEPT ![current_coro] = o]
        /\ UNCHANGED <<result, error>>
    BY <1>4 DEF ControlTypes, ListsMatchStates, coro_yield
  <2> QED BY <1>4, <2>1 DEF ControlTypes, Kept, Delivered
<1>5. CASE \/ async_coroutine_yield
           \/ \E timed \in BOOLEAN : actor_receive_wait(timed)
           \/ \E t \in Coro : actor_join_live(t)
           \/ async_http_start
  <2>1. /\ current_coro # Nil /\ \E r, o : coro_yield(r, o)
        /\ \A x \in Coro : x # current_coro => peer'[x] = peer[x]
    BY <1>5 DEF async_coroutine_yield, actor_receive_wait, actor_join_live,
                async_http_start, ControlTypes
  <2> QED BY <1>4, <2>1
<1>6. ASSUME NEW how \in {"returned", "signalled"}, coro_trampoline_exit(how)
      PROVE  Goal
  BY <1>6, ExitKeeps
<1>7. CASE async_scheduler_tick_from_timer \/ async_scheduler_tick_poll
  <2>1. CASE tick_begin
    BY <2>1, TickKeeps DEF Delivered
  <2>2. CASE UNCHANGED <<slots, frame>>
    BY <2>2 DEF slots, frame, Kept, Delivered
  <2> QED BY <1>7, <2>1, <2>2 DEF async_scheduler_tick_from_timer,
                                  async_scheduler_tick_poll
<1>8. CASE tick_run_next
  <2> DEFINE c == NewestOf({x \in From(next_c) : state[x] = "RUNNABLE"})
  <2>1. /\ state' = [state EXCEPT ![c] = "RUNNING"]
        /\ op' = [op EXCEPT ![c] = "body"] /\ peer' = [peer EXCEPT ![c] = Nil]
        /\ UNCHANGED <<result, error>>
        /\ {x \in From(next_c) : state[x] = "RUNNABLE"} # {}
    BY <1>8 DEF tick_run_next
  <2>2. c \in Coro /\ state[c] = "RUNNABLE"
    <3>1. {x \in From(next_c) : state[x] = "RUNNABLE"} \in SUBSET Coro
      BY DEF From, ControlTypes
    <3> QED BY <2>1, <3>1, NewestInSet
  <2> HIDE DEF c
  <2> QED BY <2>1, <2>2 DEF ControlTypes, Kept, Delivered
<1>9. CASE poll_fds_for_input
  <2>1. PICK ok \in SUBSET inflight : \E failed \in SUBSET (inflight \ ok) :
          Resumed(ok, failed, {}, {})
    BY <1>9 DEF poll_fds_for_input
  <2>2. PICK failed \in SUBSET (inflight \ ok) : Resumed(ok, failed, {}, {})
    BY <2>1
  <2>3. /\ {} \in SUBSET Yielded
        /\ {} \in SUBSET {x \in all_coros : Waiting(x, "TIMER")}
        /\ UNCHANGED <<op, peer>>
    BY <1>9 DEF poll_fds_for_input
  <2> QED BY <2>2, <2>3, ResumedKeeps DEF Delivered
<1>10. CASE \/ \E t, w \in Coro : actor_monitor_internal(t, w)
            \/ actor_receive_queued \/ nested_timer_dispatch \/ tick_end
            \/ next_event_enter \/ next_event_leave
            \/ UNCHANGED vars
  <2>1. UNCHANGED <<slots, frame>>
    BY <1>10 DEF actor_monitor_internal, actor_receive_queued,
       nested_timer_dispatch, tick_end, next_event_enter, next_event_leave, vars
  <2> QED BY <2>1 DEF slots, frame, Kept, Delivered
<1> QED BY <1>1, <1>2, <1>3, <1>5, <1>6, <1>7, <1>8, <1>9, <1>10 DEF Next

\* Nobody overwrites the result and error of a coroutine that is RUNNABLE.
THEOREM SlotsNotClobbered == Spec => NoClobber
<1>1. IInv /\ [Next]_vars =>
        [\A c \in Coro : state[c] = "RUNNABLE" /\ state'[c] = "RUNNABLE" =>
            result'[c] = result[c] /\ error'[c] = error[c]]_vars
  BY StepKeeps DEF Kept
<1> QED BY <1>1, Invariance, PTL DEF Spec, NoClobber

\* What a resumed joiner holds is its target's verdict.
VerdictPending ==
    \A c \in Coro : state[c] = "RUNNABLE" /\ op[c] = "join" =>
        /\ state[peer[c]] \in {"DEAD", "REAPED"}
        /\ error[c] = error[peer[c]]
        /\ error[peer[c]] = Nil => result[c] = Ret(peer[c])

\* The strengthening of JoinerGetsVerdict that is inductive.
VerdictInv == VerdictPending /\ JoinerGetsVerdict

\* Every step keeps the verdicts that joiners hold or have returned.
LEMMA VerdictStep ==
    ASSUME IInv, VerdictInv, [Next]_vars
    PROVE  VerdictInv'
<1> USE CoroAssumption
<1>1. VerdictPending'
  <2> SUFFICES ASSUME NEW c \in Coro, state'[c] = "RUNNABLE", op'[c] = "join"
      PROVE /\ state'[peer'[c]] \in {"DEAD", "REAPED"}
            /\ error'[c] = error'[peer'[c]]
            /\ error'[peer'[c]] = Nil => result'[c] = Ret(peer'[c])
    BY DEF VerdictPending, Ret
  <2>1. CASE state[c] = "RUNNABLE"
    <3>1. Kept(c)
      BY StepKeeps
    <3>2. op[c] = "join" /\ peer'[c] = peer[c]
      BY <2>1, <3>1 DEF Kept
    <3>3. peer[c] \in Coro
      BY <3>2 DEF IInv, FrameOK
    <3>4. Kept(peer[c])
      BY <3>3, StepKeeps
    <3> QED BY <2>1, <3>1, <3>2, <3>4 DEF VerdictInv, VerdictPending, Kept
  <2>2. CASE state[c] # "RUNNABLE"
    <3>1. Delivered(c)
      BY StepKeeps
    <3> QED BY <2>2, <3>1 DEF Delivered
  <2> QED BY <2>1, <2>2
<1>2. JoinerGetsVerdict'
  <2>1. CASE outcome' = outcome
    <3> SUFFICES ASSUME outcome[1] = "joined"
        PROVE /\ state'[outcome[2]] \in {"DEAD", "REAPED"}
              /\ outcome[3] = error'[outcome[2]]
              /\ error'[outcome[2]] = Nil => outcome[4] = Ret(outcome[2])
      BY <2>1 DEF JoinerGetsVerdict, Ret
    <3>1. outcome[2] \in Coro
      BY DEF IInv, TypeOK, DataTypes, Outcomes, None
    <3>2. Kept(outcome[2])
      BY <3>1, StepKeeps
    <3> QED BY <3>2 DEF VerdictInv, JoinerGetsVerdict, Kept
  <2>2. CASE outcome'[1] # "joined"
    BY <2>2 DEF JoinerGetsVerdict
  <2>3. CASE tick_run_next
    <3> DEFINE c == NewestOf({x \in From(next_c) : state[x] = "RUNNABLE"})
    <3>1. c \in Coro /\ state[c] = "RUNNABLE"
      <4>1. /\ {x \in From(next_c) : state[x] = "RUNNABLE"} \in SUBSET Coro
            /\ {x \in From(next_c) : state[x] = "RUNNABLE"} # {}
        BY <2>3 DEF From, IInv, TypeOK, ControlTypes, tick_run_next
      <4> QED BY <4>1, NewestInSet DEF IInv, TypeOK
    <3>2. /\ outcome' = CASE op[c] = "receive" -> <<"received", result[c]>>
                         [] op[c] = "join" -> <<"joined", peer[c], error[c], result[c]>>
                         [] OTHER -> None
          /\ state' = [state EXCEPT ![c] = "RUNNING"]
          /\ error' = error
      BY <2>3 DEF tick_run_next
    <3> HIDE DEF c
    <3>3. CASE op[c] = "join"
      <4>1. /\ state[peer[c]] \in {"DEAD", "REAPED"}
            /\ error[c] = error[peer[c]]
            /\ error[peer[c]] = Nil => result[c] = Ret(peer[c])
        BY <3>1, <3>3 DEF VerdictInv, VerdictPending
      <4>2. state'[peer[c]] = state[peer[c]]
        BY <3>1, <3>2, <4>1 DEF IInv, TypeOK, ControlTypes
      <4>3. outcome' = <<"joined", peer[c], error[c], result[c]>>
        BY <3>2, <3>3
      <4> QED BY <3>2, <4>1, <4>2, <4>3 DEF JoinerGetsVerdict, Ret
    <3>4. CASE op[c] # "join"
      <4>1. outcome'[1] # "joined"
        BY <3>2, <3>4 DEF None
      <4> QED BY <4>1 DEF JoinerGetsVerdict
    <3> QED BY <3>3, <3>4
  <2>4. outcome' = outcome \/ outcome'[1] # "joined" \/ tick_run_next
    <3> DEFINE Goal == \/ outcome' = outcome \/ outcome'[1] # "joined"
                       \/ tick_run_next
    <3>1. ASSUME NEW t \in Coro,
                 \/ coro_spawn(t) \/ actor_send_internal(t)
                 \/ \E w \in Coro : actor_monitor_internal(t, w)
          PROVE  Goal
      BY <3>1 DEF coro_spawn, actor_send_internal, actor_monitor_internal, hist
    <3>2. CASE actor_receive_queued \/ \E t \in Coro : actor_join_dead(t)
      BY <3>2 DEF actor_receive_queued, actor_join_dead
    <3>3. CASE \/ async_coroutine_yield
               \/ \E timed \in BOOLEAN : actor_receive_wait(timed)
               \/ \E t \in Coro : actor_join_live(t)
               \/ async_http_start
      BY <3>3 DEF async_coroutine_yield, actor_receive_wait, actor_join_live,
                  async_http_start, coro_yield, None
    <3>4. CASE \E how \in {"returned", "signalled"} : coro_trampoline_exit(how)
      BY <3>4 DEF coro_trampoline_exit, None
    <3>5. CASE \/ async_scheduler_tick_from_timer \/ async_scheduler_tick_poll
               \/ nested_timer_dispatch \/ tick_end \/ poll_fds_for_input
               \/ next_event_enter \/ next_event_leave \/ UNCHANGED vars
      BY <3>5 DEF async_scheduler_tick_from_timer, async_scheduler_tick_poll,
         tick_begin, nested_timer_dispatch, tick_end, poll_fds_for_input,
         next_event_enter, next_event_leave, vars, hist
    <3> QED BY <3>1, <3>2, <3>3, <3>4, <3>5 DEF Next
  <2> QED BY <2>1, <2>2, <2>3, <2>4
<1> QED BY <1>1, <1>2 DEF VerdictInv

\* A joiner that waited for a coroutine gets that coroutine's verdict.
THEOREM JoinsDeliver == Spec => []JoinerGetsVerdict
<1>1. Init => VerdictInv
  BY DEF Init, VerdictInv, VerdictPending, JoinerGetsVerdict, None
<1>2. IInv /\ VerdictInv /\ [Next]_vars => VerdictInv'
  BY VerdictStep
<1>3. VerdictInv => JoinerGetsVerdict
  BY DEF VerdictInv
<1> QED BY <1>1, <1>2, <1>3, Invariance, PTL DEF Spec

-----------------------------------------------------------------------------
\* The number of messages that actor c has taken out of its mailbox.
Taken(c) == sent[c] - Len(mailbox[c])

\* The mailbox of c holds the newest messages sent to it, one after the other,
\* and the newest one c received is the last it took out, or the head, which a
\* blocked receive has returned through the result slot.
MailboxOK(c) ==
    /\ Len(mailbox[c]) <= sent[c]
    /\ \A k \in 1..Len(mailbox[c]) : mailbox[c][k] = Taken(c) + k
    /\ last[c] \in {Taken(c), Taken(c) + 1}
    /\ last[c] <= sent[c]

\* A receive blocks on an empty mailbox, and is resumed with what becomes its
\* head, or with nil.
ReceiveOK(c) ==
    /\ Waiting(c, "MAILBOX") => mailbox[c] = <<>>
    /\ state[c] = "RUNNABLE" /\ op[c] = "receive" /\ result[c] # Nil =>
         /\ mailbox[c] # <<>>
         /\ last[c] = Taken(c)
         /\ result[c] = Msg(Taken(c) + 1)

\* The strengthening of InOrderDelivery and NoMessageLost that is inductive.
MailInv == \A c \in Coro : MailboxOK(c) /\ ReceiveOK(c)

\* Actor c is not resumed with a message, and blocks on an empty mailbox only.
Quiet(c) ==
    /\ (state[c] # "RUNNABLE" /\ state'[c] = "RUNNABLE" /\ op'[c] = "receive")
         => result'[c] = Nil
    /\ (state'[c] = "SUSPENDED" /\ wait_reason'[c] = "MAILBOX")
         => Waiting(c, "MAILBOX") \/ mailbox[c] = <<>>

\* Steps that leave the mailboxes alone.
LEMMA MailFrame ==
    ASSUME IInv, MailInv, [Next]_vars, UNCHANGED <<mailbox, sent, last>>,
           \A c \in Coro : Quiet(c)
    PROVE  MailInv'
<1> SUFFICES ASSUME NEW c \in Coro PROVE MailboxOK(c)' /\ ReceiveOK(c)'
  BY DEF MailInv
<1>1. MailboxOK(c)'
  BY DEF MailInv, MailboxOK, Taken
<1>2. Kept(c)
  BY StepKeeps
<1>3. ReceiveOK(c)'
  BY <1>2 DEF MailInv, ReceiveOK, Taken, Waiting, Kept, Quiet, Msg
<1> QED BY <1>1, <1>3

\* Appending the next n messages keeps a mailbox in order.
LEMMA Appended ==
    ASSUME NEW q \in Seq(Nat), NEW s \in Nat, NEW n \in Nat, Len(q) <= s,
           \A k \in 1..Len(q) : q[k] = s - Len(q) + k
    PROVE  LET p == q \o [i \in 1..n |-> s + i] IN
           /\ p \in Seq(Nat) /\ Len(p) = Len(q) + n
           /\ \A k \in 1..Len(p) : p[k] = (s + n) - Len(p) + k
<1> DEFINE x == [i \in 1..n |-> s + i]
<1>1. x \in Seq(Nat) /\ Len(x) = n /\ \A i \in 1..n : x[i] = s + i
  OBVIOUS
<1> HIDE DEF x
<1>2. /\ q \o x \in Seq(Nat) /\ Len(q \o x) = Len(q) + n
      /\ \A k \in 1..(Len(q) + n) : (q \o x)[k] =
            IF k <= Len(q) THEN q[k] ELSE x[k - Len(q)]
  BY <1>1, ConcatProperties
<1>3. Len(q) \in Nat
  OBVIOUS
<1>4. ASSUME NEW k \in 1..(Len(q) + n) PROVE (q \o x)[k] = s - Len(q) + k
  <2>1. CASE k <= Len(q)
    BY <1>2, <1>3, <2>1
  <2>2. CASE ~(k <= Len(q))
    <3>1. k - Len(q) \in 1..n
      BY <1>3, <2>2
    <3>2. (q \o x)[k] = s + (k - Len(q))
      BY <1>1, <1>2, <2>2, <3>1
    <3> QED BY <1>3, <3>2
  <2> QED BY <2>1, <2>2
<1> QED BY <1>2, <1>3, <1>4 DEF x

\* A send appends the next serial number.
LEMMA SendMail ==
    ASSUME IInv, MailInv, NEW t \in Coro, actor_send_internal(t)
    PROVE  MailInv'
<1> USE DEF IInv, TypeOK
<1> SUFFICES ASSUME NEW c \in Coro PROVE MailboxOK(c)' /\ ReceiveOK(c)'
  BY DEF MailInv
<1>0. /\ mailbox' = [mailbox EXCEPT ![t] = Append(@, sent[t] + 1)]
      /\ sent' = [sent EXCEPT ![t] = sent[t] + 1]
      /\ UNCHANGED <<last, op>>
  BY DEF actor_send_internal, Nconc, frame
<1>1. /\ mailbox[c] \in Seq(Nat) /\ sent[c] \in Nat /\ last[c] \in Nat
      /\ Len(mailbox[c]) \in Nat
      /\ mailbox \in [Coro -> Seq(Nat)] /\ sent \in [Coro -> Nat]
  BY DEF DataTypes
<1>2. Kept(c)
  BY StepKeeps DEF Next
<1>3. CASE c # t
  <2>1. /\ mailbox'[c] = mailbox[c] /\ sent'[c] = sent[c] /\ last'[c] = last[c]
        /\ op'[c] = op[c]
    BY <1>0, <1>1, <1>3
  <2>2. state'[c] = state[c] /\ wait_reason'[c] = wait_reason[c]
        /\ result'[c] = result[c]
    <3>1. CASE WokeMailbox(t)
      BY <1>3, <3>1 DEF actor_send_internal, ControlTypes, DataTypes
    <3>2. CASE ~WokeMailbox(t)
      BY <3>2 DEF actor_send_internal, slots
    <3> QED BY <3>1, <3>2
  <2> QED BY <2>1, <2>2 DEF MailInv, MailboxOK, ReceiveOK, Taken, Waiting
<1>4. CASE c = t
  <2> DEFINE q == mailbox[c]
             p == Append(q, sent[c] + 1)
  <2>1. mailbox'[c] = p /\ sent'[c] = sent[c] + 1 /\ last'[c] = last[c]
    BY <1>0, <1>1, <1>4
  <2>2. /\ Len(p) = Len(q) + 1 /\ p # <<>>
        /\ \A i \in 1..Len(q) : p[i] = q[i]
        /\ p[Len(q) + 1] = sent[c] + 1
    BY <1>1, AppendProperties
  <2>3. MailboxOK(c)
    BY DEF MailInv
  <2> HIDE DEF p
  <2>4. Taken(c)' = Taken(c)
    BY <1>1, <2>1, <2>2 DEF Taken
  <2>5. \A k \in 1..Len(p) : p[k] = Taken(c) + k
    <3>1. ASSUME NEW k \in 1..Len(p) PROVE p[k] = Taken(c) + k
      <4>1. CASE k \in 1..Len(q)
        BY <2>2, <2>3, <4>1 DEF MailboxOK
      <4>2. CASE k = Len(q) + 1
        BY <1>1, <2>2, <4>2 DEF Taken
      <4> QED BY <1>1, <2>2, <4>1, <4>2
    <3> QED BY <3>1
  <2>6. MailboxOK(c)'
    BY <1>1, <2>1, <2>2, <2>3, <2>4, <2>5 DEF MailboxOK
  <2>7. ReceiveOK(c)'
    <3>1. CASE WokeMailbox(c)
      <4>1. q = <<>> /\ Len(q) = 0
        BY <3>1 DEF WokeMailbox, MailInv, ReceiveOK
      <4>2. /\ state'[c] = "RUNNABLE" /\ result'[c] = Msg(sent[c] + 1)
        BY <1>4, <3>1 DEF actor_send_internal, ControlTypes, DataTypes
      <4>3. Taken(c) = sent[c] /\ last[c] = sent[c]
        BY <1>1, <2>3, <4>1 DEF MailboxOK, Taken
      <4> QED BY <2>1, <2>2, <2>4, <4>2, <4>3 DEF ReceiveOK, Waiting, Msg
    <3>2. CASE ~WokeMailbox(c)
      <4>1. UNCHANGED <<state, wait_reason, result>>
        BY <1>4, <3>2 DEF actor_send_internal, slots
      <4> QED BY <1>0, <2>1, <2>2, <2>4, <3>2, <4>1
              DEF MailInv, ReceiveOK, Waiting, WokeMailbox, Msg
    <3> QED BY <3>1, <3>2
  <2> QED BY <2>6, <2>7
<1> QED BY <1>3, <1>4

\* A receive takes the head, which is the next message or the one that a
\* blocked receive returned before.
LEMMA ReceiveMail ==
    ASSUME IInv, MailInv, actor_receive_queued
    PROVE  MailInv' /\ \A c \in Coro : last'[c] \in {last[c], last[c] + 1}
<1> USE CoroAssumption DEF IInv, TypeOK
<1> SUFFICES ASSUME NEW c \in Coro
             PROVE  /\ MailboxOK(c)' /\ ReceiveOK(c)'
                    /\ last'[c] \in {last[c], last[c] + 1}
  BY DEF MailInv
<1> DEFINE d == current_coro
<1>0. /\ d \in Coro /\ state[d] = "RUNNING" /\ mailbox[d] # <<>>
      /\ mailbox' = [mailbox EXCEPT ![d] = Tail(@)]
      /\ last' = [last EXCEPT ![d] = Head(mailbox[d])]
      /\ UNCHANGED <<state, wait_reason, result, op, sent>>
  BY DEF actor_receive_queued, slots, frame, ControlTypes, ListsMatchStates
<1>1. /\ mailbox[c] \in Seq(Nat) /\ sent[c] \in Nat /\ last[c] \in Nat
      /\ Len(mailbox[c]) \in Nat
      /\ mailbox \in [Coro -> Seq(Nat)] /\ last \in [Coro -> Nat]
  BY DEF DataTypes
<1> HIDE DEF d
<1>2. CASE c # d
  <2>1. mailbox'[c] = mailbox[c] /\ last'[c] = last[c]
    BY <1>0, <1>1, <1>2
  <2> QED BY <1>0, <2>1 DEF MailInv, MailboxOK, ReceiveOK, Taken, Waiting
<1>3. CASE c = d
  <2> DEFINE q == mailbox[c]
             p == Tail(q)
  <2>1. mailbox'[c] = p /\ last'[c] = Head(q)
    BY <1>0, <1>1, <1>3
  <2>2. /\ Len(p) = Len(q) - 1 /\ \A i \in 1..Len(p) : p[i] = q[i + 1]
        /\ Len(q) > 0 /\ Len(p) \in Nat
    BY <1>0, <1>1, <1>3, HeadTailProperties
  <2>3. MailboxOK(c)
    BY DEF MailInv
  <2>4. Head(q) = Taken(c) + 1
    BY <1>1, <2>2, <2>3 DEF MailboxOK
  <2> HIDE DEF p
  <2>5. Taken(c)' = Taken(c) + 1 /\ Taken(c) \in Nat
    BY <1>0, <1>1, <2>1, <2>2, <2>3 DEF Taken, MailboxOK
  <2>6. \A k \in 1..Len(p) : p[k] = (Taken(c) + 1) + k
    BY <1>1, <2>2, <2>3, <2>5 DEF MailboxOK
  <2>7. MailboxOK(c)'
    <3>1. Len(p) <= sent[c] /\ Taken(c) + 1 <= sent[c]
      BY <1>1, <2>2, <2>3 DEF MailboxOK, Taken
    <3> QED BY <1>0, <2>1, <2>4, <2>5, <2>6, <3>1 DEF MailboxOK
  <2>8. ReceiveOK(c)'
    BY <1>0, <1>3 DEF ReceiveOK, Waiting
  <2>9. last'[c] \in {last[c], last[c] + 1}
    BY <1>1, <2>1, <2>3, <2>4, <2>5 DEF MailboxOK
  <2> QED BY <2>7, <2>8, <2>9
<1> QED BY <1>2, <1>3

\* The exit messages of a coroutine are appended to the mailboxes of its
\* watchers, one per registration.
LEMMA ExitMail ==
    ASSUME IInv, MailInv, NEW how \in {"returned", "signalled"},
           coro_trampoline_exit(how)
    PROVE  MailInv'
<1> USE CoroAssumption DEF IInv, TypeOK
<1> SUFFICES ASSUME NEW x \in Coro PROVE MailboxOK(x)' /\ ReceiveOK(x)'
  BY DEF MailInv
<1> DEFINE c == current_coro
           j == join_waiter[c]
           n == monitor_list[c][x]
           notified == {w \in Coro : monitor_list[c][w] > 0 /\ state[w] \in Live}
           woken == {w \in notified : WokeMailbox(w)}
<1>1. /\ c \in Coro /\ state[c] = "RUNNING" /\ n \in Nat
      /\ mailbox[x] \in Seq(Nat) /\ Len(mailbox[x]) \in Nat
      /\ sent[x] \in Nat /\ last[x] \in Nat
  BY DEF coro_trampoline_exit, ControlTypes, DataTypes, ListsMatchStates
<1>2. /\ state'[x] = IF x = c THEN "DEAD"
                     ELSE IF x = j \/ x \in woken THEN "RUNNABLE" ELSE state[x]
      /\ wait_reason'[x] = IF x = j \/ x \in woken THEN "NONE" ELSE wait_reason[x]
      /\ x # j /\ x \in woken => result'[x] = Msg(sent[x] + 1)
      /\ x # j /\ x \notin woken /\ x # c => result'[x] = result[x]
      /\ mailbox'[x] = IF x \in notified
                       THEN mailbox[x] \o [i \in 1..n |-> sent[x] + i]
                       ELSE mailbox[x]
      /\ sent'[x] = IF x \in notified THEN sent[x] + n ELSE sent[x]
      /\ last'[x] = last[x] /\ op'[x] = op[x]
  BY DEF coro_trampoline_exit, frame
<1>3. x = j => op[x] = "join" /\ x \notin woken
  BY <1>1 DEF WaitersSuspended, FrameOK, Waiting, WokeMailbox
<1>4. x \in woken => x \in notified /\ mailbox[x] = <<>>
  BY DEF WokeMailbox, MailInv, ReceiveOK
<1>5. x \in notified => n > 0
  OBVIOUS
<1>6. MailboxOK(x) /\ ReceiveOK(x)
  BY DEF MailInv
<1>w. x \in notified /\ Waiting(x, "MAILBOX") => x \in woken
  BY DEF WokeMailbox
<1> HIDE DEF c, j, n, notified, woken
<1>7. CASE x \in notified
  <2> DEFINE q == mailbox[x]
             p == q \o [i \in 1..n |-> sent[x] + i]
  <2>1. mailbox'[x] = p /\ sent'[x] = sent[x] + n
    BY <1>2, <1>7
  <2>2. /\ Len(p) = Len(q) + n
        /\ \A k \in 1..Len(p) : p[k] = (sent[x] + n) - Len(p) + k
    BY <1>1, <1>6, Appended DEF MailboxOK, Taken
  <2> HIDE DEF p
  <2>3. Taken(x)' = Taken(x) /\ p # <<>>
    BY <1>1, <1>5, <1>7, <2>1, <2>2 DEF Taken
  <2>4. MailboxOK(x)'
    <3>1. \A k \in 1..Len(p) : p[k] = Taken(x) + k
      BY <1>1, <2>2 DEF Taken
    <3> QED BY <1>1, <1>2, <1>6, <2>1, <2>2, <2>3, <3>1 DEF MailboxOK
  <2>5. ReceiveOK(x)'
    <3>1. CASE x \in woken
      <4>1. Len(q) = 0
        BY <1>4, <3>1
      <4>2. Taken(x) = sent[x] /\ last[x] = sent[x]
        BY <1>1, <1>6, <4>1 DEF MailboxOK, Taken
      <4>3. x # j
        BY <1>3, <3>1
      <4> QED BY <1>2, <2>1, <2>3, <3>1, <4>2, <4>3 DEF ReceiveOK, Waiting, Msg
    <3>2. CASE x \notin woken
      BY <1>2, <1>3, <1>6, <1>w, <1>7, <2>1, <2>3, <3>2
         DEF ReceiveOK, Waiting, Msg
    <3> QED BY <3>1, <3>2
  <2> QED BY <2>4, <2>5
<1>8. CASE x \notin notified
  <2>1. mailbox'[x] = mailbox[x] /\ sent'[x] = sent[x] /\ Taken(x)' = Taken(x)
    BY <1>2, <1>8 DEF Taken
  <2>2. x \notin woken
    BY <1>4, <1>8
  <2>3. MailboxOK(x)'
    BY <1>2, <1>6, <2>1 DEF MailboxOK
  <2>4. ReceiveOK(x)'
    BY <1>2, <1>3, <1>6, <2>1, <2>2 DEF ReceiveOK, Waiting, Msg
  <2> QED BY <2>3, <2>4
<1> QED BY <1>7, <1>8

\* A blocked receive that was resumed with a message returns the head.
LEMMA RunMail ==
    ASSUME IInv, MailInv, tick_run_next
    PROVE  MailInv' /\ \A c \in Coro : last'[c] \in {last[c], last[c] + 1}
<1> USE CoroAssumption DEF IInv, TypeOK
<1> SUFFICES ASSUME NEW x \in Coro
             PROVE  /\ MailboxOK(x)' /\ ReceiveOK(x)'
                    /\ last'[x] \in {last[x], last[x] + 1}
  BY DEF MailInv
<1> DEFINE ready == {d \in From(next_c) : state[d] = "RUNNABLE"}
           c == NewestOf(ready)
<1>1. c \in Coro /\ state[c] = "RUNNABLE"
  <2>1. ready \in SUBSET Coro /\ ready # {}
    BY DEF From, ControlTypes, tick_run_next
  <2> QED BY <2>1, NewestInSet
<1>2. /\ state' = [state EXCEPT ![c] = "RUNNING"]
      /\ op' = [op EXCEPT ![c] = "body"]
      /\ last' = IF op[c] = "receive" /\ result[c] # Nil
                 THEN [last EXCEPT ![c] = result[c][2]] ELSE last
      /\ UNCHANGED <<wait_reason, result, mailbox, sent>>
  BY DEF tick_run_next
<1>3. /\ mailbox[x] \in Seq(Nat) /\ sent[x] \in Nat /\ last[x] \in Nat
      /\ Len(mailbox[x]) \in Nat /\ last \in [Coro -> Nat]
      /\ state \in [Coro -> States] /\ op \in [Coro -> Ops]
  <2>1. /\ mailbox \in [Coro -> Seq(Nat)] /\ sent \in [Coro -> Nat]
        /\ last \in [Coro -> Nat]
    BY DEF DataTypes
  <2>2. state \in [Coro -> States] /\ op \in [Coro -> Ops]
    BY DEF ControlTypes
  <2> QED BY <2>1, <2>2
<1>4. MailboxOK(x) /\ ReceiveOK(x)
  BY DEF MailInv
<1> HIDE DEF c
<1>5. Taken(x)' = Taken(x)
  BY <1>2 DEF Taken
<1>6. CASE x = c /\ op[c] = "receive" /\ result[c] # Nil
  <2>1. mailbox[x] # <<>> /\ last[x] = Taken(x) /\ result[x] = Msg(Taken(x) + 1)
    BY <1>1, <1>4, <1>6 DEF ReceiveOK
  <2>2. last'[x] = Taken(x) + 1
    BY <1>1, <1>2, <1>3, <1>6, <2>1 DEF Msg
  <2>3. Taken(x) + 1 <= sent[x]
    BY <1>3, <2>1 DEF Taken
  <2>4. MailboxOK(x)'
    BY <1>2, <1>4, <1>5, <2>2, <2>3 DEF MailboxOK
  <2>5. ReceiveOK(x)'
    BY <1>1, <1>2, <1>3, <1>6 DEF ReceiveOK, Waiting
  <2> QED BY <2>1, <2>2, <2>4, <2>5
<1>7. CASE ~(x = c /\ op[c] = "receive" /\ result[c] # Nil)
  <2>1. last'[x] = last[x]
    BY <1>1, <1>2, <1>3, <1>7
  <2>2. MailboxOK(x)'
    BY <1>2, <1>4, <1>5, <2>1 DEF MailboxOK
  <2>3. ReceiveOK(x)'
    BY <1>1, <1>2, <1>3, <1>4, <1>5, <2>1 DEF ReceiveOK, Waiting, Msg
  <2> QED BY <2>1, <2>2, <2>3
<1> QED BY <1>6, <1>7

\* What a completion or a deadline brings to a receive is nil.
LEMMA ResumedMail ==
    ASSUME IInv, NEW c \in Coro,
           NEW ok \in SUBSET inflight, NEW failed \in SUBSET (inflight \ ok),
           NEW yielded \in SUBSET Yielded,
           NEW late \in SUBSET {d \in all_coros : Waiting(d, "TIMER")},
           Resumed(ok, failed, yielded, late), op' = op
    PROVE  Quiet(c)
<1>1. /\ c \in ok \cup failed \cup yielded => op[c] # "receive"
      /\ c \in late => c \notin ok
  BY DEF IInv, WaitersSuspended, Waiting, Yielded, FrameOK
<1>2. /\ state'[c] = IF c \in ok \cup failed \cup yielded \cup late
                     THEN "RUNNABLE" ELSE state[c]
      /\ wait_reason'[c] = IF c \in ok \cup failed \cup yielded \cup late
                           THEN "NONE" ELSE wait_reason[c]
      /\ c \in late /\ c \notin ok => result'[c] = Nil
  BY DEF Resumed
<1> QED BY <1>1, <1>2 DEF Quiet, Waiting

\* Nor does the part of a tick before phase 2 bring a message.
LEMMA TickMail ==
    ASSUME IInv, NEW c \in Coro, tick_begin
    PROVE  Quiet(c)
<1>1. PICK ok \in SUBSET inflight : \E failed \in SUBSET (inflight \ ok) :
           \E late \in SUBSET {d \in all_coros : Waiting(d, "TIMER")} :
             Resumed(ok, failed, Yielded, late)
  BY DEF tick_begin
<1>2. PICK failed \in SUBSET (inflight \ ok) :
           \E late \in SUBSET {d \in all_coros : Waiting(d, "TIMER")} :
             Resumed(ok, failed, Yielded, late)
  BY <1>1
<1>3. PICK late \in SUBSET {d \in all_coros : Waiting(d, "TIMER")} :
             Resumed(ok, failed, Yielded, late)
  BY <1>2
<1>4. Yielded \in SUBSET Yielded /\ op' = op
  BY DEF tick_begin
<1> QED BY <1>3, <1>4, ResumedMail

\* Every step keeps the mailboxes in order and moves the newest message an
\* actor has received by at most one.
LEMMA MailStep ==
    ASSUME IInv, MailInv, [Next]_vars
    PROVE  MailInv' /\ \A c \in Coro : last'[c] \in {last[c], last[c] + 1}
<1> USE CoroAssumption
<1> DEFINE Frame == UNCHANGED <<mailbox, sent, last>> /\ \A c \in Coro : Quiet(c)
           Goal == MailInv' /\ \A c \in Coro : last'[c] \in {last[c], last[c] + 1}
<1>0. ASSUME Frame PROVE Goal
  <2>1. MailInv'
    BY <1>0, MailFrame
  <2>2. \A c \in Coro : last'[c] \in {last[c], last[c] + 1}
    BY <1>0
  <2> QED BY <2>1, <2>2
<1>1. ASSUME NEW c \in Coro, coro_spawn(c) PROVE Frame
  BY <1>1 DEF IInv, TypeOK, ControlTypes, coro_spawn, hist, frame, FrameOK, Waiting, Quiet
<1>2. ASSUME NEW t \in Coro, actor_send_internal(t) PROVE Goal
  BY <1>2, SendMail DEF actor_send_internal
<1>3. ASSUME NEW t \in Coro, actor_join_dead(t) PROVE Frame
  BY <1>3 DEF IInv, TypeOK, ControlTypes, actor_join_dead, Waiting, Quiet
<1>4. ASSUME current_coro # Nil, NEW r, NEW o, coro_yield(r, o),
             r = "MAILBOX" => mailbox[current_coro] = <<>>
      PROVE  Frame
  <2>1. /\ current_coro \in Coro
        /\ state' = [state EXCEPT ![current_coro] = "SUSPENDED"]
        /\ wait_reason' = [wait_reason EXCEPT ![current_coro] = r]
        /\ UNCHANGED <<mailbox, sent, last>>
    BY <1>4 DEF IInv, TypeOK, ControlTypes, coro_yield
  <2> QED BY <1>4, <2>1 DEF IInv, TypeOK, ControlTypes, Waiting, Quiet
<1>5. CASE \/ async_coroutine_yield
           \/ \E timed \in BOOLEAN : actor_receive_wait(timed)
           \/ \E t \in Coro : actor_join_live(t)
           \/ async_http_start
  <2>1. /\ current_coro # Nil
        /\ \E r, o : coro_yield(r, o) /\ (r = "MAILBOX" => mailbox[current_coro] = <<>>)
    BY <1>5 DEF async_coroutine_yield, actor_receive_wait, actor_join_live,
                async_http_start
  <2>2. Frame
    BY <1>4, <2>1
  <2> QED BY <1>0, <2>2
<1>6. ASSUME NEW how \in {"returned", "signalled"}, coro_trampoline_exit(how)
      PROVE  Goal
  BY <1>6, ExitMail DEF coro_trampoline_exit
<1>7. CASE async_scheduler_tick_from_timer \/ async_scheduler_tick_poll
  <2>1. CASE tick_begin
    <3>1. Frame
      BY <2>1, TickMail DEF tick_begin, hist
    <3> QED BY <1>0, <3>1
  <2>2. CASE UNCHANGED <<slots, mailbox, frame, hist>>
    <3>1. Frame
      BY <2>2 DEF slots, frame, hist, Waiting, Quiet
    <3> QED BY <1>0, <3>1
  <2> QED BY <1>7, <2>1, <2>2 DEF async_scheduler_tick_from_timer,
                                  async_scheduler_tick_poll
<1>8. CASE tick_run_next
  BY <1>8, RunMail
<1>9. CASE poll_fds_for_input
  <2>1. PICK ok \in SUBSET inflight : \E failed \in SUBSET (inflight \ ok) :
          Resumed(ok, failed, {}, {})
    BY <1>9 DEF poll_fds_for_input
  <2>2. PICK failed \in SUBSET (inflight \ ok) : Resumed(ok, failed, {}, {})
    BY <2>1
  <2>3. /\ {} \in SUBSET Yielded
        /\ {} \in SUBSET {x \in all_coros : Waiting(x, "TIMER")}
        /\ op' = op /\ UNCHANGED <<mailbox, sent, last>>
    BY <1>9 DEF poll_fds_for_input, hist
  <2>4. Frame
    BY <2>2, <2>3, ResumedMail
  <2> QED BY <1>0, <2>4
<1>10. CASE actor_receive_queued
  BY <1>10, ReceiveMail
<1>11. CASE \/ \E t, w \in Coro : actor_monitor_internal(t, w)
            \/ nested_timer_dispatch \/ tick_end
            \/ next_event_enter \/ next_event_leave
            \/ UNCHANGED vars
  <2>1. UNCHANGED <<slots, mailbox, frame, hist>>
    BY <1>11 DEF actor_monitor_internal,
       nested_timer_dispatch, tick_end, next_event_enter, next_event_leave, vars
  <2>2. Frame
    BY <2>1 DEF slots, frame, hist, Waiting, Quiet
  <2> QED BY <1>0, <2>2
<1> HIDE DEF Frame
<1> QED BY <1>0, <1>1, <1>2, <1>3, <1>5, <1>6, <1>7, <1>8, <1>9, <1>10, <1>11 DEF Next

\* All mailboxes are empty at first.
LEMMA MailInit == Init => MailInv
<1> SUFFICES ASSUME Init, NEW c \in Coro PROVE MailboxOK(c) /\ ReceiveOK(c)
  BY DEF MailInv
<1>1. mailbox[c] = <<>> /\ sent[c] = 0 /\ last[c] = 0 /\ state[c] = "UNBORN"
  BY DEF Init
<1>2. Len(mailbox[c]) = 0 /\ sent[c] = 0
  BY <1>1
<1>3. Taken(c) = 0
  BY <1>2 DEF Taken
<1>4. MailboxOK(c)
  BY <1>1, <1>2, <1>3 DEF MailboxOK
<1>5. ReceiveOK(c)
  BY <1>1 DEF ReceiveOK, Waiting
<1> QED BY <1>4, <1>5

\* The mailbox invariant holds in every reachable state.
THEOREM MailInvariance == Spec => []MailInv
<1>1. IInv /\ MailInv /\ [Next]_vars => MailInv'
  BY MailStep
<1> QED BY <1>1, MailInit, Invariance, PTL DEF Spec

\* An actor receives its messages in the order they were sent and skips none.
THEOREM ReceivedInOrder == Spec => InOrderDelivery
<1>1. IInv /\ MailInv /\ [Next]_vars =>
        [\A c \in Coro : last'[c] \in {last[c], last[c] + 1}]_vars
  BY MailStep
<1> QED BY <1>1, Invariance, MailInvariance, PTL DEF Spec, InOrderDelivery

\* Whatever an actor has not received is still in its mailbox.
THEOREM NothingLost == Spec => []NoMessageLost
<1>1. IInv /\ MailInv => NoMessageLost
  <2> SUFFICES ASSUME IInv, MailInv, NEW c \in Coro,
                      NEW i \in (last[c] + 1)..sent[c]
               PROVE  \E k \in 1..Len(mailbox[c]) : mailbox[c][k] = i
    BY DEF NoMessageLost
  <2>1. /\ mailbox[c] \in Seq(Nat) /\ Len(mailbox[c]) \in Nat
        /\ sent[c] \in Nat /\ last[c] \in Nat
    BY DEF IInv, TypeOK, DataTypes
  <2>2. MailboxOK(c)
    BY DEF MailInv
  <2> DEFINE n == Len(mailbox[c])
             k == i - Taken(c)
  <2>3. /\ n <= sent[c] /\ Taken(c) = sent[c] - n
        /\ last[c] = Taken(c) \/ last[c] = Taken(c) + 1
    BY <2>2 DEF MailboxOK, Taken
  <2>4. i \in Nat /\ last[c] + 1 <= i /\ i <= sent[c] /\ n \in Nat
    BY <2>1
  <2>5. \A x \in 1..n : mailbox[c][x] = Taken(c) + x
    BY <2>2 DEF MailboxOK
  <2> HIDE DEF n
  <2>6. k \in 1..n /\ Taken(c) + k = i
    BY <2>1, <2>3, <2>4
  <2> QED BY <2>5, <2>6 DEF n
<1> QED BY <1>1, Invariance, MailInvariance, PTL
=============================================================================
