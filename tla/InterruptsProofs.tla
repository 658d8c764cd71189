-------------------------- MODULE InterruptsProofs --------------------------
(***************************************************************************)
(* What interrupts can do to a task on its way out of the CPU, for any     *)
(* tasks, priorities, sleeps and depth of nested interrupts.  Nothing here *)
(* depends on which task is dispatched: the proofs hold wherever next_task *)
(* points.                                                                 *)
(***************************************************************************)
EXTENDS Interrupts, TLAPS

States == [Tasks -> ThreadStates]

(* The scheduler's data has the states of the tasks. *)
HasStates(s) == "state" \in DOMAIN s /\ s.state \in States

(* What leads from s to u blocks nobody. *)
BlocksNobody(s, u) ==
    HasStates(u) /\ \A t \in Tasks : u.state[t] = "blocked" => s.state[t] = "blocked"

(* A frame of isr_handler that will block its task again *)
HasExit(q) == \E i \in 1..Len(q) : q[i] = "exit"

(***************************************************************************)
(* Only isr_handler blocks a task for another reason than its own call,    *)
(* and it blocks only a task that it has hit.  So who is blocked in a wait *)
(* and was not hit has its wake-up ahead, who sleeps and was not hit is    *)
(* not blocked, and neither is the notify thread that has work.            *)
(***************************************************************************)
IInv ==
    /\ HasStates(sched) /\ call \in [Tasks -> Calls] /\ frames \in [Tasks -> Seq(Steps)]
    /\ \A t \in Tasks : HasExit(frames[t]) => t \in hit
    /\ \A t \in Tasks \ hit : call[t] = "block" /\ sched.state[t] = "blocked" => t \in waiting
    /\ \A t \in Tasks \ hit : call[t] = "sleep" => sched.state[t] # "blocked"
    /\ changed /\ IrqTask \notin hit => sched.state[IrqTask] # "blocked"

-----------------------------------------------------------------------------
(* What the operators of the scheduler do to the states *)

(* update_priority_queue_next_task changes no state. *)
LEMMA NextTaskKeeps ==
    ASSUME NEW s, HasStates(s), NEW p
    PROVE  HasStates(UpdateNextTask(s, p)) /\ UpdateNextTask(s, p).state = s.state
BY Zenon DEF HasStates, UpdateNextTask

(* A switch makes the old task ready and the new one run. *)
LEMMA SwitchKeeps ==
    ASSUME NEW s, HasStates(s), NEW t
    PROVE  BlocksNobody(s, SwitchTo(s, t))
<1> DEFINE f == [u \in Tasks |-> IF u = t THEN "running"
                                 ELSE IF u = s.cur /\ s.state[u] = "running" THEN "ready" ELSE s.state[u]]
<1>1. f \in States
    BY Zenon DEF HasStates, States, ThreadStates
<1>2. "state" \in DOMAIN SwitchTo(s, t) /\ SwitchTo(s, t).state = f
    BY Zenon DEF HasStates, SwitchTo
<1>3. \A u \in Tasks : f[u] = "blocked" => s.state[u] = "blocked"
    BY Zenon
<1> HIDE DEF f
<1> QED BY Zenon, <1>1, <1>2, <1>3 DEF BlocksNobody, HasStates

(* reschedule *)
LEMMA RescheduleKeeps ==
    ASSUME NEW s, HasStates(s)
    PROVE  BlocksNobody(s, Reschedule(s))
<1>1. \A t : BlocksNobody(s, SwitchTo(s, t))
    BY Zenon, SwitchKeeps
<1>2. ASSUME NEW p, NEW t PROVE BlocksNobody(s, SwitchTo(UpdateNextTask(s, p), t))
  <2> DEFINE n == UpdateNextTask(s, p)
  <2>1. HasStates(n) /\ n.state = s.state
      BY Zenon, NextTaskKeeps
  <2> HIDE DEF n
  <2>2. BlocksNobody(n, SwitchTo(n, t))
      BY Zenon, <2>1, SwitchKeeps
  <2> QED BY Zenon, <2>1, <2>2 DEF BlocksNobody, n
<1> QED BY Zenon, <1>1, <1>2 DEF Reschedule

(* unblock_task: the task is not blocked afterwards. *)
LEMMA UnblockKeeps ==
    ASSUME NEW s, HasStates(s), NEW t
    PROVE  /\ BlocksNobody(s, UnblockTask(s, t))
           /\ t \in Tasks => UnblockTask(s, t).state[t] # "blocked"
<1>1. CASE s.state[t] \in Suspended
  <2> DEFINE u == UnblockTask(s, t)
  <2>1. "state" \in DOMAIN u /\ u.state = [s.state EXCEPT ![t] = "ready"]
      BY Zenon, <1>1 DEF HasStates, UnblockTask
  <2> HIDE DEF u
  <2>2. u.state \in States /\ \A x \in Tasks : u.state[x] = IF x = t THEN "ready" ELSE s.state[x]
      BY Zenon, <2>1 DEF HasStates, States, ThreadStates
  <2> QED BY Zenon, <2>1, <2>2 DEF BlocksNobody, HasStates, u
<1>2. CASE s.state[t] \notin Suspended
    BY Zenon, <1>2 DEF UnblockTask, BlocksNobody, Suspended
<1> QED BY Zenon, <1>1, <1>2

(* block_task changes the state of one task. *)
LEMMA BlockKeeps ==
    ASSUME NEW s, HasStates(s), NEW t
    PROVE  HasStates(BlockTask(s, t)) /\ \A x \in Tasks \ {t} : BlockTask(s, t).state[x] = s.state[x]
<1> DEFINE b == [s EXCEPT !.state[t] = "blocked"]
<1>1. "state" \in DOMAIN b /\ b.state = [s.state EXCEPT ![t] = "blocked"]
    BY Zenon DEF HasStates
<1> HIDE DEF b
<1>2. HasStates(b) /\ \A x \in Tasks \ {t} : b.state[x] = s.state[x]
    BY Zenon, <1>1 DEF HasStates, States, ThreadStates, Suspended
<1>3. \A p : HasStates(UpdateNextTask(b, p)) /\ UpdateNextTask(b, p).state = b.state
    BY Zenon, <1>2, NextTaskKeeps
<1>4. BlockTask(s, t) \in {s, b, UpdateNextTask(b, Priority[t])}
    BY Zenon DEF BlockTask, b
<1> QED BY Zenon, <1>2, <1>3, <1>4

(* queue_task of a ready task *)
LEMMA QueueKeeps ==
    ASSUME NEW s, HasStates(s), NEW t \in Tasks
    PROVE  BlocksNobody(s, QueueTask(s, t, "ready")) /\ QueueTask(s, t, "ready").state[t] # "blocked"
<1> DEFINE u == QueueTask(s, t, "ready")
<1>1. "state" \in DOMAIN u /\ u.state = [s.state EXCEPT ![t] = "ready"]
    BY Zenon DEF HasStates, QueueTask
<1> HIDE DEF u
<1>2. u.state \in States /\ \A x \in Tasks : u.state[x] = IF x = t THEN "ready" ELSE s.state[x]
    BY Zenon, <1>1 DEF HasStates, States, ThreadStates
<1> QED BY Zenon, <1>1, <1>2 DEF BlocksNobody, HasStates, u

(* tick_handler wakes sleepers and may reschedule. *)
LEMMA TickKeeps ==
    ASSUME NEW s, HasStates(s)
    PROVE  BlocksNobody(s, TickHandler(s))
<1> DEFINE u == UpdateSleepQuantum(s)
           f == [t \in Tasks |-> IF t \in WakingUp(s) THEN "ready" ELSE s.state[t]]
           v == [u EXCEPT !.quantum[u.cur] = @ + 1]
<1>1. "state" \in DOMAIN u /\ u.state = f
    BY Zenon DEF HasStates, UpdateSleepQuantum
<1>2. f \in States /\ \A t \in Tasks : f[t] = "blocked" => s.state[t] = "blocked"
    BY Zenon DEF HasStates, States, ThreadStates
<1> HIDE DEF u, f
<1>3. HasStates(u) /\ BlocksNobody(s, u)
    BY Zenon, <1>1, <1>2 DEF HasStates, BlocksNobody
<1>4. BlocksNobody(u, Reschedule(u))
    BY Zenon, <1>3, RescheduleKeeps
<1>5. "state" \in DOMAIN v /\ v.state = u.state
    BY Zenon, <1>3 DEF HasStates
<1> HIDE DEF v
<1>6. TickHandler(s) \in {Reschedule(u), v}
    BY Zenon DEF TickHandler, u, v
<1> QED BY Zenon, <1>3, <1>4, <1>5, <1>6 DEF BlocksNobody, HasStates

(* sleep up to its unlock: the task sleeps. *)
LEMMA SleepKeeps ==
    ASSUME NEW s, HasStates(s), NEW n
    PROVE  /\ BlocksNobody(s, SleepCurrent(s, n))
           /\ s.cur \in Tasks => SleepCurrent(s, n).state[s.cur] # "blocked"
<1> DEFINE u == SleepCurrent(s, n)
<1>1. "state" \in DOMAIN u /\ u.state = [s.state EXCEPT ![s.cur] = "sleeping"]
    BY Zenon DEF HasStates, SleepCurrent
<1> HIDE DEF u
<1>2. u.state \in States /\ \A x \in Tasks : u.state[x] = IF x = s.cur THEN "sleeping" ELSE s.state[x]
    BY Zenon, <1>1 DEF HasStates, States, ThreadStates, Suspended
<1> QED BY Zenon, <1>1, <1>2 DEF BlocksNobody, HasStates, u

(* kill_current_task up to its reschedule: the task is killed, and the cleaner not blocked. *)
LEMMA KillKeeps ==
    ASSUME NEW s, HasStates(s)
    PROVE  BlocksNobody(s, KillCurrent(s)) /\ KillCurrent(s).state[TasksClean] # "blocked"
<1> DEFINE u == UnlinkCurrent(s)
<1>1. "state" \in DOMAIN u /\ u.state = [s.state EXCEPT ![s.cur] = "killed"]
    BY Zenon DEF HasStates, UnlinkCurrent
<1> HIDE DEF u
<1>2. u.state \in States /\ \A x \in Tasks : u.state[x] = IF x = s.cur THEN "killed" ELSE s.state[x]
    BY Zenon, <1>1 DEF HasStates, States, ThreadStates
<1>3. HasStates(u) /\ BlocksNobody(s, u) /\ TasksClean \in Tasks
    BY Zenon, <1>1, <1>2, SchedulerAssumption DEF BlocksNobody, HasStates
<1>4. BlocksNobody(u, UnblockTask(u, TasksClean)) /\ UnblockTask(u, TasksClean).state[TasksClean] # "blocked"
    BY Zenon, <1>3, UnblockKeeps
<1> QED BY Zenon, <1>3, <1>4 DEF BlocksNobody, KillCurrent, u

(* The cleaner frees its batch. *)
LEMMA FreeKeeps ==
    ASSUME NEW s, HasStates(s)
    PROVE  BlocksNobody(s, FreeBatch(s))
<1> DEFINE u == FreeBatch(s)
           f == [t \in Tasks |-> IF t \in s.batch THEN "absent" ELSE s.state[t]]
<1>1. "state" \in DOMAIN u /\ u.state = f
    BY Zenon DEF HasStates, FreeBatch
<1>2. f \in States /\ \A t \in Tasks : f[t] = "blocked" => s.state[t] = "blocked"
    BY Zenon DEF HasStates, States, ThreadStates
<1> HIDE DEF u, f
<1> QED BY Zenon, <1>1, <1>2 DEF HasStates, BlocksNobody, u

-----------------------------------------------------------------------------
(* The kernel stacks *)

(* A frame less: no exit that was not there *)
LEMMA PoppedFrames ==
    ASSUME NEW q \in Seq(Steps), q # <<>>
    PROVE  Tail(q) \in Seq(Steps) /\ (HasExit(Tail(q)) => HasExit(q))
<1>1. Tail(q) \in Seq(Steps) /\ Len(Tail(q)) = Len(q) - 1 /\ Len(q) \in Nat
    OBVIOUS
<1>2. \A i \in 1..Len(Tail(q)) : i + 1 \in 1..Len(q) /\ Tail(q)[i] = q[i + 1]
    BY <1>1
<1> QED BY Zenon, <1>1, <1>2 DEF HasExit

(* Steps of an interrupt on top *)
LEMMA PushedFrames ==
    ASSUME NEW q \in Seq(Steps), NEW k \in {"tick", "irq"}
    PROVE  /\ <<k, "exit">> \o q \in Seq(Steps)
           /\ <<"resched">> \o q \in Seq(Steps) /\ (HasExit(<<"resched">> \o q) => HasExit(q))
<1>1. /\ <<k, "exit">> \in Seq(Steps) /\ <<"resched">> \in Seq(Steps)
    BY DEF Steps
<1>2. <<k, "exit">> \o q \in Seq(Steps) /\ <<"resched">> \o q \in Seq(Steps)
    BY <1>1
<1>3. Len(<<"resched">> \o q) = Len(q) + 1 /\ Len(q) \in Nat
    OBVIOUS
<1>4. ASSUME NEW i \in 1..Len(<<"resched">> \o q), (<<"resched">> \o q)[i] = "exit"
      PROVE  i - 1 \in 1..Len(q) /\ q[i - 1] = "exit"
  <2>1. i # 1
      BY <1>4
  <2>2. i - 1 \in 1..Len(q) /\ (<<"resched">> \o q)[i] = q[i - 1]
      BY <1>3, <2>1
  <2> QED BY Zenon, <1>4, <2>2
<1> QED BY Zenon, <1>2, <1>4 DEF HasExit

(* What a step of the current task leaves on the stacks *)
FramesStay == frames' \in [Tasks -> Seq(Steps)] /\ \A t \in Tasks : HasExit(frames'[t]) => HasExit(frames[t])

(* ReschedStep and the bodies of interrupts take their frame off. *)
LEMMA PopStays ==
    ASSUME IInv, ~Running, Pop
    PROVE  FramesStay
<1>1. frames \in [Tasks -> Seq(Steps)] /\ frames' = [frames EXCEPT ![cur] = Tail(frames[cur])]
    BY Zenon DEF IInv, Pop
<1>2. CASE cur \in Tasks
  <2>1. frames[cur] \in Seq(Steps) /\ frames[cur] # <<>>
      BY Zenon, <1>1, <1>2 DEF Running
  <2>2. Tail(frames[cur]) \in Seq(Steps) /\ (HasExit(Tail(frames[cur])) => HasExit(frames[cur]))
      BY Zenon, <2>1, PoppedFrames
  <2> QED BY Zenon, <1>1, <1>2, <2>2 DEF FramesStay
<1>3. CASE cur \notin Tasks
  <2>1. frames' \in [Tasks -> Seq(Steps)] /\ \A t \in Tasks : frames'[t] = frames[t]
      BY Zenon, <1>1, <1>3
  <2> QED BY Zenon, <2>1 DEF FramesStay
<1> QED BY Zenon, <1>2, <1>3

-----------------------------------------------------------------------------
(* The steps *)

(***************************************************************************)
(* A step that blocks nobody, hits nobody, takes off a wait queue only who *)
(* is not blocked then, and leaves no IRQ to a blocked notify thread.      *)
(***************************************************************************)
LEMMA QuietStepInv ==
    ASSUME IInv, BlocksNobody(sched, sched'), FramesStay, call' = call, hit' = hit,
           \A t \in Tasks : t \in waiting /\ t \notin waiting' => sched'.state[t] # "blocked",
           changed' => changed \/ sched'.state[IrqTask] # "blocked"
    PROVE  IInv'
<1>1. IrqTask \in Tasks
    BY Zenon, InterruptsAssumption
<1>2. HasStates(sched)' /\ (call \in [Tasks -> Calls])' /\ (frames \in [Tasks -> Seq(Steps)])'
    BY Zenon DEF IInv, BlocksNobody, HasStates, FramesStay
<1>3. (\A t \in Tasks : HasExit(frames[t]) => t \in hit)'
    BY Zenon DEF IInv, FramesStay
<1>4. (\A t \in Tasks \ hit : call[t] = "block" /\ sched.state[t] = "blocked" => t \in waiting)'
    BY Zenon DEF IInv, BlocksNobody
<1>5. (\A t \in Tasks \ hit : call[t] = "sleep" => sched.state[t] # "blocked")'
    BY Zenon DEF IInv, BlocksNobody
<1>6. (changed /\ IrqTask \notin hit => sched.state[IrqTask] # "blocked")'
    BY Zenon, <1>1 DEF IInv, BlocksNobody
<1> QED BY Zenon, <1>2, <1>3, <1>4, <1>5, <1>6 DEF IInv

(* A call of the current task that suspends it: blocked, it waits; asleep, it is not blocked. *)
LEMMA SuspendInv ==
    ASSUME IInv, NEW c \in Calls, NEW s, Suspend(c, s), HasStates(s),
           \A t \in Tasks \ {cur} : s.state[t] = "blocked" => sched.state[t] = "blocked",
           c = "block" => cur \in waiting', c = "sleep" => s.state[cur] # "blocked",
           \A t \in Tasks \ {cur} : t \in waiting /\ t \notin waiting' => s.state[t] # "blocked",
           changed' = changed, cur # IrqTask \/ ~changed \/ s.state[cur] # "blocked"
    PROVE  IInv'
<1> DEFINE u == cur
<1>0. u = cur
    OBVIOUS
<1>1. /\ sched' = s /\ call' = [call EXCEPT ![u] = c] /\ frames' = [frames EXCEPT ![u] = <<"resched">>]
      /\ hit' = hit \ {u} /\ IrqTask \in Tasks
    BY Zenon, InterruptsAssumption DEF Suspend
<1> HIDE DEF u
<1>2. call' \in [Tasks -> Calls] /\ (u \in Tasks => call'[u] = c) /\ \A t \in Tasks \ {u} : call'[t] = call[t]
    BY Zenon, <1>0, <1>1 DEF IInv
<1>3. <<"resched">> \in Seq(Steps) /\ ~HasExit(<<"resched">>)
    BY DEF Steps, HasExit
<1>4. /\ frames' \in [Tasks -> Seq(Steps)] /\ (u \in Tasks => frames'[u] = <<"resched">>)
      /\ \A t \in Tasks \ {u} : frames'[t] = frames[t]
    BY Zenon, <1>0, <1>1, <1>3 DEF IInv
<1>5. HasStates(sched)'
    BY Zenon, <1>1 DEF HasStates
<1>6. (\A t \in Tasks : HasExit(frames[t]) => t \in hit)'
    BY Zenon, <1>1, <1>3, <1>4 DEF IInv
<1>7. (\A t \in Tasks \ hit : call[t] = "block" /\ sched.state[t] = "blocked" => t \in waiting)'
    BY Zenon, <1>0, <1>1, <1>2 DEF IInv
<1>8. (\A t \in Tasks \ hit : call[t] = "sleep" => sched.state[t] # "blocked")'
    BY Zenon, <1>0, <1>1, <1>2 DEF IInv
<1>9. (changed /\ IrqTask \notin hit => sched.state[IrqTask] # "blocked")'
    BY Zenon, <1>0, <1>1 DEF IInv
<1> QED BY Zenon, <1>2, <1>4, <1>5, <1>6, <1>7, <1>8, <1>9 DEF IInv

(* The calls that suspend the current task: enqueue on a wait queue, ... *)
LEMMA EnqueueInv ==
    ASSUME IInv, EnqueueCurrent
    PROVE  IInv'
<1>1. HasStates(sched) /\ cur # IrqTask /\ Suspend("block", BlockTask(sched, cur)) /\ "block" \in Calls
    BY Zenon DEF IInv, EnqueueCurrent, Calls
<1>2. waiting' = waiting \cup {cur} /\ changed' = changed
    BY Zenon DEF EnqueueCurrent
<1>3. HasStates(BlockTask(sched, cur)) /\ \A x \in Tasks \ {cur} : BlockTask(sched, cur).state[x] = sched.state[x]
    BY Zenon, <1>1, BlockKeeps
<1> QED BY Zenon, <1>1, <1>2, <1>3, SuspendInv

(* ... sleep, ... *)
LEMMA SleepCallInv ==
    ASSUME IInv, NEW n, SleepCall(n)
    PROVE  IInv'
<1>1. /\ HasStates(sched) /\ cur \in Tasks /\ cur = sched.cur /\ "sleep" \in Calls
      /\ Suspend("sleep", SleepCurrent(sched, n)) /\ waiting' = waiting /\ changed' = changed
    BY Zenon, SchedulerAssumption DEF IInv, SleepCall, Calls, cur
<1>2. BlocksNobody(sched, SleepCurrent(sched, n)) /\ SleepCurrent(sched, n).state[cur] # "blocked"
    BY Zenon, <1>1, SleepKeeps
<1> QED BY Zenon, <1>1, <1>2, SuspendInv DEF BlocksNobody

(* ... kill_current_task, which wakes the cleaner, ... *)
LEMMA KillCallInv ==
    ASSUME IInv, KillCall
    PROVE  IInv'
<1>1. /\ HasStates(sched) /\ cur # IrqTask /\ "kill" \in Calls
      /\ Suspend("kill", KillCurrent(sched)) /\ waiting' = waiting \ {TasksClean} /\ changed' = changed
    BY Zenon, InterruptsAssumption DEF IInv, KillCall, Calls
<1>2. BlocksNobody(sched, KillCurrent(sched)) /\ KillCurrent(sched).state[TasksClean] # "blocked"
    BY Zenon, <1>1, KillKeeps
<1> QED BY Zenon, <1>1, <1>2, SuspendInv DEF BlocksNobody

(* ... the end of the cleaner's loop, ... *)
LEMMA CleanFreeInv ==
    ASSUME IInv, CleanFreeStep
    PROVE  IInv'
<1> DEFINE f == FreeBatch(sched)
           b == BlockTask(f, TasksClean)
<1>1. /\ HasStates(sched) /\ cur # IrqTask /\ cur = TasksClean /\ "block" \in Calls
      /\ Suspend("block", b) /\ waiting' = waiting \cup {cur} /\ changed' = changed
    BY Zenon, InterruptsAssumption DEF IInv, CleanFreeStep, Calls
<1>2. BlocksNobody(sched, f) /\ HasStates(f)
    BY Zenon, <1>1, FreeKeeps DEF BlocksNobody
<1> HIDE DEF f
<1>3. HasStates(b) /\ \A x \in Tasks \ {TasksClean} : b.state[x] = f.state[x]
    BY Zenon, <1>2, BlockKeeps
<1> HIDE DEF b
<1>4. \A t \in Tasks \ {cur} : b.state[t] = "blocked" => sched.state[t] = "blocked"
    BY Zenon, <1>1, <1>2, <1>3 DEF BlocksNobody
<1> QED BY Zenon, <1>1, <1>3, <1>4, SuspendInv

(* ... and the block of irq_notify_thread, which has no IRQ to pass on. *)
LEMMA IrqBlockInv ==
    ASSUME IInv, IrqNotifyBlock
    PROVE  IInv'
<1>1. /\ HasStates(sched) /\ ~changed /\ cur = IrqTask /\ "block" \in Calls
      /\ Suspend("block", BlockTask(sched, cur)) /\ waiting' = waiting \cup {cur} /\ changed' = changed
    BY Zenon DEF IInv, IrqNotifyBlock, Calls
<1>2. HasStates(BlockTask(sched, cur)) /\ \A x \in Tasks \ {cur} : BlockTask(sched, cur).state[x] = sched.state[x]
    BY Zenon, <1>1, BlockKeeps
<1> QED BY Zenon, <1>1, <1>2, SuspendInv

(* The calls that do not suspend: who is taken off a wait queue is unblocked. *)
LEMMA CallsInv ==
    ASSUME IInv, CleanTakeStep \/ IrqNotifyCopy \/ IdleStep \/ \E t \in Tasks : Dequeue(t)
    PROVE  IInv'
<1>1. HasStates(sched) /\ (frames' = frames => FramesStay) /\ BlocksNobody(sched, sched)
    BY Zenon DEF IInv, FramesStay, BlocksNobody
<1>2. CASE CleanTakeStep
  <2>1. BlocksNobody(sched, sched')
    <3>1. sched' = [sched EXCEPT !.batch = sched.killed, !.killed = {}, !.cleaner = "free"]
        BY Zenon, <1>2 DEF CleanTakeStep, CleanTake
    <3>2. "state" \in DOMAIN sched' /\ sched'.state = sched.state
        BY Zenon, <1>1, <3>1 DEF HasStates
    <3> QED BY Zenon, <1>1, <3>2 DEF BlocksNobody, HasStates
  <2> QED BY Zenon, <1>1, <1>2, <2>1, QuietStepInv DEF CleanTakeStep
<1>3. CASE IrqNotifyCopy
  <2>1. sched' = sched /\ ~changed'
      BY Zenon, <1>3 DEF IrqNotifyCopy
  <2> QED BY Zenon, <1>1, <1>3, <2>1, QuietStepInv DEF IrqNotifyCopy
<1>4. CASE IdleStep
  <2>1. BlocksNobody(sched, sched')
      BY Zenon, <1>1, <1>4, RescheduleKeeps DEF IdleStep, IdleTask
  <2> QED BY Zenon, <1>1, <1>4, <2>1, QuietStepInv DEF IdleStep
<1>5. ASSUME NEW t \in Tasks, Dequeue(t) PROVE IInv'
  <2>1. BlocksNobody(sched, sched') /\ sched'.state[t] # "blocked" /\ waiting' = waiting \ {t}
      BY Zenon, <1>1, <1>5, UnblockKeeps DEF Dequeue
  <2> QED BY Zenon, <1>1, <1>5, <2>1, QuietStepInv DEF Dequeue
<1> QED BY Zenon, <1>2, <1>3, <1>4, <1>5

(* A new task is ready, and was not hit. *)
LEMMA SpawnInv ==
    ASSUME IInv, NEW t \in Tasks, SpawnTask(t)
    PROVE  IInv'
<1>1. /\ sched' = QueueTask(sched, t, "ready") /\ frames' = [frames EXCEPT ![t] = <<>>]
      /\ call' = [call EXCEPT ![t] = "none"] /\ hit' = hit \ {t} /\ waiting' = waiting /\ changed' = changed
      /\ t # IrqTask /\ IrqTask \in Tasks /\ "none" \in Calls
    BY Zenon, InterruptsAssumption DEF SpawnTask, CreateTask, Calls
<1>2. BlocksNobody(sched, sched') /\ sched'.state[t] # "blocked"
    BY Zenon, <1>1, QueueKeeps DEF IInv
<1>3. <<>> \in Seq(Steps) /\ ~HasExit(<<>>)
    BY DEF HasExit
<1>4. /\ frames' \in [Tasks -> Seq(Steps)] /\ frames'[t] = <<>> /\ \A x \in Tasks \ {t} : frames'[x] = frames[x]
    BY Zenon, <1>1, <1>3 DEF IInv
<1>5. call' \in [Tasks -> Calls] /\ call'[t] = "none" /\ \A x \in Tasks \ {t} : call'[x] = call[x]
    BY Zenon, <1>1 DEF IInv
<1>6. HasStates(sched)'
    BY Zenon, <1>2 DEF BlocksNobody, HasStates
<1>7. (\A x \in Tasks : HasExit(frames[x]) => x \in hit)'
    BY Zenon, <1>1, <1>3, <1>4 DEF IInv
<1>8. (\A x \in Tasks \ hit : call[x] = "block" /\ sched.state[x] = "blocked" => x \in waiting)'
    BY Zenon, <1>1, <1>2, <1>5 DEF IInv, BlocksNobody
<1>9. (\A x \in Tasks \ hit : call[x] = "sleep" => sched.state[x] # "blocked")'
    BY Zenon, <1>1, <1>2, <1>5 DEF IInv, BlocksNobody
<1>10. (changed /\ IrqTask \notin hit => sched.state[IrqTask] # "blocked")'
    BY Zenon, <1>1, <1>2 DEF IInv, BlocksNobody
<1> QED BY Zenon, <1>4, <1>5, <1>6, <1>7, <1>8, <1>9, <1>10 DEF IInv

(* irq_interrupt_handler unblocks the notify thread. *)
LEMMA NotifyKeeps ==
    ASSUME IInv, NotifyIrq
    PROVE  /\ BlocksNobody(sched, sched') /\ sched'.state[IrqTask] # "blocked"
           /\ waiting' = waiting \ {IrqTask}
<1>1. IrqTask \in Tasks /\ HasStates(sched)
    BY Zenon, InterruptsAssumption DEF IInv
<1> QED BY Zenon, <1>1, UnblockKeeps DEF NotifyIrq

(* The bodies of interrupts, on a running task or in a frame, and the reschedule of a frame *)
LEMMA BodiesInv ==
    ASSUME IInv, TickWhileRunning \/ IrqWhileRunning \/ TickBody \/ IrqBody \/ ReschedStep
    PROVE  IInv'
<1>1. HasStates(sched) /\ (frames' = frames => FramesStay)
    BY Zenon DEF IInv, FramesStay
<1>2. CASE TickWhileRunning \/ TickBody
  <2>1. BlocksNobody(sched, sched')
      BY Zenon, <1>1, <1>2, TickKeeps DEF TickWhileRunning, TickBody, Tick
  <2>2. FramesStay
      BY Zenon, <1>1, <1>2, PopStays DEF TickWhileRunning, TickBody, Top
  <2>3. call' = call /\ hit' = hit /\ waiting' = waiting /\ changed' = changed
      BY Zenon, <1>2 DEF TickWhileRunning, TickBody
  <2> QED BY Zenon, <2>1, <2>2, <2>3, QuietStepInv
<1>3. CASE IrqWhileRunning \/ IrqBody
  <2>1. NotifyIrq /\ call' = call /\ hit' = hit
      BY Zenon, <1>3 DEF IrqWhileRunning, IrqBody
  <2>2. FramesStay
      BY Zenon, <1>1, <1>3, PopStays DEF IrqWhileRunning, IrqBody, Top
  <2> QED BY Zenon, <2>1, <2>2, NotifyKeeps, QuietStepInv
<1>4. CASE ReschedStep
  <2>1. BlocksNobody(sched, sched')
      BY Zenon, <1>1, <1>4, RescheduleKeeps DEF ReschedStep
  <2>2. FramesStay
      BY Zenon, <1>4, PopStays DEF ReschedStep, Top
  <2>3. call' = call /\ hit' = hit /\ waiting' = waiting /\ changed' = changed
      BY Zenon, <1>4 DEF ReschedStep
  <2> QED BY Zenon, <2>1, <2>2, <2>3, QuietStepInv
<1> QED BY Zenon, <1>2, <1>3, <1>4

(* isr_handler hits a task that gives up the CPU, and makes it ready. *)
LEMMA IsrEnterInv ==
    ASSUME IInv, NEW k \in {"tick", "irq"}, IsrEnter(k)
    PROVE  IInv'
<1> DEFINE u == cur
           q == <<k, "exit">> \o frames[cur]
<1>1. /\ sched' = UnblockTask(sched, u) /\ hit' = hit \cup {u} /\ frames' = [frames EXCEPT ![u] = q]
      /\ call' = call /\ waiting' = waiting /\ changed' = changed /\ HasStates(sched) /\ IrqTask \in Tasks
    BY Zenon, InterruptsAssumption DEF IsrEnter, IInv
<1>2. u \in Tasks => q \in Seq(Steps)
  <2>1. u \in Tasks => frames[cur] \in Seq(Steps)
      BY Zenon DEF IInv
  <2> QED BY Zenon, <2>1, PushedFrames
<1> HIDE DEF u, q
<1>3. frames' \in [Tasks -> Seq(Steps)] /\ \A t \in Tasks \ {u} : frames'[t] = frames[t]
  <2>1. CASE u \in Tasks
      BY Zenon, <1>1, <1>2, <2>1 DEF IInv
  <2>2. CASE u \notin Tasks
      BY Zenon, <1>1, <2>2 DEF IInv
  <2> QED BY Zenon, <2>1, <2>2
<1>4. BlocksNobody(sched, sched')
    BY Zenon, <1>1, UnblockKeeps
<1>5. HasStates(sched)' /\ (call \in [Tasks -> Calls])'
    BY Zenon, <1>1, <1>4 DEF BlocksNobody, HasStates, IInv
<1>6. (\A t \in Tasks : HasExit(frames[t]) => t \in hit)'
    BY Zenon, <1>1, <1>3 DEF IInv
<1>7. (\A t \in Tasks \ hit : call[t] = "block" /\ sched.state[t] = "blocked" => t \in waiting)'
    BY Zenon, <1>1, <1>4 DEF IInv, BlocksNobody
<1>8. (\A t \in Tasks \ hit : call[t] = "sleep" => sched.state[t] # "blocked")'
    BY Zenon, <1>1, <1>4 DEF IInv, BlocksNobody
<1>9. (changed /\ IrqTask \notin hit => sched.state[IrqTask] # "blocked")'
    BY Zenon, <1>1, <1>4 DEF IInv, BlocksNobody
<1> QED BY Zenon, <1>3, <1>5, <1>6, <1>7, <1>8, <1>9 DEF IInv

(* isr_handler blocks the task again: one that it has hit. *)
LEMMA IsrExitInv ==
    ASSUME IInv, IsrExit
    PROVE  IInv'
<1> DEFINE u == cur
           q == <<"resched">> \o Tail(frames[cur])
<1>1. /\ sched' = BlockTask(sched, u) /\ hit' = hit /\ frames' = [frames EXCEPT ![u] = q]
      /\ call' = call /\ waiting' = waiting /\ changed' = changed /\ HasStates(sched) /\ IrqTask \in Tasks
    BY Zenon, InterruptsAssumption DEF IsrExit, IInv
<1>2. ASSUME u \in Tasks PROVE q \in Seq(Steps) /\ u \in hit
  <2>1. frames[cur] \in Seq(Steps) /\ frames[cur] # <<>> /\ Head(frames[cur]) = "exit"
      BY Zenon, <1>2 DEF IInv, IsrExit, Top, Running
  <2>2. Tail(frames[cur]) \in Seq(Steps)
      BY Zenon, <2>1, PoppedFrames
  <2>3. "tick" \in {"tick", "irq"}
      BY Zenon
  <2>4. q \in Seq(Steps)
      BY Zenon, <2>2, <2>3, PushedFrames
  <2>5. HasExit(frames[cur])
    <3>1. 1 \in 1..Len(frames[cur]) /\ frames[cur][1] = "exit"
        BY <2>1
    <3> QED BY Zenon, <3>1 DEF HasExit
  <2> QED BY Zenon, <1>2, <2>4, <2>5 DEF IInv
<1> HIDE DEF u, q
<1>3. frames' \in [Tasks -> Seq(Steps)] /\ \A t \in Tasks \ {u} : frames'[t] = frames[t]
  <2>1. CASE u \in Tasks
      BY Zenon, <1>1, <1>2, <2>1 DEF IInv
  <2>2. CASE u \notin Tasks
      BY Zenon, <1>1, <2>2 DEF IInv
  <2> QED BY Zenon, <2>1, <2>2
<1>4. HasStates(BlockTask(sched, u)) /\ \A x \in Tasks \ {u} : BlockTask(sched, u).state[x] = sched.state[x]
    BY Zenon, <1>1, BlockKeeps
<1>5. HasStates(sched)' /\ (call \in [Tasks -> Calls])' /\ \A x \in Tasks \ {u} : sched'.state[x] = sched.state[x]
    BY Zenon, <1>1, <1>4 DEF HasStates, IInv
<1>6. (\A t \in Tasks : HasExit(frames[t]) => t \in hit)'
    BY Zenon, <1>1, <1>2, <1>3 DEF IInv
<1>7. (\A t \in Tasks \ hit : call[t] = "block" /\ sched.state[t] = "blocked" => t \in waiting)'
    BY Zenon, <1>1, <1>2, <1>5 DEF IInv
<1>8. (\A t \in Tasks \ hit : call[t] = "sleep" => sched.state[t] # "blocked")'
    BY Zenon, <1>1, <1>2, <1>5 DEF IInv
<1>9. (changed /\ IrqTask \notin hit => sched.state[IrqTask] # "blocked")'
    BY Zenon, <1>1, <1>2, <1>5 DEF IInv
<1> QED BY Zenon, <1>3, <1>5, <1>6, <1>7, <1>8, <1>9 DEF IInv

-----------------------------------------------------------------------------
(* Results *)

(* At the start the cleaner and the notify thread are blocked, and wait. *)
LEMMA InitInv == InitInt => IInv
<1> SUFFICES ASSUME InitInt PROVE IInv
    BY Zenon
<1> DEFINE f == [t \in Tasks |-> CASE t = Main -> "running"
                                   [] t \in {Idle, InitTask} -> "ready"
                                   [] t = TasksClean -> "blocked"
                                   [] OTHER -> "absent"]
           g == [f EXCEPT ![IrqTask] = "blocked"]
<1>1. f \in States /\ \A t \in Tasks : f[t] = "blocked" => t = TasksClean
    BY DEF States, ThreadStates, Suspended
<1>2. "state" \in DOMAIN SchedInit /\ SchedInit.state = f
    BY Zenon DEF SchedInit
<1> HIDE DEF f
<1>3. "state" \in DOMAIN sched /\ sched.state = g
    BY Zenon, <1>2 DEF InitInt, QueueTask
<1>4. g \in States /\ \A t \in Tasks : g[t] = "blocked" => t \in {TasksClean, IrqTask}
    BY Zenon, <1>1 DEF States, ThreadStates, Suspended
<1> HIDE DEF g
<1>5. HasStates(sched) /\ \A t \in Tasks : sched.state[t] = "blocked" => t \in {TasksClean, IrqTask}
    BY Zenon, <1>3, <1>4 DEF HasStates
<1>6. <<>> \in Seq(Steps) /\ ~HasExit(<<>>)
    BY DEF HasExit
<1>7. frames \in [Tasks -> Seq(Steps)] /\ \A t \in Tasks : frames[t] = <<>>
    BY Zenon, <1>6 DEF InitInt
<1>8. call \in [Tasks -> Calls] /\ \A t \in Tasks : call[t] \in {"none", "block"}
    BY Zenon DEF InitInt, Calls
<1>9. waiting = {TasksClean, IrqTask} /\ ~changed
    BY Zenon DEF InitInt
<1>10. \A t \in Tasks : call[t] # "sleep"
    BY Zenon, <1>8
<1> QED BY Zenon, <1>5, <1>6, <1>7, <1>8, <1>9, <1>10 DEF IInv

(* Every call, every interrupt and every step on a kernel stack keeps the invariant. *)
LEMMA NextInv == IInv /\ [NextInt]_vars => IInv'
<1> SUFFICES ASSUME IInv, [NextInt]_vars PROVE IInv'
    BY Zenon
<1>1. CASE EnqueueCurrent \/ KillCall \/ CleanFreeStep \/ IrqNotifyBlock
    BY Zenon, <1>1, EnqueueInv, KillCallInv, CleanFreeInv, IrqBlockInv
<1>2. ASSUME NEW n \in 1..MaxSleep, SleepCall(n) PROVE IInv'
    BY Zenon, <1>2, SleepCallInv
<1>3. ASSUME NEW t \in Tasks, SpawnTask(t) PROVE IInv'
    BY Zenon, <1>3, SpawnInv
<1>4. CASE CleanTakeStep \/ IrqNotifyCopy \/ IdleStep \/ \E t \in Tasks : Dequeue(t)
    BY Zenon, <1>4, CallsInv
<1>5. CASE TickWhileRunning \/ IrqWhileRunning \/ TickBody \/ IrqBody \/ ReschedStep
    BY Zenon, <1>5, BodiesInv
<1>6. ASSUME NEW k \in {"tick", "irq"}, IsrEnter(k) PROVE IInv'
    BY Zenon, <1>6, IsrEnterInv
<1>7. CASE IsrExit
    BY Zenon, <1>7, IsrExitInv
<1>8. CASE UNCHANGED vars
    BY Zenon, <1>8 DEF vars, IInv, HasStates
<1> QED BY Zenon, <1>1, <1>2, <1>3, <1>4, <1>5, <1>6, <1>7, <1>8 DEF NextInt

(* In every state a task that was taken off its wait queue and stays blocked was interrupted on
   its way out of the CPU (task_wait_queue::dequeue, isr_handler). *)
THEOREM LostWakeupsWereHit == SpecInt => []OnlyInterruptedLoseWakeups
<1>1. IInv => OnlyInterruptedLoseWakeups
    BY Zenon DEF IInv, OnlyInterruptedLoseWakeups, LostWakeups
<1> QED BY <1>1, InitInv, NextInv, PTL DEF SpecInt

(* In every state the notify thread is not blocked while an IRQ waits to be passed on, unless it
   was interrupted on its way out of the CPU (irq_interrupt_handler, irq_notify_thread). *)
THEOREM IrqsArePassedOn == SpecInt => []IrqIsPassedOn
<1>1. IInv => IrqIsPassedOn
    BY Zenon DEF IInv, IrqIsPassedOn
<1> QED BY <1>1, InitInv, NextInv, PTL DEF SpecInt

(* In every state a task that called sleep and was not interrupted on its way out of the CPU is
   not blocked (sleep, isr_handler). *)
THEOREM SleepersAreTimed == SpecInt => []SleepStaysTimed
<1>1. IInv => SleepStaysTimed
    BY Zenon DEF IInv, SleepStaysTimed
<1> QED BY <1>1, InitInv, NextInv, PTL DEF SpecInt
=============================================================================
