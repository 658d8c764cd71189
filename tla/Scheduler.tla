------------------------------ MODULE Scheduler ------------------------------
(***************************************************************************)
(* The influx thread scheduler (kernel/threading/scheduler.cpp): one CPU,  *)
(* one ring of tasks per priority level, and per ring a pointer next_task  *)
(* to the task that is dispatched next.                                    *)
(*                                                                         *)
(* Every function of the scheduler that runs with interrupts disabled is   *)
(* an operator from the scheduler's data to its new data; an action of the *)
(* specification is one call of the kernel, made by the current task or by *)
(* the timer interrupt.  This module covers interrupts that arrive while   *)
(* the current task is in the state "running"; the ones that hit a task on *)
(* its way from a state change to its reschedule() are in Interrupts.      *)
(***************************************************************************)
EXTENDS Integers, Sequences, Functions

CONSTANTS
    Tasks,             \* every thread control block (tcb), the idle task included
    NoTask,            \* nullptr
    Idle,              \* _idle_task, a member of no ring
    Main,              \* the kernel main thread, current when the scheduler starts
    TasksClean,        \* _tasks_clean_task, which frees killed tasks
    InitTask,          \* main task of the init process
    MaxPriorityLevel,  \* MAX_PRIORITY_LEVEL, the priority of system processes
    Priority,          \* priority of the process that a task belongs to
    Sleepers,          \* tasks of programs that call sleep()
    MaxQuantum,        \* _max_quantum, in timer ticks
    MaxSleep           \* bound on the length of a sleep, in timer ticks

Prios == 0..MaxPriorityLevel

ASSUME SchedulerAssumption ==
    /\ {Idle, Main, TasksClean, InitTask} \subseteq Tasks
    /\ IsInjective(<<Idle, Main, TasksClean, InitTask>>)
    /\ NoTask \notin Tasks
    /\ MaxPriorityLevel \in Nat
    /\ Priority \in [Tasks -> Prios]
    /\ \A t \in {Idle, Main, TasksClean, InitTask} : Priority[t] = MaxPriorityLevel
    /\ Sleepers \subseteq Tasks \ {Idle, TasksClean, InitTask}
    /\ MaxQuantum \in Nat \ {0}
    /\ MaxSleep \in Nat \ {0}

(***************************************************************************)
(* thread_state, and "absent" for a tcb that is not allocated.             *)
(***************************************************************************)
Suspended == {"blocked", "sleeping", "waiting_for_child"}
ThreadStates == {"absent", "ready", "running", "killed"} \cup Suspended

VARIABLE sched

-----------------------------------------------------------------------------
(* The ring of a priority level, listed from priority_tcb_queue.start. *)

RingIndex(ring, t) == CHOOSE i \in 1..Len(ring) : ring[i] = t

Unlink(ring, t) ==
    LET i == RingIndex(ring, t)
    IN  SubSeq(ring, 1, i - 1) \o SubSeq(ring, i + 1, Len(ring))

\* Number of next() links from t to u, where u # t.
Ahead(ring, t, u) ==
    LET d == RingIndex(ring, u) - RingIndex(ring, t)
    IN  IF d > 0 THEN d ELSE d + Len(ring)

Runnable(s, t) == s.state[t] \in {"ready", "running"}

(***************************************************************************)
(* update_priority_queue_next_task: next_task moves on to the following    *)
(* runnable task of the ring; without another one it stays, unless its own *)
(* task cannot run either.  The caller dispatches the old next_task.       *)
(***************************************************************************)
OtherRunnable(s, p) ==
    {u \in Range(s.ring[p]) \ {s.next[p]} : Runnable(s, u)}

FollowingTask(s, p) ==
    CHOOSE u \in OtherRunnable(s, p) : \A v \in OtherRunnable(s, p) :
        Ahead(s.ring[p], s.next[p], u) <= Ahead(s.ring[p], s.next[p], v)

UpdateNextTask(s, p) ==
    [s EXCEPT !.next[p] =
        IF OtherRunnable(s, p) # {} THEN FollowingTask(s, p)
        ELSE IF Runnable(s, s.next[p]) THEN s.next[p]
        ELSE NoTask]

(***************************************************************************)
(* reschedule and get_next_task: the highest level with a next_task wins.  *)
(***************************************************************************)
ReadyLevels(s) == {p \in Prios : s.next[p] # NoTask}

HighestReadyLevel(s) ==
    CHOOSE p \in ReadyLevels(s) : \A q \in ReadyLevels(s) : q <= p

NextToRun(s) ==
    IF ReadyLevels(s) # {} THEN s.next[HighestReadyLevel(s)]
    ELSE IF s.state[s.cur] = "running" THEN s.cur
    ELSE Idle

SwitchTo(s, t) ==
    [s EXCEPT !.cur = t,
              !.quantum[s.cur] = 0,
              !.state = [u \in Tasks |->
                  IF u = t THEN "running"
                  ELSE IF u = s.cur /\ s.state[u] = "running" THEN "ready"
                  ELSE s.state[u]]]

Reschedule(s) ==
    IF ReadyLevels(s) # {}
    THEN SwitchTo(UpdateNextTask(s, HighestReadyLevel(s)), NextToRun(s))
    ELSE SwitchTo(s, NextToRun(s))

(***************************************************************************)
(* block_task, unblock_task and queue_task.                                *)
(***************************************************************************)
BlockTask(s, t) ==
    LET b == [s EXCEPT !.state[t] = "blocked"]
    IN  IF s.state[t] = "blocked" THEN s
        ELSE IF s.next[Priority[t]] = t THEN UpdateNextTask(b, Priority[t])
        ELSE b

\* next_task of t's level once t became ready.
NextWith(s, t) == IF s.next[Priority[t]] \in {NoTask, s.cur} THEN t ELSE s.next[Priority[t]]

\* Mutant of UnblockTask: next_task is set only where there is none.
UnblockTaskIfNoNext(s, t) ==
    IF s.state[t] \in Suspended
    THEN [s EXCEPT !.state[t] = "ready",
                   !.next[Priority[t]] = IF @ = NoTask THEN t ELSE @]
    ELSE s

UnblockTask(s, t) ==
    IF s.state[t] \in Suspended
    THEN [s EXCEPT !.state[t] = "ready", !.next[Priority[t]] = NextWith(s, t)]
    ELSE s

\* Mutant of QueueTask: a task queued blocked may become next_task.
QueueTaskAnyState(s, t, st) ==
    [s EXCEPT !.state[t] = st,
              !.ring[Priority[t]] = Append(@, t),
              !.next[Priority[t]] = NextWith(s, t)]

QueueTask(s, t, st) ==
    [s EXCEPT !.state[t] = st,
              !.ring[Priority[t]] = Append(@, t),
              !.next[Priority[t]] = IF st = "ready" THEN NextWith(s, t) ELSE @]

(***************************************************************************)
(* The state changes of sleep, wait_for_child and kill_current_task: a     *)
(* next_task that points at the current task is cleared, not moved on.     *)
(***************************************************************************)
\* Mutant of DropFromNext: next_task is left alone.
DropFromNextNot(s) == s.next

DropFromNext(s) ==
    [s.next EXCEPT ![Priority[s.cur]] = IF @ = s.cur THEN NoTask ELSE @]

SleepCurrent(s, ticks) ==
    [s EXCEPT !.state[s.cur] = "sleeping", !.sleep[s.cur] = ticks, !.next = DropFromNext(s)]

WaitCurrent(s) ==
    [s EXCEPT !.state[s.cur] = "waiting_for_child", !.next = DropFromNext(s)]

\* Mutant of UnlinkCurrent: the task stays linked.
UnlinkCurrentKeepsLink(s) ==
    [s EXCEPT !.state[s.cur] = "killed", !.killed = @ \cup {s.cur}, !.next = DropFromNext(s)]

UnlinkCurrent(s) ==
    [s EXCEPT !.state[s.cur] = "killed",
              !.ring[Priority[s.cur]] = Unlink(@, s.cur),
              !.killed = @ \cup {s.cur},
              !.next = DropFromNext(s)]

KillCurrent(s) == UnblockTask(UnlinkCurrent(s), TasksClean)

(***************************************************************************)
(* update_tasks_sleep_quantum.  Tasks whose sleep ends become ready; the   *)
(* first of them in ring order becomes next_task if the level has none.    *)
(***************************************************************************)
WakingUp(s) == {t \in Tasks : s.state[t] = "sleeping" /\ s.sleep[t] = 1}

FirstAwake(s, p) ==
    CHOOSE t \in WakingUp(s) \cap Range(s.ring[p]) :
        \A u \in WakingUp(s) \cap Range(s.ring[p]) :
            RingIndex(s.ring[p], t) <= RingIndex(s.ring[p], u)

UpdateSleepQuantum(s) ==
    [s EXCEPT
        !.sleep = [t \in Tasks |-> IF s.state[t] = "sleeping" THEN s.sleep[t] - 1 ELSE s.sleep[t]],
        !.state = [t \in Tasks |-> IF t \in WakingUp(s) THEN "ready" ELSE s.state[t]],
        !.next  = [p \in Prios |->
            IF s.next[p] = NoTask /\ WakingUp(s) \cap Range(s.ring[p]) # {}
            THEN FirstAwake(s, p) ELSE s.next[p]]]

-----------------------------------------------------------------------------
(* The specification. *)

(***************************************************************************)
(* The state the constructor leaves: the main thread runs, the cleaner is  *)
(* blocked, the init task has been queued ready.                           *)
(***************************************************************************)
SchedInit ==
    [state   |-> [t \in Tasks |-> CASE t = Main -> "running"
                                    [] t \in {Idle, InitTask} -> "ready"
                                    [] t = TasksClean -> "blocked"
                                    [] OTHER -> "absent"],
     ring    |-> [p \in Prios |-> IF p = MaxPriorityLevel
                                  THEN <<Main, TasksClean, InitTask>> ELSE <<>>],
     next    |-> [p \in Prios |-> IF p = MaxPriorityLevel THEN InitTask ELSE NoTask],
     cur     |-> Main,
     quantum |-> [t \in Tasks |-> 0],
     sleep   |-> [t \in Tasks |-> 0],
     killed  |-> {},
     batch   |-> {},
     cleaner |-> "take"]

Init == sched = SchedInit

\* Mutant of TickHandler: a used-up quantum is reset and the task goes on.
TickHandlerKeepsTask(s) ==
    LET u == UpdateSleepQuantum(s)
    IN  [u EXCEPT !.quantum[u.cur] = IF @ = MaxQuantum THEN 0 ELSE @ + 1]

(***************************************************************************)
(* tick_handler, on the stack of whatever task runs.                       *)
(***************************************************************************)
TickHandler(s) ==
    LET u == UpdateSleepQuantum(s)
    IN  IF u.quantum[u.cur] = MaxQuantum THEN Reschedule(u)
        ELSE [u EXCEPT !.quantum[u.cur] = @ + 1]

Tick == sched' = TickHandler(sched)

\* idle_task: after every interrupt the idle task looks for work.
IdleTask == sched.cur = Idle /\ sched' = Reschedule(sched)

\* create_kernel_thread, and the task creation of start_process and fork.
CreateTask(t, st) ==
    /\ sched.cur # Idle
    /\ sched.state[t] = "absent"
    /\ st = "blocked" => Priority[t] = MaxPriorityLevel
    /\ sched' = QueueTask(sched, t, st)

\* sleep
Sleep(ticks) ==
    /\ sched.cur \in Sleepers
    /\ sched' = Reschedule(SleepCurrent(sched, ticks))

\* wait_for_child, the call that has to wait; only user programs make it.
WaitForChild ==
    /\ Priority[sched.cur] # MaxPriorityLevel
    /\ sched' = Reschedule(WaitCurrent(sched))

(***************************************************************************)
(* block_current_task, or an enqueue on a wait queue with the reschedule   *)
(* that follows it.  The cleaner blocks this way on mutexes that it needs  *)
(* to close the files of a process.                                        *)
(***************************************************************************)
BlockCurrentTask ==
    /\ sched.cur # Idle
    /\ sched.cur = TasksClean => sched.cleaner = "free"
    /\ sched' = Reschedule(BlockTask(sched, sched.cur))

(***************************************************************************)
(* unblock_task, called by the current task or by an interrupt handler for *)
(* a task it found suspended on a wait queue, a sleep or a wait.  Only a   *)
(* kill wakes the cleaner from the end of its loop.                        *)
(***************************************************************************)
Unblock(t) ==
    /\ sched.state[t] \in Suspended
    /\ t = TasksClean => sched.cleaner = "free"
    /\ sched' = UnblockTask(sched, t)

\* kill_current_task; the idle, cleaner and init tasks loop for ever.
KillCurrentTask ==
    /\ sched.cur \notin {Idle, TasksClean, InitTask}
    /\ sched' = Reschedule(KillCurrent(sched))

(***************************************************************************)
(* tasks_clean_task: take a copy of the killed queue and clear it; free    *)
(* the tasks of the copy, then block until the next kill.                  *)
(***************************************************************************)
\* Mutant of CleanTake: the killed queue is copied and not cleared.
CleanTakeKeepsQueue ==
    /\ sched.cur = TasksClean /\ sched.cleaner = "take"
    /\ sched' = [sched EXCEPT !.batch = sched.killed, !.cleaner = "free"]

\* Mutant of CleanTake: one task of the killed queue is taken, not all of them.
CleanTakeOne ==
    /\ sched.cur = TasksClean /\ sched.cleaner = "take"
    /\ \E t \in sched.killed :
          sched' = [sched EXCEPT !.batch = {t}, !.killed = @ \ {t}, !.cleaner = "free"]

CleanTake ==
    /\ sched.cur = TasksClean /\ sched.cleaner = "take"
    /\ sched' = [sched EXCEPT !.batch = sched.killed, !.killed = {}, !.cleaner = "free"]

FreeBatch(s) ==
    [s EXCEPT !.state = [t \in Tasks |-> IF t \in s.batch THEN "absent" ELSE s.state[t]],
              !.batch = {}, !.cleaner = "take"]

CleanFree ==
    /\ sched.cur = TasksClean /\ sched.cleaner = "free"
    /\ sched' = Reschedule(BlockTask(FreeBatch(sched), TasksClean))

Next ==
    \/ Tick
    \/ IdleTask
    \/ \E t \in Tasks, st \in {"ready", "blocked"} : CreateTask(t, st)
    \/ \E n \in 1..MaxSleep : Sleep(n)
    \/ WaitForChild
    \/ BlockCurrentTask
    \/ \E t \in Tasks : Unblock(t)
    \/ KillCurrentTask
    \/ CleanTake
    \/ CleanFree

Spec == Init /\ [][Next]_sched

(***************************************************************************)
(* The timer keeps firing: a tick is possible in every state, so that weak *)
(* fairness of Tick says that it happens again and again.  The cleaner,    *)
(* dispatched again and again, gets on with its loop (strong fairness),    *)
(* and what it waits for while it frees a task happens (weak fairness).    *)
(* The enabling conditions are written out.                                *)
(***************************************************************************)
CleanerAt(step) == sched.cur = TasksClean /\ sched.cleaner = step
CleanerBlocked == sched.state[TasksClean] = "blocked" /\ sched.cleaner = "free"

FairSpec ==
    /\ Spec
    /\ []<><<Tick>>_sched
    /\ []<>CleanerAt("take") => []<><<CleanTake>>_sched
    /\ []<>CleanerAt("free") => []<><<CleanFree>>_sched
    /\ <>[]CleanerBlocked => []<><<Unblock(TasksClean)>>_sched

-----------------------------------------------------------------------------
(* Properties. *)

SchedType ==
    [state   : [Tasks -> ThreadStates],
     ring    : [Prios -> Seq(Tasks)],
     next    : [Prios -> Tasks \cup {NoTask}],
     cur     : Tasks,
     quantum : [Tasks -> 0..MaxQuantum],
     sleep   : [Tasks -> 0..MaxSleep],
     killed  : SUBSET Tasks,
     batch   : SUBSET Tasks,
     cleaner : {"take", "free"}]

(***************************************************************************)
(* Type invariant: every field of the scheduler's data has its type; in    *)
(* particular the quantum never passes _max_quantum, so that the equality  *)
(* test of tick_handler cannot be jumped over.                             *)
(***************************************************************************)
TypeOK == sched \in SchedType

RingsListLiveTasks(s) ==
    /\ \A p \in Prios : IsInjective(s.ring[p])
    /\ \A p \in Prios : Range(s.ring[p]) =
           {t \in Tasks \ {Idle} : Priority[t] = p /\ s.state[t] \notin {"absent", "killed"}}

(***************************************************************************)
(* A ring holds exactly the allocated tasks of its level that have not     *)
(* been killed, each once: queue_task and the unlinking code of            *)
(* kill_current_task never lose, duplicate or keep a task.                 *)
(***************************************************************************)
RingsOK == RingsListLiveTasks(sched)

NextIsRunnable(s) ==
    \A p \in Prios : s.next[p] # NoTask =>
        s.next[p] \in Range(s.ring[p]) /\ Runnable(s, s.next[p])

(***************************************************************************)
(* next_task, when set, is a task of its own ring that can run: reschedule *)
(* dispatches it without looking at its state, so a stale next_task would  *)
(* run a blocked, sleeping or freed task.                                  *)
(***************************************************************************)
NextTaskRunnable == NextIsRunnable(sched)

RunningIsCur(s) == \A t \in Tasks : s.state[t] = "running" <=> t = s.cur

(***************************************************************************)
(* Between two scheduler calls the current task is in the state running,   *)
(* and no other task is.                                                   *)
(***************************************************************************)
CurrentIsRunning == RunningIsCur(sched)

KilledAreDead(s) ==
    /\ \A t \in Tasks : s.state[t] = "killed" <=> t \in s.killed \cup s.batch
    /\ s.killed \cap s.batch = {}

(***************************************************************************)
(* The cleaner frees only tasks that died, frees each of them once, and    *)
(* no dead task escapes its two queues.                                    *)
(***************************************************************************)
CleanerOwnsTheDead == KilledAreDead(sched)

NoSleeper(p) == \A t \in Sleepers : Priority[t] # p

ReadyTasksReachable(s) ==
    \A p \in Prios : NoSleeper(p) =>
        \A t \in Range(s.ring[p]) :
            s.state[t] = "ready" => s.next[p] \notin {NoTask, s.cur}

(***************************************************************************)
(* At a level none of whose tasks sleeps, no ready task is forgotten: as   *)
(* long as one waits for the CPU, next_task points at a waiting task.      *)
(* Clearing next_task in kill_current_task and wait_for_child without      *)
(* searching the ring is safe at such a level.                             *)
(***************************************************************************)
NoReadyTaskForgotten == ReadyTasksReachable(sched)

(***************************************************************************)
(* reschedule: "If there isn't no ready task, jump to the idle task"       *)
(* (scheduler.cpp:414): the CPU is given to the idle task only if no other *)
(* task is ready.                                                          *)
(***************************************************************************)
IdleOnlyWithoutReadyTask ==
    [][sched.cur # Idle /\ sched'.cur = Idle =>
          \A t \in Tasks \ {Idle} : sched'.state[t] # "ready"]_sched

(***************************************************************************)
(* A ready task of the highest level gets the CPU: round robin over the    *)
(* ring passes over nobody, whatever the other tasks block, unblock,       *)
(* create or kill.                                                         *)
(***************************************************************************)
TopLevelTaskRuns ==
    \A t \in Tasks \ {Idle} :
        (Priority[t] = MaxPriorityLevel /\ sched.state[t] = "ready")
            ~> sched.state[t] # "ready"

(***************************************************************************)
(* The cleaner does not look at the killed queue again before it blocks,   *)
(* so a task killed while it frees others waits there; but not longer than *)
(* until a later kill: as long as tasks keep dying, every one is taken.    *)
(***************************************************************************)
LaterKillCleans ==
    []<><<KillCurrentTask>>_sched =>
        \A t \in Tasks : t \in sched.killed ~> t \notin sched.killed
=============================================================================
