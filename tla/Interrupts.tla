----------------------------- MODULE Interrupts -----------------------------
(***************************************************************************)
(* Interrupts between the state change of a task and its reschedule().     *)
(*                                                                         *)
(* interrupts_lock does not nest: block_task, unblock_task and unlock()    *)
(* all enable interrupts when they finish, so a task that has already      *)
(* marked itself blocked, sleeping, waiting or killed can be interrupted   *)
(* before it gives up the CPU.  isr_handler (interrupt_manager.cpp) makes  *)
(* such a task ready, runs the handler on its stack, and blocks it again.  *)
(* All gates are trap gates, so the handlers can be interrupted too.       *)
(*                                                                         *)
(* frames[t] is what is left to do on the kernel stack of t, innermost     *)
(* first.  Bodies of interrupts that hit a running task are atomic.        *)
(***************************************************************************)
EXTENDS Scheduler

CONSTANTS
    IrqTask,   \* _irq_notify_task, a kernel thread that is created blocked
    Mortal,    \* tasks that call kill_current_task
    MaxNest    \* bound on the interrupts that are nested on one stack

ASSUME InterruptsAssumption ==
    /\ IrqTask \in Tasks \ {Idle, Main, TasksClean, InitTask}
    /\ Priority[IrqTask] = MaxPriorityLevel
    /\ Mortal \subseteq Tasks \ {Idle, TasksClean, InitTask, IrqTask}
    /\ MaxNest \in Nat

VARIABLES
    frames,    \* per task, the steps left on its kernel stack
    call,      \* per task, the last call that suspended it
    waiting,   \* tasks whose wake-up has not happened yet
    changed,   \* _irq_call_count_changed
    hit        \* history: tasks that an interrupt hit on their way out of the CPU

vars == <<sched, frames, call, waiting, changed, hit>>

Steps == {"tick", "irq", "exit", "resched"}
Calls == {"none", "block", "sleep", "kill"}

cur == sched.cur

Running == frames[cur] = <<>>

\* Interrupts that are on the stack of t, on top of its own call.
Nesting(t) == Len(SelectSeq(frames[t], LAMBDA f : f \in {"exit", "resched"})) - 1

\* The main thread has called start_irq_notify_thread.
InitInt ==
    /\ sched = QueueTask(SchedInit, IrqTask, "blocked")
    /\ frames = [t \in Tasks |-> <<>>]
    /\ call = [t \in Tasks |-> IF t \in {TasksClean, IrqTask} THEN "block" ELSE "none"]
    /\ waiting = {TasksClean, IrqTask}
    /\ changed = FALSE
    /\ hit = {}

-----------------------------------------------------------------------------
(* Calls of the current task, up to the moment interrupts are enabled. *)

Suspend(c, s) ==
    /\ sched' = s
    /\ call' = [call EXCEPT ![cur] = c]
    /\ frames' = [frames EXCEPT ![cur] = <<"resched">>]
    /\ hit' = hit \ {cur}

\* task_wait_queue::enqueue on behalf of mutex::lock and condition_variable::wait.
EnqueueCurrent ==
    /\ Running /\ cur \notin {Idle, TasksClean, IrqTask}
    /\ Suspend("block", BlockTask(sched, cur))
    /\ waiting' = waiting \cup {cur}
    /\ UNCHANGED changed

\* Mutant of Dequeue: the task is taken off the queue and not unblocked.
DequeueOnly(t) ==
    /\ Running /\ cur # Idle
    /\ t \in waiting \ {TasksClean, IrqTask}
    /\ waiting' = waiting \ {t}
    /\ UNCHANGED <<sched, frames, call, changed, hit>>

\* task_wait_queue::dequeue by the current task.
Dequeue(t) ==
    /\ Running /\ cur # Idle
    /\ t \in waiting \ {TasksClean, IrqTask}
    /\ sched' = UnblockTask(sched, t)
    /\ waiting' = waiting \ {t}
    /\ UNCHANGED <<frames, call, changed, hit>>

\* Mutant of SleepCall: the task is marked blocked.
SleepCallBlocks(n) ==
    /\ Running /\ cur \in Sleepers
    /\ Suspend("sleep", BlockTask(sched, cur))
    /\ UNCHANGED <<waiting, changed>>

\* sleep up to its int_lk.unlock().
SleepCall(n) ==
    /\ Running /\ cur \in Sleepers
    /\ Suspend("sleep", SleepCurrent(sched, n))
    /\ UNCHANGED <<waiting, changed>>

(***************************************************************************)
(* kill_current_task up to its unblock_task(_tasks_clean_task), which      *)
(* enables interrupts.                                                     *)
(***************************************************************************)
KillCall ==
    /\ Running /\ cur \in Mortal
    /\ Suspend("kill", KillCurrent(sched))
    /\ waiting' = waiting \ {TasksClean}
    /\ UNCHANGED changed

CleanTakeStep ==
    /\ Running /\ CleanTake
    /\ UNCHANGED <<frames, call, waiting, changed, hit>>

\* The rest of the cleaner's loop, up to the block_task of block_current_task.
CleanFreeStep ==
    /\ Running /\ cur = TasksClean /\ sched.cleaner = "free"
    /\ Suspend("block", BlockTask(FreeBatch(sched), TasksClean))
    /\ waiting' = waiting \cup {TasksClean}
    /\ UNCHANGED changed

\* start_process and fork; a tcb may be one that was freed before.
SpawnTask(t) ==
    /\ Running /\ t # IrqTask
    /\ CreateTask(t, "ready")
    /\ frames' = [frames EXCEPT ![t] = <<>>]
    /\ call' = [call EXCEPT ![t] = "none"]
    /\ hit' = hit \ {t}
    /\ UNCHANGED <<waiting, changed>>

\* irq_notify_thread: copy and clear the counters.
IrqNotifyCopy ==
    /\ Running /\ cur = IrqTask /\ changed
    /\ changed' = FALSE
    /\ UNCHANGED <<sched, frames, call, waiting, hit>>

\* Mutant of IrqNotifyBlock: the flag is not checked again.
IrqNotifyBlockAlways ==
    /\ Running /\ cur = IrqTask
    /\ Suspend("block", BlockTask(sched, IrqTask))
    /\ waiting' = waiting \cup {IrqTask}
    /\ UNCHANGED changed

\* irq_notify_thread: block if no IRQ came since the copy.
IrqNotifyBlock ==
    /\ Running /\ cur = IrqTask /\ ~ changed
    /\ Suspend("block", BlockTask(sched, IrqTask))
    /\ waiting' = waiting \cup {IrqTask}
    /\ UNCHANGED changed

-----------------------------------------------------------------------------
(* Interrupts. *)

\* irq_interrupt_handler for an IRQ without a handler of its own.
NotifyIrq ==
    /\ sched' = UnblockTask(sched, IrqTask)
    /\ waiting' = waiting \ {IrqTask}
    /\ changed' = TRUE

\* An interrupt hits a task that runs.
TickWhileRunning ==
    /\ sched.state[cur] = "running"
    /\ Tick
    /\ UNCHANGED <<frames, call, waiting, changed, hit>>

IrqWhileRunning ==
    /\ sched.state[cur] = "running"
    /\ NotifyIrq
    /\ UNCHANGED <<frames, call, hit>>

\* isr_handler finds the current task in another state than running.
IsrEnter(k) ==
    /\ sched.state[cur] # "running"
    /\ Nesting(cur) < MaxNest
    /\ sched' = UnblockTask(sched, cur)
    /\ frames' = [frames EXCEPT ![cur] = <<k, "exit">> \o @]
    /\ hit' = hit \cup {cur}
    /\ UNCHANGED <<call, waiting, changed>>

Pop == frames' = [frames EXCEPT ![cur] = Tail(@)]

Top(f) == ~ Running /\ Head(frames[cur]) = f

TickBody ==
    /\ Top("tick") /\ Pop
    /\ Tick
    /\ UNCHANGED <<call, waiting, changed, hit>>

IrqBody ==
    /\ Top("irq") /\ Pop
    /\ NotifyIrq
    /\ UNCHANGED <<call, hit>>

\* isr_handler: "Re-block task after ISR", up to the block_task.
IsrExit ==
    /\ Top("exit")
    /\ sched' = BlockTask(sched, cur)
    /\ frames' = [frames EXCEPT ![cur] = <<"resched">> \o Tail(@)]
    /\ UNCHANGED <<call, waiting, changed, hit>>

ReschedStep ==
    /\ Top("resched") /\ Pop
    /\ sched' = Reschedule(sched)
    /\ UNCHANGED <<call, waiting, changed, hit>>

IdleStep ==
    /\ Running /\ IdleTask
    /\ UNCHANGED <<frames, call, waiting, changed, hit>>

NextInt ==
    \/ EnqueueCurrent
    \/ \E t \in Tasks : Dequeue(t)
    \/ \E n \in 1..MaxSleep : SleepCall(n)
    \/ KillCall
    \/ CleanTakeStep
    \/ CleanFreeStep
    \/ \E t \in Tasks : SpawnTask(t)
    \/ IrqNotifyCopy
    \/ IrqNotifyBlock
    \/ TickWhileRunning
    \/ IrqWhileRunning
    \/ \E k \in {"tick", "irq"} : IsrEnter(k)
    \/ TickBody
    \/ IrqBody
    \/ IsrExit
    \/ ReschedStep
    \/ IdleStep

SpecInt == InitInt /\ [][NextInt]_vars

-----------------------------------------------------------------------------
(* Properties. *)

\* Tasks that were taken off their wait queue and are off the CPU, but still blocked.
LostWakeups ==
    {t \in Tasks \ {cur} : call[t] = "block" /\ sched.state[t] = "blocked" /\ t \notin waiting}

(***************************************************************************)
(* task_wait_queue::dequeue, "Unblock the task" (task_wait_queue.cpp:46):  *)
(* a task that was taken off its wait queue does not stay blocked.         *)
(***************************************************************************)
NoLostWakeup == LostWakeups = {}

(***************************************************************************)
(* Only a task that was itself interrupted between its block_task and its  *)
(* reschedule can lose its wake-up; dequeue, the cleaner's unblock and the *)
(* IRQ handler's unblock reach every other task, whatever interrupts the   *)
(* other tasks have on their stacks.                                       *)
(***************************************************************************)
OnlyInterruptedLoseWakeups == LostWakeups \subseteq hit

(***************************************************************************)
(* irq_interrupt_handler, "Unblock IRQ notify task"                        *)
(* (interrupt_manager.cpp:78): the notify thread does not stay blocked     *)
(* while an IRQ waits to be passed on, unless it was interrupted on its    *)
(* way out of the CPU.                                                     *)
(***************************************************************************)
IrqIsPassedOn ==
    changed /\ cur # IrqTask /\ IrqTask \notin hit => sched.state[IrqTask] # "blocked"

(***************************************************************************)
(* update_tasks_sleep_quantum, "For each sleeping task update sleep        *)
(* quantum" (scheduler.cpp:516): a task that called sleep(), gave up the   *)
(* CPU and was not interrupted on the way is asleep or awake again, and    *)
(* never blocked without a waker.                                          *)
(***************************************************************************)
SleepStaysTimed ==
    \A t \in Tasks \ (hit \cup {cur}) : call[t] = "sleep" => sched.state[t] # "blocked"

(***************************************************************************)
(* kill_current_task, "Remove the task from the priority queue"            *)
(* (scheduler.cpp:740): a task that died and was not interrupted on its    *)
(* way out of the CPU is not dispatched again, while interrupts unblock    *)
(* and block the other tasks.                                              *)
(***************************************************************************)
KilledNeverDispatched ==
    \A p \in Prios : sched.next[p] \notin (sched.killed \cup sched.batch) \ hit
=============================================================================
