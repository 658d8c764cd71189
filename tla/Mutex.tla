------------------------------- MODULE Mutex -------------------------------
(***************************************************************************)
(* threading::mutex and the task_wait_queue it blocks threads on, run by   *)
(* threads that share one CPU and can be preempted between any two steps.  *)
(*                                                                         *)
(* A section under _value_lock contains no call and is one step.  Sections *)
(* under _queue_lock allocate memory and change thread states, so that     *)
(* lock is explicit: qlock is the thread that holds it.                    *)
(***************************************************************************)
EXTENDS Integers, Sequences, Functions

CONSTANTS Threads, NoThread

ASSUME MutexAssumption == NoThread \notin Threads

VARIABLES
    value,     \* _value
    queue,     \* _wait_queue, head first
    qlock,     \* holder of _queue_lock, or NoThread
    blocked,   \* threads in the state blocked
    cur,       \* the thread on the CPU, or NoThread for the idle task
    pc         \* per thread, the next step

vars == <<value, queue, qlock, blocked, cur, pc>>

(***************************************************************************)
(* Steps of lock(): test, qlock, enq, block, unq, yield, wake; of          *)
(* try_lock(): try; of unlock(), from in: zero, or deq, pop, rel.          *)
(***************************************************************************)
Steps == {"out", "test", "qlock", "enq", "block", "unq", "yield", "wake",
          "in", "try", "deq", "pop", "rel", "zero"}

Go(t, from, to) == cur = t /\ pc[t] = from /\ pc' = [pc EXCEPT ![t] = to]

Init ==
    /\ value = 0
    /\ queue = <<>>
    /\ qlock = NoThread
    /\ blocked = {}
    /\ cur \in Threads
    /\ pc = [t \in Threads |-> "out"]

-----------------------------------------------------------------------------
(* lock() and try_lock() *)

CallLock(t) == Go(t, "out", "test") /\ UNCHANGED <<value, queue, qlock, blocked, cur>>

CallTryLock(t) == Go(t, "out", "try") /\ UNCHANGED <<value, queue, qlock, blocked, cur>>

\* Mutant of LockFree: the value is not tested.
LockAlways(t) ==
    /\ Go(t, "test", "in")
    /\ value' = 1
    /\ UNCHANGED <<queue, qlock, blocked, cur>>

LockFree(t) ==
    /\ value = 0
    /\ Go(t, "test", "in")
    /\ value' = 1
    /\ UNCHANGED <<queue, qlock, blocked, cur>>

LockTaken(t) ==
    /\ value # 0
    /\ Go(t, "test", "qlock")
    /\ UNCHANGED <<value, queue, qlock, blocked, cur>>

TryLock(t) ==
    /\ Go(t, "try", IF value = 0 THEN "in" ELSE "out")
    /\ value' = 1
    /\ UNCHANGED <<queue, qlock, blocked, cur>>

\* A thread that waits for a spinlock spins: its step is enabled once the lock is free.
AcquireQueueLock(t) ==
    /\ qlock = NoThread
    /\ Go(t, "qlock", "enq")
    /\ qlock' = t
    /\ UNCHANGED <<value, queue, blocked, cur>>

\* task_wait_queue::enqueue
Enqueue(t) ==
    /\ Go(t, "enq", "block")
    /\ queue' = Append(queue, t)
    /\ UNCHANGED <<value, qlock, blocked, cur>>

BlockSelf(t) ==
    /\ Go(t, "block", "unq")
    /\ blocked' = blocked \cup {t}
    /\ UNCHANGED <<value, queue, qlock, cur>>

ReleaseAfterEnqueue(t) ==
    /\ Go(t, "unq", "yield")
    /\ qlock' = NoThread
    /\ UNCHANGED <<value, queue, blocked, cur>>

-----------------------------------------------------------------------------
(* unlock() *)

\* _wait_queue.empty(), which takes and releases the queue lock.
UnlockTestQueue(t) ==
    /\ qlock = NoThread
    /\ Go(t, "in", IF queue = <<>> THEN "zero" ELSE "deq")
    /\ UNCHANGED <<value, queue, qlock, blocked, cur>>

UnlockFree(t) ==
    /\ Go(t, "zero", "out")
    /\ value' = 0
    /\ UNCHANGED <<queue, qlock, blocked, cur>>

\* task_wait_queue::dequeue
DequeueLock(t) ==
    /\ qlock = NoThread
    /\ Go(t, "deq", "pop")
    /\ qlock' = t
    /\ UNCHANGED <<value, queue, blocked, cur>>

DequeuePop(t) ==
    /\ queue # <<>>
    /\ Go(t, "pop", "rel")
    /\ queue' = Tail(queue)
    /\ blocked' = blocked \ {Head(queue)}
    /\ UNCHANGED <<value, qlock, cur>>

DequeueRelease(t) ==
    /\ Go(t, "rel", "out")
    /\ qlock' = NoThread
    /\ UNCHANGED <<value, queue, blocked, cur>>

-----------------------------------------------------------------------------
(* The scheduler, as the mutex sees it. *)

CanRun == Threads \ blocked

\* reschedule: somebody who can run gets the CPU, else the idle task.
Dispatch == IF CanRun = {} THEN cur' = NoThread ELSE cur' \in CanRun

Yield(t) ==
    /\ Go(t, "yield", "wake")
    /\ Dispatch
    /\ UNCHANGED <<value, queue, qlock, blocked>>

Wake(t) ==
    /\ t \notin blocked
    /\ Go(t, "wake", "in")
    /\ UNCHANGED <<value, queue, qlock, blocked, cur>>

(***************************************************************************)
(* A timer interrupt takes the CPU away, also from a thread that has just  *)
(* marked itself blocked: isr_handler then ends in block_current_task, and *)
(* the thread is switched out in the middle of its enqueue.                *)
(***************************************************************************)
Preempt == Dispatch /\ UNCHANGED <<value, queue, qlock, blocked, pc>>

Step(t) ==
    \/ CallLock(t) \/ CallTryLock(t)
    \/ LockFree(t) \/ LockTaken(t) \/ TryLock(t)
    \/ AcquireQueueLock(t) \/ Enqueue(t) \/ BlockSelf(t) \/ ReleaseAfterEnqueue(t)
    \/ Yield(t) \/ Wake(t)
    \/ UnlockTestQueue(t) \/ UnlockFree(t)
    \/ DequeueLock(t) \/ DequeuePop(t) \/ DequeueRelease(t)

Next == (\E t \in Threads : Step(t)) \/ Preempt

Spec == Init /\ [][Next]_vars

-----------------------------------------------------------------------------
(* Properties. *)

(***************************************************************************)
(* Type invariant.                                                         *)
(***************************************************************************)
TypeOK ==
    /\ value \in {0, 1}
    /\ queue \in Seq(Threads)
    /\ qlock \in Threads \cup {NoThread}
    /\ blocked \subseteq Threads
    /\ cur \in Threads \cup {NoThread}
    /\ pc \in [Threads -> Steps]

\* The mutex belongs to t: t is past lock(), or it was dequeued and has not run yet.
Holds(t) ==
    \/ pc[t] \in {"in", "zero", "deq", "pop"}
    \/ pc[t] \in {"yield", "wake"} /\ t \notin Range(queue)

(***************************************************************************)
(* mutex::lock, "If the mutex is unlocked, lock it" (mutex.cpp:13): two    *)
(* threads never own the mutex at the same time, hand-over to a thread     *)
(* that still sleeps included, and an owned mutex is marked as taken.      *)
(***************************************************************************)
MutualExclusion ==
    /\ \A t, u \in Threads : Holds(t) /\ Holds(u) => t = u
    /\ \A t \in Threads : Holds(t) => value = 1

(***************************************************************************)
(* kassert(_queue_head != nullptr) (task_wait_queue.cpp:30): unlock()      *)
(* tests the queue and dequeues under separate acquisitions of the queue   *)
(* lock, and still finds a waiter.                                         *)
(***************************************************************************)
DequeueFindsWaiter == \A t \in Threads : pc[t] \in {"deq", "pop"} => queue # <<>>

(***************************************************************************)
(* mutex::unlock, "Dequeue task from waiting list if not empty"            *)
(* (mutex.cpp:78): no thread waits for a mutex that nobody owns and that   *)
(* nobody is about to lock or to queue for.                                *)
(***************************************************************************)
NoWaiterLeftBehind ==
    value = 0 /\ (\A t \in Threads : pc[t] \in {"out", "wake"}) => queue = <<>>

Lock == INSTANCE LockSpec WITH owners <- {t \in Threads : Holds(t)}, waiters <- queue

(***************************************************************************)
(* The mutex implements LockSpec: it is taken only when it has no owner,   *)
(* and unlock() either frees it or hands it to the thread that queued      *)
(* first, although testing, popping and waking are separate steps.         *)
(***************************************************************************)
ImplementsLock == Lock!LockSafety
=============================================================================
