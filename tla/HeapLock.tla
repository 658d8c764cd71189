------------------------------ MODULE HeapLock ------------------------------
(***************************************************************************)
(* The mutex of the kernel heap (liballoc_hooks.cpp).  enqueue allocates   *)
(* the node of a waiter and dequeue frees it, both with the queue lock     *)
(* held, and for this one mutex the allocation locks the same mutex again. *)
(***************************************************************************)
EXTENDS Mutex

(***************************************************************************)
(* The nested kmalloc or kfree calls liballoc_lock.  A mutex that is taken *)
(* leads to enqueue; one that became free is locked, used, and unlocked    *)
(* through empty().  Both then spin on the queue lock that t itself holds. *)
(***************************************************************************)
NestedHeapCall(t, from) ==
    /\ Go(t, from, "self")
    /\ value' = 1
    /\ UNCHANGED <<queue, qlock, blocked, cur>>

\* enqueue: new structures::node
EnqueueAllocates(t) == NestedHeapCall(t, "enq")

\* dequeue: delete current_head
DequeueFrees(t) == queue # <<>> /\ NestedHeapCall(t, "pop")

StepHeap(t) ==
    \/ CallLock(t)
    \/ LockFree(t) \/ LockTaken(t)
    \/ AcquireQueueLock(t) \/ EnqueueAllocates(t)
    \/ UnlockTestQueue(t) \/ UnlockFree(t)
    \/ DequeueLock(t) \/ DequeueFrees(t)

NextHeap == (\E t \in Threads : StepHeap(t)) \/ Preempt

SpecHeap == Init /\ [][NextHeap]_vars

(***************************************************************************)
(* liballoc_lock, "return 0 if the lock was acquired successfully"         *)
(* (liballoc.h:30): a thread that wants the heap lock gets it sooner or    *)
(* later, and so never waits for a spinlock that it holds itself.          *)
(***************************************************************************)
NeverSpinsOnOwnLock == \A t \in Threads : pc[t] = "self" => qlock # t
=============================================================================
