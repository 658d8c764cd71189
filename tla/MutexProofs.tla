---------------------------- MODULE MutexProofs ----------------------------
(***************************************************************************)
(* Proofs about Mutex, for any number of threads.                          *)
(***************************************************************************)
EXTENDS Mutex, SequenceTheorems, TLAPS

Waiters == Range(queue)

NoDuplicates(s) == \A i, j \in 1..Len(s) : s[i] = s[j] => i = j

(***************************************************************************)
(* The queue lock is held exactly inside enqueue and dequeue.              *)
(***************************************************************************)
QueueLockHeld ==
    \A t \in Threads : (qlock = t) <=> (pc[t] \in {"enq", "block", "unq", "pop", "rel"})

(***************************************************************************)
(* A thread is in the queue from its enqueue to its dequeue, and it is     *)
(* blocked for all of that time except for the last step of enqueue.       *)
(***************************************************************************)
QueuedThreads ==
    /\ NoDuplicates(queue)
    /\ \A t \in Waiters : pc[t] \in {"block", "unq", "yield", "wake"}
    /\ \A t \in Threads : pc[t] \in {"block", "unq"} => t \in Waiters
    /\ \A t \in Waiters : pc[t] # "block" => t \in blocked
    /\ \A t \in blocked : pc[t] \in {"unq", "yield", "wake"}

IInv ==
    /\ TypeOK
    /\ QueueLockHeld
    /\ QueuedThreads
    /\ MutualExclusion
    /\ DequeueFindsWaiter

(***************************************************************************)
(* Enqueue at the tail adds exactly the new waiter.                        *)
(***************************************************************************)
LEMMA AppendWaiter ==
    ASSUME NEW S, NEW q \in Seq(S), NEW t \in S, t \notin Range(q), NoDuplicates(q)
    PROVE  /\ Append(q, t) \in Seq(S)
           /\ Range(Append(q, t)) = Range(q) \cup {t}
           /\ NoDuplicates(Append(q, t))
           /\ Append(q, t) # <<>>
<1>1. /\ Append(q, t) \in Seq(S)
      /\ Len(Append(q, t)) = Len(q) + 1
      /\ \A i \in 1..Len(q) : Append(q, t)[i] = q[i]
      /\ Append(q, t)[Len(q) + 1] = t
      /\ Len(q) \in Nat
    BY AppendProperties, LenProperties
<1>2. DOMAIN q = 1..Len(q) /\ DOMAIN Append(q, t) = 1..(Len(q) + 1)
    BY Zenon, <1>1, LenProperties
<1>3. Range(Append(q, t)) = Range(q) \cup {t}
    BY <1>1, <1>2 DEF Range
<1>4. NoDuplicates(Append(q, t))
    BY <1>1, <1>2 DEF Range, NoDuplicates
<1>5. Append(q, t) # <<>>
    BY <1>1
<1> QED BY Zenon, <1>1, <1>3, <1>4, <1>5

(***************************************************************************)
(* Dequeue at the head removes exactly the first waiter.                   *)
(***************************************************************************)
LEMMA PopWaiter ==
    ASSUME NEW S, NEW q \in Seq(S), q # <<>>, NoDuplicates(q)
    PROVE  /\ Tail(q) \in Seq(S)
           /\ Head(q) \in Range(q)
           /\ Head(q) \in S
           /\ Range(Tail(q)) = Range(q) \ {Head(q)}
           /\ NoDuplicates(Tail(q))
<1>1. /\ Len(q) \in Nat \ {0}
      /\ Head(q) = q[1]
      /\ Tail(q) \in Seq(S)
      /\ Len(Tail(q)) = Len(q) - 1
      /\ \A i \in 1..(Len(q) - 1) : Tail(q)[i] = q[i + 1]
    BY HeadTailProperties, EmptySeq, LenProperties
<1>2. DOMAIN q = 1..Len(q) /\ DOMAIN Tail(q) = 1..(Len(q) - 1)
    BY Zenon, <1>1, LenProperties
<1>3. Head(q) \in Range(q) /\ Head(q) \in S
    BY <1>1, <1>2 DEF Range
<1>4. Range(Tail(q)) \subseteq Range(q) \ {Head(q)}
    BY <1>1, <1>2 DEF Range, NoDuplicates
<1>5. ASSUME NEW x \in Range(q), x # Head(q)
      PROVE  x \in Range(Tail(q))
    <2>1. PICK i \in 1..Len(q) : x = q[i]
        BY Zenon, <1>2 DEF Range
    <2>2. i # 1 /\ i - 1 \in 1..(Len(q) - 1) /\ Tail(q)[i - 1] = x
        BY <1>1, <1>5, <2>1
    <2> QED BY ZenonT(60), <1>2, <2>2 DEF Range
<1>6. NoDuplicates(Tail(q))
    BY <1>1, <1>2 DEF NoDuplicates
<1> QED BY Zenon, <1>1, <1>3, <1>4, <1>5, <1>6

(***************************************************************************)
(* The mutex is created free, with nobody in its queue.                    *)
(***************************************************************************)
LEMMA InitEstablishesIInv == Init => IInv
<1> SUFFICES ASSUME Init PROVE IInv
    BY Zenon
<1>1. Range(queue) = {}
    BY DEF Init, Range
<1>2. TypeOK
    BY DEF Init, TypeOK, Steps
<1>3. QueueLockHeld /\ DequeueFindsWaiter /\ MutualExclusion
    BY Zenon, MutexAssumption
    DEF Init, QueueLockHeld, DequeueFindsWaiter, MutualExclusion, Holds
<1>4. QueuedThreads
    BY SMTT(60), <1>1 DEF Init, QueuedThreads, Waiters, NoDuplicates
<1> QED BY Zenon, <1>2, <1>3, <1>4 DEF IInv

(***************************************************************************)
(* Every step keeps the inductive invariant.                               *)
(***************************************************************************)
LEMMA NextKeepsIInv ==
    ASSUME IInv, [Next]_vars
    PROVE  IInv'
<1> USE DEF IInv, TypeOK, QueueLockHeld, QueuedThreads, MutualExclusion, DequeueFindsWaiter,
            Holds, Waiters, Steps, Go
<1>a. NoThread \notin Threads
    BY Zenon, MutexAssumption
<1>b. Range(queue) \subseteq Threads
    BY LenProperties DEF Range
<1>1. ASSUME NEW t \in Threads, CallLock(t) PROVE IInv'
    BY <1>1, <1>a, <1>b DEF CallLock
<1>2. ASSUME NEW t \in Threads, CallTryLock(t) PROVE IInv'
    BY <1>2, <1>a, <1>b DEF CallTryLock
<1>3. ASSUME NEW t \in Threads, LockFree(t) PROVE IInv'
    BY <1>3, <1>a, <1>b DEF LockFree
<1>4. ASSUME NEW t \in Threads, LockTaken(t) PROVE IInv'
    BY <1>4, <1>a, <1>b DEF LockTaken
<1>5. ASSUME NEW t \in Threads, TryLock(t) PROVE IInv'
    BY <1>5, <1>a, <1>b DEF TryLock
<1>6. ASSUME NEW t \in Threads, AcquireQueueLock(t) PROVE IInv'
    BY <1>6, <1>a, <1>b DEF AcquireQueueLock
<1>7. ASSUME NEW t \in Threads, BlockSelf(t) PROVE IInv'
    BY <1>7, <1>a, <1>b DEF BlockSelf
<1>8. ASSUME NEW t \in Threads, ReleaseAfterEnqueue(t) PROVE IInv'
    BY <1>8, <1>a, <1>b DEF ReleaseAfterEnqueue
<1>9. ASSUME NEW t \in Threads, Wake(t) PROVE IInv'
    BY <1>9, <1>a, <1>b DEF Wake
<1>10. ASSUME NEW t \in Threads, UnlockTestQueue(t) PROVE IInv'
    BY <1>10, <1>a, <1>b DEF UnlockTestQueue
<1>11. ASSUME NEW t \in Threads, UnlockFree(t) PROVE IInv'
    BY <1>11, <1>a, <1>b DEF UnlockFree
<1>12. ASSUME NEW t \in Threads, DequeueLock(t) PROVE IInv'
    BY <1>12, <1>a, <1>b DEF DequeueLock
<1>13. ASSUME NEW t \in Threads, DequeueRelease(t) PROVE IInv'
    BY <1>13, <1>a, <1>b DEF DequeueRelease
<1>14. ASSUME NEW t \in Threads, Enqueue(t) PROVE IInv'
    <2>1. t \notin Range(queue)
        BY Zenon, <1>14 DEF Enqueue
    <2>2. /\ queue' \in Seq(Threads)
          /\ Range(queue') = Range(queue) \cup {t}
          /\ NoDuplicates(queue')
          /\ queue' # <<>>
        BY <1>14, <2>1, AppendWaiter DEF Enqueue
    <2> QED BY <1>14, <1>a, <1>b, <2>1, <2>2 DEF Enqueue
<1>15. ASSUME NEW t \in Threads, DequeuePop(t) PROVE IInv'
    <2> DEFINE h == Head(queue)
    <2>1. /\ queue' \in Seq(Threads)
          /\ h \in Range(queue) /\ h \in Threads
          /\ Range(queue') = Range(queue) \ {h}
          /\ NoDuplicates(queue')
        BY Zenon, <1>15, PopWaiter DEF DequeuePop
    <2>2. blocked' = blocked \ {h}
        BY Zenon, <1>15 DEF DequeuePop
    <2> HIDE DEF h
    <2>3. pc[h] \in {"yield", "wake"}
        BY Zenon, <1>15, <1>a, <2>1 DEF DequeuePop
    <2> QED BY <1>15, <1>a, <1>b, <2>1, <2>2, <2>3 DEF DequeuePop
<1>16. ASSUME NEW t \in Threads, Yield(t) PROVE IInv'
    BY <1>16, <1>a, <1>b DEF Yield, Dispatch, CanRun
<1>17. CASE Preempt
    BY Zenon, <1>17, <1>a, <1>b DEF Preempt, Dispatch, CanRun
<1>18. CASE UNCHANGED vars
    BY Zenon, <1>18, <1>b DEF vars
<1> QED BY ZenonT(60), <1>1, <1>2, <1>3, <1>4, <1>5, <1>6, <1>7, <1>8, <1>9, <1>10, <1>11, <1>12, <1>13, <1>14, <1>15, <1>16, <1>17, <1>18
    DEF Next, Step

(***************************************************************************)
(* The inductive invariant holds in every reachable state.                 *)
(***************************************************************************)
THEOREM InvariantHolds == Spec => []IInv
<1>1. IInv /\ [Next]_vars => IInv'
    BY Zenon, NextKeepsIInv
<1> QED BY <1>1, InitEstablishesIInv, PTL DEF Spec

(***************************************************************************)
(* TypeOK for any number of threads.                                       *)
(***************************************************************************)
THEOREM TypeCorrect == Spec => []TypeOK
<1>1. IInv => TypeOK
    BY Zenon DEF IInv
<1> QED BY <1>1, InvariantHolds, PTL

(***************************************************************************)
(* lock(), try_lock() and unlock() never give the mutex to two threads,    *)
(* however the threads are preempted and wherever interrupts hit them.     *)
(***************************************************************************)
THEOREM MutexExcludes == Spec => []MutualExclusion
<1>1. IInv => MutualExclusion
    BY Zenon DEF IInv
<1> QED BY <1>1, InvariantHolds, PTL

(***************************************************************************)
(* The kassert of task_wait_queue::dequeue never fails under unlock().     *)
(***************************************************************************)
THEOREM DequeueIsSafe == Spec => []DequeueFindsWaiter
<1>1. IInv => DequeueFindsWaiter
    BY Zenon DEF IInv
<1> QED BY <1>1, InvariantHolds, PTL

(***************************************************************************)
(* Every step of the mutex is a step of LockSpec or leaves its owner and   *)
(* its queue alone.                                                        *)
(***************************************************************************)
LEMMA StepRefines ==
    ASSUME IInv, IInv', [Next]_vars
    PROVE  [Lock!LockNext]_<<{t \in Threads : Holds(t)}, queue>>
<1> DEFINE own == {t \in Threads : Holds(t)}
<1> USE DEF IInv, TypeOK, QueueLockHeld, QueuedThreads, MutualExclusion, Holds, Waiters, Go
<1>a. NoThread \notin Threads /\ Range(queue) \subseteq Threads
    BY SMTT(60), MutexAssumption, LenProperties DEF Range
<1>1. ASSUME NEW t \in Threads,
             \/ CallLock(t) \/ CallTryLock(t) \/ LockTaken(t) \/ AcquireQueueLock(t)
             \/ BlockSelf(t) \/ ReleaseAfterEnqueue(t) \/ Yield(t) \/ Wake(t)
             \/ UnlockTestQueue(t) \/ DequeueLock(t) \/ DequeueRelease(t)
      PROVE  own' = own /\ queue' = queue
    BY <1>1, <1>a
    DEF CallLock, CallTryLock, LockTaken, AcquireQueueLock, BlockSelf, ReleaseAfterEnqueue,
        Yield, Wake, UnlockTestQueue, DequeueLock, DequeueRelease
<1>2. ASSUME NEW t \in Threads, LockFree(t) PROVE own = {} /\ own' = {t} /\ queue' = queue
    BY SMTT(60), <1>2 DEF LockFree
<1>3. ASSUME NEW t \in Threads, TryLock(t)
      PROVE  ((own = {} /\ own' = {t}) \/ own' = own) /\ queue' = queue
    BY <1>3 DEF TryLock
<1>4. ASSUME NEW t \in Threads, Enqueue(t)
      PROVE  t \notin own /\ own' = own /\ queue' = Append(queue, t)
    <2>1. t \notin Range(queue)
        BY Zenon, <1>4 DEF Enqueue
    <2>2. Range(queue') = Range(queue) \cup {t} /\ queue' = Append(queue, t)
        BY SMTT(60), <1>4, <2>1, AppendWaiter DEF Enqueue
    <2> QED BY SMTT(60), <1>4, <2>2 DEF Enqueue
<1>5. ASSUME NEW t \in Threads, UnlockFree(t) PROVE own = {t} /\ own' = {} /\ queue' = queue
    BY <1>5 DEF UnlockFree
<1>6. ASSUME NEW t \in Threads, DequeuePop(t)
      PROVE  queue # <<>> /\ own = {t} /\ own' = {Head(queue)} /\ queue' = Tail(queue)
    <2> DEFINE h == Head(queue)
    <2>1. /\ h \in Range(queue) /\ h \in Threads
          /\ Range(queue') = Range(queue) \ {h}
          /\ queue # <<>> /\ queue' = Tail(queue)
        BY <1>6, PopWaiter DEF DequeuePop
    <2> HIDE DEF h
    <2>2. pc[h] \in {"yield", "wake"}
        BY SMTT(60), <1>6, <1>a, <2>1 DEF DequeuePop
    <2>3. own = {t}
        BY <1>6 DEF DequeuePop
    <2>4. pc' = [pc EXCEPT ![t] = "rel"] /\ pc[t] = "pop"
        BY Zenon, <1>6 DEF DequeuePop
    <2>5. h \in own' /\ h # t
        BY <2>1, <2>2, <2>4
    <2>6. own' = {h}
        BY SMTT(60), <2>5
    <2> QED BY Zenon, <2>1, <2>3, <2>6 DEF h
<1>7. CASE Preempt
    BY Zenon, <1>7 DEF Preempt
<1>8. CASE UNCHANGED vars
    BY Zenon, <1>8 DEF vars
<1> QED
    BY Zenon, <1>1, <1>2, <1>3, <1>4, <1>5, <1>6, <1>7, <1>8
    DEF Next, Step, Lock!LockNext, Lock!Acquire, Lock!Wait, Lock!Release, Lock!HandOver

(***************************************************************************)
(* The mutex implements LockSpec: waiters get it in the order in which     *)
(* they queued, with no thread in between.                                 *)
(***************************************************************************)
THEOREM MutexImplementsLock == Spec => ImplementsLock
<1>1. Init => Lock!LockInit
    BY Zenon DEF Init, Lock!LockInit, Holds
<1>2. IInv /\ IInv' /\ [Next]_vars => [Lock!LockNext]_<<{t \in Threads : Holds(t)}, queue>>
    BY Zenon, StepRefines
<1> QED BY <1>1, <1>2, InvariantHolds, PTL DEF Spec, ImplementsLock, Lock!LockSafety
=============================================================================
