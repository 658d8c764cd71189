--------------------------- MODULE SchedulerProofs ---------------------------
(***************************************************************************)
(* What the operators of Scheduler do, for every set of tasks, every       *)
(* assignment of priorities and every quantum.                             *)
(*                                                                         *)
(* A call of the scheduler changes the state of the current task and then  *)
(* reschedules, and in between CurrentIsRunning does not hold.  Core is    *)
(* what holds there too: every operator keeps Core, and Reschedule also    *)
(* re-establishes that the current task is the one that runs.  Base leaves *)
(* out what does not hold between the two halves of Reschedule itself.     *)
(***************************************************************************)
EXTENDS Scheduler, TLAPS

LOCAL INSTANCE WellFoundedInduction

Typed(s) == s \in SchedType

\* Nobody but the current task is in the state running.
OnlyCurRuns(s) == \A t \in Tasks : s.state[t] = "running" => t = s.cur

\* The idle task is ready whenever it does not run.
IdleCanRun(s) == Runnable(s, Idle)

\* A sleeping task has ticks left.
SleepersSleep(s) ==
    \A t \in Tasks : s.state[t] = "sleeping" => t \in Sleepers /\ s.sleep[t] # 0

\* The cleaner starts its loop with an empty copy.
BatchWasTaken(s) == s.cleaner = "take" => s.batch = {}

\* A level without sleepers has a next_task as soon as one of its tasks can run.
LevelHasNext(s) ==
    \A p \in Prios : NoSleeper(p) =>
        \A t \in Range(s.ring[p]) : Runnable(s, t) => s.next[p] # NoTask

\* At such a level next_task is the current task only if nobody else is ready.
NextIsNotCur(s) ==
    \A p \in Prios : NoSleeper(p) =>
        \A t \in Range(s.ring[p]) : s.state[t] = "ready" => s.next[p] # s.cur

Base(s) ==
    /\ Typed(s)
    /\ RingsListLiveTasks(s)
    /\ NextIsRunnable(s)
    /\ OnlyCurRuns(s)
    /\ IdleCanRun(s)
    /\ KilledAreDead(s)
    /\ SleepersSleep(s)
    /\ BatchWasTaken(s)
    /\ LevelHasNext(s)

Core(s) == Base(s) /\ NextIsNotCur(s)

SchedInv(s) == Core(s) /\ s.state[s.cur] = "running"

-----------------------------------------------------------------------------
(* Least elements: the CHOOSEs of FollowingTask and FirstAwake have one. *)

\* A non-empty set of naturals has a least element.
LEMMA NatMinimum ==
    ASSUME NEW T \in SUBSET Nat, T # {}
    PROVE  \E x \in T : \A y \in T : x <= y
<1>. DEFINE R == {ss \in Nat \X Nat : ss[1] < ss[2]}
<1>1. IsWellFoundedOn(R, Nat)
    BY Zenon, NatLessThanWellFounded DEF OpToRel
<1>2. PICK x \in T : \A y \in T : ~ (<<y, x>> \in R)
    <2>. HIDE DEF R
    <2>. QED BY Zenon, <1>1, WFMin
<1>3. ASSUME NEW y \in T, y < x PROVE FALSE
    <2>1. <<y, x>> \in Nat \X Nat /\ <<y, x>>[1] < <<y, x>>[2]
        BY Zenon, <1>3
    <2>. QED BY Zenon, <2>1, <1>2
<1>. QED BY <1>3

-----------------------------------------------------------------------------
(* Rings: positions, and the effect of linking and unlinking a task. *)

\* A task of a ring is found at its RingIndex.
LEMMA RingIndexIsPosition ==
    ASSUME NEW r \in Seq(Tasks), NEW t \in Range(r)
    PROVE  RingIndex(r, t) \in 1..Len(r) /\ r[RingIndex(r, t)] = t
<1>1. \E i \in 1..Len(r) : r[i] = t
    BY DEF Range
<1>. QED BY Zenon, <1>1 DEF RingIndex

\* The distance along next() links is a natural number.
LEMMA AheadIsNat ==
    ASSUME NEW r \in Seq(Tasks), NEW t \in Range(r), NEW u \in Range(r)
    PROVE  Ahead(r, t, u) \in Nat
<1>1. RingIndex(r, t) \in 1..Len(r) /\ RingIndex(r, u) \in 1..Len(r) /\ Len(r) \in Nat
    BY RingIndexIsPosition
<1>. QED BY <1>1 DEF Ahead

\* queue_task's insertion before start adds exactly the new task, once.
LEMMA AppendToRing ==
    ASSUME NEW r \in Seq(Tasks), NEW t \in Tasks, IsInjective(r), t \notin Range(r)
    PROVE  /\ Append(r, t) \in Seq(Tasks)
           /\ IsInjective(Append(r, t))
           /\ Range(Append(r, t)) = Range(r) \cup {t}
<1>. DEFINE n == Len(r)
<1>1. n \in Nat /\ DOMAIN r = 1..n /\ Len(Append(r, t)) = n + 1
    OBVIOUS
<1>2. DOMAIN Append(r, t) = 1..(n + 1)
    BY <1>1
<1>3. \A i \in 1..n : Append(r, t)[i] = r[i] /\ r[i] # t
    BY <1>1 DEF Range
<1>4. Append(r, t)[n + 1] = t
    BY <1>1
<1>5. \A i \in 1..(n + 1) : i \in 1..n \/ i = n + 1
    BY <1>1
<1>6. IsInjective(Append(r, t))
    BY Zenon, <1>1, <1>2, <1>3, <1>4, <1>5 DEF IsInjective
<1>7. Range(Append(r, t)) = Range(r) \cup {t}
    <2>1. ASSUME NEW x \in Range(Append(r, t)) PROVE x \in Range(r) \cup {t}
        BY Zenon, <1>1, <1>2, <1>3, <1>4, <1>5 DEF Range
    <2>2. ASSUME NEW x \in Range(r) PROVE x \in Range(Append(r, t))
        <3>1. PICK i \in 1..n : x = r[i]
            BY Zenon, <1>1 DEF Range
        <3>. QED BY <3>1, <1>1, <1>2, <1>3 DEF Range
    <2>3. t \in Range(Append(r, t))
        BY <1>1, <1>2, <1>4 DEF Range
    <2>. QED BY Zenon, <2>1, <2>2, <2>3
<1>. QED BY <1>6, <1>7

\* The unlinking code of kill_current_task removes exactly one task.
LEMMA RemoveFromRing ==
    ASSUME NEW r \in Seq(Tasks), NEW t \in Range(r), IsInjective(r),
           NEW q, q = Unlink(r, t)
    PROVE  /\ q \in Seq(Tasks)
           /\ IsInjective(q)
           /\ Range(q) = Range(r) \ {t}
<1>. DEFINE n == Len(r)
            k == RingIndex(r, t)
<1>1. n \in Nat /\ DOMAIN r = 1..n /\ k \in 1..n /\ r[k] = t
    BY RingIndexIsPosition
<1>. DEFINE a == SubSeq(r, 1, k - 1)
            b == SubSeq(r, k + 1, n)
<1>. HIDE DEF k
<1>2. a \in Seq(Tasks) /\ Len(a) = k - 1 /\ \A i \in 1..(k - 1) : a[i] = r[i]
    <2>1. a \in Seq(Tasks) /\ Len(a) = k - 1
        BY <1>1
    <2>2. \A i \in 1..(k - 1) : a[i] = r[i]
        BY <1>1
    <2>. HIDE DEF a
    <2>. QED BY Zenon, <2>1, <2>2
<1>3. b \in Seq(Tasks) /\ Len(b) = n - k /\ \A i \in 1..(n - k) : b[i] = r[k + i]
    <2>. DEFINE c == [i \in 1..(n - k) |-> r[k + i]]
    <2>1. b = c
        BY <1>1
    <2>2. c \in Seq(Tasks) /\ Len(c) = n - k
        BY <1>1
    <2>3. \A i \in 1..(n - k) : c[i] = r[k + i]
        BY Zenon
    <2>. HIDE DEF b, c
    <2>. QED BY Zenon, <2>1, <2>2, <2>3
<1>4. q = a \o b
    BY Zenon DEF Unlink, k
<1>. HIDE DEF a, b, n
<1>5. q \in Seq(Tasks) /\ Len(q) = n - 1 /\ DOMAIN q = 1..(n - 1)
    <2>0. a \in Seq(Tasks) /\ b \in Seq(Tasks)
        BY Zenon, <1>2, <1>3
    <2>1. q \in Seq(Tasks) /\ Len(q) = Len(a) + Len(b)
        BY <2>0, <1>4
    <2>2. Len(q) = n - 1
        BY <2>1, <1>1, <1>2, <1>3
    <2>. QED BY <2>1, <2>2
<1>6. \A i \in 1..(n - 1) : q[i] = r[IF i < k THEN i ELSE i + 1]
    <2>1. \A i \in 1..(Len(a) + Len(b)) : q[i] = IF i <= Len(a) THEN a[i] ELSE b[i - Len(a)]
        BY <1>2, <1>3, <1>4
    <2>2. ASSUME NEW i \in 1..(n - 1), i < k PROVE q[i] = r[i]
        BY <2>1, <2>2, <1>1, <1>2, <1>3
    <2>3. ASSUME NEW i \in 1..(n - 1), ~(i < k) PROVE q[i] = r[i + 1]
        <3>1. i - (k - 1) \in 1..(n - k) /\ k + (i - (k - 1)) = i + 1 /\ ~(i <= k - 1)
            BY <2>3, <1>1
        <3>2. Len(a) = k - 1 /\ i \in 1..(Len(a) + Len(b))
            BY <1>1, <1>2, <1>3
        <3>3. q[i] = b[i - (k - 1)]
            BY Zenon, <2>1, <3>1, <3>2
        <3>. QED BY Zenon, <3>1, <3>3, <1>3
    <2>. QED BY Zenon, <2>2, <2>3
<1>7. IsInjective(q)
    <2>. DEFINE f(i) == IF i < k THEN i ELSE i + 1
    <2>1. \A i, j \in 1..(n - 1) : f(i) \in 1..n /\ (f(i) = f(j) => i = j)
        BY <1>1
    <2>2. \A i \in 1..(n - 1) : q[i] = r[f(i)]
        BY Zenon, <1>6
    <2>. HIDE DEF f
    <2>. QED BY <2>1, <2>2, <1>1, <1>5 DEF IsInjective
<1>8. Range(q) = Range(r) \ {t}
    <2>1. ASSUME NEW x \in Range(q) PROVE x \in Range(r) \ {t}
        <3>1. PICK i \in 1..(n - 1) : x = q[i]
            BY Zenon, <1>5 DEF Range
        <3>. QED BY SMTT(60), <3>1, <1>1, <1>6 DEF Range, IsInjective
    <2>2. ASSUME NEW x \in Range(r), x # t PROVE x \in Range(q)
        <3>1. PICK i \in 1..n : x = r[i]
            BY Zenon, <1>1 DEF Range
        <3>2. i # k
            BY Zenon, <3>1, <2>2, <1>1
        <3>3. CASE i < k
            <4>1. i \in 1..(n - 1) /\ q[i] = x
                BY <3>1, <3>3, <1>1, <1>6
            <4>. QED BY Zenon, <4>1, <1>5 DEF Range
        <3>4. CASE i > k
            <4>1. i - 1 \in 1..(n - 1) /\ q[i - 1] = x
                BY <3>1, <3>4, <1>1, <1>6
            <4>. QED BY Zenon, <4>1, <1>5 DEF Range
        <3>. QED BY <3>2, <3>3, <3>4, <1>1
    <2>. QED BY Zenon, <2>1, <2>2
<1>. QED BY Zenon, <1>5, <1>7, <1>8

-----------------------------------------------------------------------------
(* Reschedule. *)

\* The scan of update_priority_queue_next_task ends at a runnable task other than the
\* old next_task, if there is one.
LEMMA FollowingTaskIsOther ==
    ASSUME NEW s, Typed(s), NEW p \in Prios, s.next[p] \in Range(s.ring[p]),
           OtherRunnable(s, p) # {}
    PROVE  FollowingTask(s, p) \in OtherRunnable(s, p)
<1>. DEFINE O == OtherRunnable(s, p)
            A(u) == Ahead(s.ring[p], s.next[p], u)
            T == {A(u) : u \in O}
<1>1. \A u \in O : A(u) \in Nat
    BY Zenon, AheadIsNat DEF OtherRunnable, Typed, SchedType
<1>2. PICK x \in T : \A y \in T : x <= y
    <2>. HIDE DEF A, O
    <2>1. T \in SUBSET Nat /\ T # {}
        BY Zenon, <1>1 DEF O
    <2>. HIDE DEF T
    <2>. QED BY Zenon, <2>1, NatMinimum
<1>3. PICK u \in O : \A v \in O : A(u) <= A(v)
    BY Zenon, <1>2
<1>. QED BY Zenon, <1>3 DEF FollowingTask

\* update_priority_queue_next_task changes next_task only, and clears it only if nobody
\* in the ring can run.
LEMMA UpdateNextTaskResult ==
    ASSUME NEW s, Typed(s), NEW p \in Prios, s.next[p] \in Range(s.ring[p])
    PROVE  \E x \in Tasks \cup {NoTask} :
              /\ UpdateNextTask(s, p) = [s EXCEPT !.next[p] = x]
              /\ x = NoTask => \A t \in Range(s.ring[p]) : ~ Runnable(s, t)
              /\ x # NoTask => x \in Range(s.ring[p]) /\ Runnable(s, x)
              /\ \A t \in Range(s.ring[p]) :
                    Runnable(s, t) /\ t # s.next[p] => x # s.next[p]
<1>. DEFINE old == s.next[p]
<1>1. Range(s.ring[p]) \subseteq Tasks /\ NoTask \notin Tasks
    <2>1. s.ring[p] \in Seq(Tasks)
        BY Zenon DEF Typed, SchedType
    <2>2. Range(s.ring[p]) \subseteq Tasks
        BY <2>1 DEF Range
    <2>3. NoTask \notin Tasks
        BY Zenon, SchedulerAssumption
    <2>. QED BY Zenon, <2>2, <2>3
<1>2. CASE OtherRunnable(s, p) # {}
    <2>. DEFINE x == FollowingTask(s, p)
    <2>1. x \in Range(s.ring[p]) \ {old} /\ Runnable(s, x)
        BY Zenon, <1>2, FollowingTaskIsOther DEF OtherRunnable
    <2>2. UpdateNextTask(s, p) = [s EXCEPT !.next[p] = x]
        BY Zenon, <1>2 DEF UpdateNextTask
    <2>. HIDE DEF x
    <2>. QED BY Zenon, <1>1, <2>1, <2>2
<1>3. CASE OtherRunnable(s, p) = {} /\ Runnable(s, old)
    <2>1. UpdateNextTask(s, p) = [s EXCEPT !.next[p] = old]
        BY Zenon, <1>3 DEF UpdateNextTask
    <2>2. \A t \in Range(s.ring[p]) : t # old => ~ Runnable(s, t)
        BY Zenon, <1>3 DEF OtherRunnable
    <2>. QED BY Zenon, <1>1, <1>3, <2>1, <2>2
<1>4. CASE OtherRunnable(s, p) = {} /\ ~ Runnable(s, old)
    <2>1. UpdateNextTask(s, p) = [s EXCEPT !.next[p] = NoTask]
        BY Zenon, <1>4 DEF UpdateNextTask
    <2>2. \A t \in Range(s.ring[p]) : ~ Runnable(s, t)
        BY Zenon, <1>4 DEF OtherRunnable
    <2>. QED BY Zenon, <1>1, <1>4, <2>1, <2>2
<1>. QED BY Zenon, <1>2, <1>3, <1>4

\* The loop of get_next_task finds a level that has a next_task.
LEMMA HighestReadyLevelIsReady ==
    ASSUME NEW s, ReadyLevels(s) # {}
    PROVE  HighestReadyLevel(s) \in ReadyLevels(s)
<1>. DEFINE T == {MaxPriorityLevel - p : p \in ReadyLevels(s)}
<1>1. ReadyLevels(s) \subseteq 0..MaxPriorityLevel /\ MaxPriorityLevel \in Nat
    BY Zenon, SchedulerAssumption DEF ReadyLevels, Prios
<1>2. T \in SUBSET Nat /\ T # {}
    BY <1>1
<1>3. PICK x \in T : \A y \in T : x <= y
    <2>. HIDE DEF T
    <2>. QED BY Zenon, <1>2, NatMinimum
<1>4. PICK p \in ReadyLevels(s) : x = MaxPriorityLevel - p
    BY Zenon, <1>3
<1>5. ASSUME NEW q \in ReadyLevels(s)
      PROVE  q <= p
    <2>1. x <= MaxPriorityLevel - q
        BY Zenon, <1>3
    <2>2. p \in Nat /\ q \in Nat
        BY <1>1
    <2>. QED BY <1>1, <1>4, <2>1, <2>2
<1>. QED BY Zenon, <1>5 DEF HighestReadyLevel

\* The second half of reschedule leaves the new task as the only one running.
LEMMA SwitchToRuns ==
    ASSUME NEW s, Base(s), NEW t \in Tasks, Runnable(s, t),
           \A p \in Prios : NoSleeper(p) =>
               \A v \in Range(s.ring[p]) : Runnable(s, v) /\ v # t => s.next[p] # t
    PROVE  SchedInv(SwitchTo(s, t))
<1>. DEFINE n == SwitchTo(s, t)
<1>1. /\ s.state \in [Tasks -> ThreadStates] /\ s.cur \in Tasks
      /\ s.quantum \in [Tasks -> 0..MaxQuantum] /\ s.ring \in [Prios -> Seq(Tasks)]
    BY Zenon DEF Base, Typed, SchedType
<1>2. /\ n.ring = s.ring /\ n.next = s.next /\ n.sleep = s.sleep
      /\ n.killed = s.killed /\ n.batch = s.batch /\ n.cleaner = s.cleaner
      /\ n.cur = t
      /\ n.state = [u \in Tasks |-> IF u = t THEN "running"
                                    ELSE IF u = s.cur /\ s.state[u] = "running" THEN "ready"
                                    ELSE s.state[u]]
    BY Zenon, <1>1 DEF SwitchTo, Base, Typed, SchedType
<1>3. Typed(n)
    <2>1. 0 \in 0..MaxQuantum
        BY SchedulerAssumption
    <2>. QED BY Zenon, <1>1, <2>1 DEF SwitchTo, Base, Typed, SchedType, ThreadStates
<1>. HIDE DEF n
<1>4. \A u \in Tasks :
        /\ Runnable(n, u) <=> Runnable(s, u)
        /\ ~ Runnable(s, u) => n.state[u] = s.state[u]
        /\ n.state[u] = "running" <=> u = t
    BY Zenon, <1>1, <1>2 DEF Runnable, Base, OnlyCurRuns
<1>5. \A p \in Prios : Range(s.ring[p]) \subseteq Tasks
    BY <1>1 DEF Range
<1>6. RingsListLiveTasks(n)
    <2>1. \A u \in Tasks : n.state[u] \in {"absent", "killed"} <=> s.state[u] \in {"absent", "killed"}
        BY Zenon, <1>4 DEF Runnable
    <2>. QED BY <1>2, <2>1 DEF Base, RingsListLiveTasks
<1>7. NextIsRunnable(n)
    BY <1>2, <1>4, <1>5 DEF Base, NextIsRunnable
<1>8. OnlyCurRuns(n) /\ n.state[n.cur] = "running"
    BY Zenon, <1>2, <1>4 DEF OnlyCurRuns
<1>9. IdleCanRun(n)
    BY Zenon, <1>4, SchedulerAssumption DEF Base, IdleCanRun
<1>10. KilledAreDead(n)
    <2>1. \A u \in Tasks : n.state[u] = "killed" <=> s.state[u] = "killed"
        BY Zenon, <1>4 DEF Runnable
    <2>. QED BY Zenon, <1>2, <2>1 DEF Base, KilledAreDead
<1>11. SleepersSleep(n)
    <2>1. \A u \in Tasks : n.state[u] = "sleeping" <=> s.state[u] = "sleeping"
        BY Zenon, <1>4 DEF Runnable
    <2>. QED BY Zenon, <1>2, <2>1 DEF Base, SleepersSleep
<1>12. BatchWasTaken(n)
    BY Zenon, <1>2 DEF Base, BatchWasTaken
<1>13. LevelHasNext(n)
    BY <1>2, <1>4, <1>5 DEF Base, LevelHasNext
<1>14. NextIsNotCur(n)
    <2>1. \A u \in Tasks : n.state[u] = "ready" => Runnable(s, u) /\ u # t
        BY Zenon, <1>4 DEF Runnable
    <2>. QED BY Zenon, <1>2, <2>1, <1>5 DEF NextIsNotCur
<1>. QED BY Zenon, <1>3, <1>6, <1>7, <1>8, <1>9, <1>10, <1>11, <1>12, <1>13, <1>14
         DEF SchedInv, Core, Base, n

\* The tasks of a ring have the priority of the ring.
LEMMA NextInOwnLevel ==
    ASSUME NEW s, Base(s), NEW p \in Prios, NEW t \in Range(s.ring[p])
    PROVE  t \in Tasks \ {Idle} /\ Priority[t] = p
BY Zenon DEF Base, RingsListLiveTasks

(***************************************************************************)
(* The hand-over of reschedule: after any state change that keeps Core,    *)
(* the task that gets the CPU is runnable and is the only one running.     *)
(***************************************************************************)
LEMMA RescheduleRuns ==
    ASSUME NEW s, Core(s)
    PROVE  SchedInv(Reschedule(s))
<1>. DEFINE t == NextToRun(s)
<1>1. /\ s.state \in [Tasks -> ThreadStates] /\ s.cur \in Tasks
      /\ s.next \in [Prios -> Tasks \cup {NoTask}] /\ s.ring \in [Prios -> Seq(Tasks)]
      /\ Idle \in Tasks /\ NoTask \notin Tasks
    BY Zenon, SchedulerAssumption DEF Core, Base, Typed, SchedType
<1>2. CASE ReadyLevels(s) = {}
    <2>1. t \in Tasks /\ Runnable(s, t) /\ Reschedule(s) = SwitchTo(s, t)
        BY Zenon, <1>1, <1>2 DEF NextToRun, Reschedule, Core, Base, IdleCanRun, Runnable
    <2>2. \A p \in Prios : s.next[p] # t
        BY Zenon, <1>1, <1>2, <2>1 DEF ReadyLevels
    <2>. HIDE DEF t
    <2>. QED BY Zenon, <2>1, <2>2, SwitchToRuns DEF Core
<1>3. CASE ReadyLevels(s) # {}
    <2>. DEFINE h == HighestReadyLevel(s)
                u == UpdateNextTask(s, h)
    <2>1. h \in Prios /\ s.next[h] # NoTask
        BY Zenon, <1>3, HighestReadyLevelIsReady DEF ReadyLevels
    <2>2. t = s.next[h] /\ Reschedule(s) = SwitchTo(u, t)
        BY Zenon, <1>3 DEF NextToRun, Reschedule
    <2>. HIDE DEF h, t
    <2>3. t \in Range(s.ring[h]) /\ Runnable(s, t) /\ t \in Tasks
        BY Zenon, <1>1, <2>1, <2>2 DEF Core, Base, NextIsRunnable
    <2>4. PICK x \in Tasks \cup {NoTask} :
              /\ u = [s EXCEPT !.next[h] = x]
              /\ x = NoTask => \A v \in Range(s.ring[h]) : ~ Runnable(s, v)
              /\ x # NoTask => x \in Range(s.ring[h]) /\ Runnable(s, x)
              /\ \A v \in Range(s.ring[h]) : Runnable(s, v) /\ v # t => x # t
        BY Zenon, <2>1, <2>2, <2>3, UpdateNextTaskResult DEF Core, Base
    <2>. HIDE DEF u
    <2>5. /\ u.state = s.state /\ u.ring = s.ring /\ u.cur = s.cur /\ u.sleep = s.sleep
          /\ u.killed = s.killed /\ u.batch = s.batch /\ u.cleaner = s.cleaner
          /\ u.next = [s.next EXCEPT ![h] = x]
          /\ Typed(u)
        BY Zenon, <1>1, <2>1, <2>4 DEF Core, Base, Typed, SchedType
    <2>6. \A v : Runnable(u, v) <=> Runnable(s, v)
        BY Zenon, <2>5 DEF Runnable
    <2>7. Base(u)
        <3>1. RingsListLiveTasks(u) /\ OnlyCurRuns(u) /\ IdleCanRun(u) /\ KilledAreDead(u)
              /\ SleepersSleep(u) /\ BatchWasTaken(u)
            BY ZenonT(60), <2>5, <2>6 DEF Core, Base, RingsListLiveTasks, OnlyCurRuns, IdleCanRun,
                              KilledAreDead, SleepersSleep, BatchWasTaken
        <3>2. NextIsRunnable(u)
            <4>1. SUFFICES ASSUME NEW p \in Prios, u.next[p] # NoTask
                           PROVE  u.next[p] \in Range(s.ring[p]) /\ Runnable(s, u.next[p])
                BY Zenon, <2>5, <2>6 DEF NextIsRunnable
            <4>2. CASE p = h
                BY <1>1, <2>1, <2>4, <2>5, <4>1, <4>2
            <4>3. CASE p # h
                BY Zenon, <1>1, <2>5, <4>1, <4>3 DEF Core, Base, NextIsRunnable
            <4>. QED BY Zenon, <4>2, <4>3
        <3>3. LevelHasNext(u)
            BY <1>1, <2>1, <2>4, <2>5, <2>6 DEF Core, Base, LevelHasNext
        <3>. QED BY Zenon, <2>5, <3>1, <3>2, <3>3 DEF Base
    <2>8. ASSUME NEW p \in Prios, NEW v \in Range(u.ring[p]), Runnable(u, v), v # t
          PROVE  u.next[p] # t
        <3>1. CASE p = h
            BY <1>1, <2>1, <2>4, <2>5, <2>6, <2>8, <3>1
        <3>2. CASE p # h
            <4>1. u.next[p] = s.next[p]
                BY Zenon, <1>1, <2>1, <2>5, <3>2
            <4>2. s.next[p] = NoTask \/ Priority[s.next[p]] = p
                BY SMTT(60), NextInOwnLevel DEF Core, Base, NextIsRunnable
            <4>3. Priority[t] = h
                BY Zenon, <2>1, <2>3, NextInOwnLevel DEF Core
            <4>. QED BY Zenon, <1>1, <2>3, <3>2, <4>1, <4>2, <4>3
        <3>. QED BY Zenon, <3>1, <3>2
    <2>9. Runnable(u, t)
        BY Zenon, <2>3, <2>6
    <2>. QED BY Zenon, <2>2, <2>3, <2>7, <2>8, <2>9, SwitchToRuns
<1>. QED BY Zenon, <1>2, <1>3

-----------------------------------------------------------------------------
(***************************************************************************)
(* The inductive invariant of Spec.                                        *)
(***************************************************************************)
IInv == SchedInv(sched)

-----------------------------------------------------------------------------
(* The calls that suspend the current task. *)

\* A task that is neither freed nor killed is linked in its ring.
LEMMA LiveTaskInRing ==
    ASSUME NEW s, Base(s), NEW t \in Tasks, t # Idle, s.state[t] \notin {"absent", "killed"}
    PROVE  Priority[t] \in Prios /\ t \in Range(s.ring[Priority[t]])
BY SchedulerAssumption DEF Base, RingsListLiveTasks

\* Without the current task nobody at its level can run, if next_task was the current task.
LEMMA NobodyElseRuns ==
    ASSUME NEW s, SchedInv(s), s.cur # Idle, NoSleeper(Priority[s.cur]),
           s.next[Priority[s.cur]] \in {s.cur, NoTask},
           NEW t \in Range(s.ring[Priority[s.cur]]), t # s.cur
    PROVE  ~ Runnable(s, t)
<1>. DEFINE p == Priority[s.cur]
<1>1. s.cur \in Tasks /\ s.state[s.cur] = "running"
    BY Zenon DEF SchedInv, Core, Base, Typed, SchedType
<1>2. p \in Prios /\ s.cur \in Range(s.ring[p])
    BY Zenon, <1>1, LiveTaskInRing DEF SchedInv, Core
<1>3. s.next[p] = s.cur
    BY Zenon, <1>1, <1>2 DEF SchedInv, Core, Base, LevelHasNext, Runnable
<1>4. t \in Tasks
    BY Zenon, <1>2, NextInOwnLevel DEF SchedInv, Core
<1>5. s.state[t] # "ready"
    BY Zenon, <1>2, <1>3 DEF SchedInv, Core, NextIsNotCur
<1>6. s.state[t] # "running"
    BY Zenon, <1>4 DEF SchedInv, Core, Base, OnlyCurRuns
<1>. QED BY Zenon, <1>5, <1>6 DEF Runnable

\* A call that suspends the current task keeps Core, if it leaves a proper next_task
\* behind.
LEMMA SuspendCurrent ==
    ASSUME NEW s, SchedInv(s), s.cur # Idle, NEW st \in Suspended,
           NEW n, Typed(n),
           n.state = [s.state EXCEPT ![s.cur] = st],
           n.ring = s.ring, n.cur = s.cur, n.killed = s.killed, n.batch = s.batch,
           n.cleaner = s.cleaner,
           \A t \in Tasks \ {s.cur} : n.sleep[t] = s.sleep[t],
           st = "sleeping" => s.cur \in Sleepers /\ n.sleep[s.cur] # 0,
           \A q \in Prios \ {Priority[s.cur]} : n.next[q] = s.next[q],
           NEW x, x = n.next[Priority[s.cur]],
           x # NoTask => /\ x \in Range(s.ring[Priority[s.cur]]) \ {s.cur}
                         /\ Runnable(s, x),
           x = NoTask /\ NoSleeper(Priority[s.cur]) =>
               \A t \in Range(s.ring[Priority[s.cur]]) \ {s.cur} : ~ Runnable(s, t)
    PROVE  Core(n)
<1>. DEFINE p == Priority[s.cur]
<1>1. s.cur \in Tasks /\ s.state[s.cur] = "running" /\ s.state \in [Tasks -> ThreadStates]
    BY Zenon DEF SchedInv, Core, Base, Typed, SchedType
<1>2. p \in Prios /\ s.cur \in Range(s.ring[p])
    BY Zenon, <1>1, LiveTaskInRing DEF SchedInv, Core
<1>3. \A t \in Tasks : t # s.cur => n.state[t] = s.state[t]
    BY Zenon, <1>1
<1>4. n.state[s.cur] = st /\ st \notin {"absent", "killed", "ready", "running"}
    BY Zenon, <1>1 DEF Suspended
<1>5. \A q \in Prios : \A t \in Range(s.ring[q]) : t \in Tasks \ {Idle} /\ Priority[t] = q
    BY ZenonT(60), NextInOwnLevel DEF SchedInv, Core
<1>. HIDE DEF p
<1>6. \A t \in Tasks : Runnable(n, t) <=> Runnable(s, t) /\ t # s.cur
    BY Zenon, <1>3, <1>4 DEF Runnable
<1>7. RingsListLiveTasks(n)
    <2>1. \A t \in Tasks : n.state[t] \in {"absent", "killed"} <=> s.state[t] \in {"absent", "killed"}
        BY Zenon, <1>1, <1>3, <1>4
    <2>. QED BY SMTT(60), <2>1 DEF SchedInv, Core, Base, RingsListLiveTasks
<1>8. NextIsRunnable(n)
    <2>1. SUFFICES ASSUME NEW q \in Prios, n.next[q] # NoTask
                   PROVE  n.next[q] \in Range(s.ring[q]) /\ Runnable(n, n.next[q])
        BY Zenon DEF NextIsRunnable
    <2>2. CASE q = p
        BY Zenon, <1>2, <1>5, <1>6, <2>1, <2>2 DEF p
    <2>3. CASE q # p
        <3>1. n.next[q] = s.next[q] /\ s.next[q] \in Range(s.ring[q]) /\ Runnable(s, s.next[q])
            BY Zenon, <2>1, <2>3 DEF SchedInv, Core, Base, NextIsRunnable, p
        <3>2. s.next[q] # s.cur /\ s.next[q] \in Tasks
            BY Zenon, <1>5, <3>1, <2>3 DEF p
        <3>. QED BY Zenon, <1>6, <3>1, <3>2
    <2>. QED BY Zenon, <2>2, <2>3
<1>9. OnlyCurRuns(n)
    BY Zenon, <1>3, <1>4 DEF SchedInv, Core, Base, OnlyCurRuns
<1>10. IdleCanRun(n)
    BY Zenon, <1>6, SchedulerAssumption DEF SchedInv, Core, Base, IdleCanRun
<1>11. KilledAreDead(n)
    BY <1>1, <1>3, <1>4 DEF SchedInv, Core, Base, KilledAreDead
<1>12. SleepersSleep(n)
    BY Zenon, <1>3, <1>4 DEF SchedInv, Core, Base, SleepersSleep
<1>13. BatchWasTaken(n)
    BY Zenon DEF SchedInv, Core, Base, BatchWasTaken
<1>14. LevelHasNext(n)
    <2>1. SUFFICES ASSUME NEW q \in Prios, NoSleeper(q), NEW t \in Range(s.ring[q]), Runnable(n, t)
                   PROVE  n.next[q] # NoTask
        BY Zenon DEF LevelHasNext
    <2>2. Runnable(s, t) /\ t # s.cur
        BY Zenon, <1>5, <1>6, <2>1
    <2>3. CASE q = p
        BY Zenon, <2>1, <2>2, <2>3 DEF p
    <2>4. CASE q # p
        BY Zenon, <2>1, <2>2, <2>4 DEF SchedInv, Core, Base, LevelHasNext, p
    <2>. QED BY Zenon, <2>3, <2>4
<1>15. NextIsNotCur(n)
    <2>1. \A q \in Prios : n.next[q] # NoTask => n.next[q] \in Tasks /\ Runnable(n, n.next[q])
        BY Zenon, <1>5, <1>8 DEF NextIsRunnable
    <2>2. s.cur # NoTask /\ ~ Runnable(n, s.cur)
        BY Zenon, <1>1, <1>6, SchedulerAssumption
    <2>. QED BY Zenon, <2>1, <2>2 DEF NextIsNotCur
<1>. QED BY Zenon, <1>7, <1>8, <1>9, <1>10, <1>11, <1>12, <1>13, <1>14, <1>15 DEF Core, Base

\* What DropFromNext leaves of the level of the current task.
LEMMA DroppedNext ==
    ASSUME NEW s, SchedInv(s), s.cur # Idle, NEW x, x = DropFromNext(s)[Priority[s.cur]]
    PROVE  /\ DropFromNext(s) \in [Prios -> Tasks \cup {NoTask}]
           /\ \A q \in Prios \ {Priority[s.cur]} : DropFromNext(s)[q] = s.next[q]
           /\ x # NoTask => x \in Range(s.ring[Priority[s.cur]]) \ {s.cur} /\ Runnable(s, x)
           /\ x = NoTask => s.next[Priority[s.cur]] \in {s.cur, NoTask}
<1>1. /\ s.cur \in Tasks /\ s.state[s.cur] = "running"
      /\ s.next \in [Prios -> Tasks \cup {NoTask}]
    BY Zenon DEF SchedInv, Core, Base, Typed, SchedType
<1>2. Priority[s.cur] \in Prios
    BY Zenon, <1>1, SchedulerAssumption
<1>3. x = IF s.next[Priority[s.cur]] = s.cur THEN NoTask ELSE s.next[Priority[s.cur]]
    BY Zenon, <1>1, <1>2 DEF DropFromNext
<1>. QED BY Zenon, <1>1, <1>2, <1>3 DEF DropFromNext, SchedInv, Core, Base, NextIsRunnable

\* sleep keeps Core up to its reschedule.
LEMMA SleepCurrentCore ==
    ASSUME NEW s, SchedInv(s), s.cur \in Sleepers, NEW k \in 1..MaxSleep
    PROVE  Core(SleepCurrent(s, k))
<1>. DEFINE n == SleepCurrent(s, k)
            x == DropFromNext(s)[Priority[s.cur]]
<1>1. s.cur \in Tasks /\ s.cur # Idle /\ k \in 0..MaxSleep /\ k # 0
    BY SMTT(60), SchedulerAssumption
<1>2. /\ DropFromNext(s) \in [Prios -> Tasks \cup {NoTask}]
      /\ \A q \in Prios \ {Priority[s.cur]} : DropFromNext(s)[q] = s.next[q]
      /\ x # NoTask => x \in Range(s.ring[Priority[s.cur]]) \ {s.cur} /\ Runnable(s, x)
    BY Zenon, <1>1, DroppedNext
<1>3. /\ n.state = [s.state EXCEPT ![s.cur] = "sleeping"]
      /\ n.ring = s.ring /\ n.cur = s.cur /\ n.killed = s.killed /\ n.batch = s.batch
      /\ n.cleaner = s.cleaner /\ n.sleep = [s.sleep EXCEPT ![s.cur] = k]
      /\ n.next = DropFromNext(s)
      /\ Typed(n)
    BY Zenon, <1>1, <1>2 DEF SleepCurrent, SchedInv, Core, Base, Typed, SchedType, ThreadStates, Suspended
<1>4. s.sleep \in [Tasks -> 0..MaxSleep]
    BY Zenon DEF SchedInv, Core, Base, Typed, SchedType
<1>5. ~ NoSleeper(Priority[s.cur])
    BY Zenon DEF NoSleeper
<1>6. "sleeping" \in Suspended
    BY Zenon DEF Suspended
<1>. HIDE DEF n, x
<1>7. x = n.next[Priority[s.cur]]
    BY Zenon, <1>3 DEF x
<1>8. \A t \in Tasks \ {s.cur} : n.sleep[t] = s.sleep[t]
    BY Zenon, <1>3, <1>4
<1>9. n.sleep[s.cur] # 0
    BY Zenon, <1>1, <1>3, <1>4
<1>10. x = NoTask /\ NoSleeper(Priority[s.cur]) =>
           \A t \in Range(s.ring[Priority[s.cur]]) \ {s.cur} : ~ Runnable(s, t)
    BY Zenon, <1>5
<1>11. Core(n)
    <2>1. "sleeping" = "sleeping" => s.cur \in Sleepers /\ n.sleep[s.cur] # 0
        BY Zenon, <1>9
    <2>2. \A q \in Prios \ {Priority[s.cur]} : n.next[q] = s.next[q]
        BY Zenon, <1>2, <1>3
    <2>3. s.cur # Idle
        BY Zenon, <1>1
    <2>. QED BY ZenonT(60), <1>2, <1>3, <1>6, <1>7, <1>8, <1>10, <2>1, <2>2, <2>3, SuspendCurrent
<1>. QED BY Zenon, <1>11 DEF n

\* wait_for_child keeps Core up to its reschedule.
LEMMA WaitCurrentCore ==
    ASSUME NEW s, SchedInv(s), s.cur # Idle
    PROVE  Core(WaitCurrent(s))
<1>. DEFINE n == WaitCurrent(s)
            x == DropFromNext(s)[Priority[s.cur]]
<1>1. s.cur \in Tasks
    BY Zenon DEF SchedInv, Core, Base, Typed, SchedType
<1>2. /\ DropFromNext(s) \in [Prios -> Tasks \cup {NoTask}]
      /\ \A q \in Prios \ {Priority[s.cur]} : DropFromNext(s)[q] = s.next[q]
      /\ x # NoTask => x \in Range(s.ring[Priority[s.cur]]) \ {s.cur} /\ Runnable(s, x)
      /\ x = NoTask => s.next[Priority[s.cur]] \in {s.cur, NoTask}
    BY Zenon, <1>1, DroppedNext
<1>3. /\ n.state = [s.state EXCEPT ![s.cur] = "waiting_for_child"]
      /\ n.ring = s.ring /\ n.cur = s.cur /\ n.killed = s.killed /\ n.batch = s.batch
      /\ n.cleaner = s.cleaner /\ n.sleep = s.sleep
      /\ n.next = DropFromNext(s)
      /\ Typed(n)
    BY Zenon, <1>1, <1>2 DEF WaitCurrent, SchedInv, Core, Base, Typed, SchedType, ThreadStates, Suspended
<1>4. "waiting_for_child" \in Suspended
    BY Zenon DEF Suspended
<1>. HIDE DEF n, x
<1>5. x = n.next[Priority[s.cur]]
    BY Zenon, <1>3 DEF x
<1>6. x = NoTask /\ NoSleeper(Priority[s.cur]) =>
          \A t \in Range(s.ring[Priority[s.cur]]) \ {s.cur} : ~ Runnable(s, t)
    BY Zenon, <1>2, NobodyElseRuns
<1>7. Core(n)
    BY SMTT(60), <1>2, <1>3, <1>4, <1>5, <1>6, SuspendCurrent
<1>. QED BY Zenon, <1>7 DEF n

\* block_task of the current task keeps Core.
LEMMA BlockTaskCore ==
    ASSUME NEW s, SchedInv(s), s.cur # Idle
    PROVE  Core(BlockTask(s, s.cur))
<1>. DEFINE p == Priority[s.cur]
            b == [s EXCEPT !.state[s.cur] = "blocked"]
            n == BlockTask(s, s.cur)
<1>1. s.cur \in Tasks /\ s.state[s.cur] = "running" /\ s.state \in [Tasks -> ThreadStates]
      /\ s.next \in [Prios -> Tasks \cup {NoTask}]
    BY Zenon DEF SchedInv, Core, Base, Typed, SchedType
<1>2. p \in Prios /\ s.cur \in Range(s.ring[p])
    BY Zenon, <1>1, LiveTaskInRing DEF SchedInv, Core
<1>3. /\ b.state = [s.state EXCEPT ![s.cur] = "blocked"]
      /\ b.ring = s.ring /\ b.cur = s.cur /\ b.killed = s.killed /\ b.batch = s.batch
      /\ b.cleaner = s.cleaner /\ b.sleep = s.sleep /\ b.next = s.next
      /\ Typed(b)
    BY Zenon, <1>1 DEF SchedInv, Core, Base, Typed, SchedType, ThreadStates, Suspended
<1>4. \A t \in Tasks : Runnable(b, t) <=> Runnable(s, t) /\ t # s.cur
    BY <1>1, <1>3 DEF Runnable
<1>5. Range(s.ring[p]) \subseteq Tasks
    BY Zenon, <1>2, NextInOwnLevel DEF SchedInv, Core
<1>6. "blocked" \in Suspended
    BY Zenon DEF Suspended
<1>7. CASE s.next[p] = s.cur
    <2>1. n = UpdateNextTask(b, p)
        BY Zenon, <1>1, <1>7 DEF BlockTask
    <2>. HIDE DEF b, n, p
    <2>2. PICK x \in Tasks \cup {NoTask} :
              /\ n = [b EXCEPT !.next[p] = x]
              /\ x = NoTask => \A t \in Range(b.ring[p]) : ~ Runnable(b, t)
              /\ x # NoTask => x \in Range(b.ring[p]) /\ Runnable(b, x)
        BY Zenon, <1>2, <1>3, <1>7, <2>1, UpdateNextTaskResult
    <2>3. /\ n.state = b.state /\ n.ring = b.ring /\ n.cur = b.cur /\ n.killed = b.killed
          /\ n.batch = b.batch /\ n.cleaner = b.cleaner /\ n.sleep = b.sleep
          /\ n.next = [b.next EXCEPT ![p] = x] /\ Typed(n)
        BY Zenon, <1>2, <1>3, <2>2 DEF Typed, SchedType
    <2>4. x = n.next[p] /\ \A q \in Prios \ {p} : n.next[q] = s.next[q]
        BY ZenonT(60), <1>1, <1>2, <1>3, <2>3
    <2>5. /\ x # NoTask => x \in Range(s.ring[p]) \ {s.cur} /\ Runnable(s, x)
          /\ x = NoTask => \A t \in Range(s.ring[p]) \ {s.cur} : ~ Runnable(s, t)
        BY Zenon, <1>3, <1>4, <1>5, <2>2
    <2>6. /\ n.state = [s.state EXCEPT ![s.cur] = "blocked"]
          /\ n.ring = s.ring /\ n.cur = s.cur /\ n.killed = s.killed /\ n.batch = s.batch
          /\ n.cleaner = s.cleaner /\ n.sleep = s.sleep
        BY Zenon, <1>3, <2>3
    <2>7. Core(n)
        BY Zenon, <1>6, <2>3, <2>4, <2>5, <2>6, SuspendCurrent DEF p
    <2>. QED BY Zenon, <2>7 DEF n
<1>8. CASE s.next[p] # s.cur
    <2>1. n = b
        BY Zenon, <1>1, <1>8 DEF BlockTask
    <2>. HIDE DEF b, n
    <2>2. s.next[p] # NoTask => s.next[p] \in Range(s.ring[p]) /\ Runnable(s, s.next[p])
        BY Zenon, <1>2 DEF SchedInv, Core, Base, NextIsRunnable
    <2>3. s.next[p] = NoTask => ~ NoSleeper(p)
        BY Zenon, <1>1, <1>2 DEF SchedInv, Core, Base, LevelHasNext, Runnable
    <2>4. Core(n)
        BY Zenon, <1>3, <1>6, <1>8, <2>1, <2>2, <2>3, SuspendCurrent
    <2>. QED BY Zenon, <2>4 DEF n
<1>. QED BY Zenon, <1>7, <1>8

\* kill_current_task keeps Core up to its unblock_task of the cleaner.
LEMMA UnlinkCurrentCore ==
    ASSUME NEW s, SchedInv(s), s.cur # Idle
    PROVE  Core(UnlinkCurrent(s)) /\ UnlinkCurrent(s).cur = s.cur
           /\ UnlinkCurrent(s).state[s.cur] = "killed"
<1>. DEFINE p == Priority[s.cur]
            r == Unlink(s.ring[p], s.cur)
            n == UnlinkCurrent(s)
            x == DropFromNext(s)[p]
<1>1. /\ s.cur \in Tasks /\ s.state[s.cur] = "running" /\ s.state \in [Tasks -> ThreadStates]
      /\ s.ring \in [Prios -> Seq(Tasks)] /\ s.next \in [Prios -> Tasks \cup {NoTask}]
    BY Zenon DEF SchedInv, Core, Base, Typed, SchedType
<1>2. p \in Prios /\ s.cur \in Range(s.ring[p])
    BY Zenon, <1>1, LiveTaskInRing DEF SchedInv, Core
<1>3. \A q \in Prios : \A t \in Range(s.ring[q]) : t \in Tasks \ {Idle} /\ Priority[t] = q
    BY Zenon, NextInOwnLevel DEF SchedInv, Core
<1>4. r \in Seq(Tasks) /\ IsInjective(r) /\ Range(r) = Range(s.ring[p]) \ {s.cur}
    <2>1. s.ring[p] \in Seq(Tasks) /\ IsInjective(s.ring[p])
        BY Zenon, <1>1, <1>2 DEF SchedInv, Core, Base, RingsListLiveTasks
    <2>. QED BY Zenon, <1>2, <2>1, RemoveFromRing
<1>5. /\ DropFromNext(s) \in [Prios -> Tasks \cup {NoTask}]
      /\ \A q \in Prios \ {p} : DropFromNext(s)[q] = s.next[q]
      /\ x # NoTask => x \in Range(s.ring[p]) \ {s.cur} /\ Runnable(s, x)
      /\ x = NoTask => s.next[p] \in {s.cur, NoTask}
    BY Zenon, DroppedNext
<1>. HIDE DEF r, x
<1>6. /\ n.state = [s.state EXCEPT ![s.cur] = "killed"]
      /\ n.ring = [s.ring EXCEPT ![p] = r]
      /\ n.cur = s.cur /\ n.killed = s.killed \cup {s.cur} /\ n.batch = s.batch
      /\ n.cleaner = s.cleaner /\ n.sleep = s.sleep
      /\ n.next = DropFromNext(s)
    BY Zenon, <1>1, <1>2 DEF UnlinkCurrent, SchedInv, Core, Base, Typed, SchedType, r
<1>7. Typed(n)
    BY Zenon, <1>1, <1>2, <1>4, <1>5
       DEF UnlinkCurrent, SchedInv, Core, Base, Typed, SchedType, ThreadStates, r
<1>. HIDE DEF n, p
<1>8. \A t \in Tasks : t # s.cur => n.state[t] = s.state[t]
    BY Zenon, <1>1, <1>6
<1>9. n.state[s.cur] = "killed"
    BY Zenon, <1>1, <1>6
<1>10. n.ring[p] = r /\ \A q \in Prios : q # p => n.ring[q] = s.ring[q]
    BY Zenon, <1>1, <1>2, <1>6
<1>11. \A q \in Prios : Range(n.ring[q]) = Range(s.ring[q]) \ {s.cur}
    BY <1>2, <1>3, <1>4, <1>10 DEF p
<1>12. \A t \in Tasks : Runnable(n, t) <=> Runnable(s, t) /\ t # s.cur
    BY Zenon, <1>8, <1>9 DEF Runnable
<1>13. RingsListLiveTasks(n)
    <2>1. \A q \in Prios : IsInjective(n.ring[q])
        BY Zenon, <1>4, <1>10 DEF SchedInv, Core, Base, RingsListLiveTasks
    <2>2. \A t \in Tasks : n.state[t] \in {"absent", "killed"}
                               <=> t = s.cur \/ s.state[t] \in {"absent", "killed"}
        BY Zenon, <1>8, <1>9
    <2>. QED BY SMTT(60), <1>11, <2>1, <2>2 DEF SchedInv, Core, Base, RingsListLiveTasks
<1>14. NextIsRunnable(n)
    <2>1. SUFFICES ASSUME NEW q \in Prios, n.next[q] # NoTask
                   PROVE  n.next[q] \in Range(n.ring[q]) /\ Runnable(n, n.next[q])
        BY Zenon DEF NextIsRunnable
    <2>2. n.next[q] \in Range(s.ring[q]) /\ Runnable(s, n.next[q]) /\ n.next[q] # s.cur
        <3>1. CASE q = p
            BY Zenon, <1>5, <1>6, <2>1, <3>1 DEF x
        <3>2. CASE q # p
            BY SMTT(60), <1>3, <1>5, <1>6, <2>1, <3>2 DEF SchedInv, Core, Base, NextIsRunnable, p
        <3>. QED BY Zenon, <3>1, <3>2
    <2>. QED BY Zenon, <1>3, <1>11, <1>12, <2>2
<1>15. OnlyCurRuns(n) /\ SleepersSleep(n)
    BY Zenon, <1>6, <1>8, <1>9 DEF SchedInv, Core, Base, OnlyCurRuns, SleepersSleep
<1>16. IdleCanRun(n)
    BY Zenon, <1>12, SchedulerAssumption DEF SchedInv, Core, Base, IdleCanRun
<1>17. KilledAreDead(n)
    BY SMTT(60), <1>1, <1>6, <1>8, <1>9 DEF SchedInv, Core, Base, KilledAreDead
<1>18. BatchWasTaken(n)
    BY Zenon, <1>6 DEF SchedInv, Core, Base, BatchWasTaken
<1>19. LevelHasNext(n)
    <2>1. SUFFICES ASSUME NEW q \in Prios, NoSleeper(q), NEW t \in Range(s.ring[q]),
                          t # s.cur, Runnable(s, t)
                   PROVE  n.next[q] # NoTask
        BY <1>3, <1>11, <1>12 DEF LevelHasNext
    <2>2. CASE q = p
        <3>1. s.next[p] \notin {s.cur, NoTask}
            BY Zenon, <2>1, <2>2, NobodyElseRuns DEF p
        <3>. QED BY Zenon, <1>5, <1>6, <2>2, <3>1 DEF x
    <2>3. CASE q # p
        BY SMTT(60), <1>5, <1>6, <2>1, <2>3 DEF SchedInv, Core, Base, LevelHasNext
    <2>. QED BY Zenon, <2>2, <2>3
<1>20. NextIsNotCur(n)
    <2>1. \A q \in Prios : n.next[q] # NoTask => n.next[q] \in Range(s.ring[q]) \ {s.cur}
        BY Zenon, <1>11, <1>14 DEF NextIsRunnable
    <2>2. s.cur # NoTask
        BY Zenon, <1>1, SchedulerAssumption
    <2>. QED BY Zenon, <1>6, <2>1, <2>2 DEF NextIsNotCur
<1>21. Core(n) /\ n.cur = s.cur /\ n.state[s.cur] = "killed"
    BY Zenon, <1>6, <1>7, <1>9, <1>13, <1>14, <1>15, <1>16, <1>17, <1>18, <1>19, <1>20 DEF Core, Base
<1>. QED BY Zenon, <1>21 DEF n

-----------------------------------------------------------------------------
(* The calls that make another task ready. *)

\* unblock_task keeps Core and leaves the current task alone.
LEMMA UnblockTaskCore ==
    ASSUME NEW s, Core(s), s.state[s.cur] \notin Suspended, NEW t \in Tasks
    PROVE  Core(UnblockTask(s, t)) /\ UnblockTask(s, t).cur = s.cur
           /\ UnblockTask(s, t).state[s.cur] = s.state[s.cur]
<1>. DEFINE p == Priority[t]
            n == UnblockTask(s, t)
<1>1. CASE s.state[t] \notin Suspended
    BY Zenon, <1>1 DEF UnblockTask
<1>2. CASE s.state[t] \in Suspended
    <2>1. /\ s.cur \in Tasks /\ s.state \in [Tasks -> ThreadStates]
          /\ s.next \in [Prios -> Tasks \cup {NoTask}] /\ NoTask \notin Tasks
        BY Zenon, SchedulerAssumption DEF Core, Base, Typed, SchedType
    <2>2. t # Idle /\ t # s.cur /\ ~ Runnable(s, t) /\ s.state[t] \notin {"absent", "killed"}
        BY Zenon, <1>2 DEF Core, Base, IdleCanRun, Runnable, Suspended
    <2>3. p \in Prios /\ t \in Range(s.ring[p])
        BY Zenon, <2>2, LiveTaskInRing DEF Core
    <2>4. \A q \in Prios : \A u \in Range(s.ring[q]) : u \in Tasks \ {Idle} /\ Priority[u] = q
        BY Zenon, NextInOwnLevel DEF Core
    <2>5. /\ n.state = [s.state EXCEPT ![t] = "ready"]
          /\ n.next = [s.next EXCEPT ![p] = IF s.next[p] \in {NoTask, s.cur} THEN t ELSE s.next[p]]
          /\ n.ring = s.ring /\ n.cur = s.cur /\ n.killed = s.killed /\ n.batch = s.batch
          /\ n.cleaner = s.cleaner /\ n.sleep = s.sleep
          /\ Typed(n)
        BY Zenon, <1>2, <2>1, <2>3 DEF UnblockTask, NextWith, Core, Base, Typed, SchedType, ThreadStates
    <2>. HIDE DEF n, p
    <2>6. n.state[t] = "ready" /\ \A u \in Tasks : u # t => n.state[u] = s.state[u]
        BY Zenon, <2>1, <2>5
    <2>7. /\ n.next[p] = IF s.next[p] \in {NoTask, s.cur} THEN t ELSE s.next[p]
          /\ \A q \in Prios : q # p => n.next[q] = s.next[q]
        BY Zenon, <2>1, <2>3, <2>5
    <2>8. \A u \in Tasks : Runnable(n, u) <=> Runnable(s, u) \/ u = t
        BY Zenon, <2>6 DEF Runnable
    <2>9. RingsListLiveTasks(n)
        <3>1. \A u \in Tasks : n.state[u] \in {"absent", "killed"} <=> s.state[u] \in {"absent", "killed"}
            BY Zenon, <2>2, <2>6
        <3>. QED BY SMTT(60), <2>5, <3>1 DEF Core, Base, RingsListLiveTasks
    <2>10. NextIsRunnable(n)
        BY SMTT(60), <2>3, <2>4, <2>5, <2>7, <2>8 DEF Core, Base, NextIsRunnable
    <2>11. OnlyCurRuns(n) /\ SleepersSleep(n)
        BY ZenonT(60), <2>5, <2>6 DEF Core, Base, OnlyCurRuns, SleepersSleep
    <2>12. IdleCanRun(n)
        BY Zenon, <2>8, SchedulerAssumption DEF Core, Base, IdleCanRun
    <2>13. KilledAreDead(n)
        BY Zenon, <2>2, <2>5, <2>6 DEF Core, Base, KilledAreDead
    <2>14. BatchWasTaken(n)
        BY Zenon, <2>5 DEF Core, Base, BatchWasTaken
    <2>15. LevelHasNext(n)
        <3>1. SUFFICES ASSUME NEW q \in Prios, NoSleeper(q), NEW u \in Range(s.ring[q]), Runnable(n, u)
                       PROVE  n.next[q] # NoTask
            BY Zenon, <2>5 DEF LevelHasNext
        <3>2. CASE q = p
            BY Zenon, <2>1, <2>7, <3>2
        <3>3. CASE q # p
            <4>1. Runnable(s, u)
                BY Zenon, <2>4, <2>8, <3>1, <3>3 DEF p
            <4>. QED BY Zenon, <2>7, <3>1, <3>3, <4>1 DEF Core, Base, LevelHasNext
        <3>. QED BY Zenon, <3>2, <3>3
    <2>16. NextIsNotCur(n)
        <3>1. SUFFICES ASSUME NEW q \in Prios, NoSleeper(q), NEW u \in Range(s.ring[q]),
                              n.state[u] = "ready"
                       PROVE  n.next[q] # s.cur
            BY Zenon, <2>5 DEF NextIsNotCur
        <3>2. CASE q = p
            BY Zenon, <2>2, <2>7, <3>2
        <3>3. CASE q # p
            <4>1. s.state[u] = "ready"
                BY SMTT(60), <2>4, <2>6, <3>1, <3>3 DEF p
            <4>. QED BY Zenon, <2>7, <3>1, <3>3, <4>1 DEF Core, NextIsNotCur
        <3>. QED BY Zenon, <3>2, <3>3
    <2>17. Core(n) /\ n.cur = s.cur /\ n.state[s.cur] = s.state[s.cur]
        BY Zenon, <2>1, <2>2, <2>5, <2>6, <2>9, <2>10, <2>11, <2>12, <2>13, <2>14, <2>15, <2>16 DEF Core, Base
    <2>. QED BY Zenon, <2>17 DEF n
<1>. QED BY Zenon, <1>1, <1>2

\* queue_task of a new task keeps the invariant.
LEMMA QueueTaskInv ==
    ASSUME NEW s, SchedInv(s), NEW t \in Tasks, s.state[t] = "absent",
           NEW st \in {"ready", "blocked"}
    PROVE  SchedInv(QueueTask(s, t, st))
<1>. DEFINE p == Priority[t]
            n == QueueTask(s, t, st)
<1>1. /\ s.cur \in Tasks /\ s.state \in [Tasks -> ThreadStates] /\ s.state[s.cur] = "running"
      /\ s.next \in [Prios -> Tasks \cup {NoTask}] /\ NoTask \notin Tasks
      /\ s.ring \in [Prios -> Seq(Tasks)] /\ p \in Prios
    BY Zenon, SchedulerAssumption DEF SchedInv, Core, Base, Typed, SchedType
<1>2. t # Idle /\ t # s.cur /\ ~ Runnable(s, t)
    BY Zenon, <1>1 DEF SchedInv, Core, Base, IdleCanRun, Runnable
<1>3. \A q \in Prios : \A u \in Range(s.ring[q]) : u \in Tasks \ {Idle} /\ Priority[u] = q /\ u # t
    BY Zenon DEF SchedInv, Core, Base, RingsListLiveTasks
<1>4. /\ Append(s.ring[p], t) \in Seq(Tasks) /\ IsInjective(Append(s.ring[p], t))
      /\ Range(Append(s.ring[p], t)) = Range(s.ring[p]) \cup {t}
    <2>1. s.ring[p] \in Seq(Tasks) /\ IsInjective(s.ring[p]) /\ t \notin Range(s.ring[p])
        BY Zenon, <1>1, <1>3 DEF SchedInv, Core, Base, RingsListLiveTasks
    <2>. QED BY Zenon, <2>1, AppendToRing
<1>5. /\ n.state = [s.state EXCEPT ![t] = st]
      /\ n.ring = [s.ring EXCEPT ![p] = Append(s.ring[p], t)]
      /\ n.next = [s.next EXCEPT ![p] = IF st = "ready" /\ s.next[p] \in {NoTask, s.cur}
                                        THEN t ELSE s.next[p]]
      /\ n.cur = s.cur /\ n.killed = s.killed /\ n.batch = s.batch
      /\ n.cleaner = s.cleaner /\ n.sleep = s.sleep
    BY Zenon, <1>1 DEF QueueTask, NextWith, SchedInv, Core, Base, Typed, SchedType
<1>6. Typed(n)
    <2>1. st \in ThreadStates
        BY Zenon DEF ThreadStates, Suspended
    <2>. QED BY Zenon, <1>1, <1>4, <2>1 DEF QueueTask, NextWith, SchedInv, Core, Base, Typed, SchedType
<1>. HIDE DEF n, p
<1>7. n.state[t] = st /\ \A u \in Tasks : u # t => n.state[u] = s.state[u]
    BY Zenon, <1>1, <1>5
<1>8. /\ n.next[p] = IF st = "ready" /\ s.next[p] \in {NoTask, s.cur} THEN t ELSE s.next[p]
      /\ \A q \in Prios : q # p => n.next[q] = s.next[q]
    BY Zenon, <1>1, <1>5
<1>9. /\ n.ring[p] = Append(s.ring[p], t)
      /\ \A q \in Prios : q # p => n.ring[q] = s.ring[q]
    BY Zenon, <1>1, <1>5
<1>10. /\ Range(n.ring[p]) = Range(s.ring[p]) \cup {t}
       /\ \A q \in Prios : q # p => Range(n.ring[q]) = Range(s.ring[q])
    BY Zenon, <1>4, <1>9
<1>11. \A u \in Tasks : Runnable(n, u) <=> Runnable(s, u) \/ (u = t /\ st = "ready")
    BY Zenon, <1>2, <1>7 DEF Runnable
<1>12. RingsListLiveTasks(n)
    <2>1. \A q \in Prios : IsInjective(n.ring[q])
        BY Zenon, <1>4, <1>9 DEF SchedInv, Core, Base, RingsListLiveTasks
    <2>2. \A u \in Tasks : n.state[u] \notin {"absent", "killed"}
                               <=> u = t \/ s.state[u] \notin {"absent", "killed"}
        BY Zenon, <1>7
    <2>3. ASSUME NEW q \in Prios
          PROVE  Range(n.ring[q]) =
                    {u \in Tasks \ {Idle} : Priority[u] = q /\ n.state[u] \notin {"absent", "killed"}}
        <3>1. Range(s.ring[q]) =
                    {u \in Tasks \ {Idle} : Priority[u] = q /\ s.state[u] \notin {"absent", "killed"}}
            BY Zenon DEF SchedInv, Core, Base, RingsListLiveTasks
        <3>2. CASE q = p
            BY Zenon, <1>2, <1>10, <2>2, <3>1, <3>2 DEF p
        <3>3. CASE q # p
            BY Zenon, <1>2, <1>10, <2>2, <3>1, <3>3 DEF p
        <3>. QED BY Zenon, <3>2, <3>3
    <2>. QED BY Zenon, <2>1, <2>3 DEF RingsListLiveTasks
<1>13. NextIsRunnable(n)
    <2>1. SUFFICES ASSUME NEW q \in Prios, n.next[q] # NoTask
                   PROVE  n.next[q] \in Range(n.ring[q]) /\ Runnable(n, n.next[q])
        BY Zenon DEF NextIsRunnable
    <2>2. CASE n.next[q] = s.next[q]
        <3>1. s.next[q] \in Range(s.ring[q]) /\ Runnable(s, s.next[q])
            BY Zenon, <2>1, <2>2 DEF SchedInv, Core, Base, NextIsRunnable
        <3>. QED BY Zenon, <1>3, <1>10, <1>11, <2>2, <3>1
    <2>3. CASE n.next[q] # s.next[q]
        BY Zenon, <1>8, <1>10, <1>11, <2>3
    <2>. QED BY Zenon, <2>2, <2>3
<1>14. OnlyCurRuns(n) /\ SleepersSleep(n)
    BY SMTT(60), <1>5, <1>7 DEF SchedInv, Core, Base, OnlyCurRuns, SleepersSleep
<1>15. IdleCanRun(n)
    BY Zenon, <1>11, SchedulerAssumption DEF SchedInv, Core, Base, IdleCanRun
<1>16. KilledAreDead(n)
    BY SMTT(60), <1>5, <1>7 DEF SchedInv, Core, Base, KilledAreDead
<1>17. BatchWasTaken(n)
    BY Zenon, <1>5 DEF SchedInv, Core, Base, BatchWasTaken
<1>18. LevelHasNext(n)
    <2>1. SUFFICES ASSUME NEW q \in Prios, NoSleeper(q), NEW u \in Range(n.ring[q]), Runnable(n, u)
                   PROVE  n.next[q] # NoTask
        BY Zenon DEF LevelHasNext
    <2>2. CASE u = t
        BY Zenon, <1>1, <1>2, <1>3, <1>8, <1>10, <1>11, <2>1, <2>2
    <2>3. CASE u # t
        <3>1. u \in Range(s.ring[q]) /\ Runnable(s, u)
            BY Zenon, <1>3, <1>10, <1>11, <2>1, <2>3
        <3>2. s.next[q] # NoTask
            BY Zenon, <2>1, <3>1 DEF SchedInv, Core, Base, LevelHasNext
        <3>. QED BY Zenon, <1>1, <1>8, <3>2
    <2>. QED BY Zenon, <2>2, <2>3
<1>19. NextIsNotCur(n)
    <2>1. SUFFICES ASSUME NEW q \in Prios, NoSleeper(q), NEW u \in Range(n.ring[q]),
                          n.state[u] = "ready"
                   PROVE  n.next[q] # s.cur
        BY Zenon, <1>5 DEF NextIsNotCur
    <2>2. CASE u = t
        BY Zenon, <1>2, <1>3, <1>7, <1>8, <1>10, <2>1, <2>2
    <2>3. CASE u # t
        <3>1. u \in Range(s.ring[q]) /\ s.state[u] = "ready"
            BY Zenon, <1>3, <1>7, <1>10, <2>1, <2>3
        <3>2. s.next[q] # s.cur
            BY Zenon, <2>1, <3>1 DEF SchedInv, Core, NextIsNotCur
        <3>. QED BY Zenon, <1>2, <1>8, <3>2
    <2>. QED BY Zenon, <2>2, <2>3
<1>20. n.state[n.cur] = "running"
    BY SMTT(60), <1>1, <1>2, <1>5, <1>7 DEF SchedInv
<1>21. SchedInv(n)
    BY Zenon, <1>6, <1>12, <1>13, <1>14, <1>15, <1>16, <1>17, <1>18, <1>19, <1>20
       DEF SchedInv, Core, Base
<1>. QED BY Zenon, <1>21 DEF n

\* The first task that update_tasks_sleep_quantum wakes in a ring is one whose sleep
\* ended.
LEMMA FirstAwakeIsAwake ==
    ASSUME NEW s, Typed(s), NEW p \in Prios, WakingUp(s) \cap Range(s.ring[p]) # {}
    PROVE  FirstAwake(s, p) \in WakingUp(s) \cap Range(s.ring[p])
<1>. DEFINE W == WakingUp(s) \cap Range(s.ring[p])
            A(u) == RingIndex(s.ring[p], u)
            T == {A(u) : u \in W}
<1>1. \A u \in W : A(u) \in Nat
    <2>1. s.ring[p] \in Seq(Tasks)
        BY Zenon DEF Typed, SchedType
    <2>. QED BY <2>1, RingIndexIsPosition
<1>2. PICK x \in T : \A y \in T : x <= y
    <2>. HIDE DEF A
    <2>1. T \in SUBSET Nat /\ T # {}
        BY Zenon, <1>1
    <2>. HIDE DEF T
    <2>. QED BY Zenon, <2>1, NatMinimum
<1>3. PICK u \in W : \A v \in W : A(u) <= A(v)
    BY Zenon, <1>2
<1>. QED BY Zenon, <1>3 DEF FirstAwake

\* update_tasks_sleep_quantum keeps the invariant.
LEMMA UpdateSleepQuantumInv ==
    ASSUME NEW s, SchedInv(s)
    PROVE  SchedInv(UpdateSleepQuantum(s))
<1>. DEFINE n == UpdateSleepQuantum(s)
            W == WakingUp(s)
<1>1. /\ s.cur \in Tasks /\ s.state \in [Tasks -> ThreadStates] /\ s.state[s.cur] = "running"
      /\ s.next \in [Prios -> Tasks \cup {NoTask}] /\ NoTask \notin Tasks
      /\ s.sleep \in [Tasks -> 0..MaxSleep] /\ MaxSleep \in Nat
    BY Zenon, SchedulerAssumption DEF SchedInv, Core, Base, Typed, SchedType
<1>2. /\ W \subseteq Tasks
      /\ \A t \in W : s.state[t] = "sleeping" /\ s.sleep[t] = 1 /\ t \in Sleepers
    BY Zenon DEF WakingUp, SchedInv, Core, Base, SleepersSleep
<1>3. \A p \in Prios : W \cap Range(s.ring[p]) # {} => FirstAwake(s, p) \in W \cap Range(s.ring[p])
    BY Zenon, FirstAwakeIsAwake DEF SchedInv, Core, Base
<1>4. \A q \in Prios : \A u \in Range(s.ring[q]) : u \in Tasks \ {Idle} /\ Priority[u] = q
    BY Zenon, NextInOwnLevel DEF SchedInv, Core
<1>5. /\ n.state = [t \in Tasks |-> IF t \in W THEN "ready" ELSE s.state[t]]
      /\ n.sleep = [t \in Tasks |-> IF s.state[t] = "sleeping" THEN s.sleep[t] - 1 ELSE s.sleep[t]]
      /\ n.next = [p \in Prios |-> IF s.next[p] = NoTask /\ W \cap Range(s.ring[p]) # {}
                                   THEN FirstAwake(s, p) ELSE s.next[p]]
      /\ n.ring = s.ring /\ n.cur = s.cur /\ n.killed = s.killed /\ n.batch = s.batch
      /\ n.cleaner = s.cleaner /\ n.quantum = s.quantum
    BY Zenon DEF UpdateSleepQuantum, SchedInv, Core, Base, Typed, SchedType
<1>6. Typed(n)
    <2>1. n.state \in [Tasks -> ThreadStates]
        BY SMTT(60), <1>1, <1>5 DEF ThreadStates
    <2>2. n.sleep \in [Tasks -> 0..MaxSleep]
        <3>1. \A t \in Tasks : s.state[t] = "sleeping" => s.sleep[t] # 0
            BY Zenon DEF SchedInv, Core, Base, SleepersSleep
        <3>2. \A t \in Tasks : s.sleep[t] \in 0..MaxSleep /\ (s.sleep[t] # 0 => s.sleep[t] - 1 \in 0..MaxSleep)
            BY SMTT(60), <1>1
        <3>. QED BY Zenon, <1>5, <3>1, <3>2
    <2>3. n.next \in [Prios -> Tasks \cup {NoTask}]
        BY <1>1, <1>2, <1>3, <1>5
    <2>. QED BY Zenon, <1>5, <2>1, <2>2, <2>3
             DEF UpdateSleepQuantum, SchedInv, Core, Base, Typed, SchedType
<1>. HIDE DEF n, W
<1>7. \A t \in Tasks : n.state[t] = IF t \in W THEN "ready" ELSE s.state[t]
    BY Zenon, <1>5
<1>8. \A t \in Tasks : Runnable(n, t) <=> Runnable(s, t) \/ t \in W
    BY Zenon, <1>7 DEF Runnable
<1>9. \A p \in Prios : NoSleeper(p) => W \cap Range(s.ring[p]) = {} /\ n.next[p] = s.next[p]
    BY SMTT(60), <1>2, <1>4, <1>5 DEF NoSleeper
<1>10. RingsListLiveTasks(n)
    <2>1. \A t \in Tasks : n.state[t] \in {"absent", "killed"} <=> s.state[t] \in {"absent", "killed"}
        BY Zenon, <1>2, <1>7
    <2>2. n.ring = s.ring
        BY Zenon, <1>5
    <2>3. RingsListLiveTasks(s)
        BY Zenon DEF SchedInv, Core, Base
    <2>. QED BY Zenon, <2>1, <2>2, <2>3 DEF RingsListLiveTasks
<1>11. NextIsRunnable(n)
    <2>1. SUFFICES ASSUME NEW p \in Prios, n.next[p] # NoTask
                   PROVE  n.next[p] \in Range(s.ring[p]) /\ Runnable(n, n.next[p])
        BY Zenon, <1>5 DEF NextIsRunnable
    <2>2. CASE s.next[p] = NoTask
        BY <1>1, <1>2, <1>3, <1>5, <1>8, <2>1, <2>2
    <2>3. CASE s.next[p] # NoTask
        <3>1. n.next[p] = s.next[p]
            BY Zenon, <1>5, <2>3
        <3>2. s.next[p] \in Range(s.ring[p]) /\ Runnable(s, s.next[p])
            BY Zenon, <2>3 DEF SchedInv, Core, Base, NextIsRunnable
        <3>. QED BY Zenon, <1>4, <1>8, <3>1, <3>2
    <2>. QED BY Zenon, <2>2, <2>3
<1>12. OnlyCurRuns(n)
    BY Zenon, <1>5, <1>7 DEF SchedInv, Core, Base, OnlyCurRuns
<1>13. IdleCanRun(n)
    BY Zenon, <1>8, SchedulerAssumption DEF SchedInv, Core, Base, IdleCanRun
<1>14. KilledAreDead(n)
    BY ZenonT(60), <1>2, <1>5, <1>7 DEF SchedInv, Core, Base, KilledAreDead
<1>15. SleepersSleep(n)
    <2>1. SUFFICES ASSUME NEW t \in Tasks, n.state[t] = "sleeping"
                   PROVE  t \in Sleepers /\ n.sleep[t] # 0
        BY Zenon DEF SleepersSleep
    <2>2. s.state[t] = "sleeping" /\ t \notin W
        BY Zenon, <1>7, <2>1
    <2>3. t \in Sleepers /\ s.sleep[t] # 1 /\ s.sleep[t] \in 0..MaxSleep
        BY Zenon, <1>1, <2>2 DEF SchedInv, Core, Base, SleepersSleep, W, WakingUp
    <2>4. n.sleep[t] = s.sleep[t] - 1
        BY Zenon, <1>5, <2>2
    <2>. QED BY <1>1, <2>3, <2>4
<1>16. BatchWasTaken(n)
    BY Zenon, <1>5 DEF SchedInv, Core, Base, BatchWasTaken
<1>17. LevelHasNext(n)
    BY Zenon, <1>4, <1>5, <1>8, <1>9 DEF SchedInv, Core, Base, LevelHasNext
<1>18. NextIsNotCur(n)
    BY <1>4, <1>5, <1>7, <1>9 DEF SchedInv, Core, NextIsNotCur
<1>19. n.state[n.cur] = "running"
    BY SMTT(60), <1>1, <1>2, <1>5, <1>7
<1>20. SchedInv(n)
    BY Zenon, <1>6, <1>10, <1>11, <1>12, <1>13, <1>14, <1>15, <1>16, <1>17, <1>18, <1>19
       DEF SchedInv, Core, Base
<1>. QED BY Zenon, <1>20 DEF n

\* tick_handler keeps the invariant.
LEMMA TickHandlerInv ==
    ASSUME NEW s, SchedInv(s)
    PROVE  SchedInv(TickHandler(s))
<1>. DEFINE u == UpdateSleepQuantum(s)
            n == [u EXCEPT !.quantum[u.cur] = @ + 1]
<1>1. SchedInv(u)
    BY Zenon, UpdateSleepQuantumInv
<1>. HIDE DEF u
<1>2. CASE u.quantum[u.cur] = MaxQuantum
    <2>1. SchedInv(Reschedule(u))
        BY Zenon, <1>1, RescheduleRuns DEF SchedInv
    <2>. QED BY Zenon, <1>2, <2>1 DEF TickHandler, u
<1>3. CASE u.quantum[u.cur] # MaxQuantum
    <2>1. /\ u.quantum \in [Tasks -> 0..MaxQuantum] /\ u.cur \in Tasks /\ MaxQuantum \in Nat
        BY Zenon, <1>1, SchedulerAssumption DEF SchedInv, Core, Base, Typed, SchedType
    <2>2. u.quantum[u.cur] + 1 \in 0..MaxQuantum
        BY <1>3, <2>1
    <2>3. /\ Typed(n) /\ n.state = u.state /\ n.ring = u.ring /\ n.next = u.next /\ n.cur = u.cur
          /\ n.sleep = u.sleep /\ n.killed = u.killed /\ n.batch = u.batch /\ n.cleaner = u.cleaner
        BY Zenon, <1>1, <2>1, <2>2 DEF SchedInv, Core, Base, Typed, SchedType
    <2>. HIDE DEF n
    <2>4. RingsListLiveTasks(n) /\ NextIsRunnable(n)
        <3>1. RingsListLiveTasks(u) /\ NextIsRunnable(u)
            BY Zenon, <1>1 DEF SchedInv, Core, Base
        <3>2. RingsListLiveTasks(n)
            BY Zenon, <2>3, <3>1 DEF RingsListLiveTasks
        <3>3. NextIsRunnable(n)
            BY Zenon, <2>3, <3>1 DEF NextIsRunnable, Runnable
        <3>. QED BY Zenon, <3>2, <3>3
    <2>5. OnlyCurRuns(n) /\ IdleCanRun(n) /\ KilledAreDead(n)
        BY ZenonT(60), <1>1, <2>3 DEF SchedInv, Core, Base, OnlyCurRuns, IdleCanRun, KilledAreDead, Runnable
    <2>6. SleepersSleep(n) /\ BatchWasTaken(n)
        BY Zenon, <1>1, <2>3 DEF SchedInv, Core, Base, SleepersSleep, BatchWasTaken
    <2>7. LevelHasNext(n) /\ NextIsNotCur(n)
        <3>1. LevelHasNext(u) /\ NextIsNotCur(u)
            BY Zenon, <1>1 DEF SchedInv, Core, Base
        <3>2. LevelHasNext(n)
            BY Zenon, <2>3, <3>1 DEF LevelHasNext, Runnable
        <3>3. NextIsNotCur(n)
            BY Zenon, <2>3, <3>1 DEF NextIsNotCur
        <3>. QED BY Zenon, <3>2, <3>3
    <2>8. SchedInv(n)
        BY Zenon, <1>1, <2>3, <2>4, <2>5, <2>6, <2>7 DEF SchedInv, Core, Base
    <2>. QED BY Zenon, <1>3, <2>8 DEF TickHandler, u, n
<1>. QED BY Zenon, <1>2, <1>3

-----------------------------------------------------------------------------
(* Kill and clean-up. *)

\* kill_current_task keeps Core up to its reschedule.
LEMMA KillCurrentCore ==
    ASSUME NEW s, SchedInv(s), s.cur # Idle
    PROVE  Core(KillCurrent(s))
<1>. DEFINE n == UnlinkCurrent(s)
<1>1. Core(n) /\ n.cur = s.cur /\ n.state[s.cur] = "killed"
    BY Zenon, UnlinkCurrentCore
<1>2. TasksClean \in Tasks
    BY Zenon, SchedulerAssumption
<1>3. n.state[n.cur] \notin Suspended
    BY Zenon, <1>1 DEF Suspended
<1>. HIDE DEF n
<1>4. Core(UnblockTask(n, TasksClean))
    BY Zenon, <1>1, <1>2, <1>3, UnblockTaskCore
<1>. QED BY Zenon, <1>4 DEF KillCurrent, n

\* The copy of the killed tasks queue in tasks_clean_task keeps the invariant.
LEMMA CleanTakeInv ==
    ASSUME NEW s, SchedInv(s), s.cleaner = "take",
           NEW n, n = [s EXCEPT !.batch = s.killed, !.killed = {}, !.cleaner = "free"]
    PROVE  SchedInv(n)
<1>1. /\ Typed(n) /\ n.state = s.state /\ n.ring = s.ring /\ n.next = s.next /\ n.cur = s.cur
      /\ n.sleep = s.sleep /\ n.killed = {} /\ n.batch = s.killed /\ n.cleaner = "free"
    BY Zenon DEF SchedInv, Core, Base, Typed, SchedType
<1>2. s.batch = {}
    BY Zenon DEF SchedInv, Core, Base, BatchWasTaken
<1>3. KilledAreDead(n) /\ BatchWasTaken(n)
    BY Zenon, <1>1, <1>2 DEF SchedInv, Core, Base, KilledAreDead, BatchWasTaken
<1>. QED
    BY <1>1, <1>3 DEF SchedInv, Core, Base, RingsListLiveTasks, NextIsRunnable, OnlyCurRuns,
        IdleCanRun, SleepersSleep, LevelHasNext, NextIsNotCur, Runnable

\* Freeing the copied tasks in tasks_clean_task keeps the invariant.
LEMMA FreeBatchInv ==
    ASSUME NEW s, SchedInv(s)
    PROVE  SchedInv(FreeBatch(s)) /\ FreeBatch(s).cur = s.cur
<1>. DEFINE n == FreeBatch(s)
<1>1. /\ s.cur \in Tasks /\ s.state \in [Tasks -> ThreadStates] /\ s.state[s.cur] = "running"
    BY Zenon DEF SchedInv, Core, Base, Typed, SchedType
<1>2. \A t \in Tasks : t \in s.batch => s.state[t] = "killed"
    BY Zenon DEF SchedInv, Core, Base, KilledAreDead
<1>3. /\ n.state = [t \in Tasks |-> IF t \in s.batch THEN "absent" ELSE s.state[t]]
      /\ n.ring = s.ring /\ n.next = s.next /\ n.cur = s.cur
      /\ n.sleep = s.sleep /\ n.killed = s.killed /\ n.batch = {} /\ n.cleaner = "take"
      /\ Typed(n)
    BY Zenon, <1>1 DEF FreeBatch, SchedInv, Core, Base, Typed, SchedType, ThreadStates
<1>. HIDE DEF n
<1>4. \A t \in Tasks : /\ s.state[t] # "killed" => n.state[t] = s.state[t]
                       /\ s.state[t] = "killed" => n.state[t] \in {"absent", "killed"}
    BY Zenon, <1>2, <1>3
<1>5. \A t \in Tasks : Runnable(n, t) <=> Runnable(s, t)
    BY Zenon, <1>4 DEF Runnable
<1>6. \A q \in Prios : \A u \in Range(s.ring[q]) : u \in Tasks
    BY Zenon, NextInOwnLevel DEF SchedInv, Core
<1>7. RingsListLiveTasks(n)
    <2>1. \A t \in Tasks : n.state[t] \in {"absent", "killed"} <=> s.state[t] \in {"absent", "killed"}
        BY Zenon, <1>4
    <2>. QED BY SMTT(60), <1>3, <2>1 DEF SchedInv, Core, Base, RingsListLiveTasks
<1>8. NextIsRunnable(n) /\ LevelHasNext(n)
    BY Zenon, <1>3, <1>5, <1>6 DEF SchedInv, Core, Base, NextIsRunnable, LevelHasNext
<1>9. OnlyCurRuns(n) /\ SleepersSleep(n)
    BY SMTT(60), <1>3, <1>4 DEF SchedInv, Core, Base, OnlyCurRuns, SleepersSleep
<1>10. IdleCanRun(n)
    BY Zenon, <1>5, SchedulerAssumption DEF SchedInv, Core, Base, IdleCanRun
<1>11. KilledAreDead(n) /\ BatchWasTaken(n)
    BY SMTT(60), <1>3 DEF SchedInv, Core, Base, KilledAreDead, BatchWasTaken
<1>12. NextIsNotCur(n)
    <2>1. \A t \in Tasks : n.state[t] = "ready" => s.state[t] = "ready"
        BY Zenon, <1>4
    <2>. QED BY Zenon, <1>3, <1>6, <2>1 DEF SchedInv, Core, NextIsNotCur
<1>13. SchedInv(n) /\ n.cur = s.cur
    BY Zenon, <1>1, <1>3, <1>4, <1>7, <1>8, <1>9, <1>10, <1>11, <1>12 DEF SchedInv, Core, Base
<1>. QED BY Zenon, <1>13 DEF n

-----------------------------------------------------------------------------
(* The theorems. *)

\* The scheduler's constructor establishes the inductive invariant.
LEMMA InitEstablishesIInv == Init => IInv
<1>. SUFFICES ASSUME Init PROVE SchedInv(SchedInit)
    BY Zenon DEF Init, IInv
<1>. DEFINE s == SchedInit
            M == MaxPriorityLevel
            r == <<Main, TasksClean, InitTask>>
<1>1. /\ {Idle, Main, TasksClean, InitTask} \subseteq Tasks /\ NoTask \notin Tasks
      /\ M \in Prios /\ MaxQuantum \in Nat /\ MaxSleep \in Nat
      /\ \A t \in {Idle, Main, TasksClean, InitTask} : Priority[t] = M
    BY Zenon, SchedulerAssumption DEF Prios
<1>2. /\ Idle # Main /\ Idle # TasksClean /\ Idle # InitTask
      /\ Main # TasksClean /\ Main # InitTask /\ TasksClean # InitTask
    <2>. DEFINE z == <<Idle, Main, TasksClean, InitTask>>
    <2>1. \A i, j \in 1..4 : z[i] = z[j] => i = j
        BY SchedulerAssumption DEF IsInjective
    <2>. QED BY <2>1
<1>3. /\ \A t \in Tasks : s.state[t] = CASE t = Main -> "running"
                                         [] t \in {Idle, InitTask} -> "ready"
                                         [] t = TasksClean -> "blocked"
                                         [] OTHER -> "absent"
      /\ s.ring = [p \in Prios |-> IF p = M THEN r ELSE <<>>]
      /\ s.next = [p \in Prios |-> IF p = M THEN InitTask ELSE NoTask]
      /\ s.cur = Main /\ s.killed = {} /\ s.batch = {} /\ s.cleaner = "take"
    BY Zenon DEF SchedInit
<1>4. /\ s.state[Main] = "running" /\ s.state[Idle] = "ready" /\ s.state[InitTask] = "ready"
      /\ s.state[TasksClean] = "blocked"
      /\ \A t \in Tasks : t \notin {Main, Idle, InitTask, TasksClean} => s.state[t] = "absent"
    BY Zenon, <1>1, <1>2, <1>3
<1>5. Typed(s)
    <2>1. s.state \in [Tasks -> ThreadStates]
        BY Zenon DEF SchedInit, ThreadStates, Suspended
    <2>2. s.ring \in [Prios -> Seq(Tasks)]
        BY <1>1, <1>3
    <2>3. s.next \in [Prios -> Tasks \cup {NoTask}]
        BY <1>1, <1>3
    <2>4. s.quantum \in [Tasks -> 0..MaxQuantum] /\ s.sleep \in [Tasks -> 0..MaxSleep]
        BY <1>1 DEF SchedInit
    <2>5. s.cur \in Tasks /\ s.killed \in SUBSET Tasks /\ s.batch \in SUBSET Tasks
          /\ s.cleaner \in {"take", "free"}
        BY Zenon, <1>1, <1>3
    <2>6. s = [state |-> s.state, ring |-> s.ring, next |-> s.next, cur |-> s.cur,
               quantum |-> s.quantum, sleep |-> s.sleep, killed |-> s.killed,
               batch |-> s.batch, cleaner |-> s.cleaner]
        BY Zenon DEF SchedInit
    <2>. HIDE DEF s
    <2>. QED BY Zenon, <2>1, <2>2, <2>3, <2>4, <2>5, <2>6 DEF Typed, SchedType
<1>6. Range(r) = {Main, TasksClean, InitTask} /\ IsInjective(r)
    <2>1. DOMAIN r = {1, 2, 3} /\ r[1] = Main /\ r[2] = TasksClean /\ r[3] = InitTask
        OBVIOUS
    <2>. HIDE DEF r
    <2>. QED BY Zenon, <1>2, <2>1 DEF Range, IsInjective
<1>7. Range(<<>>) = {} /\ IsInjective(<<>>)
    BY DEF Range, IsInjective
<1>. HIDE DEF s, r, M
<1>8. \A p \in Prios : /\ p = M => s.ring[p] = r /\ s.next[p] = InitTask
                       /\ p # M => s.ring[p] = <<>> /\ s.next[p] = NoTask
    BY SMTT(60), <1>3
<1>9. RingsListLiveTasks(s)
    <2>1. \A p \in Prios : IsInjective(s.ring[p])
        BY Zenon, <1>6, <1>7, <1>8
    <2>2. \A t \in Tasks \ {Idle} : s.state[t] \notin {"absent", "killed"}
                                        <=> t \in {Main, TasksClean, InitTask}
        BY Zenon, <1>4
    <2>3. \A p \in Prios : Range(s.ring[p]) = IF p = M THEN {Main, TasksClean, InitTask} ELSE {}
        BY Zenon, <1>6, <1>7, <1>8
    <2>4. {Main, TasksClean, InitTask} \subseteq Tasks \ {Idle}
        BY Zenon, <1>1, <1>2
    <2>. QED BY SMTT(60), <1>1, <2>1, <2>2, <2>3, <2>4 DEF RingsListLiveTasks
<1>10. NextIsRunnable(s)
    BY Zenon, <1>4, <1>6, <1>8 DEF NextIsRunnable, Runnable
<1>11. OnlyCurRuns(s) /\ IdleCanRun(s) /\ KilledAreDead(s) /\ SleepersSleep(s) /\ BatchWasTaken(s)
    <2>1. \A t \in Tasks : s.state[t] \in {"running", "ready", "blocked", "absent"}
                           /\ (s.state[t] = "running" => t = Main)
        BY Zenon, <1>4
    <2>. QED BY Zenon, <1>1, <1>3, <1>4, <2>1
             DEF OnlyCurRuns, IdleCanRun, KilledAreDead, SleepersSleep, BatchWasTaken, Runnable
<1>12. LevelHasNext(s) /\ NextIsNotCur(s)
    BY <1>1, <1>2, <1>3, <1>7, <1>8 DEF LevelHasNext, NextIsNotCur
<1>. QED BY Zenon, <1>3, <1>4, <1>5, <1>9, <1>10, <1>11, <1>12 DEF SchedInv, Core, Base, s

\* Every action of the scheduler keeps the inductive invariant.
LEMMA NextKeepsIInv == IInv /\ [Next]_sched => IInv'
<1>. SUFFICES ASSUME SchedInv(sched), [Next]_sched PROVE SchedInv(sched')
    BY Zenon DEF IInv
<1>1. CASE Tick
    BY Zenon, <1>1, TickHandlerInv DEF Tick
<1>2. CASE IdleTask
    BY Zenon, <1>2, RescheduleRuns DEF IdleTask, SchedInv
<1>3. ASSUME NEW t \in Tasks, NEW st \in {"ready", "blocked"}, CreateTask(t, st)
      PROVE  SchedInv(sched')
    BY Zenon, <1>3, QueueTaskInv DEF CreateTask
<1>4. ASSUME NEW k \in 1..MaxSleep, Sleep(k)
      PROVE  SchedInv(sched')
    BY Zenon, <1>4, SleepCurrentCore, RescheduleRuns DEF Sleep
<1>5. CASE WaitForChild
    <2>1. sched.cur # Idle
        BY Zenon, <1>5, SchedulerAssumption DEF WaitForChild
    <2>. QED BY Zenon, <1>5, <2>1, WaitCurrentCore, RescheduleRuns DEF WaitForChild
<1>6. CASE BlockCurrentTask
    BY Zenon, <1>6, BlockTaskCore, RescheduleRuns DEF BlockCurrentTask
<1>7. ASSUME NEW t \in Tasks, Unblock(t)
      PROVE  SchedInv(sched')
    <2>1. sched.state[sched.cur] \notin Suspended
        BY Zenon DEF SchedInv, Suspended
    <2>. QED BY Zenon, <1>7, <2>1, UnblockTaskCore DEF Unblock, SchedInv
<1>8. CASE KillCurrentTask
    BY Zenon, <1>8, KillCurrentCore, RescheduleRuns DEF KillCurrentTask
<1>9. CASE CleanTake
    BY Zenon, <1>9, CleanTakeInv DEF CleanTake
<1>10. CASE CleanFree
    <2>. DEFINE f == FreeBatch(sched)
    <2>1. SchedInv(f) /\ f.cur = TasksClean
        BY Zenon, <1>10, FreeBatchInv DEF CleanFree
    <2>2. TasksClean # Idle
        <3>. DEFINE z == <<Idle, Main, TasksClean, InitTask>>
        <3>1. z[1] = z[3] => 1 = 3
            BY SchedulerAssumption DEF IsInjective
        <3>. QED BY <3>1
    <2>. HIDE DEF f
    <2>3. SchedInv(Reschedule(BlockTask(f, TasksClean)))
        BY Zenon, <2>1, <2>2, BlockTaskCore, RescheduleRuns
    <2>. QED BY Zenon, <1>10, <2>3 DEF CleanFree, f
<1>11. CASE UNCHANGED sched
    BY Zenon, <1>11
<1>. QED BY Zenon, <1>1, <1>2, <1>3, <1>4, <1>5, <1>6, <1>7, <1>8, <1>9, <1>10, <1>11 DEF Next

(***************************************************************************)
(* Every call of the scheduler keeps the inductive invariant.              *)
(***************************************************************************)
THEOREM InvariantHolds == Spec => []IInv
BY InitEstablishesIInv, NextKeepsIInv, PTL DEF Spec

(***************************************************************************)
(* Every scheduler call, the timer's included, keeps the types of the      *)
(* scheduler's data; no quantum counter passes _max_quantum.               *)
(***************************************************************************)
THEOREM TypeCorrect == Spec => []TypeOK
<1>1. IInv => TypeOK
    BY Zenon DEF IInv, SchedInv, Core, Base, Typed, TypeOK
<1>. QED BY <1>1, InvariantHolds, PTL

(***************************************************************************)
(* queue_task and kill_current_task keep each ring the exact list of the   *)
(* live tasks of its level.                                                *)
(***************************************************************************)
THEOREM RingsCorrect == Spec => []RingsOK
<1>1. IInv => RingsOK
    BY Zenon DEF IInv, SchedInv, Core, Base, RingsOK
<1>. QED BY <1>1, InvariantHolds, PTL

(***************************************************************************)
(* reschedule never dispatches a blocked, sleeping or freed task.          *)
(***************************************************************************)
THEOREM DispatchCorrect == Spec => []NextTaskRunnable
<1>1. IInv => NextTaskRunnable
    BY Zenon DEF IInv, SchedInv, Core, Base, NextTaskRunnable
<1>. QED BY <1>1, InvariantHolds, PTL

(***************************************************************************)
(* Exactly the current task is in the state running.                       *)
(***************************************************************************)
THEOREM CurrentCorrect == Spec => []CurrentIsRunning
<1>1. IInv => CurrentIsRunning
    BY Zenon DEF IInv, SchedInv, Core, Base, OnlyCurRuns, CurrentIsRunning, RunningIsCur
<1>. QED BY <1>1, InvariantHolds, PTL

(***************************************************************************)
(* tasks_clean_task frees exactly the tasks that were killed, once each.   *)
(***************************************************************************)
THEOREM CleanerCorrect == Spec => []CleanerOwnsTheDead
<1>1. IInv => CleanerOwnsTheDead
    BY Zenon DEF IInv, SchedInv, Core, Base, CleanerOwnsTheDead
<1>. QED BY <1>1, InvariantHolds, PTL

(***************************************************************************)
(* At a level whose tasks never sleep no ready task is ever forgotten:     *)
(* next_task points at a waiting task as long as there is one.             *)
(***************************************************************************)
THEOREM NothingForgotten == Spec => []NoReadyTaskForgotten
<1>1. IInv => NoReadyTaskForgotten
    BY Zenon DEF IInv, SchedInv, Core, Base, LevelHasNext, NextIsNotCur, Runnable,
           NoReadyTaskForgotten, ReadyTasksReachable
<1>. QED BY <1>1, InvariantHolds, PTL

==============================================================================
