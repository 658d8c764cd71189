-------------------------------- MODULE Ata ---------------------------------
(***************************************************************************)
(* access_drive_sectors of the ATA driver, against the drive, its IRQ, the *)
(* thread that passes IRQs on, and the wait of the driver for them.  An    *)
(* IRQ wakes who waits when it is passed on, and is not kept for others.   *)
(*                                                                         *)
(* IRQ <<a, k>> is for sector k of access a, <<a, 0>> for its cache flush. *)
(***************************************************************************)
EXTENDS Integers, Sequences

CONSTANTS
    AtaTasks,       \* tasks that access the drive
    NoTask,         \* no holder of the driver's mutex
    AtaScripts      \* bounds: [calls, signals, faults, slow] of a behaviour

Access == [type : {"read", "write"}, count : Nat, interruptible : BOOLEAN]

ASSUME AtaAssumption ==
    /\ NoTask \notin AtaTasks
    /\ AtaScripts \subseteq [calls : [AtaTasks -> Seq(Access)], signals : Nat, faults : Nat, slow : Nat]

VARIABLES
    dev,        \* the drive: its command, status bits, sectors moved, and the access it works for
    holder,     \* _mutex of the driver
    access,     \* the call of each task
    irqs,       \* [pending, batch, cv]: counted, taken by irq_notify_thread; who waits
    still,      \* [calls, signals, faults, slow]: what is still to come
    met         \* history: [accesses, events, faulted], faulted those with an error at a sector

ataVars == <<dev, holder, access, irqs, still, met>>

IdleDrive == [cmd |-> "none", bsy |-> FALSE, drq |-> FALSE, err |-> FALSE, count |-> 0, moved |-> 0, no |-> 0]

NoAccess == [pc |-> "idle", type |-> "read", count |-> 0, interruptible |-> FALSE, sectors |-> 0,
             intr |-> FALSE, no |-> 0, got |-> <<>>, ret |-> "none"]

AtaInit ==
    /\ still \in AtaScripts
    /\ dev = IdleDrive
    /\ holder = NoTask
    /\ access = [t \in AtaTasks |-> NoAccess]
    /\ irqs = [pending |-> <<>>, batch |-> <<>>, cv |-> <<>>]
    /\ met = [accesses |-> 0, events |-> {}, faulted |-> {}]

AccessAt(t, pc) == access[t].pc = pc
AccessGoto(t, pc) == access' = [access EXCEPT ![t].pc = pc]
Happens(E) == met' = [met EXCEPT !.events = @ \cup E]

\* The call returns, and gives up the mutex.
Return(t, ret) ==
    /\ access' = [access EXCEPT ![t].pc = "idle", ![t].ret = ret]
    /\ holder' = NoTask

-----------------------------------------------------------------------------
(* The drive, and the interrupt *)

\* irq_interrupt_handler
RaiseIrq(k) == irqs' = [irqs EXCEPT !.pending = Append(@, <<dev.no, k>>)]

(***************************************************************************)
(* What a busy drive does: it has a sector for the host, wants the first   *)
(* one, has written one, or has written its cache.                         *)
(***************************************************************************)
DriveWorks ==
    /\ dev.bsy
    /\ \/ /\ dev.cmd = "read"
          /\ dev' = [dev EXCEPT !.bsy = FALSE, !.drq = TRUE]
          /\ RaiseIrq(dev.moved + 1)
       \/ /\ dev.cmd = "write" /\ dev.moved = 0
          /\ dev' = [dev EXCEPT !.bsy = FALSE, !.drq = TRUE]
          /\ UNCHANGED irqs
       \/ /\ dev.cmd = "write" /\ dev.moved > 0
          /\ dev' = [dev EXCEPT !.bsy = FALSE, !.drq = dev.moved < dev.count]
          /\ RaiseIrq(dev.moved)
       \/ /\ dev.cmd = "flush"
          /\ dev' = [dev EXCEPT !.bsy = FALSE]
          /\ RaiseIrq(0)
    /\ UNCHANGED <<holder, access, still, met>>

(***************************************************************************)
(* The drive fails, at a sector or when it writes its cache: the command   *)
(* ends with an error.  The history notes the accesses with an error at a  *)
(* sector.                                                                 *)
(***************************************************************************)
DriveFails ==
    /\ dev.bsy /\ still.faults > 0
    /\ still' = [still EXCEPT !.faults = @ - 1]
    /\ dev' = [dev EXCEPT !.bsy = FALSE, !.err = TRUE]
    /\ RaiseIrq(IF dev.cmd = "read" THEN dev.moved + 1 ELSE dev.moved)
    /\ met' = IF dev.cmd = "flush" THEN met ELSE [met EXCEPT !.faulted = @ \cup {dev.no}]
    /\ UNCHANGED <<holder, access>>

\* A command; one for a busy drive is not taken.
Command(cmd, count, no) ==
    IF dev.bsy THEN dev
    ELSE [cmd |-> cmd, bsy |-> TRUE, drq |-> FALSE, err |-> FALSE, count |-> count, moved |-> 0, no |-> no]

\* The host moves a sector through the data register.
MoveSector ==
    IF ~dev.drq THEN dev
    ELSE [dev EXCEPT !.drq = FALSE, !.moved = @ + 1, !.bsy = dev.cmd = "write" \/ dev.moved + 1 < dev.count]

-----------------------------------------------------------------------------
(* irq_notify_thread, and the wait *)

TakeIrqs ==
    /\ irqs.batch = <<>> /\ irqs.pending # <<>>
    /\ irqs' = [irqs EXCEPT !.batch = @ \o irqs.pending, !.pending = <<>>]
    /\ UNCHANGED <<dev, holder, access, still, met>>

\* The IRQ that task t waits for, or will
Awaited(t) == <<access[t].no, access[t].sectors + 1>>

Notified(left) ==
    LET irq == Head(irqs.batch)
    IN  IF irqs.cv = <<>>
        THEN /\ irqs' = [left EXCEPT !.batch = Tail(@)]
             /\ Happens(IF holder # NoTask /\ access[holder].pc \in {"poll", "wait"} /\ Awaited(holder) = irq
                        THEN {<<"early", access[holder].no>>} ELSE {})
             /\ UNCHANGED access
        ELSE LET t == Head(irqs.cv)
             IN  /\ irqs' = [left EXCEPT !.batch = Tail(@), !.cv = Tail(@)]
                 /\ AccessGoto(t, "woken")
                 /\ Happens(IF Awaited(t) # irq THEN {<<"stale", access[t].no>>} ELSE {})

\* Mutant of NotifyWaiter: the counts are cleared after the notifications.
NotifyThenClear ==
    /\ irqs.batch # <<>>
    /\ Notified(IF Len(irqs.batch) = 1 THEN [irqs EXCEPT !.pending = <<>>] ELSE irqs)
    /\ UNCHANGED <<dev, holder, still>>

(***************************************************************************)
(* notify_one for an IRQ of the batch.  The history notes one that is      *)
(* passed on before the driver waits for it, and a wait that the IRQ of an *)
(* earlier sector or command ends.                                         *)
(***************************************************************************)
NotifyWaiter ==
    /\ irqs.batch # <<>>
    /\ Notified(irqs)
    /\ UNCHANGED <<dev, holder, still>>

\* wait_for_irq: into the queue of the condition variable
WaitForIrq(t) ==
    /\ AccessAt(t, "wait")
    /\ AccessGoto(t, "waiting")
    /\ irqs' = [irqs EXCEPT !.cv = Append(@, t)]
    /\ UNCHANGED <<dev, holder, still, met>>

\* A signal: it ends an interruptible wait.
SignalAccess(t) ==
    /\ still.signals > 0 /\ ~AccessAt(t, "idle") /\ ~access[t].intr
    /\ still' = [still EXCEPT !.signals = @ - 1]
    /\ access' = [access EXCEPT ![t].intr = TRUE,
                                ![t].pc = IF @ = "waiting" /\ access[t].interruptible THEN "woken" ELSE @]
    /\ UNCHANGED <<dev, holder, irqs, met>>

-----------------------------------------------------------------------------
(* access_drive_sectors *)

\* A poll of the status register gives up on a drive that is slow.
GivesUp == dev.bsy /\ still.slow > 0
Slow ==
    /\ still' = [still EXCEPT !.slow = @ - 1]
    /\ Happens({<<"slow", dev.no>>})

\* The call, with the mutex
AccessDriveSectors(t) ==
    /\ AccessAt(t, "idle") /\ still.calls[t] # <<>> /\ holder = NoTask
    /\ LET c == Head(still.calls[t])
       IN  access' = [access EXCEPT ![t] = [NoAccess EXCEPT !.pc = "select", !.type = c.type, !.count = c.count,
                                                !.interruptible = c.interruptible, !.no = met.accesses + 1]]
    /\ still' = [still EXCEPT !.calls[t] = Tail(@)]
    /\ met' = [met EXCEPT !.accesses = @ + 1]
    /\ holder' = t
    /\ UNCHANGED <<dev, irqs>>

\* The registers of the command, then the command
SendCommand(t) ==
    /\ dev' = Command(access[t].type, access[t].count, access[t].no)
    /\ AccessGoto(t, "poll")

\* select_drive waits for BSY and DRQ to clear; then the command is sent.
SelectDrive(t) ==
    /\ AccessAt(t, "select")
    /\ \/ /\ ~dev.bsy /\ ~dev.drq
          /\ SendCommand(t)
          /\ UNCHANGED <<holder, still, met>>
       \/ /\ ~dev.bsy /\ dev.drq
          /\ Return(t, "failed")
          /\ UNCHANGED <<dev, still, met>>
       \/ GivesUp /\ Slow /\ Return(t, "failed") /\ UNCHANGED dev
    /\ UNCHANGED irqs

\* The drive has its sector, or the sector before went well; a write hands over the next.
SectorReady(t) ==
    IF dev.err
    THEN Return(t, "failed") /\ UNCHANGED dev
    ELSE /\ dev' = IF access[t].type = "write" THEN MoveSector ELSE dev
         /\ AccessGoto(t, "wait")
         /\ UNCHANGED holder

\* Mutant of PollStatus: the status is read once.
PollOnce(t) ==
    /\ AccessAt(t, "poll")
    /\ SectorReady(t)
    /\ UNCHANGED <<irqs, still, met>>

\* The top of the loop: wait for BSY to clear
PollStatus(t) ==
    /\ AccessAt(t, "poll")
    /\ \/ ~dev.bsy /\ SectorReady(t) /\ UNCHANGED <<still, met>>
       \/ GivesUp /\ Slow /\ Return(t, "failed") /\ UNCHANGED dev
    /\ UNCHANGED irqs

\* Where the loop goes after a sector
AfterSector(t) ==
    LET stop == access[t].interruptible /\ access[t].intr
    IN  IF ~stop /\ access[t].sectors + 1 < access[t].count THEN "poll"
        ELSE IF access[t].type = "write" THEN "flush" ELSE "end"

\* The sector is counted; a read copies it.
TakeSector(t) ==
    /\ dev' = IF access[t].type = "read" THEN MoveSector ELSE dev
    /\ access' = [access EXCEPT ![t].sectors = @ + 1, ![t].pc = AfterSector(t),
                                ![t].got = Append(@, IF dev.drq THEN dev.moved + 1 ELSE 0)]
    /\ UNCHANGED holder

\* task_wait_queue::remove_task: the task leaves the queue, if it is still there.
LeaveQueue(q, t) ==
    LET places == {k \in 1..Len(q) : q[k] = t}
        first == CHOOSE k \in places : \A j \in places : k <= j
    IN  IF places = {} THEN q
        ELSE [j \in 1..(Len(q) - 1) |-> q[IF j < first THEN j ELSE j + 1]]

(***************************************************************************)
(* The wait has ended, and its task has left the queue: the error bit, the *)
(* data of a read, the count, and whether a signal stops the loop.         *)
(***************************************************************************)
ReadStatus(t) ==
    /\ AccessAt(t, "woken")
    /\ irqs' = [irqs EXCEPT !.cv = LeaveQueue(@, t)]
    /\ IF dev.err THEN Return(t, "failed") /\ UNCHANGED dev ELSE TakeSector(t)
    /\ UNCHANGED <<still, met>>

\* The cache flush of a write; its IRQ is not waited for.
FlushCache(t) ==
    /\ AccessAt(t, "flush")
    /\ dev' = Command("flush", 0, access[t].no)
    /\ AccessGoto(t, "flushing")
    /\ UNCHANGED <<holder, irqs, still, met>>

\* The flush has ended, well or not, or takes too long: its status is not looked at.
Flushed(t) ==
    \/ AccessAt(t, "end") /\ UNCHANGED <<still, met>>
    \/ AccessAt(t, "flushing") /\ ~dev.bsy /\ UNCHANGED <<still, met>>
    \/ AccessAt(t, "flushing") /\ GivesUp /\ Slow

\* A drive that has not moved every sector is reset.
EndAccess(t) ==
    /\ Flushed(t)
    /\ dev' = IF access[t].sectors # access[t].count THEN IdleDrive ELSE dev
    /\ Return(t, IF access[t].sectors = access[t].count THEN "all" ELSE "part")
    /\ UNCHANGED irqs

AccessStep(t) ==
    \/ AccessDriveSectors(t) \/ SelectDrive(t) \/ PollStatus(t) \/ WaitForIrq(t)
    \/ ReadStatus(t) \/ FlushCache(t) \/ EndAccess(t)

NotifyThread == TakeIrqs \/ NotifyWaiter

AtaNext ==
    \/ DriveWorks \/ DriveFails \/ NotifyThread
    \/ \E t \in AtaTasks : AccessStep(t) \/ SignalAccess(t)

(***************************************************************************)
(* The round robin runs the tasks and the notify thread; a drive ends what *)
(* it does.  Signals, faults and timeouts need not come.                   *)
(***************************************************************************)
AtaFairness ==
    /\ \A t \in AtaTasks : WF_ataVars(AccessStep(t))
    /\ WF_ataVars(NotifyThread)
    /\ WF_ataVars(DriveWorks)

AtaSpec == AtaInit /\ [][AtaNext]_ataVars /\ AtaFairness

-----------------------------------------------------------------------------
(* Properties *)

\* The states of the drive, the driver and the notify thread.
AtaTypeOK ==
    /\ dev \in [cmd : {"none", "read", "write", "flush"}, bsy : BOOLEAN, drq : BOOLEAN, err : BOOLEAN,
                count : Nat, moved : Nat, no : Nat]
    /\ ~(dev.bsy /\ dev.drq)
    /\ \A t \in AtaTasks : holder = t <=> access[t].pc # "idle"
    /\ \A i \in 1..Len(irqs.cv) : access[irqs.cv[i]].pc \in {"waiting", "woken"}
    /\ Len(irqs.cv) <= 1

(***************************************************************************)
(* The k-th sector that a read of access_drive_sectors copies is the k-th  *)
(* sector of the drive, whatever wakes the wait before it.                 *)
(***************************************************************************)
SectorsComeInOrder ==
    \A t \in AtaTasks : access[t].type = "read" => \A k \in 1..Len(access[t].got) : access[t].got[k] = k

(***************************************************************************)
(* An access that reports all its sectors met no error at a sector, if no  *)
(* signal and no IRQ of an earlier command or sector ended a wait of it.   *)
(* An error of the cache flush after a write is not reported in any case:  *)
(* access_drive_sectors drops the status that it waits for there.          *)
(***************************************************************************)
FaultsAreReported ==
    \A t \in AtaTasks :
        access[t].ret = "all" /\ access[t].no \in met.faulted => access[t].intr \/ <<"stale", access[t].no>> \in met.events

(***************************************************************************)
(* An access fails after an error at a sector of its own, or a drive that  *)
(* was too slow: an access that stopped early, or whose cache was not      *)
(* written, has left the drive ready.                                      *)
(***************************************************************************)
FailuresExplained ==
    \A t \in AtaTasks :
        access[t].ret = "failed" => \/ access[t].no \in met.faulted
                                    \/ \E e \in met.events : e[1] = "slow"

(***************************************************************************)
(* A call of access_drive_sectors ends, if the notify thread did not pass  *)
(* on the IRQ that it waits for before it was in the queue: wait_for_irq   *)
(* tests nothing, and the driver then keeps its mutex.                     *)
(***************************************************************************)
AccessesEnd ==
    \A t \in AtaTasks : access[t].pc # "idle" ~> access[t].pc = "idle" \/ <<"early", access[t].no>> \in met.events

(***************************************************************************)
(* What an access returns is what happened to its sectors: they come in    *)
(* order, an error at one is reported, and a failure has a reason.         *)
(***************************************************************************)
AccessIsHonest ==
    /\ AtaTypeOK
    /\ SectorsComeInOrder
    /\ FaultsAreReported
    /\ FailuresExplained
=============================================================================
