------------------------------ MODULE AtaProofs ------------------------------
(***************************************************************************)
(* That the results of accesses are honest, for any tasks, accesses,       *)
(* signals, faults and delays: the inductive invariant of Ata, and that    *)
(* every step of the drive, of irq_notify_thread and of the driver keeps   *)
(* it.                                                                     *)
(***************************************************************************)
EXTENDS Ata, TLAPS

Pcs == {"idle", "select", "poll", "wait", "waiting", "woken", "flush", "flushing", "end"}
Types == {"read", "write"}
Rets == {"none", "failed", "all", "part"}
Irq == Nat \X Nat

AccessState ==
    [pc : Pcs, type : Types, count : Nat, interruptible : BOOLEAN, sectors : Nat,
     intr : BOOLEAN, no : Nat, got : Seq(Nat), ret : Rets]

DriveState ==
    [cmd : {"none", "read", "write", "flush"}, bsy : BOOLEAN, drq : BOOLEAN, err : BOOLEAN,
     count : Nat, moved : Nat, no : Nat]

IrqState == [pending : Seq(Irq), batch : Seq(Irq), cv : Seq(AtaTasks)]
StillState == [calls : [AtaTasks -> Seq(Access)], signals : Nat, faults : Nat, slow : Nat]
MetState == [accesses : Nat, events : SUBSET ({"early", "stale", "slow"} \X Nat), faulted : SUBSET Nat]

Typed ==
    /\ dev \in DriveState
    /\ access \in [AtaTasks -> AccessState]
    /\ irqs \in IrqState
    /\ still \in StillState
    /\ met \in MetState

(* The mutex of the driver: a task that is not idle holds it. *)
Holds == \A t \in AtaTasks : holder = t <=> access[t].pc # "idle"

(* The queue of the condition variable: who waits for an IRQ, or was woken by a signal. *)
Queue ==
    /\ \A t \in AtaTasks : access[t].pc = "waiting" => irqs.cv = <<t>>
    /\ irqs.cv = <<>> \/ \E t \in AtaTasks : irqs.cv = <<t>> /\ access[t].pc \in {"waiting", "woken"}

(* The IRQs that are not passed on yet. *)
Irqs == {irqs.pending[i] : i \in 1..Len(irqs.pending)} \cup {irqs.batch[i] : i \in 1..Len(irqs.batch)}

(***************************************************************************)
(* The accesses are numbered: who holds the mutex has the last number, and *)
(* before its command nothing else has it.                                 *)
(***************************************************************************)
Numbered ==
    /\ dev.no <= met.accesses
    /\ \A n \in met.faulted : n <= met.accesses
    /\ \A q \in Irqs : q[1] <= met.accesses
    /\ \A t \in AtaTasks :
          /\ access[t].no <= met.accesses
          /\ access[t].pc # "idle" => /\ access[t].no = met.accesses /\ access[t].ret = "none"
                                      /\ \A u \in AtaTasks \ {t} : access[u].no < met.accesses
          /\ access[t].pc = "select" => /\ dev.no < met.accesses
                                        /\ \A n \in met.faulted : n < met.accesses
                                        /\ \A q \in Irqs : q[1] < met.accesses

(* The status bits of the drive. *)
Status ==
    /\ dev.bsy => ~dev.drq /\ ~dev.err /\ dev.cmd # "none"
    /\ dev.drq => dev.cmd \in Types /\ ~dev.err
    /\ dev.drq /\ dev.cmd = "write" => dev.moved = 0 \/ dev.moved < dev.count
    /\ dev.err /\ dev.cmd # "flush" => dev.no \in met.faulted

(* A signal or the IRQ of another sector ended a wait of task t's access. *)
Excused(t) == access[t].intr \/ <<"stale", access[t].no>> \in met.events

Slowed == \E e \in met.events : e[1] = "slow"

(* The drive works for the access of task t. *)
Works(t) ==
    /\ dev.no = access[t].no /\ dev.cmd = access[t].type /\ dev.count = access[t].count
    /\ access[t].no \in met.faulted => dev.err

AtPoll(t) ==
    /\ Works(t) /\ dev.moved = access[t].sectors
    /\ access[t].sectors = 0 \/ access[t].sectors < access[t].count
    /\ dev.bsy \/ dev.drq \/ dev.err

(***************************************************************************)
(* In the wait the drive has the sector of a read, or the host has handed  *)
(* over the one of a write.  Only the IRQ of that sector ends the wait, or *)
(* the access is excused.                                                  *)
(***************************************************************************)
InWait(t) ==
    /\ Works(t)
    /\ access[t].type = "read" => dev.drq /\ dev.moved = access[t].sectors
    /\ access[t].type = "write" => /\ dev.moved = access[t].sectors + 1
                                   /\ dev.moved < dev.count => dev.bsy \/ dev.drq \/ dev.err
    /\ access[t].pc = "woken" => Excused(t) \/ ~dev.bsy

AtFlush(t) ==
    /\ Works(t) /\ access[t].type = "write" /\ dev.moved = access[t].sectors /\ dev.moved > 0
    /\ Excused(t) \/ (~dev.bsy /\ ~dev.err)

AtFlushing(t) ==
    /\ dev.no = access[t].no /\ access[t].type = "write" /\ access[t].sectors > 0
    /\ \/ dev.cmd = "flush"
       \/ dev.cmd = "write" /\ dev.moved = access[t].sectors /\ dev.count = access[t].count /\ Excused(t)
    /\ access[t].no \in met.faulted => Excused(t)

AtEnd(t) ==
    /\ Works(t) /\ access[t].type = "read" /\ dev.moved = access[t].sectors
    /\ access[t].sectors = access[t].count => ~dev.bsy /\ ~dev.err /\ ~dev.drq

Served(t) ==
    /\ access[t].pc = "select" => access[t].sectors = 0
    /\ access[t].pc = "poll" => AtPoll(t)
    /\ access[t].pc \in {"wait", "waiting", "woken"} => InWait(t)
    /\ access[t].pc = "flush" => AtFlush(t)
    /\ access[t].pc = "flushing" => AtFlushing(t)
    /\ access[t].pc = "end" => AtEnd(t)

(* The IRQs of a write are for the sectors that it has ended. *)
Raised(t) ==
    access[t].pc \in {"poll", "wait", "waiting", "woken"} /\ access[t].type = "write" =>
       \A q \in Irqs : q[1] = access[t].no => q[2] <= dev.moved /\ (dev.bsy => q[2] < dev.moved)

(* Between two accesses the drive is ready, or was too slow. *)
Between ==
    (\A t \in AtaTasks : access[t].pc \in {"idle", "select"}) =>
       (dev.drq \/ (dev.bsy /\ dev.cmd # "flush") => Slowed)

(* What the accesses that ended say, and what the drive may still do for them. *)
Ended(t) ==
    /\ access[t].ret = "all" =>
          /\ access[t].no \in met.faulted => Excused(t)
          /\ dev.bsy /\ dev.cmd # "flush" /\ dev.no = access[t].no => Excused(t)
    /\ access[t].ret = "failed" => access[t].no \in met.faulted \/ Slowed

(* The sectors of a read so far. *)
InOrder(t) ==
    access[t].type = "read" =>
       /\ \A k \in 1..Len(access[t].got) : access[t].got[k] = k
       /\ access[t].pc # "idle" => Len(access[t].got) = access[t].sectors

Tasks == \A t \in AtaTasks : Served(t) /\ Raised(t) /\ Ended(t) /\ InOrder(t)

IInv == Typed /\ Holds /\ Queue /\ Numbered /\ Status /\ Tasks /\ Between

-----------------------------------------------------------------------------
(* What the steps have in common *)

OthersStay(t) == \A u \in AtaTasks \ {t} : access'[u] = access[u]

(* The history grows: the events, and no fault. *)
Grows ==
    /\ met'.accesses = met.accesses /\ met'.faulted = met.faulted
    /\ \A e \in met.events : e \in met'.events

(* While a task has the mutex, the others are idle; before its wait no one is in the queue. *)
LEMMA OneAtATime ==
    ASSUME IInv, NEW t \in AtaTasks, access[t].pc # "idle"
    PROVE  /\ holder = t /\ \A u \in AtaTasks \ {t} : access[u].pc = "idle"
           /\ access[t].pc \notin {"waiting", "woken"} => irqs.cv = <<>>
           /\ irqs.cv \in {<<>>, <<t>>}
<1>1. holder = t /\ \A u \in AtaTasks \ {t} : access[u].pc = "idle"
    BY Zenon DEF IInv, Holds
<1> QED BY ZenonT(60), <1>1 DEF IInv, Queue

(* The IRQs are numbered by access and sector. *)
LEMMA IrqNumbers ==
    ASSUME Typed, NEW q \in Irqs
    PROVE  q[1] \in Nat /\ q[2] \in Nat
<1>1. irqs.pending \in Seq(Irq) /\ irqs.batch \in Seq(Irq)
    BY Zenon DEF Typed, IrqState
<1>2. q \in Irq
    BY <1>1 DEF Irqs
<1> QED BY <1>2 DEF Irq

(* Excuses and delays are not forgotten. *)
LEMMA StillExcused ==
    ASSUME Grows, NEW t \in AtaTasks, access'[t].no = access[t].no, access[t].intr => access'[t].intr
    PROVE  (Excused(t) => Excused(t)') /\ (Slowed => Slowed')
BY Zenon DEF Grows, Excused, Slowed

(***************************************************************************)
(* A task that goes on: the rest follows from what holds for it.           *)
(***************************************************************************)
LEMMA Moves ==
    ASSUME IInv, Typed', Status', Grows, NEW t \in AtaTasks, OthersStay(t), holder' = holder,
           access[t].pc # "idle", access'[t].pc # "idle",
           access'[t].pc = "select" => access[t].pc = "select" /\ dev' = dev,
           access'[t].no = access[t].no, access'[t].ret = access[t].ret,
           Served(t)', Raised(t)', InOrder(t)',
           access'[t].pc = "waiting" => irqs'.cv = <<t>>,
           irqs'.cv = <<>> \/ (irqs'.cv = <<t>> /\ access'[t].pc \in {"waiting", "woken"}),
           \A q \in Irqs' : q \in Irqs,
           dev' = dev \/ dev'.no = access[t].no
    PROVE  IInv'
<1>1. \A u \in AtaTasks \ {t} : access'[u] = access[u] /\ access[u].pc = "idle"
    BY Zenon, OneAtATime DEF OthersStay
<1>2. Holds'
    BY Zenon, <1>1 DEF IInv, Holds
<1>3. Queue'
    BY Zenon, <1>1 DEF Queue
<1>4. Numbered'
    BY <1>1 DEF IInv, Numbered, Grows
<1>5. Between'
  <2>1. Slowed => Slowed'
      BY Zenon DEF Slowed, Grows
  <2> QED BY Zenon, <1>1, <2>1 DEF IInv, Between
<1>6. ASSUME NEW u \in AtaTasks \ {t} PROVE Served(u)' /\ Raised(u)' /\ Ended(u)' /\ InOrder(u)'
  <2>1. access'[u] = access[u] /\ access[u].pc = "idle"
      BY Zenon, <1>1
  <2>2. Served(u)' /\ Raised(u)' /\ InOrder(u)'
      BY Zenon, <2>1 DEF Served, Raised, InOrder, IInv, Tasks
  <2>3. (Excused(u) => Excused(u)') /\ (Slowed => Slowed')
      BY Zenon, <2>1, StillExcused
  <2>4. access[u].no # access[t].no
    <3>1. access[t].no = met.accesses /\ access[u].no < met.accesses /\ met.accesses \in Nat
        BY ZenonT(60) DEF IInv, Numbered, Typed, MetState
    <3>2. access[u].no \in Nat
        BY Zenon DEF IInv, Typed, AccessState
    <3> QED BY <3>1, <3>2
  <2>5. Ended(u)
      BY Zenon DEF IInv, Tasks
  <2>6. Ended(u)'
      BY Zenon, <2>1, <2>3, <2>4, <2>5 DEF Ended, Grows
  <2> QED BY Zenon, <2>2, <2>6
<1>7. Ended(t)'
  <2>1. access'[t].ret = "none"
      BY Zenon DEF IInv, Numbered
  <2> QED BY Zenon, <2>1 DEF Ended
<1>8. Tasks'
    BY Zenon, <1>6, <1>7 DEF Tasks
<1> QED BY Zenon, <1>2, <1>3, <1>4, <1>5, <1>8 DEF IInv

(***************************************************************************)
(* A call that returns: the drive is ready, or it was too slow, and the    *)
(* result says what happened.                                              *)
(***************************************************************************)
LEMMA Returns ==
    ASSUME IInv, Typed', Status', Grows, NEW t \in AtaTasks, access[t].pc # "idle", NEW r, Return(t, r),
           irqs'.cv = <<>>, \A q \in Irqs' : q \in Irqs,
           dev' = dev \/ (~dev'.bsy /\ dev'.no <= met.accesses),
           dev'.drq \/ (dev'.bsy /\ dev'.cmd # "flush") => Slowed',
           r = "failed" => access[t].no \in met.faulted \/ Slowed',
           r = "all" => /\ access[t].no \in met.faulted => Excused(t)
                        /\ dev'.bsy /\ dev'.cmd # "flush" => Excused(t)
    PROVE  IInv'
<1>1. /\ access'[t].pc = "idle" /\ access'[t].ret = r /\ access'[t].no = access[t].no
      /\ access'[t].intr = access[t].intr /\ access'[t].type = access[t].type /\ access'[t].got = access[t].got
      /\ holder' = NoTask /\ OthersStay(t)
    BY Zenon DEF IInv, Typed, AccessState, Return, OthersStay
<1>2. \A u \in AtaTasks : access'[u].pc = "idle" /\ (u # t => access'[u] = access[u])
    BY Zenon, <1>1, OneAtATime DEF OthersStay
<1>3. Holds'
    BY Zenon, <1>1, <1>2, AtaAssumption DEF Holds
<1>4. Queue'
    BY Zenon, <1>2 DEF Queue
<1>5. Numbered'
    BY Zenon, <1>1, <1>2 DEF IInv, Numbered, Grows
<1>6. Between'
    BY Zenon DEF Between
<1>7. ASSUME NEW u \in AtaTasks PROVE Served(u)' /\ Raised(u)' /\ Ended(u)' /\ InOrder(u)'
  <2>1. Served(u)' /\ Raised(u)'
      BY Zenon, <1>2 DEF Served, Raised
  <2>2. InOrder(u)'
      BY <1>1, <1>2 DEF InOrder, IInv, Tasks
  <2>3. (Excused(u) => Excused(u)') /\ (Slowed => Slowed')
      BY Zenon, <1>1, <1>2, StillExcused
  <2>4. Ended(u)
      BY Zenon DEF IInv, Tasks
  <2>5. Ended(u)'
      BY Zenon, <1>1, <1>2, <2>3, <2>4 DEF Ended, Grows
  <2> QED BY Zenon, <2>1, <2>2, <2>5
<1> QED BY Zenon, <1>3, <1>4, <1>5, <1>6, <1>7 DEF IInv, Tasks

(* Only the IRQs and the history change. *)
LEMMA Passed ==
    ASSUME IInv, Typed', Grows, dev' = dev, access' = access, holder' = holder,
           irqs'.cv = irqs.cv, \A q \in Irqs' : q \in Irqs
    PROVE  IInv'
<1>1. \A t \in AtaTasks : (Excused(t) => Excused(t)') /\ (Slowed => Slowed')
    BY Zenon, StillExcused
<1>2. Slowed => Slowed'
    BY Zenon DEF Slowed, Grows
<1>3. Holds' /\ Queue' /\ Status'
    BY Zenon DEF IInv, Holds, Queue, Status, Grows
<1>4. Numbered'
    BY Zenon DEF IInv, Numbered, Grows
<1>5. Between'
    BY Zenon, <1>2 DEF IInv, Between
<1>6. ASSUME NEW t \in AtaTasks PROVE Served(t)' /\ Raised(t)' /\ Ended(t)' /\ InOrder(t)'
  <2>1. Served(t) /\ Raised(t) /\ Ended(t) /\ InOrder(t)
      BY Zenon DEF IInv, Tasks
  <2>2. Served(t)'
      BY ZenonT(60), <1>1, <2>1 DEF Served, AtPoll, InWait, AtFlush, AtFlushing, AtEnd, Works, Grows
  <2>3. Raised(t)' /\ Ended(t)' /\ InOrder(t)'
      BY Zenon, <1>1, <2>1 DEF Raised, Ended, InOrder, Grows
  <2> QED BY Zenon, <2>2, <2>3
<1> QED BY Zenon, <1>3, <1>4, <1>5, <1>6 DEF IInv, Tasks

-----------------------------------------------------------------------------
(* The drive *)

(* irq_interrupt_handler counts an IRQ. *)
LEMMA RaiseFacts ==
    ASSUME Typed, NEW k \in Nat, RaiseIrq(k)
    PROVE  /\ irqs' \in IrqState /\ irqs'.cv = irqs.cv
           /\ \A q \in Irqs' : q \in Irqs \/ q = <<dev.no, k>>
<1>1. irqs.pending \in Seq(Irq) /\ <<dev.no, k>> \in Irq
    BY Zenon DEF Typed, IrqState, DriveState, Irq
<1>2. irqs' = [irqs EXCEPT !.pending = Append(irqs.pending, <<dev.no, k>>)]
    BY Zenon DEF RaiseIrq
<1>3. irqs'.cv = irqs.cv /\ irqs'.batch = irqs.batch /\ irqs'.pending = Append(irqs.pending, <<dev.no, k>>)
    BY Zenon, <1>2 DEF Typed, IrqState
<1>4. irqs' \in IrqState
  <2>1. irqs'.pending \in Seq(Irq)
      BY <1>1, <1>3
  <2>2. irqs' = [irqs EXCEPT !.pending = irqs'.pending]
      BY Zenon, <1>2, <1>3
  <2> QED BY ZenonT(60), <2>1, <2>2 DEF Typed, IrqState
<1> QED BY <1>1, <1>3, <1>4 DEF Irqs

(***************************************************************************)
(* A busy drive ends what it does, well or not: it asks for a sector, has  *)
(* one, or has an error.                                                   *)
(***************************************************************************)
LEMMA DriveStep ==
    ASSUME IInv, Typed', dev.bsy, access' = access, holder' = holder, irqs'.cv = irqs.cv,
           met'.accesses = met.accesses, met'.events = met.events,
           \/ met'.faulted = met.faulted /\ (dev'.err => dev.cmd = "flush" /\ ~dev'.drq)
           \/ met'.faulted = met.faulted \cup {dev.no} /\ dev'.err /\ ~dev'.drq /\ dev.cmd # "flush",
           dev'.no = dev.no, dev'.cmd = dev.cmd, dev'.count = dev.count, dev'.moved = dev.moved, ~dev'.bsy,
           dev'.drq => dev.cmd \in Types,
           dev'.drq /\ dev.cmd = "write" => dev.moved = 0 \/ dev.moved < dev.count,
           dev'.drq \/ dev'.err \/ dev.cmd = "flush" \/ ~(dev.moved = 0 \/ dev.moved < dev.count),
           NEW k \in Nat, dev.cmd = "write" => k <= dev.moved,
           \A q \in Irqs' : q \in Irqs \/ q = <<dev.no, k>>
    PROVE  IInv'
<1>1. Holds' /\ Queue'
    BY Zenon DEF IInv, Holds, Queue
<1>2. ~dev.drq /\ ~dev.err /\ dev.cmd # "none"
    BY Zenon DEF IInv, Status
<1>3. Status'
    BY Zenon, <1>2 DEF Status
<1>4. Numbered'
    BY DEF IInv, Numbered
<1>5. Between'
    BY Zenon DEF IInv, Between, Slowed, Types
<1>6. ASSUME NEW t \in AtaTasks PROVE Served(t)' /\ Raised(t)' /\ Ended(t)' /\ InOrder(t)'
  <2>1. Served(t) /\ Raised(t) /\ Ended(t) /\ InOrder(t)
      BY Zenon DEF IInv, Tasks
  <2>2. Excused(t)' <=> Excused(t)
      BY Zenon DEF Excused
  <2>3. Works(t) => Works(t)'
      BY Zenon, <1>2 DEF Works
  <2>4. Served(t)'
    <3>1. ASSUME access[t].pc = "poll" PROVE AtPoll(t)'
      <4>1. AtPoll(t) /\ dev.cmd = access[t].type /\ access[t].type \in Types
          BY Zenon, <2>1, <3>1 DEF Served, AtPoll, Works, IInv, Typed, AccessState
      <4>2. dev.moved = 0 \/ dev.moved < dev.count
          BY Zenon, <4>1 DEF AtPoll, Works
      <4>3. dev'.drq \/ dev'.err
          BY Zenon, <4>1, <4>2 DEF Types
      <4> QED BY Zenon, <2>3, <4>1, <4>3 DEF AtPoll
    <3>2. ASSUME access[t].pc \in {"wait", "waiting", "woken"} PROVE InWait(t)'
      <4>1. InWait(t) /\ Works(t)' /\ access[t].type \in Types /\ dev.cmd = access[t].type
          BY Zenon, <2>1, <2>3, <3>2 DEF Served, InWait, Works, IInv, Typed, AccessState
      <4>2. dev.moved < dev.count => dev'.drq \/ dev'.err
          BY Zenon, <4>1 DEF Types
      <4>3. access[t].type # "read"
          BY Zenon, <1>2, <4>1 DEF InWait
      <4> QED BY Zenon, <4>1, <4>2, <4>3 DEF InWait
    <3>3. ASSUME access[t].pc = "flush" PROVE AtFlush(t)'
        BY Zenon, <2>1, <2>2, <2>3, <3>3 DEF Served, AtFlush
    <3>4. ASSUME access[t].pc = "flushing" PROVE AtFlushing(t)'
        BY Zenon, <2>1, <2>2, <3>4 DEF Served, AtFlushing
    <3>5. ASSUME access[t].pc = "end" PROVE AtEnd(t)'
        BY Zenon, <2>1, <2>3, <3>5 DEF Served, AtEnd
    <3> QED BY Zenon, <2>1, <3>1, <3>2, <3>3, <3>4, <3>5 DEF Served
  <2>5. Raised(t)'
    <3> SUFFICES ASSUME access[t].pc \in {"poll", "wait", "waiting", "woken"}, access[t].type = "write",
                        NEW q \in Irqs', q[1] = access[t].no
                 PROVE  q[2] <= dev.moved
        BY Zenon DEF Raised
    <3>1. dev.cmd = "write"
        BY Zenon, <2>1 DEF Served, AtPoll, InWait, Works
    <3>2. CASE q \in Irqs
        BY Zenon, <2>1, <3>2 DEF Raised
    <3>3. CASE q = <<dev.no, k>>
        BY Zenon, <3>1, <3>3
    <3> QED BY Zenon, <3>2, <3>3
  <2>6. Ended(t)' /\ InOrder(t)'
      BY Zenon, <2>1, <2>2 DEF Ended, InOrder, Slowed
  <2> QED BY Zenon, <2>4, <2>5, <2>6
<1> QED BY Zenon, <1>1, <1>3, <1>4, <1>5, <1>6 DEF IInv, Tasks

(* DriveWorks *)
LEMMA DriveWorksInv ==
    ASSUME IInv, DriveWorks
    PROVE  IInv'
<1>1. Typed /\ dev \in DriveState /\ dev.bsy /\ ~dev.drq /\ ~dev.err /\ dev.cmd # "none"
    BY Zenon DEF IInv, Typed, Status, DriveWorks
<1>2. /\ access' = access /\ holder' = holder /\ still' = still /\ met' = met
    BY Zenon DEF DriveWorks
<1>3. CASE dev.cmd = "read" \/ (dev.cmd = "write" /\ dev.moved = 0)
  <2>1. dev' = [dev EXCEPT !.bsy = FALSE, !.drq = TRUE]
    <3>1. ~(dev.moved > 0) \/ dev.cmd # "write"
        BY <1>3
    <3> QED BY Zenon, <1>3, <3>1 DEF DriveWorks
  <2>2. dev' \in DriveState /\ ~dev'.bsy /\ dev'.drq /\ ~dev'.err /\ dev'.no = dev.no /\ dev'.cmd = dev.cmd
        /\ dev'.count = dev.count /\ dev'.moved = dev.moved
      BY ZenonT(60), <1>1, <2>1 DEF DriveState
  <2>3. /\ irqs' \in IrqState /\ irqs'.cv = irqs.cv
        /\ \E k \in Nat : /\ dev.cmd = "write" => k <= dev.moved
                          /\ \A q \in Irqs' : q \in Irqs \/ q = <<dev.no, k>>
    <3>1. CASE dev.cmd = "read"
      <4>1. RaiseIrq(dev.moved + 1) /\ dev.moved + 1 \in Nat
          BY <1>1, <3>1 DEF DriveWorks, DriveState
      <4> QED BY Zenon, <1>1, <3>1, <4>1, RaiseFacts
    <3>2. CASE dev.cmd = "write" /\ dev.moved = 0
      <4>1. irqs' = irqs
          BY <3>2 DEF DriveWorks
      <4>2. \A q \in Irqs' : q \in Irqs
          BY Zenon, <4>1 DEF Irqs
      <4>3. dev.moved \in Nat
          BY Zenon, <1>1 DEF DriveState
      <4> QED BY <1>1, <3>2, <4>1, <4>2, <4>3 DEF Typed
    <3> QED BY Zenon, <1>3, <3>1, <3>2
  <2>4. Typed'
      BY Zenon, <1>1, <1>2, <2>2, <2>3 DEF Typed
  <2> QED BY Zenon, <1>1, <1>2, <1>3, <2>2, <2>3, <2>4, DriveStep DEF Types
<1>4. CASE dev.cmd = "write" /\ dev.moved # 0
  <2> DEFINE more == dev.moved < dev.count
  <2>1. dev' = [dev EXCEPT !.bsy = FALSE, !.drq = more] /\ RaiseIrq(dev.moved)
      BY Zenon, <1>4 DEF DriveWorks
  <2>6. dev.moved \in Nat /\ more \in BOOLEAN
      BY <1>1 DEF DriveState
  <2> HIDE DEF more
  <2>2. dev' \in DriveState /\ ~dev'.bsy /\ dev'.drq = more /\ ~dev'.err /\ dev'.no = dev.no
        /\ dev'.cmd = dev.cmd /\ dev'.count = dev.count /\ dev'.moved = dev.moved
      BY Zenon, <1>1, <2>1, <2>6 DEF DriveState
  <2>3. /\ irqs' \in IrqState /\ irqs'.cv = irqs.cv
        /\ \A q \in Irqs' : q \in Irqs \/ q = <<dev.no, dev.moved>>
      BY Zenon, <1>1, <2>1, <2>6, RaiseFacts
  <2>4. Typed'
      BY Zenon, <1>1, <1>2, <2>2, <2>3 DEF Typed
  <2>5. dev.moved <= dev.moved
      BY <2>6
  <2>7. dev'.drq <=> dev.moved < dev.count
      BY ZenonT(60), <2>2 DEF more
  <2> QED BY Zenon, <1>1, <1>2, <1>4, <2>2, <2>3, <2>4, <2>5, <2>6, <2>7, DriveStep DEF Types
<1>5. CASE dev.cmd = "flush"
  <2>1. dev' = [dev EXCEPT !.bsy = FALSE] /\ RaiseIrq(0)
      BY Zenon, <1>1, <1>5 DEF DriveWorks
  <2>2. dev' \in DriveState /\ ~dev'.bsy /\ ~dev'.drq /\ ~dev'.err /\ dev'.no = dev.no
        /\ dev'.cmd = dev.cmd /\ dev'.count = dev.count /\ dev'.moved = dev.moved
      BY ZenonT(60), <1>1, <2>1 DEF DriveState
  <2>3. /\ irqs' \in IrqState /\ irqs'.cv = irqs.cv
        /\ \A q \in Irqs' : q \in Irqs \/ q = <<dev.no, 0>>
      BY Zenon, <1>1, <2>1, RaiseFacts
  <2>4. Typed'
      BY Zenon, <1>1, <1>2, <2>2, <2>3 DEF Typed
  <2> QED BY ZenonT(60), <1>1, <1>2, <1>5, <2>2, <2>3, <2>4, DriveStep
<1> QED BY Zenon, <1>1, <1>3, <1>4, <1>5 DEF DriveState

(* DriveFails *)
LEMMA DriveFailsInv ==
    ASSUME IInv, DriveFails
    PROVE  IInv'
<1> DEFINE k == IF dev.cmd = "read" THEN dev.moved + 1 ELSE dev.moved
<1>1. Typed /\ dev \in DriveState /\ dev.bsy /\ ~dev.drq /\ ~dev.err
    BY Zenon DEF IInv, Typed, Status, DriveFails
<1>2. access' = access /\ holder' = holder /\ RaiseIrq(k) /\ dev' = [dev EXCEPT !.bsy = FALSE, !.err = TRUE]
    BY Zenon DEF DriveFails
<1>3. k \in Nat /\ (dev.cmd = "write" => k <= dev.moved)
    BY <1>1 DEF DriveState
<1> HIDE DEF k
<1>4. dev' \in DriveState /\ ~dev'.bsy /\ ~dev'.drq /\ dev'.err /\ dev'.no = dev.no
      /\ dev'.cmd = dev.cmd /\ dev'.count = dev.count /\ dev'.moved = dev.moved
    BY ZenonT(60), <1>1, <1>2 DEF DriveState
<1>5. /\ irqs' \in IrqState /\ irqs'.cv = irqs.cv
      /\ \A q \in Irqs' : q \in Irqs \/ q = <<dev.no, k>>
    BY Zenon, <1>1, <1>2, <1>3, RaiseFacts
<1>6. met'.accesses = met.accesses /\ met'.events = met.events /\ met' \in MetState
      /\ met'.faulted = IF dev.cmd = "flush" THEN met.faulted ELSE met.faulted \cup {dev.no}
  <2> DEFINE F == IF dev.cmd = "flush" THEN met.faulted ELSE met.faulted \cup {dev.no}
  <2>1. F \in SUBSET Nat /\ met' = [met EXCEPT !.faulted = F]
    <3>1. CASE dev.cmd = "flush"
        BY <1>1, <3>1 DEF DriveFails, Typed, MetState
    <3>2. CASE dev.cmd # "flush"
        BY Zenon, <1>1, <3>2 DEF DriveFails, Typed, MetState, DriveState
    <3> QED BY Zenon, <3>1, <3>2
  <2> HIDE DEF F
  <2>2. met'.accesses = met.accesses /\ met'.events = met.events /\ met'.faulted = F
        /\ met' \in MetState
      BY Zenon, <1>1, <2>1 DEF Typed, MetState
  <2> QED BY Zenon, <2>2 DEF F
<1>7. still' \in StillState
  <2>1. still.faults - 1 \in Nat /\ still \in StillState
      BY <1>1 DEF DriveFails, Typed, StillState
  <2>2. still' = [still EXCEPT !.faults = still.faults - 1]
      BY Zenon DEF DriveFails
  <2> QED BY Zenon, <2>1, <2>2 DEF StillState
<1>8. Typed'
    BY Zenon, <1>1, <1>2, <1>4, <1>5, <1>6, <1>7 DEF Typed
<1>9. CASE dev.cmd = "flush"
    BY Zenon, <1>1, <1>2, <1>3, <1>4, <1>5, <1>6, <1>8, <1>9, DriveStep
<1>10. CASE dev.cmd # "flush"
    BY Zenon, <1>1, <1>2, <1>3, <1>4, <1>5, <1>6, <1>8, <1>10, DriveStep
<1> QED BY Zenon, <1>9, <1>10

-----------------------------------------------------------------------------
(* irq_notify_thread, and the wait *)

(* TakeIrqs *)
LEMMA TakeIrqsInv ==
    ASSUME IInv, TakeIrqs
    PROVE  IInv'
<1>1. Typed
    BY Zenon DEF IInv
<1>2. irqs' = [irqs EXCEPT !.batch = irqs.pending, !.pending = <<>>]
    BY <1>1 DEF TakeIrqs, Typed, IrqState
<1>3. irqs' \in IrqState /\ irqs'.cv = irqs.cv
      /\ irqs'.pending = <<>> /\ irqs'.batch = irqs.pending
  <2>1. irqs \in IrqState /\ irqs.pending \in Seq(Irq) /\ <<>> \in Seq(Irq)
      BY <1>1 DEF Typed, IrqState
  <2> QED BY Zenon, <1>2, <2>1 DEF IrqState
<1>4. \A q \in Irqs' : q \in Irqs
    BY <1>3 DEF Irqs
<1>5. dev' = dev /\ access' = access /\ holder' = holder /\ still' = still /\ met' = met
    BY Zenon DEF TakeIrqs
<1>6. Typed' /\ Grows
    BY Zenon, <1>1, <1>3, <1>5 DEF Typed, Grows
<1> QED BY Zenon, <1>3, <1>4, <1>5, <1>6, Passed

(* An IRQ of the batch is passed on. *)
LEMMA BatchFacts ==
    ASSUME Typed, irqs.batch # <<>>, NEW c \in Seq(AtaTasks),
           irqs' = [irqs EXCEPT !.batch = Tail(irqs.batch), !.cv = c]
    PROVE  /\ irqs' \in IrqState /\ irqs'.cv = c
           /\ \A q \in Irqs' : q \in Irqs
           /\ Head(irqs.batch) \in Irqs
<1>1. irqs \in IrqState /\ irqs.batch \in Seq(Irq) /\ Tail(irqs.batch) \in Seq(Irq)
    BY DEF Typed, IrqState
<1>2. irqs' \in IrqState /\ irqs'.cv = c /\ irqs'.batch = Tail(irqs.batch) /\ irqs'.pending = irqs.pending
    BY Zenon, <1>1 DEF IrqState
<1>3. \A i \in 1..Len(Tail(irqs.batch)) : Tail(irqs.batch)[i] = irqs.batch[i + 1] /\ i + 1 \in 1..Len(irqs.batch)
    BY <1>1
<1>4. \A q \in Irqs' : q \in Irqs
    BY <1>2, <1>3 DEF Irqs
<1>5. Head(irqs.batch) = irqs.batch[1] /\ 1 \in 1..Len(irqs.batch)
    BY <1>1
<1>6. Head(irqs.batch) \in Irqs
    BY Zenon, <1>5 DEF Irqs
<1> QED BY Zenon, <1>2, <1>4, <1>6

(* The history notes events. *)
LEMMA HappensFacts ==
    ASSUME Typed, NEW E \in SUBSET ({"early", "stale", "slow"} \X Nat), Happens(E)
    PROVE  met' \in MetState /\ Grows /\ E \subseteq met'.events
<1> DEFINE F == met.events \cup E
<1>1. met \in MetState /\ F \in SUBSET ({"early", "stale", "slow"} \X Nat) /\ met' = [met EXCEPT !.events = F]
    BY Zenon DEF Typed, MetState, Happens
<1>2. \A e \in met.events : e \in F
    BY Zenon
<1>3. E \subseteq F
    BY Zenon
<1> HIDE DEF F
<1> QED BY Zenon, <1>1, <1>2, <1>3 DEF MetState, Grows

(* The task at the head of the queue is woken. *)
LEMMA WakeFacts ==
    ASSUME Typed, NEW t \in AtaTasks, NEW pc \in Pcs, AccessGoto(t, pc)
    PROVE  /\ access' \in [AtaTasks -> AccessState] /\ OthersStay(t)
           /\ access'[t] = [access[t] EXCEPT !.pc = pc]
           /\ access'[t].pc = pc /\ access'[t].no = access[t].no /\ access'[t].ret = access[t].ret
           /\ access'[t].type = access[t].type /\ access'[t].count = access[t].count
           /\ access'[t].sectors = access[t].sectors /\ access'[t].got = access[t].got
           /\ access'[t].intr = access[t].intr
<1>1. access \in [AtaTasks -> AccessState] /\ access[t] \in AccessState
    BY Zenon DEF Typed
<1>2. access' = [access EXCEPT ![t] = [access[t] EXCEPT !.pc = pc]]
    BY Zenon, <1>1 DEF AccessGoto
<1>3. [access[t] EXCEPT !.pc = pc] \in AccessState
    BY Zenon, <1>1 DEF AccessState
<1>4. access' \in [AtaTasks -> AccessState] /\ OthersStay(t) /\ access'[t] = [access[t] EXCEPT !.pc = pc]
    BY Zenon, <1>1, <1>2, <1>3 DEF OthersStay
<1> QED BY Zenon, <1>1, <1>4 DEF AccessState

(* NotifyWaiter: the IRQ of its sector wakes a task, or the access is excused from now on. *)
LEMMA NotifyWaiterInv ==
    ASSUME IInv, NotifyWaiter
    PROVE  IInv'
<1> DEFINE q == Head(irqs.batch)
<1>1. Typed /\ irqs.batch # <<>> /\ Notified(irqs) /\ dev' = dev /\ holder' = holder /\ still' = still
      /\ access \in [AtaTasks -> AccessState] /\ met \in MetState /\ irqs \in IrqState
    BY Zenon DEF IInv, Typed, NotifyWaiter
<1>2. Status /\ Queue /\ Holds
    BY Zenon DEF IInv
<1>3. CASE irqs.cv = <<>>
  <2> DEFINE E == IF holder # NoTask /\ access[holder].pc \in {"poll", "wait"} /\ Awaited(holder) = q
                  THEN {<<"early", access[holder].no>>} ELSE {}
  <2>1. irqs' = [irqs EXCEPT !.batch = Tail(irqs.batch)] /\ Happens(E) /\ access' = access
      BY Zenon, <1>1, <1>3 DEF Notified
  <2>2. E \in SUBSET ({"early", "stale", "slow"} \X Nat)
    <3>1. ASSUME holder # NoTask, access[holder].pc \in {"poll", "wait"}, Awaited(holder) = q
          PROVE  access[holder].no \in Nat
      <4>1. q \in Irq
          BY <1>1 DEF IrqState
      <4> QED BY <3>1, <4>1 DEF Awaited, Irq
    <3> QED BY <3>1
  <2> HIDE DEF E
  <2>3. met' \in MetState /\ Grows
      BY Zenon, <1>1, <2>1, <2>2, HappensFacts
  <2>4. irqs' = [irqs EXCEPT !.batch = Tail(irqs.batch), !.cv = irqs.cv]
      BY ZenonT(60), <1>1, <2>1 DEF IrqState
  <2>5. irqs' \in IrqState /\ irqs'.cv = irqs.cv /\ \A r \in Irqs' : r \in Irqs
    <3>1. irqs.cv \in Seq(AtaTasks)
        BY Zenon, <1>1 DEF IrqState
    <3> QED BY Zenon, <1>1, <2>4, <3>1, BatchFacts
  <2>6. Typed'
      BY Zenon, <1>1, <2>1, <2>3, <2>5 DEF Typed
  <2> QED BY Zenon, <1>1, <2>1, <2>3, <2>5, <2>6, Passed
<1>4. CASE irqs.cv # <<>>
  <2>1. PICK t \in AtaTasks : irqs.cv = <<t>> /\ access[t].pc \in {"waiting", "woken"}
      BY Zenon, <1>2, <1>4 DEF Queue
  <2> DEFINE E == IF Awaited(t) # q THEN {<<"stale", access[t].no>>} ELSE {}
  <2>2. Head(irqs.cv) = t /\ Tail(irqs.cv) = <<>>
      BY <2>1
  <2>3. irqs' = [irqs EXCEPT !.batch = Tail(irqs.batch), !.cv = <<>>] /\ AccessGoto(t, "woken") /\ Happens(E)
      BY ZenonT(60), <1>1, <1>4, <2>2 DEF Notified
  <2>4. access[t].no \in Nat /\ E \in SUBSET ({"early", "stale", "slow"} \X Nat)
    <3>1. access[t].no \in Nat
        BY Zenon, <1>1 DEF AccessState
    <3> QED BY <3>1
  <2>5. met' \in MetState /\ Grows /\ E \subseteq met'.events
    <3> HIDE DEF E
    <3> QED BY Zenon, <1>1, <2>3, <2>4, HappensFacts
  <2>6. irqs' \in IrqState /\ irqs'.cv = <<>> /\ (\A r \in Irqs' : r \in Irqs) /\ q \in Irqs
    <3>1. <<>> \in Seq(AtaTasks)
        OBVIOUS
    <3> QED BY Zenon, <1>1, <2>3, <3>1, BatchFacts
  <2>7. "woken" \in Pcs
      BY Zenon DEF Pcs
  <2>8. /\ access' \in [AtaTasks -> AccessState] /\ OthersStay(t)
        /\ access'[t].pc = "woken" /\ access'[t].no = access[t].no /\ access'[t].ret = access[t].ret
        /\ access'[t].type = access[t].type /\ access'[t].count = access[t].count
        /\ access'[t].sectors = access[t].sectors /\ access'[t].got = access[t].got
        /\ access'[t].intr = access[t].intr
      BY ZenonT(60), <1>1, <2>3, <2>7, WakeFacts
  <2>9. Typed' /\ Status'
      BY Zenon, <1>1, <1>2, <2>5, <2>6, <2>8 DEF Typed, Status, Grows
  <2>10. Served(t) /\ Raised(t) /\ InOrder(t) /\ InWait(t)
      BY Zenon, <2>1 DEF IInv, Tasks, Served
  <2>11. Excused(t)' \/ ~dev.bsy
    <3>1. CASE Awaited(t) # q
        BY Zenon, <2>5, <2>8, <3>1 DEF Excused
    <3>2. CASE Awaited(t) = q
      <4>1. q[1] = access[t].no /\ q[2] = access[t].sectors + 1
          BY <3>2 DEF Awaited
      <4>2. CASE access[t].type = "write"
        <5>1. dev.moved = access[t].sectors + 1 /\ dev.moved \in Nat
            BY Zenon, <1>1, <2>10, <4>2 DEF InWait, Typed, DriveState
        <5>2. dev.bsy => q[2] < dev.moved
            BY Zenon, <2>1, <2>6, <2>10, <4>1, <4>2 DEF Raised
        <5> QED BY <4>1, <5>1, <5>2
      <4>3. CASE access[t].type = "read"
          BY Zenon, <1>2, <2>10, <4>3 DEF InWait, Status
      <4> QED BY Zenon, <1>1, <4>2, <4>3 DEF AccessState, Types
    <3> QED BY Zenon, <3>1, <3>2
  <2>12. Served(t)'
    <3>1. Works(t)'
        BY Zenon, <1>1, <2>5, <2>8, <2>10 DEF InWait, Works, Grows
    <3>2. InWait(t)'
        BY Zenon, <1>1, <2>8, <2>10, <2>11, <3>1 DEF InWait
    <3> QED BY Zenon, <2>8, <3>2 DEF Served
  <2>13. Raised(t)' /\ InOrder(t)'
      BY Zenon, <1>1, <2>1, <2>6, <2>8, <2>10 DEF Raised, InOrder
  <2> QED BY Zenon, <1>1, <2>1, <2>5, <2>6, <2>8, <2>9, <2>12, <2>13, Moves
<1> QED BY Zenon, <1>3, <1>4

(* WaitForIrq *)
LEMMA WaitForIrqInv ==
    ASSUME IInv, NEW t \in AtaTasks, WaitForIrq(t)
    PROVE  IInv'
<1>1. Typed /\ Status /\ irqs \in IrqState /\ access[t].pc = "wait" /\ AccessGoto(t, "waiting")
      /\ dev' = dev /\ holder' = holder /\ still' = still /\ met' = met /\ "waiting" \in Pcs
    BY Zenon DEF IInv, Typed, WaitForIrq, AccessAt, Pcs
<1>2. irqs.cv = <<>>
    BY Zenon, <1>1, OneAtATime
<1>3. irqs' = [irqs EXCEPT !.cv = <<t>>]
    BY <1>1, <1>2 DEF WaitForIrq, IrqState
<1>4. irqs' \in IrqState /\ irqs'.cv = <<t>> /\ irqs'.batch = irqs.batch /\ irqs'.pending = irqs.pending
  <2>1. <<t>> \in Seq(AtaTasks)
      OBVIOUS
  <2> QED BY Zenon, <1>1, <1>3, <2>1 DEF IrqState
<1>5. \A q \in Irqs' : q \in Irqs
    BY Zenon, <1>4 DEF Irqs
<1>6. /\ access' \in [AtaTasks -> AccessState] /\ OthersStay(t)
      /\ access'[t].pc = "waiting" /\ access'[t].no = access[t].no /\ access'[t].ret = access[t].ret
      /\ access'[t].type = access[t].type /\ access'[t].count = access[t].count
      /\ access'[t].sectors = access[t].sectors /\ access'[t].got = access[t].got
      /\ access'[t].intr = access[t].intr
    BY ZenonT(60), <1>1, WakeFacts
<1>7. Typed' /\ Status' /\ Grows
    BY Zenon, <1>1, <1>4, <1>6 DEF Typed, Status, Grows
<1>8. Served(t) /\ Raised(t) /\ InOrder(t)
    BY Zenon DEF IInv, Tasks
<1>9. Served(t)'
    BY ZenonT(60), <1>1, <1>6, <1>8 DEF Served, InWait, Works
<1>10. Raised(t)' /\ InOrder(t)'
    BY Zenon, <1>1, <1>5, <1>6, <1>8 DEF Raised, InOrder
<1> QED BY Zenon, <1>1, <1>4, <1>5, <1>6, <1>7, <1>9, <1>10, Moves

(* SignalAccess: a wait that a signal ends is excused. *)
LEMMA SignalAccessInv ==
    ASSUME IInv, NEW t \in AtaTasks, SignalAccess(t)
    PROVE  IInv'
<1> DEFINE pc == IF access[t].pc = "waiting" /\ access[t].interruptible THEN "woken" ELSE access[t].pc
<1>1. Typed /\ Status /\ access \in [AtaTasks -> AccessState] /\ access[t] \in AccessState /\ access[t].pc # "idle"
      /\ dev' = dev /\ holder' = holder /\ irqs' = irqs /\ met' = met
    BY Zenon DEF IInv, Typed, SignalAccess, AccessAt
<1>2. access' = [access EXCEPT ![t] = [access[t] EXCEPT !.intr = TRUE, !.pc = pc]]
    BY ZenonT(60), <1>1 DEF SignalAccess
<1>3. pc \in Pcs /\ pc # "idle" /\ (pc = access[t].pc \/ (pc = "woken" /\ access[t].pc = "waiting"))
    BY Zenon, <1>1 DEF AccessState, Pcs
<1> HIDE DEF pc
<1>4. [access[t] EXCEPT !.intr = TRUE, !.pc = pc] \in AccessState
    BY Zenon, <1>1, <1>3 DEF AccessState
<1>5. access' \in [AtaTasks -> AccessState] /\ OthersStay(t)
      /\ access'[t] = [access[t] EXCEPT !.intr = TRUE, !.pc = pc]
    BY Zenon, <1>1, <1>2, <1>4 DEF OthersStay
<1>6. /\ access'[t].pc = pc /\ access'[t].no = access[t].no /\ access'[t].ret = access[t].ret
      /\ access'[t].type = access[t].type /\ access'[t].count = access[t].count
      /\ access'[t].sectors = access[t].sectors /\ access'[t].got = access[t].got
      /\ access'[t].intr
    BY Zenon, <1>1, <1>5 DEF AccessState
<1>7. still' \in StillState
  <2>1. still.signals - 1 \in Nat /\ still \in StillState /\ still' = [still EXCEPT !.signals = still.signals - 1]
      BY <1>1 DEF SignalAccess, Typed, StillState
  <2> QED BY Zenon, <2>1 DEF StillState
<1>8. Typed' /\ Status' /\ Grows
    BY Zenon, <1>1, <1>5, <1>7 DEF Typed, Status, Grows
<1>9. \A q \in Irqs' : q \in Irqs
    BY Zenon, <1>1 DEF Irqs
<1>10. Served(t) /\ Raised(t) /\ InOrder(t)
    BY Zenon DEF IInv, Tasks
<1>11. Excused(t)'
    BY Zenon, <1>6 DEF Excused
<1>12. Works(t) => Works(t)'
    BY Zenon, <1>1, <1>6 DEF Works
<1>13. Served(t)'
    BY ZenonT(60), <1>1, <1>3, <1>6, <1>10, <1>11, <1>12 DEF Served, AtPoll, InWait, AtFlush, AtFlushing, AtEnd
<1>14. Raised(t)' /\ InOrder(t)'
    BY Zenon, <1>1, <1>3, <1>6, <1>9, <1>10 DEF Raised, InOrder
<1>15. /\ access[t].pc = "waiting" => irqs.cv = <<t>>
       /\ access[t].pc \notin {"waiting", "woken"} => irqs.cv = <<>>
       /\ irqs.cv \in {<<>>, <<t>>}
    BY Zenon, <1>1, OneAtATime DEF IInv, Queue
<1> QED BY ZenonT(60), <1>1, <1>3, <1>5, <1>6, <1>8, <1>9, <1>13, <1>14, <1>15, Moves

-----------------------------------------------------------------------------
(* access_drive_sectors *)

(* A call begins, with the mutex and the next number. *)
LEMMA AccessDriveSectorsInv ==
    ASSUME IInv, NEW t \in AtaTasks, AccessDriveSectors(t)
    PROVE  IInv'
<1> DEFINE c == Head(still.calls[t])
           n == met.accesses + 1
           a == [NoAccess EXCEPT !.pc = "select", !.type = c.type, !.count = c.count,
                                 !.interruptible = c.interruptible, !.no = n]
<1>1. Typed /\ Status /\ access \in [AtaTasks -> AccessState] /\ still \in StillState /\ met \in MetState
      /\ dev' = dev /\ irqs' = irqs /\ holder' = t /\ holder = NoTask /\ still.calls[t] # <<>>
      /\ access' = [access EXCEPT ![t] = a]
    BY Zenon DEF IInv, Typed, AccessDriveSectors
<1>2. c \in Access /\ n \in Nat /\ met.accesses \in Nat
    BY <1>1 DEF StillState, MetState
<1>3. a \in AccessState /\ a.pc = "select" /\ a.no = n /\ a.ret = "none" /\ a.got = <<>> /\ a.sectors = 0
  <2>1. c.type \in Types /\ c.count \in Nat /\ c.interruptible \in BOOLEAN
      BY Zenon, <1>2 DEF Access, Types
  <2>2. 0 \in Nat /\ <<>> \in Seq(Nat) /\ n \in Nat /\ "select" \in Pcs /\ "none" \in Rets
      BY <1>2 DEF Pcs, Rets
  <2> HIDE DEF c, n
  <2> QED BY Zenon, <2>1, <2>2 DEF AccessState, NoAccess
<1> HIDE DEF c, a
<1>4. access' \in [AtaTasks -> AccessState] /\ access'[t] = a /\ \A u \in AtaTasks \ {t} : access'[u] = access[u]
    BY Zenon, <1>1, <1>3
<1>5. \A u \in AtaTasks : access[u].pc = "idle"
    BY Zenon, <1>1, AtaAssumption DEF IInv, Holds
<1>6. still' \in StillState
  <2> DEFINE cs == [still.calls EXCEPT ![t] = Tail(still.calls[t])]
  <2>1. cs \in [AtaTasks -> Seq(Access)] /\ still' = [still EXCEPT !.calls = cs]
      BY <1>1 DEF AccessDriveSectors, StillState
  <2> HIDE DEF cs
  <2> QED BY Zenon, <1>1, <2>1 DEF StillState
<1>7. met' \in MetState /\ met'.accesses = n /\ met'.faulted = met.faulted /\ met'.events = met.events
  <2>1. met' = [met EXCEPT !.accesses = n]
      BY Zenon DEF AccessDriveSectors
  <2> HIDE DEF n
  <2> QED BY Zenon, <1>1, <1>2, <2>1 DEF MetState
<1>8. Typed' /\ Status'
    BY Zenon, <1>1, <1>4, <1>6, <1>7 DEF Typed, Status
<1>9. Holds'
    BY Zenon, <1>1, <1>3, <1>4, <1>5 DEF Holds
<1>10. irqs'.cv = <<>> /\ Irqs' = Irqs
  <2>1. irqs.cv = <<>>
      BY Zenon, <1>5 DEF IInv, Queue
  <2> QED BY Zenon, <1>1, <2>1 DEF Irqs
<1>11. Queue'
    BY Zenon, <1>3, <1>4, <1>5, <1>10 DEF Queue
<1>12. Numbered'
  <2>1. Numbered
      BY Zenon DEF IInv
  <2>2. dev.no \in Nat /\ (\A u \in AtaTasks : access[u].no \in Nat) /\ met.faulted \subseteq Nat
      BY Zenon, <1>1 DEF Typed, DriveState, AccessState, MetState
  <2>3. \A q \in Irqs : q[1] \in Nat
      BY Zenon, <1>1, IrqNumbers
  <2>4. /\ dev.no < n /\ (\A m \in met.faulted : m < n) /\ (\A q \in Irqs : q[1] < n)
        /\ \A u \in AtaTasks : access[u].no < n
      BY <1>2, <2>1, <2>2, <2>3 DEF Numbered
  <2>5. \A u \in AtaTasks : access'[u].no = IF u = t THEN n ELSE access[u].no
      BY Zenon, <1>3, <1>4
  <2>6. \A u \in AtaTasks : u # t => access'[u].pc = "idle"
      BY Zenon, <1>4, <1>5
  <2> HIDE DEF n
  <2>7. dev.no <= n /\ (\A m \in met.faulted : m <= n) /\ (\A q \in Irqs : q[1] <= n) /\ n <= n
        /\ \A u \in AtaTasks : access[u].no <= n
      BY <1>2, <2>2, <2>3, <2>4
  <2>8. ASSUME NEW u \in AtaTasks
        PROVE  /\ access'[u].no <= n
               /\ access'[u].pc # "idle" => /\ u = t /\ access'[u].no = n /\ access'[u].ret = "none"
                                           /\ \A v \in AtaTasks \ {u} : access'[v].no < n
      BY Zenon, <1>3, <1>4, <2>4, <2>5, <2>6, <2>7
  <2> QED BY Zenon, <1>1, <1>7, <1>10, <2>4, <2>7, <2>8 DEF Numbered
<1>13. Between'
    BY Zenon, <1>1, <1>5, <1>7 DEF IInv, Between, Slowed
<1>14. ASSUME NEW u \in AtaTasks PROVE Served(u)' /\ Raised(u)' /\ Ended(u)' /\ InOrder(u)'
  <2>1. CASE u = t
      BY <1>3, <1>4, <2>1 DEF Served, Raised, Ended, InOrder
  <2>2. CASE u # t
    <3>1. access'[u] = access[u] /\ access[u].pc = "idle" /\ Ended(u) /\ InOrder(u)
        BY Zenon, <1>4, <1>5, <2>2 DEF IInv, Tasks
    <3> QED BY Zenon, <1>1, <1>7, <3>1 DEF Served, Raised, Ended, InOrder, Excused, Slowed
  <2> QED BY Zenon, <2>1, <2>2
<1> QED BY Zenon, <1>8, <1>9, <1>11, <1>12, <1>13, <1>14 DEF IInv, Tasks

(* A poll that gives up. *)
LEMMA SlowFacts ==
    ASSUME Typed, GivesUp, Slow
    PROVE  still' \in StillState /\ met' \in MetState /\ Grows /\ Slowed'
<1> DEFINE E == {<<"slow", dev.no>>}
<1>1. still.slow - 1 \in Nat /\ still \in StillState /\ still' = [still EXCEPT !.slow = still.slow - 1]
    BY DEF GivesUp, Slow, Typed, StillState
<1>2. still' \in StillState
    BY Zenon, <1>1 DEF StillState
<1>3. E \in SUBSET ({"early", "stale", "slow"} \X Nat) /\ Happens(E)
    BY DEF Slow, Typed, DriveState
<1>4. met' \in MetState /\ Grows /\ E \subseteq met'.events
  <2> HIDE DEF E
  <2> QED BY Zenon, <1>3, HappensFacts
<1>5. Slowed'
    BY Zenon, <1>4 DEF Slowed
<1> QED BY Zenon, <1>2, <1>4, <1>5

(* What a return leaves typed. *)
LEMMA ReturnTyped ==
    ASSUME Typed, NEW t \in AtaTasks, NEW r \in Rets, Return(t, r)
    PROVE  access' \in [AtaTasks -> AccessState]
<1>1. access \in [AtaTasks -> AccessState] /\ access[t] \in AccessState /\ "idle" \in Pcs
    BY Zenon DEF Typed, Pcs
<1>2. access' = [access EXCEPT ![t] = [access[t] EXCEPT !.pc = "idle", !.ret = r]]
    BY ZenonT(60), <1>1 DEF Return
<1>3. [access[t] EXCEPT !.pc = "idle", !.ret = r] \in AccessState
    BY Zenon, <1>1 DEF AccessState
<1> QED BY Zenon, <1>1, <1>2, <1>3

(* A poll that gives up ends the call. *)
LEMMA GiveUpInv ==
    ASSUME IInv, NEW t \in AtaTasks, access[t].pc \in {"select", "poll"}, GivesUp, Slow, Return(t, "failed"),
           UNCHANGED <<dev, irqs>>
    PROVE  IInv'
<1>1. Typed /\ Status /\ access[t].pc # "idle" /\ dev' = dev /\ irqs' = irqs
    BY Zenon DEF IInv
<1>2. still' \in StillState /\ met' \in MetState /\ Grows /\ Slowed'
    BY Zenon, <1>1, SlowFacts
<1>3. irqs'.cv = <<>> /\ \A q \in Irqs' : q \in Irqs
    BY Zenon, <1>1, OneAtATime DEF Irqs
<1>4. Typed' /\ Status'
    BY Zenon, <1>1, <1>2, ReturnTyped DEF Typed, Status, Grows, Rets
<1> QED BY Zenon, <1>1, <1>2, <1>3, <1>4, Returns

(* A command for a drive that is not busy. *)
LEMMA CommandFacts ==
    ASSUME NEW cmd \in {"read", "write", "flush"}, NEW count \in Nat, NEW no \in Nat, ~dev.bsy,
           dev' = Command(cmd, count, no)
    PROVE  /\ dev' \in DriveState /\ dev'.cmd = cmd /\ dev'.bsy /\ ~dev'.drq /\ ~dev'.err
           /\ dev'.count = count /\ dev'.moved = 0 /\ dev'.no = no
<1>1. dev' = [cmd |-> cmd, bsy |-> TRUE, drq |-> FALSE, err |-> FALSE, count |-> count, moved |-> 0, no |-> no]
    BY Zenon DEF Command
<1>2. 0 \in Nat /\ cmd \in {"none", "read", "write", "flush"}
    BY Zenon
<1>3. dev' \in DriveState
    BY <1>1, <1>2 DEF DriveState
<1> QED BY <1>1, <1>3

(* SelectDrive *)
LEMMA SelectDriveInv ==
    ASSUME IInv, NEW t \in AtaTasks, SelectDrive(t)
    PROVE  IInv'
<1>1. Typed /\ Status /\ access[t] \in AccessState /\ access[t].pc = "select" /\ irqs' = irqs
    BY Zenon DEF IInv, Typed, SelectDrive, AccessAt
<1>2. irqs'.cv = <<>> /\ \A q \in Irqs' : q \in Irqs
    BY Zenon, <1>1, OneAtATime DEF Irqs
<1>3. CASE ~dev.bsy /\ ~dev.drq /\ SendCommand(t) /\ UNCHANGED <<holder, still, met>>
  <2>1. holder' = holder /\ still' = still /\ met' = met /\ AccessGoto(t, "poll") /\ "poll" \in Pcs
        /\ dev' = Command(access[t].type, access[t].count, access[t].no)
      BY Zenon, <1>3 DEF SendCommand, Pcs
  <2>2. access[t].type \in {"read", "write"} /\ access[t].count \in Nat /\ access[t].no \in Nat
      BY Zenon, <1>1 DEF AccessState, Types
  <2>3. /\ dev' \in DriveState /\ dev'.cmd = access[t].type /\ dev'.bsy /\ ~dev'.drq /\ ~dev'.err
        /\ dev'.count = access[t].count /\ dev'.moved = 0 /\ dev'.no = access[t].no
      BY Zenon, <1>3, <2>1, <2>2, CommandFacts
  <2>4. /\ access' \in [AtaTasks -> AccessState] /\ OthersStay(t)
        /\ access'[t].pc = "poll" /\ access'[t].no = access[t].no /\ access'[t].ret = access[t].ret
        /\ access'[t].type = access[t].type /\ access'[t].count = access[t].count
        /\ access'[t].sectors = access[t].sectors /\ access'[t].got = access[t].got
      BY Zenon, <1>1, <2>1, WakeFacts
  <2>5. Typed' /\ Status' /\ Grows
      BY Zenon, <1>1, <2>1, <2>2, <2>3, <2>4 DEF Typed, Status, Grows
  <2>6. access[t].no \notin met.faulted /\ (\A q \in Irqs : q[1] # access[t].no) /\ access[t].sectors = 0
      BY <1>1, <2>2 DEF IInv, Numbered, Tasks, Served
  <2>7. Served(t)'
      BY Zenon, <2>1, <2>3, <2>4, <2>6 DEF Served, AtPoll, Works
  <2>8. Raised(t)' /\ InOrder(t)'
      BY <1>1, <1>2, <2>4, <2>6 DEF Raised, InOrder, IInv, Tasks
  <2> QED BY Zenon, <1>1, <1>2, <2>1, <2>3, <2>4, <2>5, <2>7, <2>8, Moves
<1>4. CASE ~dev.bsy /\ dev.drq /\ Return(t, "failed") /\ UNCHANGED <<dev, still, met>>
  <2>1. Slowed
    <3>1. \A u \in AtaTasks : access[u].pc \in {"idle", "select"}
        BY Zenon, <1>1, OneAtATime
    <3> QED BY Zenon, <1>4, <3>1 DEF IInv, Between
  <2>2. Typed' /\ Status' /\ Grows /\ Slowed'
      BY Zenon, <1>1, <1>4, <2>1, ReturnTyped DEF Typed, Status, Grows, Rets, Slowed
  <2> QED BY Zenon, <1>1, <1>2, <1>4, <2>2, Returns
<1>5. CASE GivesUp /\ Slow /\ Return(t, "failed") /\ UNCHANGED dev
    BY Zenon, <1>1, <1>5, GiveUpInv
<1> QED BY Zenon, <1>3, <1>4, <1>5 DEF SelectDrive

(* The host moves a sector that the drive has or wants. *)
LEMMA MoveFacts ==
    ASSUME Typed, Status, dev.drq, dev' = MoveSector
    PROVE  /\ dev' \in DriveState /\ dev'.cmd = dev.cmd /\ ~dev'.drq /\ dev'.err = dev.err
           /\ dev'.bsy = (dev.cmd = "write" \/ dev.moved + 1 < dev.count)
           /\ dev'.count = dev.count /\ dev'.moved = dev.moved + 1 /\ dev'.no = dev.no
           /\ dev.moved \in Nat
<1> DEFINE b == dev.cmd = "write" \/ dev.moved + 1 < dev.count
           m == dev.moved + 1
<1>1. b \in BOOLEAN /\ m \in Nat /\ dev.moved \in Nat /\ dev \in DriveState
    BY DEF Typed, DriveState
<1>2. dev' = [dev EXCEPT !.drq = FALSE, !.moved = m, !.bsy = b]
    BY Zenon DEF MoveSector
<1>3. dev' = [dev EXCEPT !.drq = FALSE, !.moved = m, !.bsy = b] => dev'.bsy = b
    BY Zenon, <1>1 DEF DriveState
<1> HIDE DEF b, m
<1>4. /\ dev' \in DriveState /\ dev'.cmd = dev.cmd /\ ~dev'.drq /\ dev'.err = dev.err /\ dev'.bsy = b
      /\ dev'.count = dev.count /\ dev'.moved = m /\ dev'.no = dev.no
    BY Zenon, <1>1, <1>2 DEF DriveState
<1> QED BY Zenon, <1>1, <1>4 DEF b, m

(* PollStatus *)
LEMMA PollStatusInv ==
    ASSUME IInv, NEW t \in AtaTasks, PollStatus(t)
    PROVE  IInv'
<1>1. Typed /\ Status /\ access[t] \in AccessState /\ access[t].pc = "poll" /\ irqs' = irqs
    BY Zenon DEF IInv, Typed, PollStatus, AccessAt
<1>2. irqs'.cv = <<>> /\ \A q \in Irqs' : q \in Irqs
    BY Zenon, <1>1, OneAtATime DEF Irqs
<1>3. AtPoll(t) /\ Raised(t) /\ InOrder(t)
    BY Zenon, <1>1 DEF IInv, Tasks, Served
<1>4. CASE GivesUp /\ Slow /\ Return(t, "failed") /\ UNCHANGED dev
    BY Zenon, <1>1, <1>4, GiveUpInv
<1>5. CASE ~dev.bsy /\ dev.err /\ SectorReady(t) /\ UNCHANGED <<still, met>>
  <2>1. Return(t, "failed") /\ dev' = dev /\ still' = still /\ met' = met
      BY Zenon, <1>5 DEF SectorReady
  <2>2. Typed' /\ Status' /\ Grows
      BY Zenon, <1>1, <2>1, ReturnTyped DEF Typed, Status, Grows, Rets
  <2>3. ~dev.drq /\ access[t].no \in met.faulted
      BY Zenon, <1>1, <1>3, <1>5 DEF Status, AtPoll, Works, AccessState, Types
  <2> QED BY Zenon, <1>1, <1>2, <1>5, <2>1, <2>2, <2>3, Returns
<1>6. CASE ~dev.bsy /\ ~dev.err /\ SectorReady(t) /\ UNCHANGED <<still, met>>
  <2>1. /\ dev' = (IF access[t].type = "write" THEN MoveSector ELSE dev) /\ AccessGoto(t, "wait") /\ "wait" \in Pcs
        /\ holder' = holder /\ still' = still /\ met' = met
      BY Zenon, <1>6 DEF SectorReady, Pcs
  <2>2. dev.drq /\ Works(t) /\ access[t].no \notin met.faulted
      BY Zenon, <1>3, <1>6 DEF AtPoll, Works
  <2>3. /\ access' \in [AtaTasks -> AccessState] /\ OthersStay(t)
        /\ access'[t].pc = "wait" /\ access'[t].no = access[t].no /\ access'[t].ret = access[t].ret
        /\ access'[t].type = access[t].type /\ access'[t].count = access[t].count
        /\ access'[t].sectors = access[t].sectors /\ access'[t].got = access[t].got
      BY Zenon, <1>1, <2>1, WakeFacts
  <2>4. InOrder(t)' /\ Grows
      BY Zenon, <1>1, <1>3, <2>1, <2>3 DEF InOrder, Grows
  <2>5. CASE access[t].type = "read"
    <3>1. dev' = dev
        BY Zenon, <2>1, <2>5
    <3>2. Typed' /\ Status'
        BY Zenon, <1>1, <2>1, <2>3, <3>1 DEF Typed, Status
    <3>3. Served(t)' /\ Raised(t)'
        BY ZenonT(60), <1>3, <2>1, <2>2, <2>3, <2>5, <3>1 DEF Served, Raised, AtPoll, InWait, Works
    <3> QED BY Zenon, <1>1, <1>2, <2>1, <2>3, <2>4, <3>1, <3>2, <3>3, Moves
  <2>6. CASE access[t].type = "write"
    <3>1. dev' = MoveSector /\ dev.cmd = "write" /\ dev.moved = access[t].sectors
        BY Zenon, <1>3, <2>1, <2>6 DEF AtPoll, Works
    <3>2. /\ dev' \in DriveState /\ dev'.cmd = dev.cmd /\ ~dev'.drq /\ dev'.err = dev.err
          /\ dev'.bsy /\ dev'.count = dev.count /\ dev'.moved = dev.moved + 1 /\ dev'.no = dev.no
          /\ dev.moved \in Nat
        BY ZenonT(60), <1>1, <2>2, <3>1, MoveFacts
    <3>3. Typed' /\ Status'
        BY Zenon, <1>1, <1>6, <2>1, <2>3, <3>1, <3>2 DEF Typed, Status
    <3>4. Served(t)'
        BY Zenon, <1>3, <2>1, <2>2, <2>3, <2>6, <3>1, <3>2 DEF Served, InWait, Works
    <3>5. Raised(t)'
      <4> SUFFICES ASSUME NEW q \in Irqs', q[1] = access[t].no
                   PROVE  q[2] <= dev'.moved /\ q[2] < dev'.moved
          BY Zenon, <2>3 DEF Raised
      <4>1. q \in Irqs /\ q[2] <= dev.moved
          BY Zenon, <1>1, <1>2, <1>3, <2>6 DEF Raised
      <4>2. q[2] \in Nat
          BY Zenon, <1>1, <4>1, IrqNumbers
      <4> QED BY <3>2, <4>1, <4>2
    <3>6. dev'.no = access[t].no
        BY Zenon, <2>2, <3>2 DEF Works
    <3> QED BY Zenon, <1>1, <1>2, <2>1, <2>3, <2>4, <3>3, <3>4, <3>5, <3>6, Moves
  <2> QED BY Zenon, <1>1, <2>5, <2>6 DEF AccessState, Types
<1> QED BY Zenon, <1>4, <1>5, <1>6 DEF PollStatus

(* Who was woken leaves the queue. *)
LEMMA LeaveFacts ==
    ASSUME NEW t \in AtaTasks
    PROVE  LeaveQueue(<<>>, t) = <<>> /\ LeaveQueue(<<t>>, t) = <<>>
<1>1. {k \in 1..Len(<<>>) : <<>>[k] = t} = {}
    OBVIOUS
<1>2. {k \in 1..Len(<<t>>) : <<t>>[k] = t} # {} /\ Len(<<t>>) - 1 = 0
    OBVIOUS
<1>3. LeaveQueue(<<>>, t) = <<>>
    BY Zenon, <1>1 DEF LeaveQueue
<1>4. LeaveQueue(<<t>>, t) = <<>>
    BY <1>2 DEF LeaveQueue
<1> QED BY Zenon, <1>3, <1>4

(* ReadStatus of a drive with an error. *)
LEMMA ReadErrorInv ==
    ASSUME IInv, NEW t \in AtaTasks, ReadStatus(t), dev.err, irqs' \in IrqState, irqs'.cv = <<>>,
           \A q \in Irqs' : q \in Irqs
    PROVE  IInv'
<1>1. Typed /\ Status /\ access[t].pc = "woken"
    BY Zenon DEF IInv, ReadStatus, AccessAt
<1>2. Return(t, "failed") /\ dev' = dev /\ still' = still /\ met' = met
    BY Zenon DEF ReadStatus
<1>3. Typed' /\ Status' /\ Grows
    BY Zenon, <1>1, <1>2, ReturnTyped DEF Typed, Status, Grows, Rets
<1>4. InWait(t)
    BY Zenon, <1>1 DEF IInv, Tasks, Served
<1>5. ~dev.drq /\ ~dev.bsy /\ access[t].no \in met.faulted
    BY Zenon, <1>1, <1>4 DEF Status, InWait, Works, Typed, AccessState, Types
<1> QED BY Zenon, <1>1, <1>2, <1>3, <1>5, Returns

(* A sector is counted. *)
LEMMA TakeFacts ==
    ASSUME Typed, NEW t \in AtaTasks, TakeSector(t)
    PROVE  LET g == IF dev.drq THEN dev.moved + 1 ELSE 0
           IN  /\ access' \in [AtaTasks -> AccessState] /\ OthersStay(t) /\ holder' = holder
               /\ access'[t].pc = AfterSector(t) /\ access'[t].no = access[t].no /\ access'[t].ret = access[t].ret
               /\ access'[t].type = access[t].type /\ access'[t].count = access[t].count
               /\ access'[t].sectors = access[t].sectors + 1 /\ access'[t].got = Append(access[t].got, g)
               /\ access'[t].intr = access[t].intr
<1> DEFINE g == IF dev.drq THEN dev.moved + 1 ELSE 0
           n == access[t].sectors + 1
           l == Append(access[t].got, g)
           p == AfterSector(t)
<1>1. access \in [AtaTasks -> AccessState] /\ access[t] \in AccessState
    BY Zenon DEF Typed
<1>2. access' = [access EXCEPT ![t] = [access[t] EXCEPT !.sectors = n, !.pc = p, !.got = l]] /\ holder' = holder
    BY Zenon, <1>1 DEF TakeSector
<1>3. g \in Nat /\ n \in Nat /\ l \in Seq(Nat)
  <2>1. g \in Nat
      BY DEF Typed, DriveState
  <2>2. access[t].got \in Seq(Nat) /\ access[t].sectors \in Nat
      BY Zenon, <1>1 DEF AccessState
  <2> HIDE DEF g
  <2> QED BY <2>1, <2>2
<1>4. p \in Pcs
    BY Zenon DEF AfterSector, Pcs
<1> HIDE DEF g, n, l, p
<1>5. [access[t] EXCEPT !.sectors = n, !.pc = p, !.got = l] \in AccessState
    BY Zenon, <1>1, <1>3, <1>4 DEF AccessState
<1>6. access' \in [AtaTasks -> AccessState] /\ OthersStay(t)
      /\ access'[t] = [access[t] EXCEPT !.sectors = n, !.pc = p, !.got = l]
    BY Zenon, <1>1, <1>2, <1>5 DEF OthersStay
<1>7. /\ access'[t].pc = p /\ access'[t].no = access[t].no /\ access'[t].ret = access[t].ret
      /\ access'[t].type = access[t].type /\ access'[t].count = access[t].count
      /\ access'[t].sectors = n /\ access'[t].got = l /\ access'[t].intr = access[t].intr
    BY Zenon, <1>1, <1>6 DEF AccessState
<1> QED BY Zenon, <1>2, <1>6, <1>7 DEF g, n, l, p

(* The host copies a sector that the drive has, or hands no more over. *)
LEMMA TakenDrive ==
    ASSUME IInv, NEW t \in AtaTasks, access[t].pc = "woken", ~dev.err, TakeSector(t)
    PROVE  /\ dev' \in DriveState /\ ~dev'.err /\ dev'.no = access[t].no /\ dev'.cmd = access[t].type
           /\ dev'.count = access[t].count /\ dev'.moved = access[t].sectors + 1
           /\ access[t].type = "read" => /\ dev.drq /\ dev.moved = access[t].sectors
                                         /\ ~dev'.drq /\ (dev'.bsy <=> dev'.moved < dev'.count)
           /\ access[t].type = "write" => dev' = dev
           /\ dev'.moved < dev'.count => dev'.bsy \/ dev'.drq
           /\ Status /\ Works(t) /\ (Excused(t) \/ access[t].type = "read" \/ ~dev.bsy)
<1>1. Typed /\ Status /\ InWait(t) /\ Works(t) /\ access[t].type \in Types /\ dev \in DriveState
    BY Zenon DEF IInv, Tasks, Served, InWait, Typed, AccessState
<1>2. CASE access[t].type = "read"
  <2>1. dev' = MoveSector /\ dev.drq /\ dev.moved = access[t].sectors /\ dev.cmd = "read"
      BY Zenon, <1>1, <1>2 DEF TakeSector, InWait, Works
  <2>2. /\ dev' \in DriveState /\ dev'.cmd = dev.cmd /\ ~dev'.drq /\ dev'.err = dev.err
        /\ dev'.bsy = (dev.cmd = "write" \/ dev.moved + 1 < dev.count)
        /\ dev'.count = dev.count /\ dev'.moved = dev.moved + 1 /\ dev'.no = dev.no
      BY Zenon, <1>1, <2>1, MoveFacts
  <2> QED BY Zenon, <1>1, <1>2, <2>1, <2>2 DEF Works
<1>3. CASE access[t].type = "write"
    BY Zenon, <1>1, <1>3 DEF TakeSector, InWait, Works
<1> QED BY Zenon, <1>1, <1>2, <1>3 DEF Types

(* ReadStatus of a drive without an error. *)
LEMMA ReadSectorInv ==
    ASSUME IInv, NEW t \in AtaTasks, ReadStatus(t), ~dev.err, irqs' \in IrqState, irqs'.cv = <<>>,
           \A q \in Irqs' : q \in Irqs
    PROVE  IInv'
<1>1. access[t].pc = "woken" /\ TakeSector(t) /\ still' = still /\ met' = met
    BY Zenon DEF ReadStatus, AccessAt
<1>2. Typed /\ access[t].sectors \in Nat /\ access[t].count \in Nat /\ access[t].got \in Seq(Nat)
      /\ access[t].type \in Types /\ Raised(t) /\ InOrder(t)
    BY Zenon DEF IInv, Typed, AccessState, Tasks
<1>3. /\ dev' \in DriveState /\ ~dev'.err /\ dev'.no = access[t].no /\ dev'.cmd = access[t].type
      /\ dev'.count = access[t].count /\ dev'.moved = access[t].sectors + 1
      /\ access[t].type = "read" => /\ dev.drq /\ dev.moved = access[t].sectors
                                    /\ ~dev'.drq /\ (dev'.bsy <=> dev'.moved < dev'.count)
      /\ access[t].type = "write" => dev' = dev
      /\ dev'.moved < dev'.count => dev'.bsy \/ dev'.drq
      /\ Status /\ Works(t) /\ (Excused(t) \/ access[t].type = "read" \/ ~dev.bsy)
    BY Zenon, <1>1, TakenDrive
<1> DEFINE g == IF dev.drq THEN dev.moved + 1 ELSE 0
<1>4. /\ access' \in [AtaTasks -> AccessState] /\ OthersStay(t) /\ holder' = holder
      /\ access'[t].pc = AfterSector(t) /\ access'[t].no = access[t].no /\ access'[t].ret = access[t].ret
      /\ access'[t].type = access[t].type /\ access'[t].count = access[t].count
      /\ access'[t].sectors = access[t].sectors + 1 /\ access'[t].got = Append(access[t].got, g)
      /\ access'[t].intr = access[t].intr
    BY Zenon, <1>1, <1>2, TakeFacts
<1>5. Typed' /\ Status' /\ Grows
  <2>1. access[t].type = "read" \/ access[t].type = "write"
      BY Zenon, <1>2 DEF Types
  <2> QED BY Zenon, <1>1, <1>2, <1>3, <1>4, <2>1 DEF Typed, Status, Grows, Types
<1>6. Works(t)' /\ (Excused(t) => Excused(t)')
    BY Zenon, <1>1, <1>3, <1>4 DEF Works, Excused
<1>7. /\ access'[t].pc \in {"poll", "flush", "end"}
      /\ access'[t].pc = "poll" => access[t].sectors + 1 < access[t].count
      /\ access'[t].pc = "flush" <=> access[t].type = "write" /\ access'[t].pc # "poll"
    BY Zenon, <1>4 DEF AfterSector
<1>8. Served(t)'
  <2>1. ASSUME access'[t].pc = "poll" PROVE AtPoll(t)'
      BY Zenon, <1>3, <1>4, <1>6, <1>7, <2>1 DEF AtPoll
  <2>2. ASSUME access'[t].pc = "flush" PROVE AtFlush(t)'
      BY <1>2, <1>3, <1>4, <1>6, <1>7, <2>2 DEF AtFlush
  <2>3. ASSUME access'[t].pc = "end" PROVE AtEnd(t)'
      BY <1>2, <1>3, <1>4, <1>6, <1>7, <2>3 DEF AtEnd, Types
  <2> QED BY Zenon, <1>7, <2>1, <2>2, <2>3 DEF Served
<1>9. Raised(t)'
    BY Zenon, <1>1, <1>2, <1>3, <1>4 DEF Raised
<1>10. InOrder(t)'
  <2>1. access[t].type = "read" => g = access[t].sectors + 1
      BY Zenon, <1>3
  <2> HIDE DEF g
  <2>2. /\ Len(access'[t].got) = Len(access[t].got) + 1
        /\ \A k \in 1..Len(access[t].got) : access'[t].got[k] = access[t].got[k]
        /\ access'[t].got[Len(access[t].got) + 1] = g
      BY <1>2, <1>4
  <2>3. ASSUME access[t].type = "read"
        PROVE  /\ Len(access[t].got) = access[t].sectors /\ g = Len(access[t].got) + 1
               /\ \A k \in 1..Len(access[t].got) : access[t].got[k] = k
      BY Zenon, <1>1, <1>2, <2>1, <2>3 DEF InOrder
  <2>4. Len(access[t].got) \in Nat
      BY <1>2
  <2> QED BY <1>4, <2>2, <2>3, <2>4 DEF InOrder
<1> QED BY Zenon, <1>1, <1>3, <1>4, <1>5, <1>7, <1>8, <1>9, <1>10, Moves

(* ReadStatus *)
LEMMA ReadStatusInv ==
    ASSUME IInv, NEW t \in AtaTasks, ReadStatus(t)
    PROVE  IInv'
<1>1. irqs \in IrqState /\ access[t].pc = "woken" /\ irqs' = [irqs EXCEPT !.cv = LeaveQueue(irqs.cv, t)]
    BY Zenon DEF IInv, Typed, ReadStatus, AccessAt
<1>2. LeaveQueue(irqs.cv, t) = <<>> /\ <<>> \in Seq(AtaTasks)
  <2>1. access[t].pc # "idle"
      BY Zenon, <1>1
  <2>2. irqs.cv = <<>> \/ irqs.cv = <<t>>
      BY Zenon, <2>1, OneAtATime
  <2>3. <<>> \in Seq(AtaTasks)
      OBVIOUS
  <2> QED BY Zenon, <2>2, <2>3, LeaveFacts
<1>3. irqs' \in IrqState /\ irqs'.cv = <<>> /\ irqs'.batch = irqs.batch /\ irqs'.pending = irqs.pending
    BY Zenon, <1>1, <1>2 DEF IrqState
<1>4. \A q \in Irqs' : q \in Irqs
    BY Zenon, <1>3 DEF Irqs
<1> QED BY Zenon, <1>3, <1>4, ReadErrorInv, ReadSectorInv

(* FlushCache: a drive that is busy with a write takes no flush, and the access is excused. *)
LEMMA FlushCacheInv ==
    ASSUME IInv, NEW t \in AtaTasks, FlushCache(t)
    PROVE  IInv'
<1>1. Typed /\ Status /\ access[t] \in AccessState /\ access[t].pc = "flush" /\ AtFlush(t) /\ "flushing" \in Pcs
      /\ dev' = Command("flush", 0, access[t].no) /\ AccessGoto(t, "flushing")
      /\ holder' = holder /\ irqs' = irqs /\ still' = still /\ met' = met
    BY Zenon DEF IInv, Typed, FlushCache, AccessAt, Tasks, Served, Pcs
<1>2. irqs'.cv = <<>> /\ \A q \in Irqs' : q \in Irqs
    BY Zenon, <1>1, OneAtATime DEF Irqs
<1>3. /\ access' \in [AtaTasks -> AccessState] /\ OthersStay(t)
      /\ access'[t].pc = "flushing" /\ access'[t].no = access[t].no /\ access'[t].ret = access[t].ret
      /\ access'[t].type = access[t].type /\ access'[t].count = access[t].count
      /\ access'[t].sectors = access[t].sectors /\ access'[t].intr = access[t].intr
    BY Zenon, <1>1, WakeFacts
<1>4. /\ dev' \in DriveState /\ Status' /\ dev'.no = access[t].no
      /\ \/ dev'.cmd = "flush"
         \/ dev' = dev /\ dev.bsy
  <2>1. CASE dev.bsy
    <3>1. dev' = dev
        BY Zenon, <1>1, <2>1 DEF Command
    <3> QED BY Zenon, <1>1, <2>1, <3>1 DEF Typed, Status, AtFlush, Works
  <2>2. CASE ~dev.bsy
    <3>1. 0 \in Nat /\ access[t].no \in Nat
        BY Zenon, <1>1 DEF AccessState
    <3>2. /\ dev' \in DriveState /\ dev'.cmd = "flush" /\ dev'.bsy /\ ~dev'.drq /\ ~dev'.err
          /\ dev'.no = access[t].no
        BY Zenon, <1>1, <2>2, <3>1, CommandFacts
    <3> QED BY Zenon, <3>2 DEF Status
  <2> QED BY Zenon, <2>1, <2>2
<1>5. Typed' /\ Grows
    BY Zenon, <1>1, <1>3, <1>4 DEF Typed, Grows
<1>6. AtFlushing(t)'
  <2>1. Excused(t) => Excused(t)'
      BY Zenon, <1>1, <1>3 DEF Excused
  <2>2. (dev.bsy => ~dev.err) /\ (access[t].no \in met.faulted => dev.err) /\ access[t].sectors > 0
      BY Zenon, <1>1 DEF Status, AtFlush, Works
  <2> QED BY Zenon, <1>1, <1>3, <1>4, <2>1, <2>2 DEF AtFlush, AtFlushing, Works
<1>7. Served(t)' /\ Raised(t)' /\ InOrder(t)'
    BY Zenon, <1>1, <1>3, <1>6 DEF Served, Raised, InOrder, AtFlush
<1> QED BY Zenon, <1>1, <1>2, <1>3, <1>4, <1>5, <1>7, Moves

(* The drive that an access with all its sectors leaves: it moved the last one. *)
LEMMA AllMoved ==
    ASSUME IInv, NEW t \in AtaTasks, access[t].sectors = access[t].count,
           access[t].pc = "end" \/ access[t].pc = "flushing"
    PROVE  /\ ~dev.drq /\ (access[t].no \in met.faulted => Excused(t))
           /\ access[t].pc = "end" => ~dev.bsy
           /\ dev.bsy /\ dev.cmd # "flush" => Excused(t)
<1>1. Status /\ Served(t) /\ access[t].sectors \in Nat
    BY Zenon DEF IInv, Tasks, Typed, AccessState
<1>2. CASE access[t].pc = "end"
    BY Zenon, <1>1, <1>2 DEF Served, AtEnd, Works
<1>3. CASE access[t].pc = "flushing"
    BY <1>1, <1>3 DEF Served, AtFlushing, Status, Types
<1> QED BY Zenon, <1>2, <1>3

(* EndAccess *)
LEMMA EndAccessInv ==
    ASSUME IInv, NEW t \in AtaTasks, EndAccess(t)
    PROVE  IInv'
<1> DEFINE r == IF access[t].sectors = access[t].count THEN "all" ELSE "part"
<1>1. Typed /\ Status /\ Flushed(t) /\ Return(t, r) /\ irqs' = irqs
      /\ dev' = IF access[t].sectors # access[t].count THEN IdleDrive ELSE dev
    BY Zenon DEF IInv, EndAccess
<1>2. /\ access[t].pc = "end" \/ access[t].pc = "flushing"
      /\ (still' = still /\ met' = met /\ (access[t].pc = "end" \/ ~dev.bsy)) \/ (GivesUp /\ Slow)
    BY Zenon, <1>1 DEF Flushed, AccessAt
<1>3. irqs'.cv = <<>> /\ \A q \in Irqs' : q \in Irqs
    BY Zenon, <1>1, <1>2, OneAtATime DEF Irqs
<1>4. /\ still' \in StillState /\ met' \in MetState /\ Grows
      /\ access[t].pc = "end" \/ ~dev.bsy \/ Slowed'
    BY Zenon, <1>1, <1>2, SlowFacts DEF Typed, Grows
<1>5. r \in Rets
    BY Zenon DEF Rets
<1>6. access' \in [AtaTasks -> AccessState]
  <2> HIDE DEF r
  <2> QED BY Zenon, <1>1, <1>5, ReturnTyped
<1>7. CASE access[t].sectors # access[t].count
  <2>1. dev' \in DriveState /\ ~dev'.bsy /\ ~dev'.drq /\ ~dev'.err /\ dev'.no = 0
      BY Zenon, <1>1, <1>7 DEF IdleDrive, DriveState
  <2>2. Typed' /\ Status' /\ 0 <= met.accesses
      BY <1>1, <1>4, <1>6, <2>1 DEF Typed, Status, MetState
  <2> QED BY Zenon, <1>1, <1>2, <1>3, <1>4, <1>7, <2>1, <2>2, Returns
<1>8. CASE access[t].sectors = access[t].count
  <2>1. dev' = dev
      BY Zenon, <1>1, <1>8
  <2>2. Typed' /\ Status'
      BY Zenon, <1>1, <1>4, <1>6, <2>1 DEF Typed, Status, Grows
  <2>3. /\ ~dev.drq /\ (access[t].no \in met.faulted => Excused(t))
        /\ access[t].pc = "end" => ~dev.bsy
        /\ dev.bsy /\ dev.cmd # "flush" => Excused(t)
      BY Zenon, <1>2, <1>8, AllMoved
  <2> QED BY Zenon, <1>1, <1>2, <1>3, <1>4, <1>8, <2>1, <2>2, <2>3, Returns
<1> QED BY Zenon, <1>7, <1>8

-----------------------------------------------------------------------------
(* The invariant *)

(* Nobody uses the bus at boot. *)
LEMMA InitInv == AtaInit => IInv
<1> SUFFICES ASSUME AtaInit PROVE IInv
    BY Zenon
<1>1. Typed
  <2>1. dev \in DriveState
      BY Zenon DEF AtaInit, IdleDrive, DriveState
  <2>2. NoAccess \in AccessState
      BY DEF NoAccess, AccessState, Pcs, Types, Rets
  <2>3. irqs \in IrqState
      BY DEF AtaInit, IrqState
  <2>4. met \in MetState
      BY Zenon DEF AtaInit, MetState
  <2>5. still \in StillState
      BY Zenon, AtaAssumption DEF AtaInit, StillState
  <2> QED BY Zenon, <2>1, <2>2, <2>3, <2>4, <2>5 DEF AtaInit, Typed
<1>2. /\ dev = IdleDrive /\ holder = NoTask /\ (\A t \in AtaTasks : access[t] = NoAccess)
      /\ irqs.cv = <<>> /\ Irqs = {} /\ met.faulted = {} /\ met.accesses = 0
    BY DEF AtaInit, Irqs
<1>3. Holds /\ Queue
    BY <1>2, AtaAssumption DEF Holds, Queue, NoAccess
<1>4. Numbered /\ Status /\ Between
    BY <1>2 DEF Numbered, Status, Between, NoAccess, IdleDrive
<1>5. Tasks
  <2>1. NoAccess.pc = "idle" /\ NoAccess.ret = "none" /\ NoAccess.got = <<>>
      BY Zenon DEF NoAccess
  <2>2. ASSUME NEW t \in AtaTasks PROVE Served(t) /\ Raised(t) /\ Ended(t)
      BY Zenon, <1>2, <2>1 DEF Served, Raised, Ended
  <2>3. ASSUME NEW t \in AtaTasks PROVE InOrder(t)
    <3>1. access[t].got = <<>> /\ access[t].pc = "idle"
        BY Zenon, <1>2, <2>1
    <3> QED BY <3>1 DEF InOrder
  <2> QED BY Zenon, <2>2, <2>3 DEF Tasks
<1> QED BY Zenon, <1>1, <1>3, <1>4, <1>5 DEF IInv

(* Every step of the drive and of the tasks keeps the invariant. *)
LEMMA NextInv == IInv /\ [AtaNext]_ataVars => IInv'
<1> SUFFICES ASSUME IInv, [AtaNext]_ataVars PROVE IInv'
    BY Zenon
<1>1. CASE DriveWorks \/ DriveFails \/ NotifyThread
    BY Zenon, <1>1, DriveWorksInv, DriveFailsInv, TakeIrqsInv, NotifyWaiterInv DEF NotifyThread
<1>2. ASSUME NEW t \in AtaTasks, AccessStep(t) \/ SignalAccess(t) PROVE IInv'
    BY Zenon, <1>2, AccessDriveSectorsInv, SelectDriveInv, PollStatusInv, WaitForIrqInv, ReadStatusInv,
       FlushCacheInv, EndAccessInv, SignalAccessInv DEF AccessStep
<1>3. CASE UNCHANGED ataVars
  <2>1. dev' = dev /\ access' = access /\ holder' = holder /\ irqs' = irqs /\ still' = still /\ met' = met
      BY Zenon, <1>3 DEF ataVars
  <2>2. Typed' /\ Grows /\ \A q \in Irqs' : q \in Irqs
      BY Zenon, <2>1 DEF IInv, Typed, Grows, Irqs
  <2> QED BY Zenon, <2>1, <2>2, Passed
<1> QED BY Zenon, <1>1, <1>2, <1>3 DEF AtaNext

(* The invariant says what AccessIsHonest does. *)
LEMMA InvHonest == IInv => AccessIsHonest
<1> SUFFICES ASSUME IInv PROVE AccessIsHonest
    BY Zenon
<1>1. AtaTypeOK
  <2>1. dev \in [cmd : {"none", "read", "write", "flush"}, bsy : BOOLEAN, drq : BOOLEAN, err : BOOLEAN,
                 count : Nat, moved : Nat, no : Nat]
      BY Zenon DEF IInv, Typed, DriveState
  <2>2. ~(dev.bsy /\ dev.drq) /\ \A t \in AtaTasks : holder = t <=> access[t].pc # "idle"
      BY Zenon DEF IInv, Status, Holds
  <2>3. (\A i \in 1..Len(irqs.cv) : access[irqs.cv[i]].pc \in {"waiting", "woken"}) /\ Len(irqs.cv) <= 1
    <3>1. CASE irqs.cv = <<>>
        BY <3>1
    <3>2. ASSUME NEW t \in AtaTasks, irqs.cv = <<t>>, access[t].pc \in {"waiting", "woken"}
          PROVE  (\A i \in 1..Len(irqs.cv) : access[irqs.cv[i]].pc \in {"waiting", "woken"}) /\ Len(irqs.cv) <= 1
        BY <3>2
    <3> QED BY Zenon, <3>1, <3>2 DEF IInv, Queue
  <2> QED BY Zenon, <2>1, <2>2, <2>3 DEF AtaTypeOK
<1>2. SectorsComeInOrder
    BY Zenon DEF IInv, Tasks, InOrder, SectorsComeInOrder
<1>3. FaultsAreReported
    BY Zenon DEF IInv, Tasks, Ended, Excused, FaultsAreReported
<1>4. FailuresExplained
    BY Zenon DEF IInv, Tasks, Ended, Slowed, FailuresExplained
<1> QED BY Zenon, <1>1, <1>2, <1>3, <1>4 DEF AccessIsHonest

(***************************************************************************)
(* What access_drive_sectors returns is what happened, for any number of   *)
(* tasks and sectors, and wherever signals, faults, timeouts and late IRQs *)
(* come: the k-th sector that a read copies is the k-th of the drive, an   *)
(* access that reports all its sectors met no error unless a signal or the *)
(* IRQ of another sector ended a wait of it, and one that fails has a      *)
(* reason.                                                                 *)
(***************************************************************************)
THEOREM AccessHonest == AtaSpec => []AccessIsHonest
<1>1. IInv => AccessIsHonest
    BY Zenon, InvHonest
<1> QED BY <1>1, InitInv, NextInv, PTL DEF AtaSpec
==============================================================================
