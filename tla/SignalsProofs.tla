--------------------------- MODULE SignalsProofs ---------------------------
(***************************************************************************)
(* That a program which signals stop goes on as if they had not, proved    *)
(* for every set of signals, every action that sigaction may set and every *)
(* number of signals and calls.                                            *)
(***************************************************************************)
EXTENDS Signals, TLAPS

Threads == [mode : {"user", "entry", "call", "wait", "killed", "panic"}, sig : Sigs \cup {NoSig},
            mask : SUBSET Sigs, oldMask : SUBSET Sigs, queue : Seq(Sigs), frame : Regs, saved : Regs,
            interruptible : BOOLEAN, interrupted : BOOLEAN]
Processes == [disp : [Sigs -> SigActions], pending : Seq(Sigs), alarm : 0..MaxAlarm]
SystemCalls == [op : Ops \cup {"none"}, step : 0..2, before : Sigs \cup {NoSig}, main : BOOLEAN,
                mask : SUBSET Sigs, regs : Regs, early : BOOLEAN]
Programs == [mask : SUBSET Sigs, rax : {"user", "call", "result", "zero"},
             events : SUBSET {"reset", "maskrace", "forked", "waited"}, lost : BOOLEAN]
Bounds == [sent : Nat, calls : Nat]

Types ==
    /\ th \in Threads /\ sp \in Processes /\ call \in SystemCalls
    /\ budget \in Bounds /\ prog \in Programs

InKernel == th.mode \in {"call", "wait"}
Quiet == "forked" \notin prog.events /\ "maskrace" \notin prog.events
Code == {"dfl", "ign"}

(* Only a signal that is masked, or that came during a handler, waits in a queue; one whose handler
   is not code has been changed there.  What the flags of the thread say. *)
QueueInv ==
    /\ NothingDeliverableWaits
    /\ \A s \in Waiting(th, sp) : sp.disp[s].handler = "fn" \/ "reset" \in prog.events
    /\ FlagHasASignal
    /\ WaitsAreInterrupted
    /\ th.mode = "wait" /\ call.op # "lock" => th.interruptible
    /\ Running /\ th.interruptible =>
         "waited" \in prog.events \/ (call.op = "block" /\ call.step = 1 /\ InKernel)

(* The main program runs without a signal; while it is in a call, or stopped by a signal, its
   registers hold its result, or will when the call ends, unless a signal hit the entry. *)
ResumeInv ==
    /\ Running /\ th.frame.rip = Main => th.sig = NoSig
    /\ ResumesWithResult
    /\ th.mode = "user" /\ th.sig # NoSig /\ th.saved.rip = Main => th.saved.rax = prog.rax \/ prog.lost
    /\ InKernel /\ call.main =>
         call.op # "sigreturn" /\ (call.before = NoSig \/ (prog.lost /\ th.sig = call.before))
    /\ InKernel /\ th.sig # NoSig /\ th.saved.rip = Main =>
         IF call.before = NoSig THEN call.main ELSE th.saved.rax = prog.rax \/ prog.lost
    /\ InKernel /\ th.frame.rip = Main =>
         \/ call.main
         \/ /\ call.op = "sigreturn" /\ call.step = 2 /\ call.before # NoSig
            /\ th.frame.rax = prog.rax \/ prog.lost
    /\ InKernel /\ call.op = "fork" /\ call.step = 1 /\ call.regs.rip = Main => call.main

(* Between the entry of a call and the reading of the signal *)
EntryInv ==
    th.mode = "entry" =>
      /\ call.step = 0
      /\ call.main => call.op # "sigreturn" /\ (th.sig = NoSig \/ prog.lost)
      /\ th.frame.rip = Main => call.main
      /\ th.sig # NoSig /\ th.saved.rip = Main => prog.lost \/ th.saved.rax = prog.rax

(* The mask of the main program is in the thread, or saved while a handler runs. *)
MaskInv ==
    /\ Running /\ Quiet =>
         prog.mask = IF th.sig = NoSig THEN th.mask ELSE th.oldMask
    /\ InKernel /\ Quiet /\ call.op = "sigprocmask" /\ call.step < 2 =>
         th.sig = call.before
    /\ (InKernel \/ th.mode = "entry") /\ call.main /\ call.op = "sigprocmask" /\ prog.lost => ~Quiet

(* Unless it was forked there, a thread in a handler has the signal, and returns to the main
   program; handlers are code of the program. *)
HandlerInv ==
    /\ Running /\ th.frame.rip # Main => th.sig # NoSig \/ "forked" \in prog.events
    /\ Running /\ th.sig # NoSig => th.saved.rip = Main \/ "forked" \in prog.events
    /\ ReturnsHaveASignal
    /\ {th.frame.rip, th.saved.rip, call.regs.rip} \cap Code # {} => "reset" \in prog.events

IInv == Types /\ QueueInv /\ ResumeInv /\ EntryInv /\ MaskInv /\ HandlerInv

-----------------------------------------------------------------------------
(* Delivery *)

(* A signal s was given to the thread t without one, which is now u: its registers are saved and
   it is at rip, its mask is saved, and an interruptible wait is over. *)
Given(t, u, s, rip) ==
    /\ u \in Threads
    /\ u.sig = s /\ u.oldMask = t.mask /\ u.saved = t.frame
    /\ u.frame.rip = rip /\ u.frame.rax = t.frame.rax
    /\ u.interruptible = t.interruptible

(* prepare_signal_handle changes the registers only. *)
PreparedFor(t, u, rip) ==
    /\ u \in Threads
    /\ u.mode = t.mode /\ u.sig = t.sig /\ u.mask = t.mask /\ u.oldMask = t.oldMask
    /\ u.queue = t.queue /\ u.interruptible = t.interruptible /\ u.interrupted = t.interrupted
    /\ u.saved = t.frame /\ u.frame.rax = t.frame.rax /\ u.frame.rip = rip

(* PrepareSignalHandle does that, with the handler of the signal. *)
LEMMA Prepared ==
    ASSUME NEW t \in Threads, NEW disp \in [Sigs -> SigActions], NEW s \in Sigs
    PROVE  PreparedFor(t, PrepareSignalHandle(t, disp, s), IF disp[s].handler = "fn" THEN s ELSE disp[s].handler)
    BY Zenon DEF PreparedFor, PrepareSignalHandle, Threads, SigActions, Regs, Rips

Sent(t, p, r, s) ==
    /\ Given(t, r.th, s, s)
    /\ r.th.mode = IF t.mode = "wait" /\ t.interruptible THEN "call" ELSE t.mode
    /\ r.th.queue = t.queue
    /\ r.sp \in Processes /\ r.sp.pending = p.pending

(* send_signal_to_task takes a signal that has a handler. *)
LEMMA SendGives ==
    ASSUME NEW t \in Threads, NEW p \in Processes, NEW s \in Sigs, p.disp[s].handler = "fn",
           NEW r, r = SendSignalToTask(t, p, s)
    PROVE  Sent(t, p, r, s)
<1> DEFINE a == [t EXCEPT !.sig = s, !.oldMask = t.mask, !.interrupted = TRUE,
                          !.mask = Masked(@, p.disp[s], s),
                          !.mode = IF @ = "wait" /\ t.interruptible THEN "call" ELSE @]
           q == IF p.disp[s].reset THEN [p EXCEPT !.disp[s].handler = "dfl"] ELSE p
<1>1. p.disp \in [Sigs -> SigActions] /\ p.disp[s] \in SigActions
    BY DEF Processes
<1>2. a \in Threads
    BY Zenon, <1>1 DEF Threads, Masked, SigActions
<1>3. /\ a.sig = s /\ a.oldMask = t.mask /\ a.frame = t.frame /\ a.interruptible = t.interruptible
      /\ a.mode = IF t.mode = "wait" /\ t.interruptible THEN "call" ELSE t.mode
      /\ a.queue = t.queue /\ a.interrupted
    BY DEF Threads
<1>4. q \in Processes /\ q.pending = p.pending
    BY Zenon, <1>1 DEF Processes, SigActions
<1> HIDE DEF a, q
<1>5. r.th = PrepareSignalHandle(a, p.disp, s) /\ r.sp = q
    BY Zenon DEF SendSignalToTask, a, q
<1>6. PreparedFor(a, r.th, s)
    BY Zenon, <1>1, <1>2, <1>5, Prepared
<1>7. Given(t, r.th, s, s)
    BY Zenon, <1>3, <1>6 DEF Given, PreparedFor
<1> QED BY Zenon, <1>3, <1>4, <1>5, <1>6, <1>7 DEF PreparedFor, Sent

(* The elements of a queue *)
Elements(q) == {q[k] : k \in DOMAIN q}

(* An element that is appended *)
LEMMA AppendedQueue ==
    ASSUME NEW q \in Seq(Sigs), NEW s \in Sigs
    PROVE  /\ Append(q, s) \in Seq(Sigs) /\ Elements(Append(q, s)) \subseteq Elements(q) \cup {s}
           /\ Elements(q) \subseteq Elements(Append(q, s))
    BY DEF Elements

(* What erase makes of a queue are signals of that queue; it keeps the others if there are at most
   two in it. *)
LEMMA ErasedQueue ==
    ASSUME NEW q \in Seq(Sigs), NEW k \in DOMAIN q
    PROVE  /\ EraseAt(q, k) \in Seq(Sigs) /\ Elements(EraseAt(q, k)) \subseteq Elements(q)
           /\ Len(q) <= 2 => Elements(q) \subseteq Elements(EraseAt(q, k)) \cup {q[k]}
<1> DEFINE n == Len(q) - 1
           e == EraseAt(q, k)
<1>1. n \in Nat /\ k \in 1..(n + 1) /\ DOMAIN q = 1..(n + 1) /\ InfoWords \in Nat \ {0}
    BY SignalsAssumption
<1>2. \A j \in 1..n : j \in DOMAIN q /\ j + 1 \in DOMAIN q
    BY <1>1
<1>3. e = [j \in 1..n |-> IF j >= k /\ (j - k) * InfoWords < Len(q) - k THEN q[j + 1] ELSE q[j]]
    BY Zenon DEF EraseAt
<1>4. DOMAIN e = 1..n /\ \A j \in 1..n : e[j] = IF j >= k /\ (j - k) * InfoWords < Len(q) - k THEN q[j + 1] ELSE q[j]
    BY Zenon, <1>3
<1> HIDE DEF e
<1>5. \A j \in 1..n : e[j] \in Elements(q) /\ e[j] \in Sigs
  <2> TAKE j \in 1..n
  <2>1. \A i \in DOMAIN q : q[i] \in Elements(q) /\ q[i] \in Sigs
      BY DEF Elements
  <2> HIDE DEF n
  <2> QED BY Zenon, <1>2, <1>4, <2>1
<1>6. e \in Seq(Sigs)
  <2>1. e \in [1..n -> Sigs]
    <3>1. e = [j \in 1..n |-> e[j]]
        BY Zenon, <1>3, <1>4
    <3> HIDE DEF n
    <3> QED BY Zenon, <1>5, <3>1
  <2> QED BY <1>1, <2>1
<1>7. Elements(e) \subseteq Elements(q)
    BY Zenon, <1>4, <1>5 DEF Elements
<1>8. ASSUME Len(q) <= 2, NEW i \in DOMAIN q, i # k PROVE q[i] \in Elements(e)
  <2>1. Len(q) = 2 /\ n = 1 /\ 1 \in 1..n /\ Len(q) - k \in {0, 1}
      BY <1>1, <1>8
  <2>2. CASE k = 1
    <3>1. i = 2 /\ 1 >= k /\ (1 - k) * InfoWords < Len(q) - k
        BY <1>1, <1>8, <2>1, <2>2
    <3>2. e[1] = q[1 + 1]
        BY Zenon, <1>4, <2>1, <3>1
    <3>3. q[1 + 1] = q[i]
        BY <3>1
    <3> QED BY Zenon, <1>4, <2>1, <3>2, <3>3 DEF Elements
  <2>3. CASE k = 2
    <3>1. i = 1 /\ ~(1 >= k)
        BY <1>1, <1>8, <2>1, <2>3
    <3> QED BY Zenon, <1>4, <2>1, <3>1 DEF Elements
  <2> QED BY <1>1, <2>1, <2>2, <2>3
<1>9. Len(q) <= 2 => Elements(q) \subseteq Elements(e) \cup {q[k]}
    BY Zenon, <1>8 DEF Elements
<1> QED BY Zenon, <1>6, <1>7, <1>9 DEF e

LOCAL INSTANCE WellFoundedInduction

(* The first of a queue that is not masked *)
LEMMA FirstIsThere ==
    ASSUME NEW q \in Seq(Sigs), NEW mask, Unmasked(q, mask) # {}
    PROVE  FirstOf(q, mask) \in DOMAIN q /\ q[FirstOf(q, mask)] \in Elements(q)
<1> DEFINE T == Unmasked(q, mask)
           R == {ss \in Nat \X Nat : ss[1] < ss[2]}
<1>1. T # {} /\ T \subseteq Nat /\ T \subseteq DOMAIN q
    BY DEF Unmasked
<1>2. IsWellFoundedOn(R, Nat)
    BY Zenon, NatLessThanWellFounded DEF OpToRel
<1>3. PICK x \in T : \A y \in T : ~ (<<y, x>> \in R)
  <2> HIDE DEF R, T
  <2> QED BY Zenon, <1>1, <1>2, WFMin
<1>4. ASSUME NEW y \in T PROVE x <= y
  <2>1. ~(y < x)
    <3>1. <<y, x>> \in Nat \X Nat /\ (y < x => <<y, x>>[1] < <<y, x>>[2])
        BY Zenon, <1>1, <1>4
    <3> QED BY Zenon, <3>1, <1>3, <1>4
  <2>2. x \in Nat /\ y \in Nat
      BY Zenon, <1>1, <1>4
  <2> HIDE DEF T, R
  <2> QED BY <2>1, <2>2
<1>5. FirstOf(q, mask) \in T
    BY Zenon, <1>4 DEF FirstOf
<1> QED BY Zenon, <1>1, <1>5 DEF Elements

(* get_next_signal_info takes a signal of a queue, or there is none that it could take. *)
LEMMA NextGives ==
    ASSUME NEW t \in Threads, NEW p \in Processes, NEW r, r = NextSignal(t, p)
    PROVE  \/ r.th = t /\ r.sp = p /\ Waiting(t, p) \subseteq t.mask
           \/ \E s \in Waiting(t, p) :
                /\ Given(t, r.th, s, IF p.disp[s].handler = "fn" THEN s ELSE p.disp[s].handler)
                /\ r.th.mode = t.mode /\ r.th.interrupted = t.interrupted
                /\ r.sp \in Processes /\ r.sp.disp = p.disp /\ Waiting(r.th, r.sp) \subseteq Waiting(t, p)
                /\ Len(t.queue) <= 2 /\ Len(p.pending) <= 2 => Waiting(t, p) \subseteq Waiting(r.th, r.sp) \cup {s}
<1> DEFINE Handle(u, o, s) ==
             [th |-> PrepareSignalHandle([u EXCEPT !.sig = s, !.oldMask = u.mask,
                                                   !.mask = @ \cup o.disp[s].mask], o.disp, s),
              sp |-> o]
<1>1. ASSUME NEW u \in Threads, NEW o \in Processes, NEW s \in Sigs, r = Handle(u, o, s),
             u.mask = t.mask, u.frame = t.frame, u.interruptible = t.interruptible, u.mode = t.mode,
             u.interrupted = t.interrupted, o.disp = p.disp
      PROVE  /\ Given(t, r.th, s, IF p.disp[s].handler = "fn" THEN s ELSE p.disp[s].handler)
             /\ r.th.mode = t.mode /\ r.th.interrupted = t.interrupted
             /\ r.sp = o /\ r.th.queue = u.queue
  <2> DEFINE a == [u EXCEPT !.sig = s, !.oldMask = u.mask, !.mask = @ \cup o.disp[s].mask]
  <2>1. o.disp \in [Sigs -> SigActions] /\ o.disp[s] \in SigActions
      BY Zenon DEF Processes
  <2>2. a \in Threads
      BY Zenon, <2>1 DEF Threads, SigActions
  <2>3. /\ a.sig = s /\ a.oldMask = t.mask /\ a.frame = t.frame /\ a.interruptible = t.interruptible
        /\ a.mode = t.mode /\ a.queue = u.queue /\ a.interrupted = t.interrupted
    <3>1. /\ a.sig = s /\ a.oldMask = u.mask /\ a.frame = u.frame /\ a.interruptible = u.interruptible
          /\ a.mode = u.mode /\ a.queue = u.queue /\ a.interrupted = u.interrupted
        BY DEF Threads
    <3> QED BY Zenon, <1>1, <3>1
  <2> HIDE DEF a
  <2>4. r.th = PrepareSignalHandle(a, o.disp, s) /\ r.sp = o
      BY SMT, <1>1 DEF a
  <2>5. PreparedFor(a, r.th, IF o.disp[s].handler = "fn" THEN s ELSE o.disp[s].handler)
      BY Zenon, <2>1, <2>2, <2>4, Prepared
  <2>6. Given(t, r.th, s, IF o.disp[s].handler = "fn" THEN s ELSE o.disp[s].handler)
      BY Zenon, <2>3, <2>5 DEF Given, PreparedFor
  <2> QED BY Zenon, <1>1, <2>3, <2>4, <2>5, <2>6 DEF PreparedFor
<1> HIDE DEF Handle
<1>2. t.queue \in Seq(Sigs) /\ p.pending \in Seq(Sigs)
    BY Zenon DEF Threads, Processes
<1>3. Waiting(t, p) = Elements(t.queue) \cup Elements(p.pending)
    BY Zenon DEF Waiting, Elements
<1>4. \A u, o : Waiting(u, o) = Elements(u.queue) \cup Elements(o.pending)
    BY Zenon DEF Waiting, Elements
<1>5. \A q \in Seq(Sigs) : Elements(q) \subseteq Sigs
    BY DEF Elements
<1>6. CASE Unmasked(t.queue, t.mask) # {}
  <2> DEFINE k == FirstOf(t.queue, t.mask)
             u == [t EXCEPT !.queue = EraseAt(@, k)]
  <2>1. k \in DOMAIN t.queue /\ t.queue[k] \in Elements(t.queue)
      BY Zenon, <1>2, <1>6, FirstIsThere
  <2>2. /\ EraseAt(t.queue, k) \in Seq(Sigs) /\ Elements(EraseAt(t.queue, k)) \subseteq Elements(t.queue)
        /\ Len(t.queue) <= 2 => Elements(t.queue) \subseteq Elements(EraseAt(t.queue, k)) \cup {t.queue[k]}
      BY Zenon, <1>2, <2>1, ErasedQueue
  <2>3. r = Handle(u, p, t.queue[k])
      BY Zenon, <1>6 DEF NextSignal, Handle
  <2>4. u \in Threads
      BY Zenon, <2>2 DEF Threads
  <2>5. /\ u.mask = t.mask /\ u.frame = t.frame /\ u.interruptible = t.interruptible /\ u.mode = t.mode
        /\ u.interrupted = t.interrupted /\ u.queue = EraseAt(t.queue, k)
      BY Zenon DEF Threads
  <2> HIDE DEF u, k
  <2>6. /\ Given(t, r.th, t.queue[k], IF p.disp[t.queue[k]].handler = "fn" THEN t.queue[k] ELSE p.disp[t.queue[k]].handler)
        /\ r.th.mode = t.mode /\ r.th.interrupted = t.interrupted /\ r.sp = p /\ r.th.queue = u.queue
      BY Zenon, <1>1, <1>2, <1>5, <2>1, <2>3, <2>4, <2>5
  <2>7. /\ Waiting(r.th, r.sp) \subseteq Waiting(t, p)
        /\ Len(t.queue) <= 2 => Waiting(t, p) \subseteq Waiting(r.th, r.sp) \cup {t.queue[k]}
      BY Zenon, <1>3, <1>4, <2>2, <2>5, <2>6
  <2> QED BY Zenon, <1>3, <2>1, <2>6, <2>7
<1>7. CASE Unmasked(t.queue, t.mask) = {} /\ Unmasked(p.pending, t.mask) # {}
  <2> DEFINE k == FirstOf(p.pending, t.mask)
             o == [p EXCEPT !.pending = EraseAt(@, k)]
  <2>1. k \in DOMAIN p.pending /\ p.pending[k] \in Elements(p.pending)
      BY Zenon, <1>2, <1>7, FirstIsThere
  <2>2. /\ EraseAt(p.pending, k) \in Seq(Sigs) /\ Elements(EraseAt(p.pending, k)) \subseteq Elements(p.pending)
        /\ Len(p.pending) <= 2 => Elements(p.pending) \subseteq Elements(EraseAt(p.pending, k)) \cup {p.pending[k]}
      BY Zenon, <1>2, <2>1, ErasedQueue
  <2>3. r = Handle(t, o, p.pending[k])
      BY Zenon, <1>7 DEF NextSignal, Handle
  <2>4. o \in Processes /\ o.disp = p.disp /\ o.pending = EraseAt(p.pending, k)
      BY Zenon, <2>2 DEF Processes
  <2> HIDE DEF o, k
  <2>5. /\ Given(t, r.th, p.pending[k], IF p.disp[p.pending[k]].handler = "fn" THEN p.pending[k] ELSE p.disp[p.pending[k]].handler)
        /\ r.th.mode = t.mode /\ r.th.interrupted = t.interrupted /\ r.sp = o /\ r.th.queue = t.queue
      BY Zenon, <1>1, <1>2, <1>5, <2>1, <2>3, <2>4
  <2>6. /\ Waiting(r.th, r.sp) \subseteq Waiting(t, p)
        /\ Len(p.pending) <= 2 => Waiting(t, p) \subseteq Waiting(r.th, r.sp) \cup {p.pending[k]}
      BY Zenon, <1>3, <1>4, <2>2, <2>4, <2>5
  <2> QED BY Zenon, <1>3, <2>1, <2>4, <2>5, <2>6
<1>8. CASE Unmasked(t.queue, t.mask) = {} /\ Unmasked(p.pending, t.mask) = {}
  <2>1. r.th = t /\ r.sp = p
      BY Zenon, <1>8 DEF NextSignal, Same
  <2>2. Elements(t.queue) \subseteq t.mask /\ Elements(p.pending) \subseteq t.mask
      BY Zenon, <1>8 DEF Unmasked, Elements
  <2> QED BY Zenon, <1>3, <2>1, <2>2
<1> QED BY Zenon, <1>6, <1>7, <1>8

-----------------------------------------------------------------------------
(* Steps of the thread *)

(* The call goes on, or a call that waits for nothing and is no return does its last step. *)
SameCall ==
    \/ call' = call
    \/ call' = [call EXCEPT !.step = 2] /\ call.op \notin {"sigreturn", "block"} /\ th.mode # "entry"

(* Such a step leaves what the call was entered with. *)
LEMMA SameCallKeeps ==
    ASSUME call \in SystemCalls, SameCall
    PROVE  /\ call' \in SystemCalls /\ call'.before = call.before /\ call'.main = call.main
           /\ call'.op = call.op /\ call'.regs = call.regs /\ call'.early = call.early
           /\ call'.step = call.step \/ (call'.step = 2 /\ call.op \notin {"sigreturn", "block"} /\ th.mode # "entry")
<1>1. CASE call' = call
    BY Zenon, <1>1
<1>2. CASE call' = [call EXCEPT !.step = 2] /\ call.op \notin {"sigreturn", "block"} /\ th.mode # "entry"
  <2>1. 2 \in 0..2
      OBVIOUS
  <2> QED BY Zenon, <1>2, <2>1 DEF SystemCalls
<1> QED BY Zenon, <1>1, <1>2 DEF SameCall

(* A signal is given to the thread, in a step that adds events only and may be the last of a call:
   nothing waits that its handler is not known for, and sigprocmask notes it. *)
LEMMA GivenInv ==
    ASSUME IInv, NEW s \in Sigs, NEW rip \in {s} \cup Code,
           Running, th.sig = NoSig, Given(th, th', s, rip),
           th'.mode = th.mode \/ (th.mode = "wait" /\ th'.mode = "call"),
           th'.mode = "wait" => ~th.interruptible,
           sp' \in Processes, budget' \in Bounds, prog' \in Programs,
           prog.events \subseteq prog'.events, prog'.rax = prog.rax, prog'.mask = prog.mask,
           prog'.lost = (prog.lost \/ (th.mode = "entry" /\ call.main)),
           rip \in Code => "reset" \in prog'.events,
           call.op = "sigprocmask" /\ call.step < 2 => "maskrace" \in prog'.events,
           SameCall,
           \A x \in Waiting(th', sp') : sp'.disp[x].handler = "fn" \/ "reset" \in prog'.events
    PROVE  IInv'
<1>1. /\ th \in Threads /\ th' \in Threads /\ call \in SystemCalls /\ s # NoSig /\ s # Main
      /\ Main \notin Code /\ NoSig \notin Sigs
    BY Zenon, SignalsAssumption DEF IInv, Types, Given, Code, NoSig, Main
<1>2. /\ call' \in SystemCalls /\ call'.before = call.before /\ call'.main = call.main
      /\ call'.op = call.op /\ call'.regs = call.regs /\ call'.early = call.early
      /\ call'.step = call.step \/ (call'.step = 2 /\ call.op \notin {"sigreturn", "block"} /\ th.mode # "entry")
    BY Zenon, <1>1, SameCallKeeps
<1>3. /\ th'.sig = s /\ th'.oldMask = th.mask /\ th'.saved = th.frame
      /\ th'.frame.rip = rip /\ th'.interruptible = th.interruptible
    BY Zenon DEF Given
<1>4. Types'
    BY Zenon, <1>1, <1>2 DEF Types
<1>5. /\ InKernel' = InKernel /\ th'.frame.rip # Main
      /\ (th'.mode = "user") = (th.mode = "user") /\ (th'.mode = "entry") = (th.mode = "entry")
      /\ th'.mode = "wait" => th.mode = "wait"
  <2>1. rip # Main
      BY Zenon, <1>1
  <2>2. CASE th'.mode = th.mode
      BY Zenon, <1>3, <2>1, <2>2 DEF InKernel
  <2>3. CASE th.mode = "wait" /\ th'.mode = "call"
      BY SMT, <1>3, <2>1, <2>3 DEF InKernel
  <2> QED BY Zenon, <2>2, <2>3
<1>6. QueueInv'
  <2>1. th'.mode = "wait" => call'.op = "lock"
      BY Zenon, <1>2, <1>5 DEF IInv, QueueInv
  <2>2. th'.interruptible =>
          "waited" \in prog'.events \/ (call'.op = "block" /\ call'.step = 1 /\ InKernel')
      BY Zenon, <1>2, <1>3, <1>5 DEF IInv, QueueInv
  <2> QED BY Zenon, <1>1, <1>3, <2>1, <2>2 DEF QueueInv, NothingDeliverableWaits, FlagHasASignal, WaitsAreInterrupted
<1>7. ResumeInv'
  <2>2. /\ th.mode = "user" /\ th.frame.rip = Main => th.frame.rax = prog.rax \/ prog.lost
        /\ InKernel /\ call.main => call.before = NoSig /\ call.op # "sigreturn"
        /\ InKernel /\ th.frame.rip = Main =>
             \/ call.main
             \/ /\ call.op = "sigreturn" /\ call.step = 2 /\ call.before # NoSig
                /\ th.frame.rax = prog.rax \/ prog.lost
        /\ InKernel /\ call.op = "fork" /\ call.step = 1 /\ call.regs.rip = Main => call.main
      BY Zenon DEF IInv, ResumeInv, ResumesWithResult
  <2>3. call'.step = 1 => call.step = 1
      BY <1>2
  <2> QED BY Zenon, <1>2, <1>3, <1>5, <2>2, <2>3 DEF ResumeInv, ResumesWithResult
<1>8. EntryInv'
  <2>1. th.mode = "entry" =>
          /\ call'.step = 0 /\ (call.main => call.op # "sigreturn") /\ (th.frame.rip = Main => call.main)
      BY Zenon, <1>2 DEF IInv, EntryInv
  <2> QED BY Zenon, <1>2, <1>3, <1>5, <2>1 DEF EntryInv
<1>9. MaskInv'
  <2>1. call.step \in 0..2 /\ (call'.step < 2 => call.step < 2)
      BY <1>1, <1>2 DEF SystemCalls
  <2>2. Quiet' => Quiet
      BY Zenon DEF Quiet
  <2>3. Quiet' => prog'.mask = IF th'.sig = NoSig THEN th'.mask ELSE th'.oldMask
      BY Zenon, <1>1, <1>3, <2>2 DEF IInv, MaskInv
  <2>4. call'.op = "sigprocmask" /\ call'.step < 2 => ~Quiet'
      BY Zenon, <1>2, <2>1 DEF Quiet
  <2>5. (InKernel' \/ th'.mode = "entry") /\ call'.main /\ call'.op = "sigprocmask" /\ prog'.lost => ~Quiet'
    <3>1. th.mode = "entry" => call'.step < 2
      <4>1. th.mode = "entry" => call'.step = 0
          BY Zenon, <1>2 DEF IInv, EntryInv
      <4> QED BY <4>1
    <3>2. prog.lost /\ (InKernel \/ th.mode = "entry") /\ call.main /\ call.op = "sigprocmask" => ~Quiet
        BY Zenon DEF IInv, MaskInv
    <3> QED BY Zenon, <1>2, <1>5, <2>2, <2>4, <3>1, <3>2
  <2> QED BY Zenon, <2>3, <2>4, <2>5 DEF MaskInv
<1>10. HandlerInv'
    BY Zenon, <1>1, <1>2, <1>3 DEF IInv, HandlerInv, ReturnsHaveASignal, Running
<1> QED BY Zenon, <1>4, <1>6, <1>7, <1>8, <1>9, <1>10 DEF IInv

(* The queues, the actions or the alarm change, and nothing else of the thread. *)
LEMMA QueuedInv ==
    ASSUME IInv, th' \in Threads,
           /\ th'.mode = th.mode /\ th'.sig = th.sig /\ th'.mask = th.mask /\ th'.oldMask = th.oldMask
           /\ th'.frame = th.frame /\ th'.saved = th.saved
           /\ th'.interruptible = th.interruptible /\ th'.interrupted = th.interrupted,
           sp' \in Processes, budget' \in Bounds, prog' \in Programs,
           prog.events \subseteq prog'.events, prog'.rax = prog.rax, prog'.mask = prog.mask,
           prog'.lost = prog.lost, SameCall,
           Running /\ th.sig = NoSig => Waiting(th', sp') \subseteq th.mask,
           \A x \in Waiting(th', sp') : sp'.disp[x].handler = "fn" \/ "reset" \in prog'.events
    PROVE  IInv'
<1>1. /\ call \in SystemCalls /\ call' \in SystemCalls /\ call'.before = call.before /\ call'.main = call.main
      /\ call'.op = call.op /\ call'.regs = call.regs /\ call'.early = call.early
      /\ call'.step = call.step \/ (call'.step = 2 /\ call.op \notin {"sigreturn", "block"} /\ th.mode # "entry")
    BY Zenon, SameCallKeeps DEF IInv, Types
<1>2. InKernel' = InKernel /\ Running' = Running /\ (Quiet' => Quiet)
    BY Zenon DEF InKernel, Running, Quiet
<1>3. /\ call'.step = 1 => call.step = 1
      /\ call'.step < 2 => call.step < 2
      /\ call.op \in {"sigreturn", "block"} \/ th.mode = "entry" => call'.step = call.step
    BY <1>1 DEF SystemCalls
<1>4. Types'
    BY Zenon, <1>1 DEF Types
<1>5. QueueInv'
  <2>1. Running' /\ th'.interruptible =>
          "waited" \in prog'.events \/ (call'.op = "block" /\ call'.step = 1 /\ InKernel')
      BY Zenon, <1>1, <1>2, <1>3 DEF IInv, QueueInv
  <2>2. th'.mode = "wait" /\ call'.op # "lock" => th'.interruptible
      BY Zenon, <1>1 DEF IInv, QueueInv
  <2> QED BY Zenon, <1>1, <1>2, <2>1, <2>2 DEF IInv, QueueInv, NothingDeliverableWaits, FlagHasASignal, WaitsAreInterrupted
<1>6. ResumeInv'
    BY Zenon, <1>1, <1>2, <1>3 DEF IInv, ResumeInv, ResumesWithResult
<1>7. EntryInv'
    BY Zenon, <1>1, <1>3 DEF IInv, EntryInv
<1>8. MaskInv'
    BY Zenon, <1>1, <1>2, <1>3 DEF IInv, MaskInv
<1>9. HandlerInv'
    BY Zenon, <1>1, <1>2 DEF IInv, HandlerInv, ReturnsHaveASignal
<1> QED BY Zenon, <1>4, <1>5, <1>6, <1>7, <1>8, <1>9 DEF IInv

(* The default of a signal ends the process. *)
LEMMA KilledInv ==
    ASSUME IInv, th' = [th EXCEPT !.mode = "killed"], sp' \in Processes, budget' \in Bounds,
           prog' \in Programs, prog.events \subseteq prog'.events, SameCall,
           \A x \in Waiting(th', sp') : sp'.disp[x].handler = "fn" \/ "reset" \in prog'.events
    PROVE  IInv'
<1>1. call \in SystemCalls /\ call' \in SystemCalls /\ call'.regs = call.regs
    BY Zenon, SameCallKeeps DEF IInv, Types
<1>2. th \in Threads /\ th' \in Threads /\ th'.mode = "killed" /\ th'.frame = th.frame /\ th'.saved = th.saved
    BY Zenon DEF IInv, Types, Threads
<1>3. Types'
    BY Zenon, <1>1, <1>2 DEF Types
<1>4. ~Running' /\ ~InKernel' /\ th'.mode \notin {"wait", "user", "entry", "panic"}
    BY Zenon, <1>2 DEF Running, InKernel
<1>5. QueueInv'
    BY Zenon, <1>4 DEF QueueInv, NothingDeliverableWaits, FlagHasASignal, WaitsAreInterrupted
<1>6. ResumeInv' /\ EntryInv' /\ MaskInv'
    BY Zenon, <1>4 DEF ResumeInv, ResumesWithResult, EntryInv, MaskInv
<1>7. HandlerInv'
    BY Zenon, <1>1, <1>2, <1>4 DEF IInv, HandlerInv, ReturnsHaveASignal
<1> QED BY Zenon, <1>3, <1>5, <1>6, <1>7 DEF IInv

(* What the history notes of a step *)
LEMMA BecomesNotes ==
    ASSUME IInv, NEW r, Becomes(r), r.sp \in Processes,
           \A x \in Waiting(r.th, r.sp) : x \in Waiting(th, sp) \/ sp.disp[x].handler = "fn"
    PROVE  /\ th' = r.th /\ sp' = r.sp /\ prog' \in Programs /\ prog.events \subseteq prog'.events
           /\ prog'.rax = prog.rax /\ prog'.mask = prog.mask
           /\ prog'.lost = (prog.lost \/ (th'.sig # th.sig /\ th.mode = "entry" /\ call.main))
           /\ th'.sig = th.sig \/ th.mode # "entry" => prog'.lost = prog.lost
           /\ th'.sig # th.sig /\ call.op = "sigprocmask" /\ call.step < 2 => "maskrace" \in prog'.events
           /\ \A x \in Waiting(th', sp') : sp'.disp[x].handler = "fn" \/ "reset" \in prog'.events
<1> DEFINE e == IF \E s \in Waiting(r.th, r.sp) : sp.disp[s].handler = "fn" /\ r.sp.disp[s].handler # "fn"
                THEN {"reset"} ELSE {}
           f == IF r.th.sig # th.sig /\ call.op = "sigprocmask" /\ call.step < 2 THEN {"maskrace"} ELSE {}
           l == prog.lost \/ (r.th.sig # th.sig /\ th.mode = "entry" /\ call.main)
<1>1. th' = r.th /\ sp' = r.sp /\ prog' = [prog EXCEPT !.events = @ \cup e \cup f, !.lost = l]
    BY Zenon DEF Becomes
<1>2. prog \in Programs /\ e \subseteq {"reset"} /\ f \subseteq {"maskrace"} /\ l \in BOOLEAN
    BY Zenon DEF IInv, Types
<1>3. /\ r.th.sig # th.sig /\ call.op = "sigprocmask" /\ call.step < 2 => "maskrace" \in f
      /\ \A x \in Waiting(r.th, r.sp) : sp.disp[x].handler = "fn" => r.sp.disp[x].handler = "fn" \/ "reset" \in e
    BY Zenon
<1>4. \A x \in Waiting(r.th, r.sp) : sp.disp[x].handler = "fn" \/ "reset" \in prog.events
    BY Zenon DEF IInv, QueueInv
<1> HIDE DEF e, f, l
<1>5. /\ prog' \in Programs /\ prog'.rax = prog.rax /\ prog'.mask = prog.mask
      /\ prog'.events = prog.events \cup e \cup f /\ prog'.lost = l
    BY Zenon, <1>1, <1>2 DEF Programs
<1>6. th'.sig = th.sig \/ th.mode # "entry" => prog'.lost = prog.lost
  <2>1. prog.lost \in BOOLEAN
      BY Zenon, <1>2 DEF Programs
  <2> QED BY Zenon, <1>1, <1>5, <2>1 DEF l
<1>7. prog'.lost = (prog.lost \/ (th'.sig # th.sig /\ th.mode = "entry" /\ call.main))
    BY SMT, <1>1, <1>5 DEF l
<1> QED BY Zenon, <1>1, <1>3, <1>4, <1>5, <1>6, <1>7

(* send_signal_to_process, from outside, by the process itself or when its alarm ends *)
LEMMA SignalInv ==
    ASSUME IInv, Running, NEW p \in Processes, p.disp = sp.disp, p.pending = sp.pending, NEW s \in Sigs,
           NEW directed \in BOOLEAN, Becomes(SignalProcess(th, p, s, directed)), budget' \in Bounds, SameCall
    PROVE  IInv'
<1> DEFINE r == SignalProcess(th, p, s, directed)
<1>1. /\ th \in Threads /\ sp \in Processes /\ s # NoSig /\ p.disp[s] \in SigActions
      /\ p.disp[s].handler \in {"dfl", "ign", "fn"}
    BY Zenon, SignalsAssumption DEF IInv, Types, Processes, SigActions
<1>2. Waiting(th, p) = Waiting(th, sp)
    BY Zenon DEF Waiting
<1>3. \A u, o : Waiting(u, o) = Elements(u.queue) \cup Elements(o.pending)
    BY Zenon DEF Waiting, Elements
<1>4. CASE p.disp[s].handler = "dfl"
  <2>1. r = Same([th EXCEPT !.mode = "killed"], p)
      BY Zenon, <1>4 DEF SignalProcess
  <2> HIDE DEF r
  <2>2. r.th = [th EXCEPT !.mode = "killed"] /\ r.sp = p
      BY Zenon, <2>1 DEF Same
  <2>3. r.th.queue = th.queue
      BY Zenon, <1>1, <2>2 DEF Threads
  <2>4. \A x \in Waiting(r.th, r.sp) : x \in Waiting(th, sp)
      BY Zenon, <1>3, <2>2, <2>3
  <2>5. Becomes(r)
      BY Zenon DEF r
  <2> QED BY Zenon, <2>2, <2>4, <2>5, BecomesNotes, KilledInv
<1>5. CASE p.disp[s].handler = "ign"
  <2>1. r = Same(th, p)
      BY Zenon, <1>5 DEF SignalProcess
  <2>0. Becomes(r)
      BY Zenon
  <2> HIDE DEF r
  <2>2. r.th = th /\ r.sp = p
      BY Zenon, <2>1 DEF Same
  <2>3. /\ th' = th /\ sp' = p /\ prog' \in Programs /\ prog.events \subseteq prog'.events
        /\ prog'.rax = prog.rax /\ prog'.mask = prog.mask /\ prog'.lost = prog.lost
        /\ \A x \in Waiting(th', sp') : sp'.disp[x].handler = "fn" \/ "reset" \in prog'.events
      BY Zenon, <1>2, <2>2, <2>0, BecomesNotes
  <2>4. Running /\ th.sig = NoSig => Waiting(th', sp') \subseteq th.mask
      BY Zenon, <1>2, <2>3 DEF IInv, QueueInv, NothingDeliverableWaits
  <2> QED BY Zenon, <1>1, <2>3, <2>4, QueuedInv
<1>6. CASE p.disp[s].handler = "fn" /\ Busy(th, s)
  <2> DEFINE u == IF directed THEN [th EXCEPT !.queue = Append(@, s)] ELSE th
             o == IF directed THEN p ELSE [p EXCEPT !.pending = Append(@, s)]
  <2>1. /\ th.queue \in Seq(Sigs) /\ p.pending \in Seq(Sigs)
        /\ Append(th.queue, s) \in Seq(Sigs) /\ Elements(Append(th.queue, s)) \subseteq Elements(th.queue) \cup {s}
        /\ Append(p.pending, s) \in Seq(Sigs) /\ Elements(Append(p.pending, s)) \subseteq Elements(p.pending) \cup {s}
      BY Zenon, <1>1, AppendedQueue DEF Threads, Processes
  <2>2. r = Same(u, o)
      BY Zenon, <1>6 DEF SignalProcess
  <2>3. /\ u \in Threads /\ u.mode = th.mode /\ u.sig = th.sig /\ u.mask = th.mask /\ u.oldMask = th.oldMask
        /\ u.frame = th.frame /\ u.saved = th.saved
        /\ u.interruptible = th.interruptible /\ u.interrupted = th.interrupted
        /\ Elements(u.queue) \subseteq Elements(th.queue) \cup {s}
      BY Zenon, <1>1, <2>1 DEF Threads
  <2>4. o \in Processes /\ o.disp = p.disp /\ Elements(o.pending) \subseteq Elements(p.pending) \cup {s}
      BY Zenon, <2>1 DEF Processes
  <2>0. Becomes(r)
      BY Zenon
  <2> HIDE DEF r, u, o
  <2>5. r.th = u /\ r.sp = o
      BY Zenon, <2>2 DEF Same
  <2>6. Waiting(r.th, r.sp) \subseteq Waiting(th, sp) \cup {s}
      BY Zenon, <1>2, <1>3, <2>3, <2>4, <2>5
  <2>7. /\ th' = u /\ sp' = o /\ prog' \in Programs /\ prog.events \subseteq prog'.events
        /\ prog'.rax = prog.rax /\ prog'.mask = prog.mask /\ prog'.lost = prog.lost
        /\ \A x \in Waiting(th', sp') : sp'.disp[x].handler = "fn" \/ "reset" \in prog'.events
      BY Zenon, <1>6, <2>3, <2>4, <2>5, <2>6, <2>0, BecomesNotes
  <2>8. Running /\ th.sig = NoSig => Waiting(th', sp') \subseteq th.mask
      BY Zenon, <1>6, <2>5, <2>6, <2>7 DEF IInv, QueueInv, NothingDeliverableWaits, Busy
  <2> QED BY Zenon, <2>3, <2>4, <2>7, <2>8, QueuedInv
<1>7. CASE p.disp[s].handler = "fn" /\ ~Busy(th, s)
  <2>1. r = SendSignalToTask(th, p, s)
      BY Zenon, <1>7 DEF SignalProcess
  <2> HIDE DEF r
  <2>2. /\ Given(th, r.th, s, s)
        /\ r.th.mode = IF th.mode = "wait" /\ th.interruptible THEN "call" ELSE th.mode
        /\ r.th.queue = th.queue /\ r.sp \in Processes /\ r.sp.pending = p.pending
    <3>1. Sent(th, p, r, s)
        BY Zenon, <1>1, <1>7, <2>1, SendGives
    <3> QED BY Zenon, <3>1 DEF Sent
  <2>3. Waiting(r.th, r.sp) = Waiting(th, sp) /\ Becomes(r)
      BY Zenon, <1>2, <1>3, <2>2 DEF r
  <2>4. /\ th' = r.th /\ sp' = r.sp /\ prog' \in Programs /\ prog.events \subseteq prog'.events
        /\ prog'.rax = prog.rax /\ prog'.mask = prog.mask
        /\ prog'.lost = (prog.lost \/ (th'.sig # th.sig /\ th.mode = "entry" /\ call.main))
        /\ th'.sig # th.sig /\ call.op = "sigprocmask" /\ call.step < 2 => "maskrace" \in prog'.events
        /\ \A x \in Waiting(th', sp') : sp'.disp[x].handler = "fn" \/ "reset" \in prog'.events
      BY Zenon, <2>2, <2>3, BecomesNotes
  <2>5. th.sig = NoSig /\ th'.sig # th.sig
      BY Zenon, <1>1, <1>7, <2>2, <2>4 DEF Busy, Given
  <2>6. /\ th'.mode = th.mode \/ (th.mode = "wait" /\ th'.mode = "call")
        /\ th'.mode = "wait" => ~th.interruptible
        /\ prog'.lost = (prog.lost \/ (th.mode = "entry" /\ call.main))
      BY Zenon, <2>2, <2>4, <2>5
  <2>7. s \in {s} \cup Code /\ (s \in Code => FALSE)
      BY Zenon, SignalsAssumption DEF Code
  <2> QED BY Zenon, <2>2, <2>4, <2>5, <2>6, <2>7, GivenInv
<1> QED BY Zenon, <1>1, <1>4, <1>5, <1>6, <1>7

(* The return of a handler and sigprocmask take the next signal for a thread without one. *)
LEMMA TakenInv ==
    ASSUME IInv, th.mode = "call", call' = [call EXCEPT !.step = 2], budget' \in Bounds,
           prog' \in Programs, prog.events \subseteq prog'.events, prog'.rax = prog.rax, prog'.lost = prog.lost,
           NEW t \in Threads, t.mode = "call", t.sig = NoSig, ~t.interrupted, t.queue = th.queue,
           NEW r, r = NextSignal(t, sp), th' = r.th, sp' = r.sp,
           Quiet' => prog'.mask = t.mask, t.interruptible => "waited" \in prog.events,
           call.main => call.before = NoSig /\ call.op # "sigreturn",
           t.frame.rip = Main =>
             \/ call.main
             \/ call.op = "sigreturn" /\ call.before # NoSig /\ (t.frame.rax = prog.rax \/ prog.lost),
           t.frame.rip = Main \/ "forked" \in prog.events,
           {t.frame.rip, t.saved.rip} \cap Code # {} => "reset" \in prog.events
    PROVE  IInv'
<1>1. call \in SystemCalls /\ sp \in Processes /\ Main \notin Code /\ Sigs \cap {Main, NoSig} = {} /\ Sigs \cap Code = {}
    BY Zenon, SignalsAssumption DEF IInv, Types, Code, NoSig, Main
<1>2. /\ call' \in SystemCalls /\ call'.before = call.before /\ call'.main = call.main
      /\ call'.op = call.op /\ call'.regs = call.regs /\ call'.step = 2
  <2>1. 2 \in 0..2
      OBVIOUS
  <2> QED BY Zenon, <1>1, <2>1 DEF SystemCalls
<1>3. call'.step # 1 /\ ~(call'.step < 2)
    BY <1>2
<1>4. call'.main /\ call'.op = "sigprocmask" /\ prog'.lost => ~Quiet'
    BY Zenon, <1>2 DEF IInv, MaskInv, InKernel, Quiet
<1>5. Waiting(t, sp) = Waiting(th, sp)
    BY Zenon DEF Waiting
<1>6. /\ \A x \in Waiting(th, sp) : sp.disp[x].handler = "fn" \/ "reset" \in prog.events
      /\ Waiting(th, sp) \subseteq Sigs
      /\ call.regs.rip \in Code => "reset" \in prog.events
  <2>1. \A q \in Seq(Sigs) : Elements(q) \subseteq Sigs
      BY DEF Elements
  <2>2. Waiting(th, sp) \subseteq Sigs
      BY Zenon, <1>1, <2>1 DEF Waiting, Elements, IInv, Types, Threads, Processes
  <2> QED BY Zenon, <2>2 DEF IInv, QueueInv, HandlerInv
<1>7. CASE r.th = t /\ r.sp = sp /\ Waiting(t, sp) \subseteq t.mask
  <2>1. th' = t /\ sp' = sp
      BY Zenon, <1>7
  <2>2. Types'
      BY Zenon, <1>1, <1>2, <2>1 DEF Types
  <2>3. QueueInv'
      BY Zenon, <1>2, <1>5, <1>6, <1>7, <2>1 DEF QueueInv, NothingDeliverableWaits, FlagHasASignal, WaitsAreInterrupted
  <2>4. ResumeInv' /\ EntryInv'
      BY Zenon, <1>2, <1>3, <2>1 DEF ResumeInv, ResumesWithResult, EntryInv
  <2>5. MaskInv'
      BY Zenon, <1>3, <1>4, <2>1 DEF MaskInv
  <2>6. HandlerInv'
      BY Zenon, <1>2, <1>6, <2>1 DEF HandlerInv, ReturnsHaveASignal
  <2> QED BY Zenon, <2>2, <2>3, <2>4, <2>5, <2>6 DEF IInv
<1>8. ASSUME NEW s \in Waiting(t, sp), NEW rip, rip = IF sp.disp[s].handler = "fn" THEN s ELSE sp.disp[s].handler,
             Given(t, r.th, s, rip), r.th.mode = t.mode, r.sp \in Processes, r.sp.disp = sp.disp,
             Waiting(r.th, r.sp) \subseteq Waiting(t, sp)
      PROVE  IInv'
  <2>1. /\ th'.sig = s /\ th'.oldMask = t.mask /\ th'.saved = t.frame /\ th'.frame.rip = rip
        /\ th' \in Threads /\ th'.mode = "call" /\ th'.interruptible = t.interruptible
      BY Zenon, <1>8 DEF Given
  <2>2. /\ s \in Sigs /\ s # NoSig /\ s # Main /\ rip # Main /\ sp.disp[s].handler \in {"dfl", "ign", "fn"}
        /\ rip \in Code => "reset" \in prog.events
    <3>1. s \in Sigs
        BY Zenon, <1>5, <1>6, <1>8
    <3>2. sp.disp[s] \in SigActions
        BY Zenon, <1>1, <3>1 DEF Processes
    <3>3. sp.disp[s].handler \in {"dfl", "ign", "fn"}
        BY Zenon, <3>2 DEF SigActions
    <3>4. rip = s \/ rip \in Code
        BY Zenon, <1>8, <3>3 DEF Code
    <3> QED BY Zenon, <1>1, <1>5, <1>6, <1>8, <3>1, <3>3, <3>4
  <2>3. Types'
      BY Zenon, <1>2, <1>8, <2>1 DEF Types
  <2>4. QueueInv'
      BY Zenon, <1>5, <1>6, <1>8, <2>1, <2>2 DEF QueueInv, NothingDeliverableWaits, FlagHasASignal, WaitsAreInterrupted
  <2>5. ResumeInv' /\ EntryInv'
      BY Zenon, <1>2, <1>3, <2>1, <2>2 DEF ResumeInv, ResumesWithResult, EntryInv
  <2>6. MaskInv'
      BY Zenon, <1>3, <1>4, <2>1, <2>2 DEF MaskInv
  <2>7. HandlerInv'
    <3>1. {rip, t.frame.rip, call.regs.rip} \cap Code # {} => "reset" \in prog'.events
        BY Zenon, <1>6, <2>2
    <3> QED BY Zenon, <1>2, <2>1, <2>2, <3>1 DEF HandlerInv, ReturnsHaveASignal
  <2> QED BY Zenon, <2>3, <2>4, <2>5, <2>6, <2>7 DEF IInv
<1> QED BY Zenon, <1>1, <1>7, <1>8, NextGives

-----------------------------------------------------------------------------
(* The actions *)

(* A signal comes from outside, from the program itself or from its alarm. *)
LEMMA SentInv ==
    ASSUME IInv,
           \/ \E s \in Sigs, directed \in BOOLEAN : SendToThread(s, directed) \/ Kill(s, directed)
           \/ UpdateAlarmTimers
    PROVE  IInv'
<1>1. sp \in Processes /\ budget \in Bounds /\ Alrm \in Sigs /\ FALSE \in BOOLEAN /\ th \in Threads
    BY Zenon, SignalsAssumption DEF IInv, Types
<1>2. ASSUME NEW s \in Sigs, NEW directed \in BOOLEAN, SendToThread(s, directed) PROVE IInv'
  <2>1. budget' \in Bounds
      BY <1>1, <1>2 DEF SendToThread, Bounds
  <2>2. Running /\ Becomes(SignalProcess(th, sp, s, directed)) /\ SameCall
      BY Zenon, <1>2 DEF SendToThread, SameCall
  <2> QED BY Zenon, <1>1, <2>1, <2>2, SignalInv
<1>3. ASSUME NEW s \in Sigs, NEW directed \in BOOLEAN, Kill(s, directed) PROVE IInv'
  <2>1. budget' \in Bounds
      BY Zenon, <1>1, <1>3 DEF Kill
  <2>2. Running /\ Becomes(SignalProcess(th, sp, s, directed)) /\ SameCall
      BY Zenon, <1>3 DEF Kill, SameCall, Step, InCall, Running
  <2> QED BY Zenon, <1>1, <2>1, <2>2, SignalInv
<1>4. ASSUME UpdateAlarmTimers PROVE IInv'
  <2> DEFINE p == [sp EXCEPT !.alarm = @ - 1]
  <2>1. p \in Processes /\ p.disp = sp.disp /\ p.pending = sp.pending
    <3>1. sp.alarm - 1 \in 0..MaxAlarm
        BY <1>1, <1>4, SignalsAssumption DEF Processes, UpdateAlarmTimers
    <3> QED BY Zenon, <1>1, <3>1 DEF Processes
  <2>2. Running /\ budget' \in Bounds /\ SameCall
      BY Zenon, <1>1, <1>4 DEF UpdateAlarmTimers, SameCall
  <2>3. Becomes(IF p.alarm > 0 THEN Same(th, p) ELSE SignalProcess(th, p, Alrm, FALSE))
      BY Zenon, <1>4 DEF UpdateAlarmTimers
  <2> HIDE DEF p
  <2>4. CASE ~(p.alarm > 0)
      BY Zenon, <1>1, <2>1, <2>2, <2>3, <2>4, SignalInv
  <2>5. CASE p.alarm > 0
    <3> DEFINE r == Same(th, p)
    <3>1. r.th = th /\ r.sp = p
        BY Zenon DEF Same
    <3>2. Becomes(r)
        BY Zenon, <2>3, <2>5
    <3> HIDE DEF r
    <3>3. Waiting(th, p) = Waiting(th, sp)
        BY Zenon, <2>1 DEF Waiting
    <3>4. /\ th' = th /\ sp' = p /\ prog' \in Programs /\ prog.events \subseteq prog'.events
          /\ prog'.rax = prog.rax /\ prog'.mask = prog.mask /\ prog'.lost = prog.lost
          /\ \A x \in Waiting(th', sp') : sp'.disp[x].handler = "fn" \/ "reset" \in prog'.events
        BY Zenon, <2>1, <3>1, <3>2, <3>3, BecomesNotes
    <3>5. Running /\ th.sig = NoSig => Waiting(th', sp') \subseteq th.mask
        BY Zenon, <3>3, <3>4 DEF IInv, QueueInv, NothingDeliverableWaits
    <3> QED BY Zenon, <1>1, <2>1, <2>2, <3>4, <3>5, QueuedInv
  <2> QED BY Zenon, <2>4, <2>5
<1> QED BY Zenon, <1>2, <1>3, <1>4

(* sigaction and alarm change the process, not the thread. *)
LEMMA SetInv ==
    ASSUME IInv,
           \/ \E s \in Sigs, a \in Actions : Sigaction(s, a)
           \/ \E ms \in 0..MaxAlarm : Alarm(ms)
    PROVE  IInv'
<1>1. sp \in Processes /\ budget \in Bounds /\ th \in Threads /\ Actions \subseteq SigActions
    BY Zenon, SignalsAssumption DEF IInv, Types
<1>2. PICK p \in Processes : /\ Becomes(Same(th, p)) /\ p.pending = sp.pending
                             /\ budget' = budget /\ SameCall
  <2>1. ASSUME NEW s \in Sigs, NEW a \in Actions, Sigaction(s, a)
        PROVE  \E p \in Processes : /\ Becomes(Same(th, p)) /\ p.pending = sp.pending
                                    /\ budget' = budget /\ SameCall
    <3> DEFINE p == [sp EXCEPT !.disp[s] = a]
    <3>1. p \in Processes /\ p.pending = sp.pending
        BY Zenon, <1>1 DEF Processes
    <3>2. Becomes(Same(th, p)) /\ budget' = budget /\ SameCall
        BY Zenon, <2>1 DEF Sigaction, Step, InCall, SameCall
    <3> HIDE DEF p
    <3> QED BY Zenon, <3>1, <3>2
  <2>2. ASSUME NEW ms \in 0..MaxAlarm, Alarm(ms)
        PROVE  \E p \in Processes : /\ Becomes(Same(th, p)) /\ p.pending = sp.pending
                                    /\ budget' = budget /\ SameCall
    <3> DEFINE p == [sp EXCEPT !.alarm = ms]
    <3>1. p \in Processes /\ p.pending = sp.pending
        BY Zenon, <1>1 DEF Processes
    <3>2. Becomes(Same(th, p)) /\ budget' = budget /\ SameCall
        BY Zenon, <2>2 DEF Alarm, Step, InCall, SameCall
    <3> HIDE DEF p
    <3> QED BY Zenon, <3>1, <3>2
  <2> QED BY Zenon, <2>1, <2>2
<1> DEFINE r == Same(th, p)
<1>3. r.th = th /\ r.sp = p
    BY Zenon DEF Same
<1>4. Becomes(r)
    BY Zenon, <1>2
<1> HIDE DEF r
<1>5. Waiting(th, p) = Waiting(th, sp)
    BY Zenon, <1>2 DEF Waiting
<1>6. /\ th' = th /\ sp' = p /\ prog' \in Programs /\ prog.events \subseteq prog'.events
      /\ prog'.rax = prog.rax /\ prog'.mask = prog.mask /\ prog'.lost = prog.lost
      /\ \A x \in Waiting(th', sp') : sp'.disp[x].handler = "fn" \/ "reset" \in prog'.events
    BY Zenon, <1>3, <1>4, <1>5, BecomesNotes
<1>7. Running /\ th.sig = NoSig => Waiting(th', sp') \subseteq th.mask
    BY Zenon, <1>5, <1>6 DEF IInv, QueueInv, NothingDeliverableWaits
<1> QED BY Zenon, <1>1, <1>2, <1>6, <1>7, QueuedInv

(* The main program, which has no signal, or a handler makes a call. *)
LEMMA EnterInv ==
    ASSUME IInv, NEW op \in Ops, EnterCall(op)
    PROVE  IInv'
<1>1. /\ th \in Threads /\ budget \in Bounds /\ prog \in Programs /\ th.mode = "user" /\ sp' = sp
      /\ prog' = IF th.frame.rip = Main THEN [prog EXCEPT !.lost = FALSE] ELSE prog
      /\ th' = [th EXCEPT !.mode = "entry", !.frame.rax = "call"]
      /\ call' = [NoCallYet EXCEPT !.op = op, !.main = th.frame.rip = Main]
      /\ op = "sigreturn" => th.frame.rip # Main
    BY Zenon DEF IInv, Types, EnterCall
<1>2. /\ th' \in Threads /\ th'.mode = "entry" /\ th'.sig = th.sig /\ th'.mask = th.mask
      /\ th'.oldMask = th.oldMask /\ th'.saved = th.saved /\ th'.queue = th.queue
      /\ th'.interruptible = th.interruptible /\ th'.interrupted = th.interrupted
      /\ th'.frame.rip = th.frame.rip
    BY Zenon, <1>1 DEF Threads, Regs
<1>3. /\ call' \in SystemCalls /\ call'.op = op /\ call'.main = (th.frame.rip = Main)
      /\ call'.step = 0 /\ call'.regs = NoRegs
  <2>1. 0 \in 0..2 /\ NoRegs \in Regs
      BY DEF NoRegs, Regs, Rips
  <2> QED BY Zenon, <1>1, <2>1 DEF NoCallYet, SystemCalls
<1>4. budget' \in Bounds
    BY <1>1 DEF EnterCall, Bounds
<1>5. NoRegs.rip \notin Code
    BY <1>3 DEF NoRegs, Code
<1>0. /\ prog' \in Programs /\ prog'.rax = prog.rax /\ prog'.mask = prog.mask /\ prog'.events = prog.events
      /\ prog'.lost = (prog.lost /\ th.frame.rip # Main)
    BY Zenon, <1>1 DEF Programs
<1>6. Running /\ Running' /\ ~InKernel /\ ~InKernel' /\ (Quiet' => Quiet) /\ Waiting(th', sp') = Waiting(th, sp)
  <2>1. Running /\ Running' /\ ~InKernel /\ ~InKernel'
      BY Zenon, <1>1, <1>2 DEF Running, InKernel
  <2>2. Waiting(th', sp') = Waiting(th, sp)
    <3>1. th'.queue = th.queue /\ sp'.pending = sp.pending
        BY Zenon, <1>1, <1>2
    <3> QED BY SMT, <3>1 DEF Waiting
  <2> QED BY Zenon, <1>0, <2>1, <2>2 DEF Quiet
<1>7. Types'
    BY Zenon, <1>0, <1>1, <1>2, <1>3, <1>4 DEF IInv, Types
<1>8. QueueInv'
  <2>1. th'.interruptible => "waited" \in prog'.events
      BY Zenon, <1>0, <1>2, <1>6 DEF IInv, QueueInv
  <2> QED BY Zenon, <1>0, <1>1, <1>2, <1>6, <2>1 DEF IInv, QueueInv, NothingDeliverableWaits, FlagHasASignal, WaitsAreInterrupted
<1>9. ResumeInv' /\ EntryInv'
  <2>1. /\ th.frame.rip = Main => th.sig = NoSig
        /\ th.sig # NoSig /\ th.saved.rip = Main => th.saved.rax = prog.rax \/ prog.lost
      BY Zenon, <1>1, <1>6 DEF IInv, ResumeInv
  <2> QED BY Zenon, <1>0, <1>1, <1>2, <1>3, <1>6, <2>1 DEF ResumeInv, ResumesWithResult, EntryInv
<1>10. MaskInv'
  <2>1. Quiet => prog.mask = IF th.sig = NoSig THEN th.mask ELSE th.oldMask
      BY Zenon, <1>6 DEF IInv, MaskInv
  <2> QED BY Zenon, <1>0, <1>2, <1>3, <1>6, <2>1 DEF MaskInv
<1>11. HandlerInv'
  <2>1. {th.frame.rip, th.saved.rip} \cap Code # {} => "reset" \in prog.events
      BY Zenon DEF IInv, HandlerInv
  <2>2. {th'.frame.rip, th'.saved.rip, call'.regs.rip} \cap Code # {} => "reset" \in prog'.events
      BY Zenon, <1>0, <1>2, <1>3, <1>5, <2>1
  <2>3. /\ th'.frame.rip # Main => th'.sig # NoSig \/ "forked" \in prog'.events
        /\ th'.sig # NoSig => th'.saved.rip = Main \/ "forked" \in prog'.events
      BY Zenon, <1>0, <1>2, <1>6 DEF IInv, HandlerInv
  <2> QED BY Zenon, <1>2, <2>2, <2>3 DEF HandlerInv, ReturnsHaveASignal
<1> QED BY Zenon, <1>7, <1>8, <1>9, <1>10, <1>11 DEF IInv

(* The handler of calls reads the signal. *)
LEMMA GetSignalInv ==
    ASSUME IInv, GetSignal
    PROVE  IInv'
<1>1. /\ th \in Threads /\ call \in SystemCalls /\ th.mode = "entry" /\ sp' = sp /\ budget' = budget /\ prog' = prog
      /\ th' = [th EXCEPT !.mode = "call"] /\ call' = [call EXCEPT !.before = th.sig]
    BY Zenon DEF IInv, Types, GetSignal
<1>2. /\ th' \in Threads /\ th'.mode = "call" /\ th'.sig = th.sig /\ th'.mask = th.mask
      /\ th'.oldMask = th.oldMask /\ th'.saved = th.saved /\ th'.queue = th.queue
      /\ th'.interruptible = th.interruptible /\ th'.interrupted = th.interrupted /\ th'.frame = th.frame
    BY Zenon, <1>1 DEF Threads
<1>3. /\ call' \in SystemCalls /\ call'.before = th.sig /\ call'.main = call.main /\ call'.op = call.op
      /\ call'.step = 0 /\ call'.regs = call.regs
  <2>1. th.sig \in Sigs \cup {NoSig} /\ call.step = 0
      BY Zenon, <1>1 DEF Threads, IInv, EntryInv
  <2> QED BY Zenon, <1>1, <2>1 DEF SystemCalls
<1>4. Running /\ Running' /\ ~InKernel /\ InKernel' /\ (Quiet' = Quiet) /\ Waiting(th', sp') = Waiting(th, sp)
  <2>1. Running /\ Running' /\ ~InKernel /\ InKernel' /\ Quiet' = Quiet
      BY Zenon, <1>1, <1>2 DEF Running, InKernel, Quiet
  <2>2. th'.queue = th.queue /\ sp'.pending = sp.pending
      BY Zenon, <1>1, <1>2
  <2>3. Waiting(th', sp') = Waiting(th, sp)
      BY SMT, <2>2 DEF Waiting
  <2> QED BY Zenon, <2>1, <2>3
<1>5. Types'
    BY Zenon, <1>1, <1>2, <1>3 DEF IInv, Types
<1>6. QueueInv'
  <2>1. th'.interruptible => "waited" \in prog'.events
      BY Zenon, <1>1, <1>2, <1>4 DEF IInv, QueueInv
  <2> QED BY Zenon, <1>1, <1>2, <1>4, <2>1 DEF IInv, QueueInv, NothingDeliverableWaits, FlagHasASignal, WaitsAreInterrupted
<1>7. ResumeInv' /\ EntryInv'
  <2>1. /\ call.main => call.op # "sigreturn" /\ (th.sig = NoSig \/ prog.lost)
        /\ th.frame.rip = Main => call.main /\ th.sig = NoSig
        /\ th.sig # NoSig /\ th.saved.rip = Main => prog.lost \/ th.saved.rax = prog.rax
      BY Zenon, <1>1, <1>4 DEF IInv, EntryInv, ResumeInv
  <2>2. call'.step # 1
      BY <1>3
  <2> QED BY Zenon, <1>1, <1>2, <1>3, <2>1, <2>2 DEF ResumeInv, ResumesWithResult, EntryInv
<1>8. MaskInv'
    BY Zenon, <1>1, <1>2, <1>3, <1>4 DEF IInv, MaskInv
<1>9. HandlerInv'
    BY Zenon, <1>1, <1>2, <1>3, <1>4 DEF IInv, HandlerInv, ReturnsHaveASignal
<1> QED BY Zenon, <1>5, <1>6, <1>7, <1>8, <1>9 DEF IInv

(* The main program works on. *)
LEMMA WorkInv ==
    ASSUME IInv, Work
    PROVE  IInv'
<1>1. /\ th \in Threads /\ th.mode = "user" /\ th.frame.rip = Main /\ sp' = sp /\ call' = call /\ budget' = budget
      /\ th' = [th EXCEPT !.frame.rax = "user"] /\ prog \in Programs
      /\ prog' = [prog EXCEPT !.rax = "user", !.lost = FALSE]
    BY Zenon DEF IInv, Types, Work
<1>2. /\ th' \in Threads /\ th'.mode = "user" /\ th'.sig = th.sig /\ th'.mask = th.mask
      /\ th'.oldMask = th.oldMask /\ th'.saved = th.saved /\ th'.queue = th.queue
      /\ th'.interruptible = th.interruptible /\ th'.interrupted = th.interrupted
      /\ th'.frame.rip = th.frame.rip /\ th'.frame.rax = "user"
    BY Zenon, <1>1 DEF Threads, Regs
<1>3. prog' \in Programs /\ prog'.rax = "user" /\ prog'.mask = prog.mask /\ prog'.events = prog.events
    BY Zenon, <1>1 DEF Programs
<1>4. Running /\ Running' /\ ~InKernel /\ ~InKernel' /\ (Quiet' => Quiet) /\ Waiting(th', sp') = Waiting(th, sp) /\ th.sig = NoSig
  <2>1. Running /\ Running' /\ ~InKernel /\ ~InKernel'
      BY Zenon, <1>1, <1>2 DEF Running, InKernel
  <2>2. Waiting(th', sp') = Waiting(th, sp)
    <3>1. th'.queue = th.queue /\ sp'.pending = sp.pending
        BY Zenon, <1>1, <1>2
    <3> QED BY SMT, <3>1 DEF Waiting
  <2>3. th.sig = NoSig
      BY Zenon, <1>1, <2>1 DEF IInv, ResumeInv
  <2> QED BY Zenon, <1>3, <2>1, <2>2, <2>3 DEF Quiet
<1>5. Types'
    BY Zenon, <1>1, <1>2, <1>3 DEF IInv, Types
<1>6. QueueInv'
  <2>1. th'.interruptible => "waited" \in prog'.events
      BY Zenon, <1>2, <1>3, <1>4 DEF IInv, QueueInv
  <2> QED BY Zenon, <1>1, <1>2, <1>3, <1>4, <2>1 DEF IInv, QueueInv, NothingDeliverableWaits, FlagHasASignal, WaitsAreInterrupted
<1>7. ResumeInv' /\ EntryInv'
    BY Zenon, <1>2, <1>3, <1>4 DEF ResumeInv, ResumesWithResult, EntryInv
<1>8. MaskInv'
    BY Zenon, <1>1, <1>2, <1>3, <1>4 DEF IInv, MaskInv
<1>9. HandlerInv'
    BY Zenon, <1>1, <1>2, <1>3, <1>4 DEF IInv, HandlerInv, ReturnsHaveASignal
<1> QED BY Zenon, <1>5, <1>6, <1>7, <1>8, <1>9 DEF IInv

(***************************************************************************)
(* A step inside a call that leaves registers, masks and signals alone: a  *)
(* wait begins or ends, sigprocmask reads the mask, fork the registers.    *)
(***************************************************************************)
LEMMA InsideInv ==
    ASSUME IInv, Block \/ Wake \/ Unblock \/ AwaitChild \/ Lock \/ ForkRegs \/ GetSignalMask
    PROVE  IInv'
<1>1. th \in Threads /\ call \in SystemCalls /\ prog \in Programs /\ InKernel /\ sp' = sp /\ budget' = budget
    BY Zenon DEF IInv, Types, InKernel, InCall, Block, Wake, Unblock, AwaitChild, Lock, ForkRegs, GetSignalMask
<1>0. /\ prog' \in Programs /\ prog'.rax = prog.rax /\ prog'.mask = prog.mask /\ prog'.lost = prog.lost
      /\ prog.events \subseteq prog'.events /\ prog'.events \subseteq prog.events \cup {"waited"}
      /\ prog' = prog \/ "waited" \in prog'.events
  <2>1. prog' = prog \/ prog' = [prog EXCEPT !.events = @ \cup {"waited"}]
      BY Zenon DEF Block, Wake, Unblock, AwaitChild, Lock, ForkRegs, GetSignalMask
  <2> QED BY Zenon, <1>1, <2>1 DEF Programs
<1>2. /\ th' \in Threads /\ th'.sig = th.sig /\ th'.mask = th.mask
      /\ th'.oldMask = th.oldMask /\ th'.saved = th.saved /\ th'.queue = th.queue
      /\ th'.interrupted = th.interrupted /\ th'.frame = th.frame /\ th'.mode \in {"call", "wait"}
      /\ th'.mode = "wait" /\ call.op # "lock" => th'.interruptible /\ (th'.interrupted => call'.early)
      /\ th'.interruptible =>
           \/ "waited" \in prog'.events
           \/ call.op = "block" /\ call'.step = 1
           \/ th.interruptible /\ (call.op # "block" \/ call'.step = call.step)
  <2>1. CASE Block
    <3>1. /\ th' = [th EXCEPT !.mode = "wait", !.interruptible = TRUE] /\ call.op = "block"
          /\ call' = [call EXCEPT !.step = 1, !.early = th.interrupted]
        BY Zenon, <2>1 DEF Block, InCall
    <3> QED BY Zenon, <1>1, <3>1 DEF Threads, SystemCalls
  <2>2. CASE Wake
    <3>1. th' = [th EXCEPT !.mode = "call"] /\ call' = call
        BY Zenon, <2>2 DEF Wake
    <3> QED BY Zenon, <1>1, <3>1 DEF Threads
  <2>3. CASE Unblock
    <3>1. th' = [th EXCEPT !.interruptible = FALSE] /\ th.mode = "call"
        BY Zenon, <2>3 DEF Unblock, InCall
    <3> QED BY Zenon, <1>1, <3>1 DEF Threads
  <2>4. CASE ForkRegs \/ GetSignalMask
      BY Zenon, <1>1, <2>4 DEF ForkRegs, GetSignalMask, InCall
  <2>5. CASE AwaitChild
    <3>1. th.mode = "call" /\ call.op = "waitpid"
        BY Zenon, <2>5 DEF AwaitChild, InCall
    <3>2. CASE /\ ~th.interrupted /\ th' = [th EXCEPT !.mode = "wait", !.interruptible = TRUE]
               /\ prog' = [prog EXCEPT !.events = @ \cup {"waited"}]
      <4>1. "waited" \in prog'.events
          BY Zenon, <1>1, <3>2 DEF Programs
      <4> QED BY Zenon, <1>1, <3>2, <4>1 DEF Threads
    <3>3. CASE th' = th
        BY Zenon, <1>1, <3>1, <3>3
    <3> QED BY Zenon, <2>5, <3>2, <3>3 DEF AwaitChild
  <2>6. CASE Lock
    <3>1. th' = [th EXCEPT !.mode = "wait"] /\ call.op = "lock"
        BY Zenon, <2>6 DEF Lock, InCall
    <3> QED BY Zenon, <1>1, <3>1 DEF Threads
  <2> QED BY Zenon, <2>1, <2>2, <2>3, <2>4, <2>5, <2>6
<1>3. /\ call' \in SystemCalls /\ call'.before = call.before /\ call'.main = call.main /\ call'.op = call.op
      /\ call.op = "sigreturn" => call'.step = call.step
      /\ call.op = "sigprocmask" /\ call'.step < 2 => call.step < 2
      /\ call.op = "fork" /\ call'.step = 1 => call'.regs = th.frame \/ (call'.regs = call.regs /\ call.step = 1)
      /\ call'.regs \in {call.regs, th.frame}
  <2>1. 1 \in 0..2 /\ 2 \in 0..2 /\ 0 < 2 /\ 1 < 2
      OBVIOUS
  <2>2. CASE Block
    <3>1. call.op = "block" /\ call' = [call EXCEPT !.step = 1, !.early = th.interrupted]
        BY Zenon, <2>2 DEF Block, InCall
    <3> QED BY Zenon, <1>1, <2>1, <3>1 DEF Threads, SystemCalls
  <2>3. CASE Wake
      BY Zenon, <1>1, <2>3 DEF Wake
  <2>4. CASE Unblock
    <3>1. call.op = "block" /\ call' = [call EXCEPT !.step = 2]
        BY Zenon, <2>4 DEF Unblock, InCall, Step
    <3> QED BY Zenon, <1>1, <2>1, <3>1 DEF Threads, SystemCalls
  <2>5. CASE ForkRegs
    <3>1. call.op = "fork" /\ call' = [call EXCEPT !.step = 1, !.regs = th.frame]
        BY Zenon, <2>5 DEF ForkRegs, InCall
    <3> QED BY Zenon, <1>1, <2>1, <3>1 DEF Threads, SystemCalls
  <2>6. CASE GetSignalMask
    <3>1. call.op = "sigprocmask" /\ call.step = 0 /\ call' = [call EXCEPT !.step = 1, !.mask = th.mask]
        BY Zenon, <2>6 DEF GetSignalMask, InCall
    <3> QED BY Zenon, <1>1, <2>1, <3>1 DEF Threads, SystemCalls
  <2>7. CASE AwaitChild \/ Lock
    <3>1. call.op \in {"waitpid", "lock"} /\ call' = [call EXCEPT !.step = 2]
        BY Zenon, <2>7 DEF AwaitChild, Lock, InCall, Step
    <3> QED BY Zenon, <1>1, <2>1, <3>1 DEF Threads, SystemCalls
  <2> QED BY Zenon, <2>2, <2>3, <2>4, <2>5, <2>6, <2>7
<1>4. /\ Running /\ Running' /\ InKernel' /\ th.mode # "user" /\ th'.mode \notin {"user", "entry", "panic"}
      /\ Quiet' = Quiet
    BY Zenon, <1>0, <1>1, <1>2 DEF Running, InKernel, Quiet
<1>5. Waiting(th', sp') = Waiting(th, sp)
    BY Zenon, <1>1, <1>2 DEF Waiting
<1>6. Types'
    BY Zenon, <1>0, <1>1, <1>2, <1>3 DEF IInv, Types
<1>7. QueueInv'
  <2>1. th'.interruptible =>
          "waited" \in prog'.events \/ (call'.op = "block" /\ call'.step = 1 /\ InKernel')
      BY Zenon, <1>0, <1>2, <1>3, <1>4 DEF IInv, QueueInv
  <2>2. \A x \in Waiting(th', sp') : sp'.disp[x].handler = "fn" \/ "reset" \in prog'.events
      BY Zenon, <1>0, <1>1, <1>5 DEF IInv, QueueInv
  <2>3. NothingDeliverableWaits' /\ FlagHasASignal'
      BY Zenon, <1>2, <1>4, <1>5 DEF IInv, QueueInv, NothingDeliverableWaits, FlagHasASignal
  <2> QED BY Zenon, <1>2, <1>3, <2>1, <2>2, <2>3 DEF QueueInv, WaitsAreInterrupted
<1>8. ResumeInv' /\ EntryInv'
    BY Zenon, <1>0, <1>1, <1>2, <1>3, <1>4 DEF IInv, ResumeInv, ResumesWithResult, EntryInv
<1>9. MaskInv'
    BY Zenon, <1>0, <1>1, <1>2, <1>3, <1>4 DEF IInv, MaskInv
<1>10. HandlerInv'
    BY Zenon, <1>0, <1>1, <1>2, <1>3, <1>4 DEF IInv, HandlerInv, ReturnsHaveASignal
<1> QED BY Zenon, <1>6, <1>7, <1>8, <1>9, <1>10 DEF IInv

(* The end of a call: its result is in the registers of the main program, on the stack or saved. *)
LEMMA LeaveInv ==
    ASSUME IInv, LeaveCall
    PROVE  IInv'
<1> DEFINE result == IF call.op = "sigreturn" THEN th.frame.rax ELSE "result"
           t == [th EXCEPT !.mode = "user", !.frame.rax = result]
<1>1. /\ th.mode = "call" /\ call.step = 2 /\ th \in Threads /\ prog \in Programs /\ sp' = sp /\ budget' = budget
      /\ th' = IF call.before = NoSig /\ th.sig # NoSig
               THEN [t EXCEPT !.saved.rax = result, !.interruptible = FALSE, !.interrupted = FALSE] ELSE t
      /\ call' = NoCallYet
      /\ prog' = IF call.main THEN [prog EXCEPT !.rax = result] ELSE prog
    BY Zenon DEF LeaveCall, Leave, InCall, IInv, Types
<1>2. result \in {"user", "call", "result", "zero"} /\ (call.op = "sigreturn" => result = th.frame.rax)
    BY Zenon, <1>1 DEF Threads, Regs
<1> HIDE DEF result
<1>3. /\ t \in Threads /\ t.mode = "user" /\ t.sig = th.sig /\ t.mask = th.mask
      /\ t.oldMask = th.oldMask /\ t.saved = th.saved /\ t.queue = th.queue
      /\ t.interruptible = th.interruptible /\ t.interrupted = th.interrupted
      /\ t.frame.rip = th.frame.rip /\ t.frame.rax = result
    BY Zenon, <1>1, <1>2 DEF Threads, Regs
<1> HIDE DEF t
<1>4. /\ th' \in Threads /\ th'.mode = "user" /\ th'.sig = th.sig /\ th'.mask = th.mask
      /\ th'.oldMask = th.oldMask /\ th'.saved.rip = th.saved.rip /\ th'.queue = th.queue
      /\ (th'.interrupted => th.interrupted) /\ (th'.interruptible => th.interruptible)
      /\ th'.frame.rip = th.frame.rip /\ th'.frame.rax = result
      /\ th'.saved.rax = IF call.before = NoSig /\ th.sig # NoSig THEN result ELSE th.saved.rax
  <2>1. CASE call.before = NoSig /\ th.sig # NoSig
    <3>1. th' = [t EXCEPT !.saved.rax = result, !.interruptible = FALSE, !.interrupted = FALSE]
        BY Zenon, <1>1, <2>1
    <3>2. /\ th' \in Threads /\ th'.mode = t.mode /\ th'.sig = t.sig /\ th'.mask = t.mask
          /\ th'.oldMask = t.oldMask /\ th'.saved.rip = t.saved.rip /\ th'.queue = t.queue
          /\ ~th'.interrupted /\ ~th'.interruptible /\ th'.frame = t.frame /\ th'.saved.rax = result
        BY Zenon, <1>2, <1>3, <3>1 DEF Threads, Regs
    <3> QED BY Zenon, <1>3, <2>1, <3>2
  <2>2. CASE ~(call.before = NoSig /\ th.sig # NoSig)
      BY Zenon, <1>1, <1>3, <2>2
  <2> QED BY Zenon, <2>1, <2>2
<1>5. /\ prog' \in Programs /\ prog'.mask = prog.mask /\ prog'.events = prog.events /\ prog'.lost = prog.lost
      /\ prog'.rax = IF call.main THEN result ELSE prog.rax
    BY Zenon, <1>1, <1>2 DEF Programs
<1>6. call' \in SystemCalls /\ call'.regs.rip = "zero" /\ "zero" \notin Code
    BY <1>1 DEF NoCallYet, NoRegs, SystemCalls, Regs, Rips, Code
<1>7. Running /\ Running' /\ InKernel /\ ~InKernel'
    BY Zenon, <1>1, <1>4 DEF Running, InKernel
<1>8. Waiting(th', sp') = Waiting(th, sp)
  <2>1. th'.queue = th.queue /\ sp'.pending = sp.pending
      BY Zenon, <1>1, <1>4
  <2> QED BY SMT, <2>1 DEF Waiting
<1>9. Types'
    BY Zenon, <1>1, <1>4, <1>5, <1>6 DEF IInv, Types
<1>10. QueueInv'
  <2>1. th'.interruptible => "waited" \in prog'.events
    <3>1. call.step # 1
        BY <1>1
    <3> QED BY Zenon, <1>4, <1>5, <1>7, <3>1 DEF IInv, QueueInv
  <2>2. \A x \in Waiting(th', sp') : sp'.disp[x].handler = "fn" \/ "reset" \in prog'.events
      BY Zenon, <1>1, <1>5, <1>8 DEF IInv, QueueInv
  <2>3. NothingDeliverableWaits' /\ FlagHasASignal'
      BY Zenon, <1>4, <1>7, <1>8 DEF IInv, QueueInv, NothingDeliverableWaits, FlagHasASignal
  <2> QED BY Zenon, <1>4, <2>1, <2>2, <2>3 DEF QueueInv, WaitsAreInterrupted
<1>11. ResumeInv' /\ EntryInv'
  <2>1. th'.frame.rip = Main => th'.sig = NoSig /\ (th'.frame.rax = prog'.rax \/ prog'.lost)
      BY Zenon, <1>2, <1>4, <1>5, <1>7 DEF IInv, ResumeInv
  <2>2. th'.sig # NoSig /\ th'.saved.rip = Main => th'.saved.rax = prog'.rax \/ prog'.lost
    <3>1. th.sig # NoSig /\ th.saved.rip = Main =>
            IF call.before = NoSig THEN call.main ELSE th.saved.rax = prog.rax \/ prog.lost
        BY Zenon, <1>7 DEF IInv, ResumeInv
    <3>2. call.main => call.before = NoSig \/ prog.lost
        BY Zenon, <1>7 DEF IInv, ResumeInv
    <3> QED BY Zenon, <1>4, <1>5, <3>1, <3>2
  <2> QED BY Zenon, <1>4, <1>7, <2>1, <2>2 DEF ResumeInv, ResumesWithResult, EntryInv
<1>12. MaskInv'
  <2>1. Quiet => prog.mask = IF th.sig = NoSig THEN th.mask ELSE th.oldMask
      BY Zenon, <1>7 DEF IInv, MaskInv
  <2> QED BY Zenon, <1>4, <1>5, <1>7, <2>1 DEF MaskInv, Quiet
<1>13. HandlerInv'
  <2>1. {th.frame.rip, th.saved.rip} \cap Code # {} => "reset" \in prog.events
      BY Zenon DEF IInv, HandlerInv
  <2>2. {th'.frame.rip, th'.saved.rip, call'.regs.rip} \cap Code # {} => "reset" \in prog'.events
      BY Zenon, <1>4, <1>5, <1>6, <2>1
  <2>3. /\ th'.frame.rip # Main => th'.sig # NoSig \/ "forked" \in prog'.events
        /\ th'.sig # NoSig => th'.saved.rip = Main \/ "forked" \in prog'.events
      BY Zenon, <1>4, <1>5, <1>7 DEF IInv, HandlerInv
  <2> QED BY Zenon, <1>4, <2>2, <2>3 DEF HandlerInv, ReturnsHaveASignal
<1> QED BY Zenon, <1>9, <1>10, <1>11, <1>12, <1>13 DEF IInv

(* The child of fork goes on with the registers that fork copied, and without signals. *)
LEMMA ForkInv ==
    ASSUME IInv, ForkThread
    PROVE  IInv'
<1>1. /\ th \in Threads /\ sp \in Processes /\ prog \in Programs /\ call \in SystemCalls
      /\ th.mode = "call" /\ call.op = "fork" /\ call.step = 1
      /\ th' = [th EXCEPT !.mode = "user", !.sig = NoSig, !.queue = <<>>, !.oldMask = {},
                          !.interrupted = FALSE, !.interruptible = FALSE,
                          !.frame = [call.regs EXCEPT !.rax = "result"], !.saved = NoRegs]
      /\ sp' = [sp EXCEPT !.pending = <<>>, !.alarm = 0]
      /\ call' = NoCallYet /\ budget' = budget
      /\ prog' = [prog EXCEPT !.rax = IF call.main THEN "result" ELSE @,
                              !.events = @ \cup (IF call.regs.rip # Main \/ th.sig # NoSig
                                                 THEN {"forked"} ELSE {})]
    BY Zenon DEF IInv, Types, ForkThread, InCall
<1>2. <<>> \in Seq(Sigs) /\ 0 \in 0..MaxAlarm /\ NoRegs \in Regs /\ Elements(<<>>) = {}
    BY SignalsAssumption DEF NoRegs, Regs, Rips, Elements
<1>3. [call.regs EXCEPT !.rax = "result"] \in Regs /\ [call.regs EXCEPT !.rax = "result"].rip = call.regs.rip
      /\ [call.regs EXCEPT !.rax = "result"].rax = "result"
  <2>1. call.regs \in Regs
      BY Zenon, <1>1 DEF SystemCalls
  <2> QED BY Zenon, <2>1 DEF Regs
<1>4. /\ th' \in Threads /\ th'.mode = "user" /\ th'.sig = NoSig /\ th'.queue = <<>> /\ ~th'.interrupted /\ ~th'.interruptible
      /\ th'.frame.rip = call.regs.rip /\ th'.frame.rax = "result" /\ th'.saved = NoRegs /\ th'.mask = th.mask
  <2>1. /\ th' \in Threads /\ th'.mode = "user" /\ th'.sig = NoSig /\ th'.queue = <<>> /\ ~th'.interrupted /\ ~th'.interruptible
        /\ th'.frame = [call.regs EXCEPT !.rax = "result"] /\ th'.saved = NoRegs /\ th'.mask = th.mask
      BY Zenon, <1>1, <1>2, <1>3 DEF Threads
  <2> QED BY Zenon, <1>3, <2>1
<1>5. sp' \in Processes /\ sp'.pending = <<>>
    BY Zenon, <1>1, <1>2 DEF Processes
<1>6. /\ prog' \in Programs /\ prog'.mask = prog.mask /\ prog'.rax = IF call.main THEN "result" ELSE prog.rax
      /\ prog.events \subseteq prog'.events
      /\ call.regs.rip # Main \/ th.sig # NoSig => "forked" \in prog'.events
    BY Zenon, <1>1 DEF Programs
<1>7. call' \in SystemCalls /\ call'.regs.rip = "zero" /\ "zero" \notin Code /\ NoRegs.rip = "zero"
    BY <1>1 DEF NoCallYet, NoRegs, SystemCalls, Regs, Rips, Code
<1>8. Running /\ Running' /\ InKernel /\ ~InKernel'
    BY Zenon, <1>1, <1>4 DEF Running, InKernel
<1>9. Waiting(th', sp') = {}
    BY Zenon, <1>2, <1>4, <1>5 DEF Waiting, Elements
<1>10. Types'
    BY Zenon, <1>1, <1>4, <1>5, <1>6, <1>7 DEF IInv, Types
<1>11. QueueInv'
    BY Zenon, <1>4, <1>9 DEF QueueInv, NothingDeliverableWaits, FlagHasASignal, WaitsAreInterrupted
<1>12. ResumeInv' /\ EntryInv'
  <2>1. call.regs.rip = Main => call.main
      BY Zenon, <1>1, <1>8 DEF IInv, ResumeInv
  <2> QED BY Zenon, <1>4, <1>6, <1>8, <2>1 DEF ResumeInv, ResumesWithResult, EntryInv
<1>13. MaskInv'
  <2>1. Quiet => prog.mask = IF th.sig = NoSig THEN th.mask ELSE th.oldMask
      BY Zenon, <1>8 DEF IInv, MaskInv
  <2> QED BY Zenon, <1>4, <1>6, <1>8, <2>1 DEF MaskInv, Quiet
<1>14. HandlerInv'
  <2>1. call.regs.rip \in Code => "reset" \in prog.events
      BY Zenon DEF IInv, HandlerInv
  <2> QED BY Zenon, <1>4, <1>6, <1>7, <2>1 DEF HandlerInv, ReturnsHaveASignal
<1> QED BY Zenon, <1>10, <1>11, <1>12, <1>13, <1>14 DEF IInv

(* sigprocmask sets the mask, and a thread without a signal takes the next. *)
LEMMA MaskSetInv ==
    ASSUME IInv, NEW how \in {"block", "unblock", "set"}, NEW set \in SUBSET Sigs, SetSignalMask(how, set)
    PROVE  IInv'
<1> DEFINE mask == CASE how = "block" -> call.mask \cup set
                     [] how = "unblock" -> call.mask \ set
                     [] how = "set" -> set
           t == [th EXCEPT !.mask = mask]
           r == IF t.sig = NoSig THEN NextSignal(t, sp) ELSE Same(t, sp)
<1>1. /\ th \in Threads /\ sp \in Processes /\ call \in SystemCalls /\ budget \in Bounds /\ prog \in Programs
      /\ th.mode = "call" /\ call.op = "sigprocmask" /\ call.step = 1
      /\ th' = r.th /\ sp' = r.sp /\ budget' = budget /\ call' = [call EXCEPT !.step = 2]
      /\ prog' = IF call.main THEN [prog EXCEPT !.mask = mask] ELSE prog
    BY Zenon DEF IInv, Types, SetSignalMask, InCall, Step
<1>2. mask \in SUBSET Sigs
  <2>1. call.mask \in SUBSET Sigs
      BY Zenon, <1>1 DEF SystemCalls
  <2> QED BY Zenon, <2>1
<1> HIDE DEF mask
<1>3. /\ t \in Threads /\ t.mode = "call" /\ t.sig = th.sig /\ t.mask = mask
      /\ t.oldMask = th.oldMask /\ t.saved = th.saved /\ t.queue = th.queue
      /\ t.interruptible = th.interruptible /\ t.interrupted = th.interrupted /\ t.frame = th.frame
    BY Zenon, <1>1, <1>2 DEF Threads
<1> HIDE DEF t
<1>4. /\ prog' \in Programs /\ prog'.events = prog.events /\ prog'.rax = prog.rax
      /\ prog'.mask = (IF call.main THEN mask ELSE prog.mask) /\ prog'.lost = prog.lost
    BY Zenon, <1>1, <1>2 DEF Programs
<1>5. InKernel /\ Running /\ call.step < 2
    BY <1>1 DEF InKernel, Running
<1>0. th.interruptible => "waited" \in prog.events
    BY Zenon, <1>1, <1>5 DEF IInv, QueueInv
<1>6. CASE th.sig = NoSig
  <2>1. th' = r.th /\ sp' = r.sp /\ r = NextSignal(t, sp)
      BY Zenon, <1>1, <1>3, <1>6
  <2>2. ~t.interrupted
      BY Zenon, <1>3, <1>5, <1>6 DEF IInv, QueueInv, FlagHasASignal
  <2>3. t.frame.rip = Main \/ "forked" \in prog.events
      BY Zenon, <1>3, <1>5, <1>6 DEF IInv, HandlerInv
  <2>4. t.frame.rip = Main => call.main
      BY Zenon, <1>1, <1>3, <1>5 DEF IInv, ResumeInv
  <2>5. Quiet' => prog'.mask = t.mask
      BY Zenon, <1>3, <1>4, <2>3, <2>4 DEF Quiet
  <2>6. {t.frame.rip, t.saved.rip} \cap Code # {} => "reset" \in prog.events
      BY Zenon, <1>3 DEF IInv, HandlerInv
  <2>7. call.main => call.before = NoSig /\ call.op # "sigreturn"
      BY Zenon, <1>5, <1>6 DEF IInv, ResumeInv
  <2>8. t.interruptible => "waited" \in prog.events
      BY Zenon, <1>0, <1>3
  <2> HIDE DEF r
  <2> QED BY Zenon, <1>1, <1>3, <1>4, <1>6, <2>1, <2>2, <2>3, <2>4, <2>5, <2>6, <2>7, <2>8, TakenInv
<1>7. CASE th.sig # NoSig
  <2>1. th' = t /\ sp' = sp
      BY Zenon, <1>1, <1>3, <1>7 DEF Same
  <2>2. /\ call' \in SystemCalls /\ call'.before = call.before /\ call'.main = call.main
        /\ call'.op = call.op /\ call'.regs = call.regs /\ call'.step = 2
    <3>1. 2 \in 0..2
        OBVIOUS
    <3> QED BY Zenon, <1>1, <3>1 DEF SystemCalls
  <2>3. call'.step # 1 /\ ~(call'.step < 2) /\ call.op # "sigreturn"
      BY <1>1, <2>2
  <2>4. Running' /\ InKernel' /\ (Quiet' => Quiet) /\ th'.mode = "call"
      BY Zenon, <1>3, <1>4, <2>1 DEF Running, InKernel, Quiet
  <2>5. Waiting(th', sp') = Waiting(th, sp)
      BY SMT, <1>3, <2>1 DEF Waiting
  <2>6. Types'
      BY Zenon, <1>1, <1>3, <1>4, <2>1, <2>2 DEF Types
  <2>7. QueueInv'
    <3>1. \A x \in Waiting(th', sp') : sp'.disp[x].handler = "fn" \/ "reset" \in prog'.events
        BY Zenon, <1>4, <2>1, <2>5 DEF IInv, QueueInv
    <3> QED BY Zenon, <1>0, <1>3, <1>4, <1>7, <2>1, <2>4, <3>1 DEF QueueInv, NothingDeliverableWaits, FlagHasASignal, WaitsAreInterrupted
  <2>8. ResumeInv' /\ EntryInv'
    <3>1. th'.sig = th.sig /\ th'.frame = th.frame /\ th'.saved = th.saved
        BY Zenon, <1>3, <2>1
    <3> QED BY Zenon, <1>4, <1>5, <1>7, <2>2, <2>3, <2>4, <3>1 DEF IInv, ResumeInv, ResumesWithResult, EntryInv
  <2>9. MaskInv'
    <3>1. Quiet => prog'.mask = prog.mask
      <4>1. Quiet => th.sig = call.before
          BY Zenon, <1>1, <1>5 DEF IInv, MaskInv
      <4>2. call.main => call.before = NoSig \/ prog.lost
          BY Zenon, <1>5 DEF IInv, ResumeInv
      <4>3. call.main /\ prog.lost => ~Quiet
          BY Zenon, <1>1, <1>5 DEF IInv, MaskInv
      <4> QED BY Zenon, <1>4, <1>7, <4>1, <4>2, <4>3
    <3>2. Quiet => prog.mask = th.oldMask
        BY Zenon, <1>5, <1>7 DEF IInv, MaskInv
    <3>3. (InKernel' \/ th'.mode = "entry") /\ call'.main /\ call'.op = "sigprocmask" /\ prog'.lost => ~Quiet'
        BY Zenon, <1>1, <1>4, <1>5, <2>2, <2>4 DEF IInv, MaskInv
    <3> QED BY Zenon, <1>3, <1>7, <2>1, <2>3, <2>4, <3>1, <3>2, <3>3 DEF MaskInv
  <2>10. HandlerInv'
      BY Zenon, <1>3, <1>4, <1>5, <2>1, <2>2, <2>4 DEF IInv, HandlerInv, ReturnsHaveASignal
  <2> QED BY Zenon, <2>6, <2>7, <2>8, <2>9, <2>10 DEF IInv
<1> QED BY Zenon, <1>6, <1>7

(* The return of a handler gives registers and mask back, and takes the next signal. *)
LEMMA SigreturnInv ==
    ASSUME IInv, Sigreturn
    PROVE  IInv'
<1>1. /\ th \in Threads /\ sp \in Processes /\ call \in SystemCalls /\ budget' \in Bounds /\ prog \in Programs
      /\ th.mode = "call" /\ call.op = "sigreturn" /\ call.step = 0
      /\ call' = [call EXCEPT !.step = 2]
      /\ Becomes(IF th.sig = NoSig THEN Same([th EXCEPT !.mode = "panic"], sp) ELSE NextSignal(Restored(th), sp))
    BY Zenon DEF IInv, Types, Sigreturn, InCall, Step
<1>2. InKernel /\ Running /\ call.step # 2 /\ ~call.main
  <2>1. InKernel /\ Running /\ call.step # 2
      BY <1>1 DEF InKernel, Running
  <2> QED BY Zenon, <1>1, <2>1 DEF IInv, ResumeInv
<1>3. th.frame.rip # Main
    BY Zenon, <1>2 DEF IInv, ResumeInv
<1>4. CASE th.sig = NoSig
  <2> DEFINE u == [th EXCEPT !.mode = "panic"]
             r == Same(u, sp)
  <2>1. Becomes(r)
      BY Zenon, <1>1, <1>4
  <2>2. u \in Threads /\ u.mode = "panic" /\ u.queue = th.queue /\ u.frame = th.frame /\ u.saved = th.saved
      BY Zenon, <1>1 DEF Threads
  <2> HIDE DEF u
  <2>3. r.th = u /\ r.sp = sp
      BY Zenon DEF Same
  <2> HIDE DEF r
  <2>4. Waiting(r.th, r.sp) = Waiting(th, sp)
      BY SMT, <2>2, <2>3 DEF Waiting
  <2>5. /\ th' = u /\ sp' = sp /\ prog' \in Programs /\ prog.events \subseteq prog'.events
        /\ \A x \in Waiting(th', sp') : sp'.disp[x].handler = "fn" \/ "reset" \in prog'.events
      BY Zenon, <1>1, <2>1, <2>3, <2>4, BecomesNotes
  <2>6. ~Running' /\ ~InKernel' /\ th'.mode = "panic"
      BY Zenon, <2>2, <2>5 DEF Running, InKernel
  <2>7. call' \in SystemCalls /\ call'.regs = call.regs
    <3>1. 2 \in 0..2
        OBVIOUS
    <3> QED BY Zenon, <1>1, <3>1 DEF SystemCalls
  <2>8. Types'
      BY Zenon, <1>1, <2>2, <2>5, <2>7 DEF Types
  <2>9. QueueInv'
      BY Zenon, <2>5, <2>6 DEF QueueInv, NothingDeliverableWaits, FlagHasASignal, WaitsAreInterrupted
  <2>10. ResumeInv' /\ EntryInv' /\ MaskInv'
      BY Zenon, <2>6 DEF ResumeInv, ResumesWithResult, EntryInv, MaskInv
  <2>11. HandlerInv'
    <3>1. "forked" \in prog.events
        BY Zenon, <1>2, <1>3, <1>4 DEF IInv, HandlerInv
    <3>2. {th.frame.rip, th.saved.rip, call.regs.rip} \cap Code # {} => "reset" \in prog.events
        BY Zenon DEF IInv, HandlerInv
    <3> QED BY Zenon, <2>2, <2>5, <2>6, <2>7, <3>1, <3>2 DEF HandlerInv, ReturnsHaveASignal
  <2> QED BY Zenon, <2>8, <2>9, <2>10, <2>11 DEF IInv
<1>5. CASE th.sig # NoSig
  <2> DEFINE t == Restored(th)
             r == NextSignal(t, sp)
  <2>1. Becomes(r)
      BY Zenon, <1>1, <1>5
  <2>2. /\ t \in Threads /\ t.mode = "call" /\ t.sig = NoSig /\ t.mask = th.oldMask
        /\ t.saved = th.saved /\ t.queue = th.queue /\ ~t.interrupted /\ ~t.interruptible /\ t.frame = th.saved
      BY Zenon, <1>1 DEF Threads, Restored
  <2> HIDE DEF t
  <2>3. r = NextSignal(t, sp)
      BY Zenon
  <2> HIDE DEF r
  <2>4. r.sp \in Processes /\ Waiting(r.th, r.sp) \subseteq Waiting(th, sp)
    <3>1. Waiting(t, sp) = Waiting(th, sp)
        BY SMT, <2>2 DEF Waiting
    <3>2. (r.th = t /\ r.sp = sp) \/ (r.sp \in Processes /\ Waiting(r.th, r.sp) \subseteq Waiting(t, sp))
        BY Zenon, <1>1, <2>2, <2>3, NextGives
    <3>3. CASE r.th = t /\ r.sp = sp
        BY Zenon, <1>1, <3>1, <3>3
    <3> QED BY Zenon, <3>1, <3>2, <3>3
  <2>5. /\ th' = r.th /\ sp' = r.sp /\ prog' \in Programs /\ prog.events \subseteq prog'.events
        /\ prog'.rax = prog.rax /\ prog'.mask = prog.mask /\ prog'.lost = prog.lost
      BY Zenon, <1>1, <2>1, <2>4, BecomesNotes
  <2>6. Quiet' => prog'.mask = t.mask
      BY Zenon, <1>2, <1>5, <2>2, <2>5 DEF IInv, MaskInv, Quiet
  <2>7. t.frame.rip = Main => call.before # NoSig /\ (t.frame.rax = prog.rax \/ prog.lost)
      BY Zenon, <1>2, <1>5, <2>2 DEF IInv, ResumeInv
  <2>8. /\ t.frame.rip = Main \/ "forked" \in prog.events
        /\ {t.frame.rip, t.saved.rip} \cap Code # {} => "reset" \in prog.events
      BY Zenon, <1>2, <1>5, <2>2 DEF IInv, HandlerInv
  <2> QED BY Zenon, <1>1, <1>2, <2>2, <2>3, <2>5, <2>6, <2>7, <2>8, TakenInv
<1> QED BY Zenon, <1>4, <1>5

-----------------------------------------------------------------------------
(* Results *)

(* The program starts in its main program, without a signal. *)
LEMMA InitInv == SignalsInit => IInv
<1> SUFFICES ASSUME SignalsInit PROVE IInv
    BY Zenon
<1>1. /\ th = [mode |-> "user", sig |-> NoSig, mask |-> {}, oldMask |-> {}, queue |-> <<>>,
               frame |-> [rip |-> Main, rax |-> "user"], saved |-> NoRegs,
               interruptible |-> FALSE, interrupted |-> FALSE]
      /\ call = NoCallYet /\ budget \in Signals /\ prog = [mask |-> {}, rax |-> "user", events |-> {}, lost |-> FALSE]
    BY Zenon DEF SignalsInit
<1>2. <<>> \in Seq(Sigs) /\ 0 \in 0..MaxAlarm /\ NoRegs \in Regs /\ Elements(<<>>) = {} /\ 0 \in 0..2
    BY SignalsAssumption DEF NoRegs, Regs, Rips, Elements
<1>3. sp \in Processes /\ sp.pending = <<>>
  <2>1. PICK disp \in [Sigs -> Actions] : sp = [disp |-> disp, pending |-> <<>>, alarm |-> 0]
      BY Zenon DEF SignalsInit
  <2>2. disp \in [Sigs -> SigActions]
      BY Zenon, SignalsAssumption
  <2> QED BY Zenon, <1>2, <2>1, <2>2 DEF Processes
<1>4. th \in Threads
  <2>1. [rip |-> Main, rax |-> "user"] \in Regs
      BY Zenon DEF Regs, Rips
  <2> QED BY Zenon, <1>1, <1>2, <2>1 DEF Threads
<1>5. call \in SystemCalls
    BY Zenon, <1>1, <1>2 DEF NoCallYet, SystemCalls
<1>6. prog \in Programs /\ budget \in Bounds
    BY Zenon, <1>1, SignalsAssumption DEF Programs, Bounds
<1>7. /\ th.mode = "user" /\ th.sig = NoSig /\ th.mask = {} /\ th.queue = <<>> /\ ~th.interrupted /\ ~th.interruptible
      /\ th.frame.rip = Main /\ th.frame.rax = "user" /\ th.saved.rip = "zero" /\ call.regs.rip = "zero"
      /\ prog.rax = "user" /\ prog.mask = {}
    BY Zenon, <1>1 DEF NoCallYet, NoRegs
<1>8. Running /\ ~InKernel /\ {Main, "zero"} \cap Code = {} /\ th.mode \notin {"entry", "wait", "panic"}
    BY Zenon, <1>7 DEF Running, InKernel, Code, Main
<1>9. Waiting(th, sp) = {}
    BY Zenon, <1>2, <1>3, <1>7 DEF Waiting, Elements
<1>10. QueueInv
    BY Zenon, <1>7, <1>8, <1>9 DEF QueueInv, NothingDeliverableWaits, FlagHasASignal, WaitsAreInterrupted
<1>11. ResumeInv /\ EntryInv /\ MaskInv
    BY Zenon, <1>7, <1>8 DEF ResumeInv, ResumesWithResult, EntryInv, MaskInv
<1>12. HandlerInv
    BY Zenon, <1>7, <1>8 DEF HandlerInv, ReturnsHaveASignal
<1> QED BY Zenon, <1>3, <1>4, <1>5, <1>6, <1>10, <1>11, <1>12 DEF IInv, Types

(* Every signal, every call and every step inside a call keeps the invariant. *)
LEMMA NextInv == IInv /\ [SignalsNext]_signalVars => IInv'
<1> SUFFICES ASSUME IInv, [SignalsNext]_signalVars PROVE IInv'
    BY Zenon
<1>1. CASE UNCHANGED signalVars
  <2>1. th' = th /\ sp' = sp /\ call' = call /\ budget' = budget /\ prog' = prog
      BY Zenon, <1>1 DEF signalVars
  <2>2. SameCall /\ prog.events \subseteq prog'.events
      BY Zenon, <2>1 DEF SameCall
  <2>3. /\ th' \in Threads /\ sp' \in Processes /\ budget' \in Bounds /\ prog' \in Programs
        /\ Running /\ th.sig = NoSig => Waiting(th', sp') \subseteq th.mask
        /\ \A x \in Waiting(th', sp') : sp'.disp[x].handler = "fn" \/ "reset" \in prog'.events
      BY Zenon, <2>1 DEF IInv, Types, QueueInv, NothingDeliverableWaits
  <2> QED BY Zenon, <2>1, <2>2, <2>3, QueuedInv
<1>2. CASE SignalsNext
  <2>1. CASE \/ \E s \in Sigs, directed \in BOOLEAN : SendToThread(s, directed) \/ Kill(s, directed)
             \/ UpdateAlarmTimers
      BY Zenon, <2>1, SentInv
  <2>2. CASE \E op \in Ops : EnterCall(op)
      BY Zenon, <2>2, EnterInv
  <2>3. CASE Work \/ GetSignal
      BY Zenon, <2>3, WorkInv, GetSignalInv
  <2>4. CASE Block \/ Wake \/ Unblock \/ AwaitChild \/ Lock \/ ForkRegs \/ GetSignalMask
      BY Zenon, <2>4, InsideInv
  <2>5. CASE \/ \E s \in Sigs, a \in Actions : Sigaction(s, a)
             \/ \E ms \in 0..MaxAlarm : Alarm(ms)
      BY Zenon, <2>5, SetInv
  <2>6. CASE ForkThread
      BY Zenon, <2>6, ForkInv
  <2>7. CASE \E how \in {"block", "unblock", "set"}, set \in SUBSET Sigs : SetSignalMask(how, set)
      BY Zenon, <2>7, MaskSetInv
  <2>8. CASE Sigreturn
      BY Zenon, <2>8, SigreturnInv
  <2>9. CASE LeaveCall
      BY Zenon, <2>9, LeaveInv
  <2> QED BY Zenon, <1>2, <2>1, <2>2, <2>3, <2>4, <2>5, <2>6, <2>7, <2>8, <2>9 DEF SignalsNext
<1> QED BY Zenon, <1>1, <1>2

(* A step that leaves both queues alone *)
LEMMA SameQueues ==
    ASSUME th'.queue = th.queue, sp'.pending = sp.pending
    PROVE  KeepsQueued
<1>1. Waiting(th', sp') = Waiting(th, sp)
    BY SMT DEF Waiting
<1> QED BY Zenon, <1>1 DEF KeepsQueued

(* A signal that is sent is added to a queue, or leaves both alone. *)
LEMMA SendKeeps ==
    ASSUME IInv, NEW p \in Processes, p.disp = sp.disp, p.pending = sp.pending, NEW s \in Sigs,
           NEW directed \in BOOLEAN, Becomes(SignalProcess(th, p, s, directed))
    PROVE  KeepsQueued
<1> DEFINE r == SignalProcess(th, p, s, directed)
<1>1. /\ th \in Threads /\ p.disp[s] \in SigActions /\ p.disp[s].handler \in {"dfl", "ign", "fn"}
      /\ th' = r.th /\ sp' = r.sp
    BY Zenon DEF IInv, Types, Processes, SigActions, Becomes
<1>2. CASE p.disp[s].handler = "dfl"
  <2>1. th' = [th EXCEPT !.mode = "killed"] /\ sp' = p
      BY Zenon, <1>1, <1>2 DEF SignalProcess, Same
  <2>2. th'.queue = th.queue /\ sp'.pending = sp.pending
      BY Zenon, <1>1, <2>1 DEF Threads
  <2> QED BY Zenon, <2>2, SameQueues
<1>3. CASE p.disp[s].handler = "ign"
  <2>1. th' = th /\ sp' = p
      BY Zenon, <1>1, <1>3 DEF SignalProcess, Same
  <2> QED BY Zenon, <2>1, SameQueues
<1>4. CASE p.disp[s].handler = "fn" /\ Busy(th, s)
  <2>1. /\ th' = IF directed THEN [th EXCEPT !.queue = Append(@, s)] ELSE th
        /\ sp' = IF directed THEN p ELSE [p EXCEPT !.pending = Append(@, s)]
      BY Zenon, <1>1, <1>4 DEF SignalProcess, Same
  <2>2. th.queue \in Seq(Sigs) /\ p.pending \in Seq(Sigs)
      BY Zenon, <1>1 DEF Threads, Processes
  <2>3. th'.queue \in {th.queue, Append(th.queue, s)} /\ sp'.pending \in {p.pending, Append(p.pending, s)}
      BY Zenon, <1>1, <2>1 DEF Threads, Processes
  <2>4. Elements(th.queue) \subseteq Elements(th'.queue) /\ Elements(sp.pending) \subseteq Elements(sp'.pending)
      BY Zenon, <2>2, <2>3, AppendedQueue
  <2> QED BY Zenon, <2>4 DEF KeepsQueued, Waiting, Elements
<1>5. CASE p.disp[s].handler = "fn" /\ ~Busy(th, s)
  <2>1. r = SendSignalToTask(th, p, s)
      BY Zenon, <1>5 DEF SignalProcess
  <2> HIDE DEF r
  <2>2. Sent(th, p, r, s)
      BY Zenon, <1>1, <1>5, <2>1, SendGives
  <2>3. th'.queue = th.queue /\ sp'.pending = sp.pending
      BY Zenon, <1>1, <2>2 DEF Sent
  <2> QED BY Zenon, <2>3, SameQueues
<1> QED BY Zenon, <1>1, <1>2, <1>3, <1>4, <1>5

(* The next signal leaves its queue, and with it no other of a queue of two. *)
LEMMA TakeKeeps ==
    ASSUME IInv, NEW t \in Threads, t.queue = th.queue, NEW r, r = NextSignal(t, sp), th' = r.th, sp' = r.sp
    PROVE  KeepsQueued
<1>1. Waiting(t, sp) = Waiting(th, sp)
    BY Zenon DEF Waiting
<1>2. sp \in Processes /\ th \in Threads
    BY Zenon DEF IInv, Types
<1>3. CASE r.th = t /\ r.sp = sp
    BY Zenon, <1>3, SameQueues
<1>4. ASSUME NEW s \in Waiting(t, sp),
             Given(t, r.th, s, IF sp.disp[s].handler = "fn" THEN s ELSE sp.disp[s].handler),
             Len(t.queue) <= 2 /\ Len(sp.pending) <= 2 => Waiting(t, sp) \subseteq Waiting(r.th, r.sp) \cup {s}
      PROVE  KeepsQueued
  <2>1. \/ Len(th.queue) > 2 \/ Len(sp.pending) > 2
        \/ Len(t.queue) <= 2 /\ Len(sp.pending) <= 2
    <3>1. Len(th.queue) \in Nat /\ Len(sp.pending) \in Nat
        BY <1>2 DEF Threads, Processes
    <3> QED BY <3>1
  <2>2. r.th.sig = s
      BY Zenon, <1>4 DEF Given
  <2> QED BY Zenon, <1>1, <1>4, <2>1, <2>2 DEF KeepsQueued
<1> QED BY Zenon, <1>2, <1>3, <1>4, NextGives

(* No step loses a signal of a queue, with the exceptions that KeepsQueued names. *)
LEMMA NextKeeps == IInv /\ [SignalsNext]_signalVars => [KeepsQueued]_signalVars
<1> SUFFICES ASSUME IInv, SignalsNext PROVE KeepsQueued
    BY Zenon
<1>1. sp \in Processes /\ th \in Threads /\ Alrm \in Sigs /\ FALSE \in BOOLEAN
    BY Zenon, SignalsAssumption DEF IInv, Types
<1>2. ASSUME NEW s \in Sigs, NEW directed \in BOOLEAN, SendToThread(s, directed) \/ Kill(s, directed)
      PROVE  KeepsQueued
  <2>1. Becomes(SignalProcess(th, sp, s, directed))
      BY Zenon, <1>2 DEF SendToThread, Kill
  <2> QED BY Zenon, <1>1, <2>1, SendKeeps
<1>3. CASE UpdateAlarmTimers
  <2> DEFINE p == [sp EXCEPT !.alarm = @ - 1]
  <2>1. p \in Processes /\ p.disp = sp.disp /\ p.pending = sp.pending
    <3>1. sp.alarm - 1 \in 0..MaxAlarm
        BY <1>1, <1>3, SignalsAssumption DEF Processes, UpdateAlarmTimers
    <3> QED BY Zenon, <1>1, <3>1 DEF Processes
  <2>2. Becomes(IF p.alarm > 0 THEN Same(th, p) ELSE SignalProcess(th, p, Alrm, FALSE))
      BY Zenon, <1>3 DEF UpdateAlarmTimers
  <2> HIDE DEF p
  <2>3. CASE p.alarm > 0
    <3>1. th' = th /\ sp' = p
        BY Zenon, <2>2, <2>3 DEF Becomes, Same
    <3> QED BY Zenon, <2>1, <3>1, SameQueues
  <2>4. CASE ~(p.alarm > 0)
      BY Zenon, <1>1, <2>1, <2>2, <2>4, SendKeeps
  <2> QED BY Zenon, <2>3, <2>4
<1>4. CASE \/ \E op \in Ops : EnterCall(op)
           \/ GetSignal \/ Work \/ Block \/ Wake \/ Unblock \/ AwaitChild \/ Lock \/ ForkRegs \/ GetSignalMask
  <2>1. th'.queue = th.queue /\ sp' = sp
      BY Zenon, <1>1, <1>4 DEF EnterCall, GetSignal, Work, Block, Wake, Unblock, AwaitChild, Lock, ForkRegs, GetSignalMask, Threads
  <2> QED BY Zenon, <2>1, SameQueues
<1>5. ASSUME NEW s \in Sigs, NEW a \in Actions, Sigaction(s, a) PROVE KeepsQueued
  <2>1. th' = th /\ sp'.pending = sp.pending
      BY Zenon, <1>1, <1>5 DEF Sigaction, Becomes, Same, Processes
  <2> QED BY Zenon, <2>1, SameQueues
<1>6. ASSUME NEW ms \in 0..MaxAlarm, Alarm(ms) PROVE KeepsQueued
  <2>1. th' = th /\ sp'.pending = sp.pending
      BY Zenon, <1>1, <1>6 DEF Alarm, Becomes, Same, Processes
  <2> QED BY Zenon, <2>1, SameQueues
<1>7. CASE ForkThread
    BY Zenon, <1>7 DEF ForkThread, InCall, KeepsQueued
<1>8. ASSUME NEW how \in {"block", "unblock", "set"}, NEW set \in SUBSET Sigs, SetSignalMask(how, set)
      PROVE  KeepsQueued
  <2> DEFINE mask == CASE how = "block" -> call.mask \cup set
                       [] how = "unblock" -> call.mask \ set
                       [] how = "set" -> set
             t == [th EXCEPT !.mask = mask]
             r == IF t.sig = NoSig THEN NextSignal(t, sp) ELSE Same(t, sp)
  <2>1. th' = r.th /\ sp' = r.sp
      BY Zenon, <1>8 DEF SetSignalMask
  <2>2. call.mask \in SUBSET Sigs
      BY Zenon DEF IInv, Types, SystemCalls
  <2>3. mask \in SUBSET Sigs
      BY Zenon, <2>2
  <2> HIDE DEF mask
  <2>4. t \in Threads /\ t.queue = th.queue
      BY Zenon, <1>1, <2>3 DEF Threads
  <2> HIDE DEF t
  <2>5. CASE t.sig = NoSig
      BY Zenon, <2>1, <2>4, <2>5, TakeKeeps
  <2>6. CASE t.sig # NoSig
    <3>1. th' = t /\ sp' = sp
        BY Zenon, <2>1, <2>6 DEF Same
    <3> QED BY Zenon, <2>4, <3>1, SameQueues
  <2> QED BY Zenon, <2>5, <2>6
<1>9. CASE Sigreturn
  <2>1. Becomes(IF th.sig = NoSig THEN Same([th EXCEPT !.mode = "panic"], sp) ELSE NextSignal(Restored(th), sp))
      BY Zenon, <1>9 DEF Sigreturn
  <2>2. CASE th.sig = NoSig
    <3>1. th' = [th EXCEPT !.mode = "panic"] /\ sp' = sp
        BY Zenon, <2>1, <2>2 DEF Becomes, Same
    <3>2. th'.queue = th.queue
        BY Zenon, <1>1, <3>1 DEF Threads
    <3> QED BY Zenon, <3>1, <3>2, SameQueues
  <2>3. CASE th.sig # NoSig
    <3>1. Restored(th) \in Threads /\ Restored(th).queue = th.queue
        BY Zenon, <1>1 DEF Threads, Restored
    <3>2. th' = NextSignal(Restored(th), sp).th /\ sp' = NextSignal(Restored(th), sp).sp
        BY Zenon, <2>1, <2>3 DEF Becomes
    <3> QED BY Zenon, <3>1, <3>2, TakeKeeps
  <2> QED BY Zenon, <2>2, <2>3
<1>10. CASE LeaveCall
  <2>1. th'.queue = th.queue /\ sp' = sp
    <3>1. ASSUME NEW result, Leave(result) PROVE th'.queue = th.queue /\ sp' = sp
        BY Zenon, <1>1, <3>1 DEF Leave, Threads
    <3> QED BY Zenon, <1>10, <3>1 DEF LeaveCall
  <2> QED BY Zenon, <2>1, SameQueues
<1> QED BY Zenon, <1>2, <1>3, <1>4, <1>5, <1>6, <1>7, <1>8, <1>9, <1>10 DEF SignalsNext

(* No signal waits that the thread could take, one that comes into an interruptible wait ends it and
   interrupts no other wait unless the task waited for a child before, the thread is marked
   interrupted only with a signal, and no queue of two loses one (send_signal_to_process,
   get_next_signal_info, vector::erase, handle_signal_return). *)
THEOREM SignalsAreTaken == SignalsSpec => []SignalsAreServed /\ SignalsArrive
<1>1. ASSUME IInv PROVE SignalsAreServed
  <2>1. LocksAreLeftAlone
    <3>1. th.mode = "wait" => Running
        BY Zenon DEF Running
    <3> QED BY Zenon, <1>1, <3>1 DEF IInv, QueueInv, LocksAreLeftAlone
  <2> QED BY Zenon, <1>1, <2>1 DEF IInv, QueueInv, SignalsAreServed
<1> QED BY <1>1, InitInv, NextInv, NextKeeps, PTL DEF SignalsSpec, SignalsArrive

(* In every state the main program has the registers and the mask that it would have without
   signals, handlers are its own code, and a handler that returns has a signal: with the exceptions
   that ProgramGoesOn names (prepare_signal_handle, syscall_interrupt_handler, handle_signal_return). *)
THEOREM ProgramsGoOn == SignalsSpec => []ProgramGoesOn
<1>1. ASSUME IInv PROVE ProgramGoesOn
  <2>1. SignalsTypeOK
      BY Zenon, <1>1 DEF IInv, Types, Threads, Processes, SignalsTypeOK
  <2>2. ResumesWithResult /\ ReturnsHaveASignal
      BY Zenon, <1>1 DEF IInv, ResumeInv, HandlerInv
  <2>3. MaskIsTheProgrammes
      BY Zenon, <1>1 DEF IInv, MaskInv, MaskIsTheProgrammes, Running, Quiet
  <2>4. HandlersAreCode
      BY Zenon, <1>1 DEF IInv, HandlerInv, HandlersAreCode, Code
  <2> QED BY Zenon, <2>1, <2>2, <2>3, <2>4 DEF ProgramGoesOn
<1> QED BY <1>1, InitInv, NextInv, PTL DEF SignalsSpec
=============================================================================
