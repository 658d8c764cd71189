------------------------------ MODULE Signals ------------------------------
(***************************************************************************)
(* The signals of one process with one thread: how they are sent, queued   *)
(* and delivered to a handler, how the handler returns, and what that does *)
(* to the system calls and the masks of the program.                       *)
(*                                                                         *)
(* The registers that an interrupt saved are [rip, rax]: rip is the main   *)
(* program or the handler of a signal, rax what the main program computed, *)
(* the number of a call or its result.                                     *)
(***************************************************************************)
EXTENDS Integers, Sequences, FiniteSets

CONSTANTS
    Sigs,           \* signals whose default ends the process
    Alrm,           \* SIGALRM, one of them
    Actions,        \* bound: the records [handler, mask, reset, nodefer] that sigaction sets
    MaxAlarm,       \* bound: the ticks of an alarm
    InfoWords,      \* sizeof(signal_info) in words of a pointer's size
    Signals         \* bounds: the pairs [sent, calls] of a behaviour

NoSig == "none"     \* SIGINVL
Main == "main"

\* struct sigaction: its handler is SIG_DFL, SIG_IGN or a function of the program.
SigActions == [handler : {"dfl", "ign", "fn"}, mask : SUBSET Sigs, reset : BOOLEAN, nodefer : BOOLEAN]

ASSUME SignalsAssumption ==
    /\ Alrm \in Sigs
    /\ Sigs \cap {NoSig, Main, "dfl", "ign", "zero"} = {}
    /\ Actions \subseteq SigActions
    /\ MaxAlarm \in Nat
    /\ InfoWords \in Nat \ {0}
    /\ Signals \subseteq [sent : Nat, calls : Nat]

VARIABLES
    th,         \* the thread: [mode, sig, mask, oldMask, queue, frame, saved, interruptible, interrupted]
    sp,         \* the process: [disp, pending, alarm]
    call,       \* the system call: [op, step, before, main, mask, regs, early]
    budget,     \* signals and calls still to come
    prog        \* history: [mask, rax] that the main program set, events, and whether
                \* a signal came into the entry of its last call (lost)

signalVars == <<th, sp, call, budget, prog>>

NoRegs == [rip |-> "zero", rax |-> "zero"]
NoCallYet == [op |-> "none", step |-> 0, before |-> NoSig, main |-> FALSE, mask |-> {},
              regs |-> NoRegs, early |-> FALSE]

SignalsInit ==
    /\ th = [mode |-> "user", sig |-> NoSig, mask |-> {}, oldMask |-> {}, queue |-> <<>>,
             frame |-> [rip |-> Main, rax |-> "user"], saved |-> NoRegs,
             interruptible |-> FALSE, interrupted |-> FALSE]
    /\ \E disp \in [Sigs -> Actions] :
          sp = [disp |-> disp, pending |-> <<>>, alarm |-> 0]
    /\ call = NoCallYet
    /\ budget \in Signals
    /\ prog = [mask |-> {}, rax |-> "user", events |-> {}, lost |-> FALSE]

Running == th.mode \in {"user", "entry", "call", "wait"}

-----------------------------------------------------------------------------
(* Delivery *)

\* prepare_signal_handle: the registers go to old_interrupt_regs, rip to the handler.
PrepareSignalHandle(t, disp, s) ==
    [t EXCEPT !.saved = t.frame,
              !.frame.rip = IF disp[s].handler = "fn" THEN s ELSE disp[s].handler]

\* The mask during the handler of s
Masked(mask, a, s) == mask \cup a.mask \cup (IF a.nodefer THEN {} ELSE {s})

\* send_signal_to_task; a task in an interruptible wait is woken up.
SendSignalToTask(t, p, s) ==
    [th |-> PrepareSignalHandle([t EXCEPT !.sig = s, !.oldMask = t.mask, !.interrupted = TRUE,
                                          !.mask = Masked(@, p.disp[s], s),
                                          !.mode = IF @ = "wait" /\ t.interruptible THEN "call" ELSE @],
                                p.disp, s),
     sp |-> IF p.disp[s].reset THEN [p EXCEPT !.disp[s].handler = "dfl"] ELSE p]

Busy(t, s) == s \in t.mask \/ t.sig # NoSig

Same(t, p) == [th |-> t, sp |-> p]

(***************************************************************************)
(* send_signal_to_process: to any thread of the process, or to the one     *)
(* with the number that the caller gave.                                   *)
(***************************************************************************)
SignalProcess(t, p, s, directed) ==
    CASE p.disp[s].handler = "dfl" -> Same([t EXCEPT !.mode = "killed"], p)
      [] p.disp[s].handler = "ign" -> Same(t, p)
      [] p.disp[s].handler = "fn" /\ Busy(t, s) /\ directed -> Same([t EXCEPT !.queue = Append(@, s)], p)
      [] p.disp[s].handler = "fn" /\ Busy(t, s) /\ ~directed ->
           Same(t, [p EXCEPT !.pending = Append(@, s)])
      [] p.disp[s].handler = "fn" /\ ~Busy(t, s) -> SendSignalToTask(t, p, s)

Waiting(t, p) == {t.queue[k] : k \in DOMAIN t.queue} \cup {p.pending[k] : k \in DOMAIN p.pending}

(***************************************************************************)
(* The new state of thread and process; the history notes a handler that   *)
(* is gone while its signal is in a queue, a signal during a call of       *)
(* sigprocmask, before it sets the mask, and one in the entry of a call of *)
(* the main program.                                                       *)
(***************************************************************************)
Becomes(r) ==
    /\ th' = r.th
    /\ sp' = r.sp
    /\ prog' = [prog EXCEPT !.events =
                  @ \cup (IF \E s \in Waiting(r.th, r.sp) : /\ sp.disp[s].handler = "fn"
                                                        /\ r.sp.disp[s].handler # "fn"
                          THEN {"reset"} ELSE {})
                    \cup (IF r.th.sig # th.sig /\ call.op = "sigprocmask" /\ call.step < 2
                          THEN {"maskrace"} ELSE {}),
                           !.lost = @ \/ (r.th.sig # th.sig /\ th.mode = "entry" /\ call.main)]

\* A process, the terminal or the kernel sends a signal.
SendToThread(s, directed) ==
    /\ Running
    /\ budget.sent > 0
    /\ budget' = [budget EXCEPT !.sent = @ - 1]
    /\ Becomes(SignalProcess(th, sp, s, directed))
    /\ UNCHANGED call

\* update_alarm_timers, in the interrupt of the timer
UpdateAlarmTimers ==
    /\ Running
    /\ sp.alarm > 0
    /\ LET p == [sp EXCEPT !.alarm = @ - 1]
       IN  Becomes(IF p.alarm > 0 THEN Same(th, p) ELSE SignalProcess(th, p, Alrm, FALSE))
    /\ UNCHANGED <<call, budget>>

-----------------------------------------------------------------------------
(* System calls *)

\* The user code makes a call; the main program or a handler, which returns by one.
EnterCall(op) ==
    /\ th.mode = "user" /\ th.frame.rip \in Sigs \cup {Main}
    /\ op = "sigreturn" => th.frame.rip # Main
    /\ op # "sigreturn" => budget.calls > 0
    /\ budget' = IF op = "sigreturn" THEN budget ELSE [budget EXCEPT !.calls = @ - 1]
    /\ th' = [th EXCEPT !.mode = "entry", !.frame.rax = "call"]
    /\ call' = [NoCallYet EXCEPT !.op = op, !.main = th.frame.rip = Main]
    /\ prog' = IF th.frame.rip = Main THEN [prog EXCEPT !.lost = FALSE] ELSE prog
    /\ UNCHANGED sp

\* syscall_interrupt_handler first reads the signal of the thread, with interrupts on.
GetSignal ==
    /\ th.mode = "entry"
    /\ th' = [th EXCEPT !.mode = "call"]
    /\ call' = [call EXCEPT !.before = th.sig]
    /\ UNCHANGED <<sp, budget, prog>>

\* The main program goes on with its own work.
Work ==
    /\ th.mode = "user" /\ th.frame.rip = Main /\ th.frame.rax # "user"
    /\ th' = [th EXCEPT !.frame.rax = "user"]
    /\ prog' = [prog EXCEPT !.rax = "user", !.lost = FALSE]
    /\ UNCHANGED <<sp, call, budget>>

InCall(op, step) == th.mode = "call" /\ call.op = op /\ call.step = step
Step(n) == call' = [call EXCEPT !.step = n]

(***************************************************************************)
(* The end of syscall_interrupt_handler: a signal that came during a call  *)
(* of the main program, after GetSignal, has kept the registers with the   *)
(* number of the call.                                                     *)
(***************************************************************************)
Leave(result) ==
    /\ LET t == [th EXCEPT !.mode = "user", !.frame.rax = result]
       IN  th' = IF call.before = NoSig /\ th.sig # NoSig
                 THEN [t EXCEPT !.saved.rax = result, !.interruptible = FALSE, !.interrupted = FALSE]
                 ELSE t
    /\ call' = NoCallYet
    /\ prog' = IF call.main THEN [prog EXCEPT !.rax = result] ELSE prog
    /\ UNCHANGED <<sp, budget>>

\* wait_interruptible and sleep: nothing is asked before the task blocks.
Block ==
    /\ InCall("block", 0)
    /\ th' = [th EXCEPT !.mode = "wait", !.interruptible = TRUE]
    /\ call' = [call EXCEPT !.step = 1, !.early = th.interrupted]
    /\ UNCHANGED <<sp, budget, prog>>

\* What the task waits for happens.
Wake ==
    /\ th.mode = "wait"
    /\ th' = [th EXCEPT !.mode = "call"]
    /\ UNCHANGED <<sp, call, budget, prog>>

\* The wait is over, by a signal or not.
Unblock ==
    /\ InCall("block", 1)
    /\ th' = [th EXCEPT !.interruptible = FALSE]
    /\ Step(2)
    /\ UNCHANGED <<sp, budget, prog>>

\* wait_for_child asks first, and leaves the task interruptible when the wait is over.
AwaitChild ==
    /\ InCall("waitpid", 0)
    /\ \/ /\ ~th.interrupted
          /\ th' = [th EXCEPT !.mode = "wait", !.interruptible = TRUE]
          /\ prog' = [prog EXCEPT !.events = @ \cup {"waited"}]
       \/ UNCHANGED <<th, prog>>
    /\ Step(2)
    /\ UNCHANGED <<sp, budget>>

\* mutex::lock and the waits of drivers: the task is as interruptible as it was before.
Lock ==
    /\ InCall("lock", 0)
    /\ th' = [th EXCEPT !.mode = "wait"]
    /\ Step(2)
    /\ UNCHANGED <<sp, budget, prog>>

\* set_signal_action, also while a signal is in a queue
Sigaction(s, a) ==
    /\ InCall("sigaction", 0)
    /\ Becomes(Same(th, [sp EXCEPT !.disp[s] = a]))
    /\ Step(2)
    /\ UNCHANGED budget

Alarm(ms) ==
    /\ InCall("alarm", 0)
    /\ Becomes(Same(th, [sp EXCEPT !.alarm = ms]))
    /\ Step(2)
    /\ UNCHANGED budget

\* kill, with the process itself or its thread as the target
Kill(s, directed) ==
    /\ InCall("kill", 0)
    /\ Becomes(SignalProcess(th, sp, s, directed))
    /\ Step(2)
    /\ UNCHANGED budget

\* fork copies the registers, then pages and files, ...
ForkRegs ==
    /\ InCall("fork", 0)
    /\ call' = [call EXCEPT !.step = 1, !.regs = th.frame]
    /\ UNCHANGED <<th, sp, budget, prog>>

(***************************************************************************)
(* ... and makes the task of the child, which the model goes on with: it   *)
(* has the mask that the parent has now, but no signal.                    *)
(***************************************************************************)
ForkThread ==
    /\ InCall("fork", 1)
    /\ th' = [th EXCEPT !.mode = "user", !.sig = NoSig, !.queue = <<>>, !.oldMask = {},
                        !.interrupted = FALSE, !.interruptible = FALSE,
                        !.frame = [call.regs EXCEPT !.rax = "result"], !.saved = NoRegs]
    /\ sp' = [sp EXCEPT !.pending = <<>>, !.alarm = 0]
    /\ call' = NoCallYet
    /\ prog' = [prog EXCEPT !.rax = IF call.main THEN "result" ELSE @,
                            !.events = @ \cup (IF call.regs.rip # Main \/ th.sig # NoSig
                                               THEN {"forked"} ELSE {})]
    /\ UNCHANGED budget

\* The first signal of a queue that is not masked
Unmasked(q, mask) == {k \in DOMAIN q : q[k] \notin mask}
FirstOf(q, mask) == CHOOSE k \in Unmasked(q, mask) : \A j \in Unmasked(q, mask) : k <= j

(***************************************************************************)
(* vector::erase: of the elements behind the k-th it moves only the size   *)
(* of a pointer each, so that with two or more of them one is doubled and  *)
(* the last one is gone.                                                   *)
(***************************************************************************)
EraseAt(q, k) ==
    [j \in 1..(Len(q) - 1) |-> IF j >= k /\ (j - k) * InfoWords < Len(q) - k THEN q[j + 1] ELSE q[j]]

\* get_next_signal_info and the delivery that follows it
NextSignal(t, p) ==
    LET Handle(u, r, s) ==
            [th |-> PrepareSignalHandle([u EXCEPT !.sig = s, !.oldMask = u.mask,
                                                  !.mask = @ \cup r.disp[s].mask], r.disp, s),
             sp |-> r]
    IN  IF Unmasked(t.queue, t.mask) # {}
        THEN LET k == FirstOf(t.queue, t.mask)
             IN  Handle([t EXCEPT !.queue = EraseAt(@, k)], p, t.queue[k])
        ELSE IF Unmasked(p.pending, t.mask) # {}
        THEN LET k == FirstOf(p.pending, t.mask)
             IN  Handle(t, [p EXCEPT !.pending = EraseAt(@, k)], p.pending[k])
        ELSE Same(t, p)

\* The handler of sigprocmask reads the mask, and then sets one made from it.
GetSignalMask ==
    /\ InCall("sigprocmask", 0)
    /\ call' = [call EXCEPT !.step = 1, !.mask = th.mask]
    /\ UNCHANGED <<th, sp, budget, prog>>

SetSignalMask(how, set) ==
    /\ InCall("sigprocmask", 1)
    /\ LET mask == CASE how = "block" -> call.mask \cup set
                    [] how = "unblock" -> call.mask \ set
                    [] how = "set" -> set
           t == [th EXCEPT !.mask = mask]
           r == IF t.sig = NoSig THEN NextSignal(t, sp) ELSE Same(t, sp)
       IN  /\ th' = r.th
           /\ sp' = r.sp
           /\ prog' = IF call.main THEN [prog EXCEPT !.mask = mask] ELSE prog
    /\ Step(2)
    /\ UNCHANGED budget

Restored(t) ==
    [t EXCEPT !.frame = t.saved, !.mask = t.oldMask, !.sig = NoSig,
              !.interruptible = FALSE, !.interrupted = FALSE]

\* Mutants of Sigreturn: the next signal is not taken; the mask is kept.
ReturnTakesNone ==
    /\ InCall("sigreturn", 0)
    /\ Becomes(Same(IF th.sig = NoSig THEN [th EXCEPT !.mode = "panic"] ELSE Restored(th), sp))
    /\ Step(2)
    /\ UNCHANGED budget

ReturnKeepsMask ==
    /\ InCall("sigreturn", 0)
    /\ Becomes(IF th.sig = NoSig THEN Same([th EXCEPT !.mode = "panic"], sp)
               ELSE NextSignal([Restored(th) EXCEPT !.mask = th.mask], sp))
    /\ Step(2)
    /\ UNCHANGED budget

\* handle_signal_return asserts that there is a signal.
Sigreturn ==
    /\ InCall("sigreturn", 0)
    /\ Becomes(IF th.sig = NoSig THEN Same([th EXCEPT !.mode = "panic"], sp)
               ELSE NextSignal(Restored(th), sp))
    /\ Step(2)
    /\ UNCHANGED budget

LeaveCall ==
    \/ /\ th.mode = "call" /\ call.step = 2 /\ call.op # "sigreturn"
       /\ Leave("result")
    \/ /\ InCall("sigreturn", 2)
       /\ Leave(th.frame.rax)

Ops == {"block", "waitpid", "lock", "sigprocmask", "sigaction", "alarm", "kill", "fork", "sigreturn"}

SignalsNext ==
    \/ \E s \in Sigs, directed \in BOOLEAN : SendToThread(s, directed) \/ Kill(s, directed)
    \/ UpdateAlarmTimers
    \/ \E op \in Ops : EnterCall(op)
    \/ GetSignal \/ Work
    \/ Block \/ Wake \/ Unblock \/ AwaitChild \/ Lock
    \/ \E s \in Sigs, a \in Actions : Sigaction(s, a)
    \/ \E ms \in 0..MaxAlarm : Alarm(ms)
    \/ ForkRegs \/ ForkThread
    \/ GetSignalMask
    \/ \E how \in {"block", "unblock", "set"}, set \in SUBSET Sigs : SetSignalMask(how, set)
    \/ Sigreturn
    \/ LeaveCall

SignalsSpec == SignalsInit /\ [][SignalsNext]_signalVars

-----------------------------------------------------------------------------
Rips == Sigs \cup {Main, "dfl", "ign", "zero"}
Regs == [rip : Rips, rax : {"user", "call", "result", "zero"}]

\* The state of the thread and of its process.
SignalsTypeOK ==
    /\ th.mode \in {"user", "entry", "call", "wait", "killed", "panic"}
    /\ th.sig \in Sigs \cup {NoSig}
    /\ th.mask \subseteq Sigs /\ th.oldMask \subseteq Sigs
    /\ th.queue \in Seq(Sigs) /\ sp.pending \in Seq(Sigs)
    /\ th.frame \in Regs /\ th.saved \in Regs
    /\ sp.alarm \in 0..MaxAlarm

(***************************************************************************)
(* A signal waits in a queue only while its signal is masked or a handler  *)
(* runs: every step that unmasks signals or ends a handler takes the next. *)
(***************************************************************************)
NothingDeliverableWaits ==
    Running /\ th.sig = NoSig => Waiting(th, sp) \subseteq th.mask

(***************************************************************************)
(* The main program goes on where a signal stopped it, with the result of  *)
(* its call: syscall_interrupt_handler saves it for the handler's return.  *)
(* Only the result of a call is lost that a signal hit at its entry,       *)
(* before the handler reads get_signal, and only until the next call.      *)
(***************************************************************************)
ResumesWithResult ==
    th.mode = "user" /\ th.frame.rip = Main => th.frame.rax = prog.rax \/ prog.lost

(***************************************************************************)
(* Outside handlers the mask is the one that the program set last, unless  *)
(* it was forked while its parent had a signal, or a signal came during    *)
(* sigprocmask, whose mask the return of the handler undoes.               *)
(***************************************************************************)
MaskIsTheProgrammes ==
    th.mode = "user" /\ th.sig = NoSig /\ prog.events \cap {"forked", "maskrace"} = {} =>
       th.mask = prog.mask

\* Without a signal the task is not interrupted: no later call of the program fails for it.
FlagHasASignal == Running /\ th.interrupted => th.sig # NoSig

\* A signal that comes during an interruptible wait ends it; only one from before it does not.
WaitsAreInterrupted == th.mode = "wait" /\ call.op # "lock" /\ th.interrupted => call.early

\* No signal ends a wait that is not interruptible, but in a task that waited for a child.
LocksAreLeftAlone ==
    th.mode = "wait" /\ call.op = "lock" /\ th.interruptible => "waited" \in prog.events

(***************************************************************************)
(* A signal leaves its queue only for its handler, unless the queue had    *)
(* three or more (see EraseAt); the child of fork has empty queues.        *)
(***************************************************************************)
KeepsQueued ==
    \A s \in Waiting(th, sp) \ Waiting(th', sp') :
       s = th'.sig \/ Len(th.queue) > 2 \/ Len(sp.pending) > 2 \/ call.op = "fork"

(***************************************************************************)
(* A handler runs code of the program: unless its action was changed, or   *)
(* reset by SA_RESETHAND, while a signal was in a queue.                   *)
(***************************************************************************)
HandlersAreCode == th.frame.rip \in {"dfl", "ign"} => "reset" \in prog.events

\* The assertion of handle_signal_return holds, but for a child forked inside a handler.
ReturnsHaveASignal == th.mode = "panic" => "forked" \in prog.events

\* No signal waits that could be taken, and signals end the waits that they should.
SignalsAreServed ==
    /\ NothingDeliverableWaits
    /\ WaitsAreInterrupted
    /\ LocksAreLeftAlone
    /\ FlagHasASignal

(***************************************************************************)
(* A signal is taken as soon as it can be and is not lost before, ends the *)
(* interruptible wait that it comes into, and interrupts nothing else      *)
(* (send_signal_to_process, get_next_signal_info).                         *)
(***************************************************************************)
SignalsArrive == [][SignalsAreServed' /\ KeepsQueued]_signalVars

(***************************************************************************)
(* After its handlers, which are its own code, a program goes on with its  *)
(* result and its mask (prepare_signal_handle and handle_signal_return).   *)
(***************************************************************************)
ProgramGoesOn ==
    /\ SignalsTypeOK
    /\ ResumesWithResult
    /\ MaskIsTheProgrammes
    /\ HandlersAreCode
    /\ ReturnsHaveASignal
=============================================================================
