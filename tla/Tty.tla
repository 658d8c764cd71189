-------------------------------- MODULE Tty --------------------------------
(***************************************************************************)
(* The terminals: the thread that takes keys from the keyboard, the input  *)
(* thread of each terminal, the change of the active one, and the tasks    *)
(* that read and write terminals through the VFS.                          *)
(*                                                                         *)
(* A key is [kind, to]: "char", "enter", "back", "intr" for Ctrl+C and     *)
(* "switch" for Ctrl+Alt+F<to>.  A line of output is one model value.  One *)
(* step is the work under stdin_mutex or stdout_mutex, unless the timer    *)
(* stops a program in the middle of it (StopInside).  _raw_input_mutex,    *)
(* _active_tty_mutex and the file_mutex of the vnode are held across       *)
(* steps, and so is the mutex of a task that the timer stops between the   *)
(* enqueue of a wait, which blocks it, and the unlock.                     *)
(***************************************************************************)
EXTENDS Integers, Sequences, FiniteSets

CONSTANTS
    Ttys,           \* 1..AMOUNT_OF_TTYS
    KernelTty,      \* KERNEL_TTY: its stdin is disabled
    Rows,           \* bound: lines that the console shows
    Readers, Writers,   \* tasks that read and write a terminal
    Free,           \* no holder of a mutex
    TtyScripts      \* bounds: [active, on, keys, calls, stops] of a behaviour

Programs == Readers \cup Writers
KeySet == [kind : {"char", "enter", "back", "intr", "switch"}, to : Nat]

ASSUME TtyAssumption ==
    /\ KernelTty \in Ttys /\ Rows \in Nat \ {0}
    /\ Free \notin Ttys /\ Free \notin Programs
    /\ TtyScripts \subseteq [active : Ttys, on : [Programs -> Ttys], keys : Seq(KeySet),
                             calls : [Programs -> Nat], stops : Nat]

VARIABLES
    tty,        \* per terminal [active, stdin, stdout, raw]
    mx,         \* mutexes: [raw, stdin, stdout, file] per terminal, active
    active,     \* _active_tty
    screen,     \* what the console shows
    input,      \* the input thread of each terminal
    kb,         \* raw_input_thread: [pc, key, to]
    io,         \* the programs
    coming,     \* what is still to come
    seen        \* history: [pushed, handled] per terminal, events

ttyVars == <<tty, mx, active, screen, input, kb, io, coming, seen>>

Key(kind, to) == [kind |-> kind, to |-> to]

TtyInit ==
    \E s \in TtyScripts :
       /\ coming = s
       /\ active = s.active
       /\ tty = [i \in Ttys |-> [active |-> i = s.active, stdin |-> <<>>, stdout |-> <<>>, raw |-> <<>>]]
       /\ mx = [raw |-> [i \in Ttys |-> Free], stdin |-> [i \in Ttys |-> Free],
                stdout |-> [i \in Ttys |-> Free], file |-> [i \in Ttys |-> Free], active |-> Free]
       /\ screen = <<>>
       /\ input = [i \in Ttys |-> [pc |-> "wait", at |-> 0, last |-> 0, own |-> FALSE]]
       /\ kb = [pc |-> "idle", key |-> Key("none", 0), to |-> 0]
       /\ io = [p \in Programs |-> [pc |-> "idle", intr |-> FALSE, ret |-> "none"]]
       /\ seen = [pushed |-> [i \in Ttys |-> <<>>], handled |-> [i \in Ttys |-> <<>>], events |-> {}]

Note(e) == seen' = [seen EXCEPT !.events = @ \cup e]

-----------------------------------------------------------------------------
(* raw_input_thread *)

\* A key event; the terminal that is active now
TakeKey ==
    /\ kb.pc = "idle" /\ coming.keys # <<>> /\ mx.active = Free
    /\ kb' = [pc |-> "push", key |-> Head(coming.keys), to |-> active]
    /\ coming' = [coming EXCEPT !.keys = Tail(@)]
    /\ UNCHANGED <<tty, mx, active, screen, input, io, seen>>

\* The key is pushed to that terminal, and its input thread notified.
PushKey ==
    /\ kb.pc = "push" /\ mx.raw[kb.to] = Free
    /\ tty' = [tty EXCEPT ![kb.to].raw = Append(@, kb.key)]
    /\ input' = [input EXCEPT ![kb.to].pc = IF @ = "wait" THEN "lock" ELSE @]
    /\ kb' = [kb EXCEPT !.pc = "idle"]
    /\ seen' = [seen EXCEPT !.pushed[kb.to] = Append(@, kb.key),
                            !.events = IF input[kb.to].pc \in {"wait", "lock"} THEN @
                                       ELSE @ \cup {"grown"}]
    /\ UNCHANGED <<mx, active, screen, io, coming>>

-----------------------------------------------------------------------------
(* Output *)

HasLine(q) == \E k \in DOMAIN q : q[k] = "enter"
Front(q) == SubSeq(q, 1, Len(q) - 1)
Suffix(q, n) == IF Len(q) <= n THEN q ELSE SubSeq(q, Len(q) - n + 1, Len(q))

\* Mutant of StdoutWrite: also for a terminal that is not active
WriteAlways(i, line) ==
    /\ tty' = [tty EXCEPT ![i].stdout = Append(@, line)]
    /\ screen' = Suffix(Append(screen, line), Rows)

\* stdout_write: what terminal i and the console become
StdoutWrite(i, line) ==
    /\ tty' = [tty EXCEPT ![i].stdout = Append(@, line)]
    /\ screen' = IF tty[i].active THEN Suffix(Append(screen, line), Rows) ELSE screen

-----------------------------------------------------------------------------
(* The input thread of terminal i *)

InputAt(i, pc) == input[i].pc = pc
InputGoto(i, pc) == input' = [input EXCEPT ![i].pc = pc]
NextKey(i) == input' = [input EXCEPT ![i].pc = "key", ![i].at = @ + 1]

Enabled(i) == i # KernelTty
CurrentKey(i) == tty[i].raw[input[i].at]

\* Mutant of InputLock: the last key is not read.
LockButLast(i) ==
    /\ InputAt(i, "lock") /\ mx.raw[i] = Free
    /\ mx' = [mx EXCEPT !.raw[i] = i]
    /\ input' = [input EXCEPT ![i] = [pc |-> "key", at |-> 1, last |-> Len(tty[i].raw) - 1, own |-> TRUE]]
    /\ UNCHANGED <<tty, active, screen, kb, io, coming, seen>>

InputLock(i) ==
    /\ InputAt(i, "lock") /\ mx.raw[i] = Free
    /\ mx' = [mx EXCEPT !.raw[i] = i]
    /\ input' = [input EXCEPT ![i] = [pc |-> "key", at |-> 1, last |-> Len(tty[i].raw), own |-> TRUE]]
    /\ UNCHANGED <<tty, active, screen, kb, io, coming, seen>>

(***************************************************************************)
(* One key of the batch.  Keys for the line go to stdin; a key to change   *)
(* the terminal gives up the mutex, which is not taken again for the rest  *)
(* of the batch.                                                           *)
(***************************************************************************)
HandleKey(i) ==
    /\ InputAt(i, "key") /\ input[i].at <= input[i].last
    /\ LET k == CurrentKey(i).kind
       IN  \/ /\ k = "switch"
              /\ input' = [input EXCEPT ![i].pc = "switch", ![i].own = FALSE]
              /\ mx' = [mx EXCEPT !.raw[i] = IF input[i].own THEN Free ELSE @]
              /\ UNCHANGED <<tty, screen>>
           \/ /\ k \in {"char", "enter"} /\ Enabled(i) /\ mx.stdin[i] = Free
              /\ tty' = [tty EXCEPT ![i].stdin = Append(@, k)]
              /\ InputGoto(i, "echo")
              /\ UNCHANGED <<mx, screen>>
           \/ /\ k = "back" /\ Enabled(i) /\ mx.stdin[i] = Free
              /\ tty' = [tty EXCEPT ![i].stdin = IF @ = <<>> THEN @ ELSE Front(@)]
              /\ InputGoto(i, "echo")
              /\ UNCHANGED <<mx, screen>>
           \/ /\ k = "intr" /\ Enabled(i) /\ mx.stdout[i] = Free
              /\ StdoutWrite(i, "newline")
              /\ InputGoto(i, "clear")
              /\ UNCHANGED mx
           \/ /\ k # "switch" /\ ~Enabled(i)
              /\ NextKey(i)
              /\ UNCHANGED <<tty, mx, screen>>
    /\ seen' = [seen EXCEPT !.handled[i] = Append(@, CurrentKey(i)),
                            !.events = IF HasLine(tty[i].stdin) /\ ~HasLine(tty'[i].stdin)
                                       THEN @ \cup {"erased"} ELSE @]
    /\ UNCHANGED <<active, kb, io, coming>>

\* The batch was moved by a push while it was read: what is read from then on is not a key.
MissKey(i) ==
    /\ InputAt(i, "key") /\ input[i].at <= input[i].last /\ Len(tty[i].raw) > input[i].last
    /\ NextKey(i)
    /\ UNCHANGED <<tty, mx, active, screen, kb, io, coming, seen>>

\* The key is printed.
Echo(i) ==
    /\ InputAt(i, "echo") /\ mx.stdout[i] = Free
    /\ StdoutWrite(i, CurrentKey(i).kind)
    /\ InputGoto(i, "notify")
    /\ UNCHANGED <<mx, active, kb, io, coming, seen>>

\* _stdin_cv.notify_one: the task that waits, which holds the file mutex
WakeReader(i) ==
    [p \in Programs |->
        IF io[p].pc = "wait" /\ coming.on[p] = i THEN [io[p] EXCEPT !.pc = "woken"] ELSE io[p]]

NotifyReader(i) ==
    /\ InputAt(i, "notify")
    /\ io' = IF CurrentKey(i).kind = "enter" THEN WakeReader(i) ELSE io
    /\ Note(IF io' # io /\ ~HasLine(tty[i].stdin) THEN {"late"} ELSE {})
    /\ NextKey(i)
    /\ UNCHANGED <<tty, mx, active, screen, kb, coming>>

\* Ctrl+C: the line is dropped, ...
ClearLine(i) ==
    /\ InputAt(i, "clear") /\ mx.stdin[i] = Free
    /\ tty' = [tty EXCEPT ![i].stdin = <<>>]
    /\ InputGoto(i, "sigint")
    /\ Note({"cleared"})
    /\ UNCHANGED <<mx, active, screen, kb, io, coming>>

\* ... and the processes of the terminal get SIGINT; they have handlers here.
SendSigint(i) ==
    /\ InputAt(i, "sigint")
    /\ io' = [p \in Programs |->
                 IF coming.on[p] # i \/ io[p].pc = "idle" THEN io[p]
                 ELSE [io[p] EXCEPT !.intr = TRUE, !.pc = IF @ = "wait" THEN "woken" ELSE @]]
    /\ NextKey(i)
    /\ UNCHANGED <<tty, mx, active, screen, kb, coming, seen>>

\* set_active_tty
SetActiveTty(i) ==
    /\ InputAt(i, "switch") /\ mx.active = Free
    /\ IF CurrentKey(i).to \in Ttys \ {active}
       THEN mx' = [mx EXCEPT !.active = i] /\ InputGoto(i, "deactivate")
       ELSE NextKey(i) /\ UNCHANGED mx
    /\ UNCHANGED <<tty, active, screen, kb, io, coming, seen>>

\* The three mutexes of a terminal are tried until all are free.
AllFree(i) == mx.raw[i] = Free /\ mx.stdin[i] = Free /\ mx.stdout[i] = Free

Deactivate(i) ==
    /\ InputAt(i, "deactivate") /\ AllFree(active)
    /\ tty' = [tty EXCEPT ![active].active = FALSE]
    /\ InputGoto(i, "activate")
    /\ UNCHANGED <<mx, active, screen, kb, io, coming, seen>>

\* Mutant of Activate: _active_tty_mutex stays locked.
ActivateKeepsMutex(i) ==
    /\ InputAt(i, "activate")
    /\ LET to == CurrentKey(i).to
       IN  /\ AllFree(to)
           /\ tty' = [tty EXCEPT ![to].active = TRUE]
           /\ screen' = Suffix(tty[to].stdout, Rows)
           /\ active' = to
    /\ NextKey(i)
    /\ UNCHANGED <<mx, kb, io, coming, seen>>

\* The console is cleared, and shows the end of the terminal's output.
Activate(i) ==
    /\ InputAt(i, "activate")
    /\ LET to == CurrentKey(i).to
       IN  /\ AllFree(to)
           /\ tty' = [tty EXCEPT ![to].active = TRUE]
           /\ screen' = Suffix(tty[to].stdout, Rows)
           /\ active' = to
    /\ mx' = [mx EXCEPT !.active = Free]
    /\ NextKey(i)
    /\ UNCHANGED <<kb, io, coming, seen>>

(***************************************************************************)
(* The batch is dropped, and the thread waits for the next one: at once,   *)
(* if it has the mutex.                                                    *)
(***************************************************************************)
EndBatch(i) ==
    /\ InputAt(i, "key") /\ input[i].at > input[i].last
    /\ tty' = [tty EXCEPT ![i].raw = <<>>]
    /\ \/ /\ InputGoto(i, IF input[i].own THEN "wait" ELSE "park")
          /\ mx' = [mx EXCEPT !.raw[i] = IF input[i].own THEN Free ELSE @]
          /\ UNCHANGED <<coming, seen>>
       \/ /\ input[i].own /\ coming.stops > 0
          /\ InputGoto(i, "wait")
          /\ coming' = [coming EXCEPT !.stops = @ - 1]
          /\ Note({"stopped"})
          /\ UNCHANGED mx
    /\ UNCHANGED <<active, screen, kb, io>>

Park(i) ==
    /\ InputAt(i, "park")
    /\ InputGoto(i, "wait")
    /\ UNCHANGED <<tty, mx, active, screen, kb, io, coming, seen>>

InputStep(i) ==
    \/ InputLock(i) \/ HandleKey(i) \/ MissKey(i) \/ Echo(i) \/ NotifyReader(i)
    \/ ClearLine(i) \/ SendSigint(i) \/ SetActiveTty(i) \/ Deactivate(i) \/ Activate(i)
    \/ EndBatch(i) \/ Park(i)

-----------------------------------------------------------------------------
(* The programs: a read or a write of terminal coming.on[p] *)

IoAt(p, pc) == io[p].pc = pc
IoGoto(p, pc) == io' = [io EXCEPT ![p].pc = pc]
StdinOf(p) == tty[coming.on[p]].stdin
LineLength(q) == CHOOSE k \in DOMAIN q : q[k] = "enter" /\ \A j \in 1..(k - 1) : q[j] # "enter"

BeginIo(p) ==
    /\ IoAt(p, "idle") /\ coming.calls[p] > 0
    /\ coming' = [coming EXCEPT !.calls[p] = @ - 1]
    /\ io' = [io EXCEPT ![p] = [pc |-> "file", intr |-> FALSE, ret |-> "none"]]
    /\ UNCHANGED <<tty, mx, active, screen, input, kb, seen>>

\* The file_mutex of the terminal's vnode
LockTtyFile(p) ==
    /\ IoAt(p, "file") /\ mx.file[coming.on[p]] = Free
    /\ mx' = [mx EXCEPT !.file[coming.on[p]] = p]
    /\ IoGoto(p, IF p \in Readers THEN "read" ELSE "write")
    /\ UNCHANGED <<tty, active, screen, input, kb, coming, seen>>

\* The timer stops the program with the mutex of its buffer, for a task of a higher priority.
StopInside(p) ==
    /\ coming.stops > 0
    /\ \/ /\ io[p].pc \in {"read", "woken"} /\ mx.stdin[coming.on[p]] = Free
          /\ mx' = [mx EXCEPT !.stdin[coming.on[p]] = p]
       \/ /\ IoAt(p, "write") /\ mx.stdout[coming.on[p]] = Free
          /\ mx' = [mx EXCEPT !.stdout[coming.on[p]] = p]
    /\ coming' = [coming EXCEPT !.stops = @ - 1]
    /\ Note({"stopped"})
    /\ UNCHANGED <<tty, active, screen, input, kb, io>>

\* The line, or the part of it that the buffer holds, leaves stdin; another task is told of the rest.
TakeLine(p) ==
    /\ \E n \in {1, LineLength(StdinOf(p))} :
          /\ tty' = [tty EXCEPT ![coming.on[p]].stdin = SubSeq(@, n + 1, Len(@))]
          /\ io' = [(IF n < Len(StdinOf(p)) THEN WakeReader(coming.on[p]) ELSE io)
                       EXCEPT ![p].pc = "unlock", ![p].ret = "line"]

\* stdin_read with a line in the buffer, or up to the wait for one
StdinRead(p) ==
    /\ IoAt(p, "read") /\ mx.stdin[coming.on[p]] \in {Free, p}
    /\ \/ /\ HasLine(StdinOf(p))
          /\ TakeLine(p)
          /\ mx' = [mx EXCEPT !.stdin[coming.on[p]] = Free]
          /\ UNCHANGED <<coming, seen>>
       \/ /\ ~HasLine(StdinOf(p))
          /\ IoGoto(p, "wait")
          /\ mx' = [mx EXCEPT !.stdin[coming.on[p]] = Free]
          /\ UNCHANGED <<tty, coming, seen>>
       \/ /\ ~HasLine(StdinOf(p)) /\ coming.stops > 0
          /\ IoGoto(p, "wait")
          /\ mx' = [mx EXCEPT !.stdin[coming.on[p]] = p]
          /\ coming' = [coming EXCEPT !.stops = @ - 1]
          /\ Note({"stopped"})
          /\ UNCHANGED tty
    /\ UNCHANGED <<active, screen, input, kb>>

\* ... and after it: a signal ends the read; the line may be gone again.
StdinReadOn(p) ==
    /\ IoAt(p, "woken") /\ mx.stdin[coming.on[p]] \in {Free, p}
    /\ IF ~io[p].intr /\ HasLine(StdinOf(p)) THEN TakeLine(p)
       ELSE IoGoto(p, "check") /\ UNCHANGED tty
    /\ mx' = [mx EXCEPT !.stdin[coming.on[p]] = Free]
    /\ UNCHANGED <<active, screen, input, kb, coming, seen>>

\* tty_filesystem::read asks why nothing was read.
CheckInterrupted(p) ==
    /\ IoAt(p, "check")
    /\ io' = [io EXCEPT ![p].pc = "unlock", ![p].ret = IF io[p].intr THEN "interrupted" ELSE "zero"]
    /\ UNCHANGED <<tty, mx, active, screen, input, kb, coming, seen>>

TtyWrite(p) ==
    /\ IoAt(p, "write") /\ mx.stdout[coming.on[p]] \in {Free, p}
    /\ StdoutWrite(coming.on[p], p)
    /\ mx' = [mx EXCEPT !.stdout[coming.on[p]] = Free]
    /\ IoGoto(p, "unlock")
    /\ UNCHANGED <<active, input, kb, coming, seen>>

UnlockTtyFile(p) ==
    /\ IoAt(p, "unlock")
    /\ mx' = [mx EXCEPT !.file[coming.on[p]] = Free]
    /\ IoGoto(p, "idle")
    /\ UNCHANGED <<tty, active, screen, input, kb, coming, seen>>

IoStep(p) ==
    \/ BeginIo(p) \/ LockTtyFile(p) \/ StopInside(p) \/ StdinRead(p) \/ StdinReadOn(p) \/ CheckInterrupted(p)
    \/ TtyWrite(p) \/ UnlockTtyFile(p)

TtyNext ==
    \/ TakeKey \/ PushKey
    \/ \E i \in Ttys : InputStep(i)
    \/ \E p \in Programs : IoStep(p)

\* set_active_tty tries the mutexes of the two terminals in a loop, without blocking.
Switching == {i \in Ttys : input[i].pc \in {"deactivate", "activate"}}

(***************************************************************************)
(* The round robin of the highest level runs every kernel thread that can  *)
(* run.  The programs are of a lower level, and run when none of these can *)
(* run: not while one of them spins.                                       *)
(***************************************************************************)
TtyFairness ==
    /\ WF_ttyVars(TakeKey \/ PushKey)
    /\ \A i \in Ttys : WF_ttyVars(InputStep(i))
    /\ \A p \in Programs : WF_ttyVars(Switching = {} /\ IoStep(p))

TtySpec == TtyInit /\ [][TtyNext]_ttyVars /\ TtyFairness

-----------------------------------------------------------------------------
(* Properties *)

\* The terminals, their mutexes and threads: an input thread that handles a key, or what comes of
\* it, is at a place inside the batch that it read from the raw buffer.
TtyTypeOK ==
    /\ active \in Ttys /\ Len(screen) <= Rows
    /\ \A i \in Ttys :
          /\ tty[i].active \in BOOLEAN
          /\ mx.raw[i] \in {Free, i} /\ mx.stdin[i] \in {Free} \cup Readers
          /\ mx.stdout[i] \in {Free} \cup Programs /\ mx.file[i] \in {Free} \cup Programs
          /\ input[i].pc = "key" => input[i].at \in 1..(input[i].last + 1)
          /\ input[i].pc \in {"echo", "notify", "clear", "sigint", "switch", "deactivate", "activate"}
                => input[i].at \in 1..input[i].last
    /\ mx.active \in {Free} \cup Ttys
    /\ \A p \in Programs : io[p].ret \in {"none", "line", "zero", "interrupted"}

\* Between two changes of the active terminal, that terminal alone prints, and the console shows
\* the end of its output, whoever wrote it and whichever terminal was active then (activate,
\* deactivate, stdout_write).
ScreenShowsActive ==
    Switching = {} =>
        /\ \A i \in Ttys : tty[i].active <=> i = active
        /\ screen = Suffix(tty[active].stdout, Rows)

\* One task at a time changes the active terminal (_active_tty_mutex in set_active_tty).
OneSwitch == Cardinality(Switching) <= 1

\* Every key pushed to a terminal is handled once and in order, those of the buffer still to come,
\* unless one was pushed while the input thread read the buffer without its mutex (input_thread
\* after lk.unlock).
KeysAreHandled ==
    "grown" \notin seen.events =>
        \A i \in Ttys :
            LET done == IF input[i].pc \in {"wait", "lock", "park"} THEN 0
                        ELSE IF input[i].pc = "key" THEN input[i].at - 1 ELSE input[i].at
            IN  seen.handled[i] \o SubSeq(tty[i].raw, done + 1, Len(tty[i].raw)) = seen.pushed[i]

\* An input thread that waits has no keys to handle, with the same exception.
NoKeyIsLeft ==
    "grown" \notin seen.events =>
        \A i \in Ttys : input[i].pc = "wait" => tty[i].raw = <<>>

\* A read that ends with nothing and no signal, which is the end of the file to its program, had
\* its line taken back after Enter, by Ctrl+C before its SIGINT or by a backspace, or taken by an
\* earlier read before the notification that woke this one (stdin_read after wait_interruptible).
ZeroReadExplained ==
    \A p \in Readers : io[p].ret = "zero" => seen.events \cap {"cleared", "erased", "late"} # {}

\* A reader that waits while its terminal has a whole line is woken or loses the line (notify_one
\* after the echo in input_thread).
LineIsRead ==
    \A p \in Readers : (io[p].pc = "wait" /\ HasLine(StdinOf(p))) ~> (io[p].pc # "wait" \/ ~HasLine(StdinOf(p)))

\* A mutex of terminal j is with a program, which runs only when no kernel thread can, or with an
\* input thread that was stopped on its way into the wait.
Kept(j) == \/ mx.stdin[j] # Free \/ mx.stdout[j] # Free
           \/ mx.raw[j] # Free /\ input[j].pc = "wait"

\* A change of the active terminal that spins for such a mutex
Jammed == \E k \in Switching : Kept(IF input[k].pc = "deactivate" THEN active ELSE CurrentKey(k).to)

\* A change of the active terminal ends, or comes to spin for the mutex of a task that does not run
\* again while it spins (activate and deactivate).
SwitchEnds ==
    \A i \in Ttys : (input[i].pc = "switch") ~> (input[i].pc = "key" \/ Jammed)

(***************************************************************************)
(* Switches of the terminal exclude each other, and the console shows the  *)
(* active terminal.                                                        *)
(***************************************************************************)
SwitchesAreSound ==
    /\ TtyTypeOK
    /\ ScreenShowsActive
    /\ OneSwitch

(***************************************************************************)
(* Keys are handled once and in order, none is left behind by an input     *)
(* thread that waits, and a read of nothing has its reason.                *)
(***************************************************************************)
KeysArrive ==
    /\ KeysAreHandled
    /\ NoKeyIsLeft
    /\ ZeroReadExplained

(***************************************************************************)
(* Readers get the lines that are there, and switches of the terminal end. *)
(***************************************************************************)
TtySettles ==
    /\ LineIsRead
    /\ SwitchEnds
=============================================================================
