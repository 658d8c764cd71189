------------------------------ MODULE Process ------------------------------
(***************************************************************************)
(* Life and death of processes (kernel/threading/scheduler.cpp): fork,     *)
(* exec, exit, wait, kill, and the kernel task that cleans up after killed *)
(* tasks.                                                                  *)
(*                                                                         *)
(* A user process has one thread, and after an exec the thread of its old  *)
(* image besides, until that one has killed itself.  An action is what one *)
(* task does between two points where another task can run: user tasks    *)
(* preempt each other wherever interrupts are enabled, and the cleaner,    *)
(* whose level is above theirs, lets them run when it waits for a mutex of *)
(* the heap (delete task) or of the file system (close_open_file).         *)
(*                                                                         *)
(* Where the code asserts, dereferences null or walks off a kernel stack,  *)
(* status records it and the behaviour ends there.                         *)
(***************************************************************************)
EXTENDS Integers, Sequences, FiniteSets

CONSTANTS
    MaxPid,      \* largest pid of the model
    Budgets      \* bounds: records of the processes created after the first one
                 \* (births), and of execs, failing allocations and signals (events)

InitPid == 1       \* INIT_PROCESS_PID; pid 0 is the kernel's process
UserPids == 2..MaxPid
Pids == InitPid..MaxPid
AnyProcess == -1   \* WAIT_FOR_ANY_PROCESS
Tty == 0           \* the kernel thread that sends SIGINT to the processes of a tty

ASSUME ProcessAssumption ==
    /\ MaxPid \in Nat /\ MaxPid > InitPid
    /\ Budgets \subseteq [births : Nat, events : Nat]

VARIABLES
    procs,    \* _processes
    free,     \* _deleted_keys_list of _processes, a sorted list
    counter,  \* _counter of _processes
    task,     \* what the main thread of a process is doing
    want,     \* child_wait_pid; the new pid during a fork
    old,      \* threads of a process's old images that have not killed themselves
    doomed,   \* threads that kill_all_tasks sends to terminate_thread
    intr,     \* threads that run a signal handler (signal_interrupted)
    targets,  \* of a sender of signals: pids that it has still to serve, and the one (aim)
              \* that it is about to kill
    killed,   \* _killed_tasks_queue, as the pids of its tasks
    cleaner,  \* the tasks clean task
    status,   \* "ok", or why the behaviour ended
    left,     \* what is left of the budget
    odd       \* what happened that the invariants have to make an exception for

vars == <<procs, free, counter, task, want, old, doomed, intr, targets, killed,
          cleaner, status, left, odd>>

\* What operator[] makes of a key it does not find: a value-initialised process.
Blank == [here |-> FALSE, pid |-> 0, ppid |-> 0, kids |-> <<>>, terminated |-> FALSE,
          fresh |-> FALSE, thread |-> FALSE, chld |-> "default"]

Touch(ps, p) == [ps EXCEPT ![p].here = TRUE]

Erase(ps, p) == [ps EXCEPT ![p] = Blank]

\* vector::erase at the position algorithm::find returns.
Drop(kids, p) ==
    IF \E i \in 1..Len(kids) : kids[i] = p
    THEN LET i == CHOOSE j \in 1..Len(kids) : kids[j] = p /\ \A k \in 1..(j-1) : kids[k] # p
         IN  SubSeq(kids, 1, i - 1) \o SubSeq(kids, i + 1, Len(kids))
    ELSE kids

In(p, kids) == \E i \in 1..Len(kids) : kids[i] = p

\* insert_unique: the smallest deleted key, or a new one.
NextPid == IF free = {} THEN counter ELSE CHOOSE p \in free : \A q \in free : p <= q

TakePid(p) == /\ free' = free \ {p}
              /\ counter' = IF p = counter THEN counter + 1 ELSE counter

NoTargets == [pids |-> {}, aim |-> 0]

-----------------------------------------------------------------------------
Init ==
    /\ procs = [p \in Pids |-> IF p = InitPid
                  THEN [Blank EXCEPT !.here = TRUE, !.pid = p, !.thread = TRUE] ELSE Blank]
    /\ free = {}
    /\ counter = 2
    /\ task = [p \in UserPids |-> "none"]
    /\ want = [p \in UserPids |-> 0]
    /\ old = [p \in UserPids |-> [n |-> 0, doomed |-> 0]]
    /\ doomed = {}
    /\ intr = {}
    /\ targets = [s \in UserPids \cup {Tty} |-> NoTargets]
    /\ killed = <<>>
    /\ cleaner = [pc |-> "blocked", batch |-> <<>>, waited |-> FALSE]
    /\ status = "ok"
    /\ left \in Budgets
    /\ odd = {}

\* The thread of p is in the kernel on its own behalf or in user mode.
Runs(p) == status = "ok" /\ task[p] = "run" /\ targets[p] = NoTargets

\* A system call of p: a doomed thread does not get to make another one.
Calls(p) == Runs(p) /\ p \notin doomed

Event == left.events > 0 /\ left' = [left EXCEPT !.events = @ - 1]

\* A thread of p's present image lives, or is being made by a fork.
HasThread(p) == task[p] # "none" \/ \E q \in UserPids : task[q] = "forking" /\ want[q] = p

NewProcess(c, parent, chld) ==
    [Blank EXCEPT !.here = TRUE, !.pid = c, !.ppid = parent, !.chld = chld]

(***************************************************************************)
(* start_process for the init process and fork: the entry and the link     *)
(* from the parent are made with interrupts disabled, the stacks are       *)
(* allocated and the task is queued after that.  When the key is taken,    *)
(* insert_unique returns -1 and the process is entered at that key.        *)
(***************************************************************************)
Enter(parent, chld) ==
    LET c == NextPid
    IN  /\ c \in UserPids
        /\ \/ /\ ~procs[c].here
              /\ procs' = [procs EXCEPT ![c] = NewProcess(c, parent, chld),
                                        ![parent].kids = Append(@, c)]
              /\ TakePid(c)
              /\ UNCHANGED status
           \/ /\ procs[c].here
              /\ status' = "no_pid"
              /\ UNCHANGED <<procs, free, counter>>

StartProcess ==
    /\ status = "ok"
    /\ counter = InitPid + 1  \* one start: the other processes are forked
    /\ Enter(InitPid, "default")
    /\ task' = [task EXCEPT ![NextPid] = "starting"]
    /\ UNCHANGED <<left, want, old, doomed, intr, targets, killed, cleaner, odd>>

StartTask(c) ==
    /\ status = "ok"
    /\ task[c] = "starting"
    /\ \/ /\ procs' = [procs EXCEPT ![c].here = TRUE, ![c].thread = TRUE]
          /\ task' = [task EXCEPT ![c] = "new"]
          /\ UNCHANGED <<free, left, odd>>
       \/ /\ Event
          /\ procs' = Erase(procs, c)
          /\ free' = free \cup {c}
          /\ task' = [task EXCEPT ![c] = "none"]
          /\ odd' = odd \cup {"failed"}
    /\ UNCHANGED <<counter, want, old, doomed, intr, targets, killed, cleaner, status>>

Fork(p) ==
    /\ Calls(p)
    /\ left.births > 0
    /\ left' = [left EXCEPT !.births = @ - 1]
    /\ Enter(p, procs[p].chld)
    /\ task' = [task EXCEPT ![p] = "forking"]
    /\ want' = [want EXCEPT ![p] = NextPid]
    /\ UNCHANGED <<old, doomed, intr, targets, killed, cleaner, odd>>

\* A failure erases the entry and leaves the pid among the children.
ForkTask(p) ==
    /\ status = "ok"
    /\ task[p] = "forking"
    /\ \/ /\ procs' = [procs EXCEPT ![want[p]].here = TRUE, ![want[p]].thread = TRUE]
          /\ task' = [task EXCEPT ![want[p]] = "new", ![p] = "run"]
          /\ UNCHANGED <<free, left, odd>>
       \/ /\ Event
          /\ procs' = Erase(procs, want[p])
          /\ free' = free \cup {want[p]}
          /\ task' = [task EXCEPT ![p] = "run"]
          /\ odd' = odd \cup {"failed"}
    /\ want' = [want EXCEPT ![p] = 0]
    /\ UNCHANGED <<counter, old, doomed, intr, targets, killed, cleaner, status>>

(***************************************************************************)
(* kill_current_task: the task enters the killed queue and the cleaner,    *)
(* if it is blocked, becomes ready.                                        *)
(***************************************************************************)
KillCurrentTask(p) ==
    /\ killed' = Append(killed, p)
    /\ cleaner' = IF cleaner.pc = "blocked" THEN [cleaner EXCEPT !.pc = "ready"] ELSE cleaner

\* new_user_process_wrapper and new_fork_process_wrapper: the memory of the new
\* image is mapped, then the thread enters user mode.
FirstRun(p) ==
    /\ status = "ok"
    /\ task[p] = "new"
    /\ \/ /\ task' = [task EXCEPT ![p] = "run"]
          /\ UNCHANGED <<killed, cleaner, left>>
       \/ /\ Event
          /\ task' = [task EXCEPT ![p] = "none"]
          /\ KillCurrentTask(p)
    /\ UNCHANGED <<procs, free, counter, want, old, doomed, intr, targets, status, odd>>

\* terminate_thread
Terminate(p) ==
    /\ Runs(p)
    /\ p \in doomed
    /\ task' = [task EXCEPT ![p] = "none"]
    /\ doomed' = doomed \ {p}
    /\ intr' = intr \ {p}
    /\ KillCurrentTask(p)
    /\ UNCHANGED <<procs, free, counter, want, old, targets, status, left, odd>>

OldImageDies(p) ==
    /\ status = "ok"
    /\ \/ /\ old[p].doomed < old[p].n
          /\ old' = [old EXCEPT ![p].n = @ - 1]
       \/ /\ old[p].doomed > 0
          /\ old' = [old EXCEPT ![p].n = @ - 1, ![p].doomed = @ - 1]
    /\ KillCurrentTask(p)
    /\ UNCHANGED <<procs, free, counter, task, want, doomed, intr, targets, status, left, odd>>

-----------------------------------------------------------------------------
(***************************************************************************)
(* kill_all_tasks rewrites the frame through which each thread of the      *)
(* process returns to user mode, and unblocks it if it waits.              *)
(* get_task_interrupt_regs finds the frame by its user selectors: a new    *)
(* thread has none yet and a doomed one none any more, and the search      *)
(* leaves the stack.  The list walk dereferences the first task of the     *)
(* level, which is null when no user task is left.                         *)
(***************************************************************************)
NoUserTask == \A q \in UserPids : task[q] \in {"none", "starting"} /\ old[q].n = 0

SearchLeavesStack(p) == task[p] = "new" \/ p \in doomed \/ old[p].doomed > 0

KillAllTasks(p) ==
    \/ /\ ~SearchLeavesStack(p)
       /\ ~NoUserTask
       /\ doomed' = IF task[p] \in {"none", "starting"} THEN doomed ELSE doomed \cup {p}
       /\ old' = [old EXCEPT ![p].doomed = old[p].n]
       /\ task' = [task EXCEPT ![p] = IF @ = "wait" THEN "woken" ELSE @]
       /\ UNCHANGED status
    \/ /\ SearchLeavesStack(p) \/ NoUserTask
       /\ status' = "wild"
       /\ UNCHANGED <<doomed, old, task>>

Exit(p) ==
    /\ Calls(p)
    /\ KillAllTasks(p)
    /\ UNCHANGED <<procs, free, counter, want, intr, targets, killed, cleaner, left, odd>>

(***************************************************************************)
(* kill, and Ctrl-C on the terminal: the pids are collected with           *)
(* interrupts disabled, and each signal is sent in a section of its own.   *)
(* The signal is one that nobody handles: its default is to terminate.     *)
(***************************************************************************)
SendSignal(p) ==
    /\ Calls(p)
    /\ Event
    /\ \E pids \in {{q} : q \in UserPids} \cup {UserPids \ {p}} :
          targets' = [targets EXCEPT ![p].pids = {q \in pids : procs[q].here}]
    /\ UNCHANGED <<procs, free, counter, task, want, old, doomed, intr, killed, cleaner,
                   status, odd>>

SendSigintToTty ==
    /\ status = "ok"
    /\ Event
    /\ targets[Tty] = NoTargets
    /\ targets' = [targets EXCEPT ![Tty].pids = {q \in UserPids : procs[q].here}]
    /\ UNCHANGED <<procs, free, counter, task, want, old, doomed, intr, killed, cleaner,
                   status, odd>>

(***************************************************************************)
(* send_signal_to_process asserts that there is an entry, and enables      *)
(* interrupts for default_signal_handler, which leaves a terminated        *)
(* process alone.  A blank entry has no dispositions, and the number of    *)
(* the kernel's process.                                                   *)
(***************************************************************************)
SendSignalToProcess(s) ==
    /\ status = "ok"
    /\ targets[s].aim = 0
    /\ \E p \in targets[s].pids :
          LET rest == targets[s].pids \ {p}
          IN  \/ /\ procs[p].here /\ procs[p].pid = p
                 /\ targets' = [targets EXCEPT ![s].pids = rest,
                                               ![s].aim = IF procs[p].terminated THEN 0 ELSE p]
                 /\ UNCHANGED status
              \/ /\ procs[p].here /\ procs[p].pid # p
                 /\ status' = "wild"
                 /\ UNCHANGED targets
              \/ /\ ~procs[p].here
                 /\ status' = "assert_gone"
                 /\ UNCHANGED targets
    /\ UNCHANGED <<procs, free, counter, task, want, old, doomed, intr, killed, cleaner, left, odd>>

(***************************************************************************)
(* kill_with_signal disables interrupts again.  Of an entry that is erased *)
(* by then the test reads what became of its memory, or operator[] enters  *)
(* a blank one, of a level that has no task for kill_all_tasks to walk.    *)
(***************************************************************************)
KillWithSignal(s) ==
    /\ status = "ok"
    /\ targets[s].aim # 0
    /\ LET p == targets[s].aim
           done == targets' = [targets EXCEPT ![s].aim = 0]
       IN  \/ /\ procs[p].pid = p
              /\ done
              /\ KillAllTasks(p)
              /\ UNCHANGED procs
           \/ /\ ~procs[p].here
              /\ done
              /\ UNCHANGED <<procs, doomed, old, task, status>>
           \/ /\ procs[p].pid # p
              /\ procs' = Touch(procs, p)
              /\ status' = "wild"
              /\ UNCHANGED <<targets, doomed, old, task>>
    /\ UNCHANGED <<free, counter, want, intr, killed, cleaner, left, odd>>

\* A signal with a handler interrupts the thread; the handler returns later.
HandleSignal(p) ==
    /\ status = "ok"
    /\ Event
    /\ task[p] \in {"run", "wait", "woken"}
    /\ p \notin doomed \cup intr
    /\ intr' = intr \cup {p}
    /\ task' = [task EXCEPT ![p] = IF @ = "wait" THEN "woken" ELSE @]
    /\ UNCHANGED <<procs, free, counter, want, old, doomed, targets, killed, cleaner,
                   status, odd>>

HandleSignalReturn(p) ==
    /\ Calls(p)
    /\ p \in intr
    /\ intr' = intr \ {p}
    /\ UNCHANGED <<procs, free, counter, task, want, old, doomed, targets, killed, cleaner,
                   status, left, odd>>

\* sigaction(SIGCHLD): the default, ignored (or SA_NOCLDWAIT), or a handler.
SetSignalAction(p) ==
    /\ Calls(p)
    /\ Event
    /\ \E a \in {"default", "ignore", "handler"} : procs' = [procs EXCEPT ![p].chld = a]
    /\ UNCHANGED <<free, counter, task, want, old, doomed, intr, targets, killed, cleaner,
                   status, odd>>

-----------------------------------------------------------------------------
(***************************************************************************)
(* wait_for_child.  Reading the entry of a child that is not in the map    *)
(* enters a blank one.  A terminated child is erased and its pid returned, *)
(* when the caller passed room for its status; create_wait_status writes   *)
(* through the pointer in any case.                                        *)
(***************************************************************************)
\* The entry of p is going to be used by the cleaner or by a living thread.
InUse(p) == \/ HasThread(p)
            \/ cleaner.pc \in {"cleaning", "closing"} /\ Head(cleaner.batch) = p

Zombies(p) == {k \in UserPids : In(k, procs[p].kids) /\ procs[k].terminated}

\* status after the entries of pids are erased
Erased(pids) == IF \E p \in pids : InUse(p) THEN "reaped" ELSE status

Reap(p, c, ps, room) ==
    /\ \/ /\ room
          /\ procs' = [Erase(ps, c) EXCEPT ![p].kids = Drop(@, c)]
          /\ free' = free \cup {c}
          /\ status' = Erased({c})
       \/ /\ ~room
          /\ status' = "null"
          /\ UNCHANGED <<procs, free>>
    /\ UNCHANGED <<task, want, odd>>

WaitFor(p, c) ==
    /\ want' = [want EXCEPT ![p] = c]
    /\ task' = [task EXCEPT ![p] = "wait"]
    /\ odd' = IF cleaner.pc = "closing" /\ c \in {AnyProcess, Head(cleaner.batch)}
                  /\ procs[Head(cleaner.batch)].ppid = p
              THEN odd \cup {"late"} ELSE odd
    /\ UNCHANGED <<free, status>>

WaitForChild(p, c, room) ==
    /\ Calls(p)
    /\ p \notin intr
    /\ procs[c].here
    /\ procs[c].ppid = p
    /\ \/ procs[c].terminated /\ Reap(p, c, procs, room)
       \/ ~procs[c].terminated /\ WaitFor(p, c) /\ UNCHANGED procs
    /\ UNCHANGED <<counter, old, doomed, intr, targets, killed, cleaner, left>>

WaitForAny(p, room) ==
    LET kids == procs[p].kids
        dead == {i \in 1..Len(kids) : procs[kids[i]].terminated}
        i == CHOOSE j \in dead : \A k \in dead : j <= k
        seen == {kids[j] : j \in 1..(IF dead = {} THEN Len(kids) ELSE i)}
        ps == [q \in Pids |-> IF q \in seen THEN Touch(procs, q)[q] ELSE procs[q]]
    IN  /\ Calls(p)
        /\ p \notin intr
        /\ kids # <<>>
        /\ \/ dead # {} /\ Reap(p, kids[i], ps, room)
           \/ dead = {} /\ WaitFor(p, AnyProcess) /\ procs' = ps
           \/ dead = {} /\ procs' = ps /\ UNCHANGED <<free, task, want, status, odd>>  \* no_hang
        /\ UNCHANGED <<counter, old, doomed, intr, targets, killed, cleaner, left>>

(***************************************************************************)
(* The rest of wait_for_child, when the caller runs again.                 *)
(***************************************************************************)
WaitReturns(p) ==
    /\ status = "ok"
    /\ task[p] = "woken"
    /\ \/ /\ p \in doomed \cup intr
          /\ task' = [task EXCEPT ![p] = "run"]
          /\ odd' = IF want[p] \in UserPids /\ ~In(want[p], procs[p].kids) /\ procs[want[p]].ppid = p
                    THEN odd \cup {"interrupted"} ELSE odd
          /\ UNCHANGED <<procs, free, status>>
       \/ /\ p \notin doomed \cup intr
          /\ procs[want[p]].terminated
          /\ procs' = Erase(procs, want[p])
          /\ free' = free \cup {want[p]}
          /\ task' = [task EXCEPT ![p] = "run"]
          /\ status' = Erased({want[p]})
          /\ UNCHANGED odd
       \/ /\ p \notin doomed \cup intr
          /\ ~procs[want[p]].terminated
          /\ status' = "assert_terminated"
          /\ UNCHANGED <<procs, free, task, odd>>
    /\ want' = [want EXCEPT ![p] = 0]
    /\ UNCHANGED <<counter, old, doomed, intr, targets, killed, cleaner, left>>

\* The children that init gets keep their ppid (a mutant).
GiveKeepsParent(ps, p) ==
    LET kids == ps[p].kids
        live == SelectSeq(kids, LAMBDA k : ~ps[k].terminated)
    IN  [q \in Pids |->
           IF q = InitPid THEN [ps[q] EXCEPT !.kids = @ \o live]
           ELSE IF In(q, kids) /\ ps[q].terminated THEN Blank ELSE ps[q]]

(***************************************************************************)
(* clean_process, first part: zombies among the children are erased and    *)
(* the others given to init.                                               *)
(***************************************************************************)
GiveToInit(ps, p) ==
    LET kids == ps[p].kids
        live == SelectSeq(kids, LAMBDA k : ~ps[k].terminated)
    IN  [q \in Pids |->
           IF q = InitPid THEN [ps[q] EXCEPT !.kids = @ \o live]
           ELSE IF ~In(q, kids) THEN ps[q]
           ELSE IF ps[q].terminated THEN Blank
           ELSE [ps[q] EXCEPT !.here = TRUE, !.ppid = InitPid]]

\* The new image is not announced to the cleaner (a mutant).
ExecUnannounced(p) ==
    /\ Calls(p)
    /\ Event
    /\ procs' = [GiveToInit(procs, p) EXCEPT ![p].terminated = TRUE]
    /\ free' = free \cup Zombies(p)
    /\ status' = Erased(Zombies(p))
    /\ task' = [task EXCEPT ![p] = "exec"]
    /\ UNCHANGED <<counter, want, old, doomed, intr, targets, killed, cleaner, odd>>

(***************************************************************************)
(* exec: the process is cleaned without being erased, which marks it       *)
(* terminated, and start_process builds it anew; then the calling thread   *)
(* kills itself, also when start_process failed.                           *)
(***************************************************************************)
Exec(p) ==
    /\ Calls(p)
    /\ Event
    /\ procs' = [GiveToInit(procs, p) EXCEPT ![p].fresh = TRUE, ![p].terminated = TRUE]
    /\ free' = free \cup Zombies(p)
    /\ status' = Erased(Zombies(p))
    /\ task' = [task EXCEPT ![p] = "exec"]
    /\ odd' = IF procs[p].fresh THEN odd \cup {"exec_again"} ELSE odd
    /\ UNCHANGED <<counter, want, old, doomed, intr, targets, killed, cleaner>>

\* The calling thread becomes the thread of an old image.
Retire(p) ==
    /\ old' = [old EXCEPT ![p].n = @ + 1, ![p].doomed = @ + (IF p \in doomed THEN 1 ELSE 0)]
    /\ doomed' = doomed \ {p}
    /\ intr' = intr \ {p}

ExecStart(p) ==
    /\ status = "ok"
    /\ task[p] = "exec"
    /\ \/ /\ procs' = [procs EXCEPT ![p].here = TRUE, ![p].thread = FALSE, ![p].kids = <<>>,
                                    ![p].terminated = FALSE, ![p].chld = "default"]
          /\ task' = [task EXCEPT ![p] = "execing"]
          /\ UNCHANGED <<old, doomed, intr, left, odd>>
       \/ /\ Event
          /\ task' = [task EXCEPT ![p] = "none"]
          /\ Retire(p)
          /\ odd' = odd \cup {"failed"}
          /\ UNCHANGED procs
    /\ UNCHANGED <<free, counter, want, targets, killed, cleaner, status>>

ExecTask(p) ==
    /\ status = "ok"
    /\ task[p] = "execing"
    /\ Retire(p)
    /\ \/ /\ procs' = [procs EXCEPT ![p].here = TRUE, ![p].thread = TRUE]
          /\ task' = [task EXCEPT ![p] = "new"]
          /\ UNCHANGED <<free, left, odd>>
       \/ /\ Event
          /\ procs' = Erase(procs, p)
          /\ free' = free \cup {p}
          /\ task' = [task EXCEPT ![p] = "none"]
          /\ odd' = odd \cup {"failed"}
    /\ UNCHANGED <<counter, want, targets, killed, cleaner, status>>

-----------------------------------------------------------------------------
(***************************************************************************)
(* tasks_clean_task.                                                       *)
(***************************************************************************)
TakeKilled ==
    /\ status = "ok"
    /\ cleaner.pc = "ready"
    /\ cleaner' = [cleaner EXCEPT !.pc = "task", !.batch = killed]
    /\ killed' = <<>>
    /\ UNCHANGED <<procs, free, counter, task, want, old, doomed, intr, targets, status, left, odd>>

CleanerBlocks ==
    /\ status = "ok"
    /\ cleaner.pc = "task"
    /\ cleaner.batch = <<>>
    /\ cleaner' = [cleaner EXCEPT !.pc = "blocked"]
    /\ UNCHANGED <<procs, free, counter, task, want, old, doomed, intr, targets, killed,
                   status, left, odd>>

\* The process is not cleaned after its last thread (a mutant).
FreeTaskOnly ==
    /\ status = "ok"
    /\ cleaner.pc = "task"
    /\ cleaner.batch # <<>>
    /\ procs' = [procs EXCEPT ![Head(cleaner.batch)].here = TRUE,
                             ![Head(cleaner.batch)].fresh = FALSE,
                             ![Head(cleaner.batch)].thread = @ /\ procs[Head(cleaner.batch)].fresh]
    /\ cleaner' = [cleaner EXCEPT !.batch = Tail(@)]
    /\ UNCHANGED <<free, counter, task, want, old, doomed, intr, targets, killed, status, left, odd>>

\* The next killed task: an old image's task only clears new_exec_process; the
\* last thread of a process leads to clean_process (status "cleaned" when another
\* task of the process still uses its entry).
FreeTask ==
    /\ status = "ok"
    /\ cleaner.pc = "task"
    /\ cleaner.batch # <<>>
    /\ LET p == Head(cleaner.batch)
           done == [cleaner EXCEPT !.batch = Tail(@)]
       IN  \/ /\ procs[p].fresh
              /\ procs' = [procs EXCEPT ![p].fresh = FALSE]
              /\ cleaner' = done
              /\ UNCHANGED status
           \/ /\ ~procs[p].fresh
              /\ procs' = [procs EXCEPT ![p].here = TRUE, ![p].thread = FALSE]
              /\ cleaner' = IF procs[p].ppid = procs[p].pid THEN done
                            ELSE [cleaner EXCEPT !.pc = "cleaning"]
              /\ status' = IF procs[p].ppid # procs[p].pid /\ procs[p].pid # p THEN "wild"
                           ELSE IF HasThread(p) \/ old[p].n > 0 \/ In(p, killed \o Tail(cleaner.batch))
                           THEN "cleaned" ELSE status
    /\ UNCHANGED <<free, counter, task, want, old, doomed, intr, targets, killed, left, odd>>

\* SIGCHLD to the parent: thread states after send_signal_to_process.
SigchldTask(par) ==
    IF par \in UserPids /\ procs[par].chld = "handler" /\ par \notin intr /\ task[par] = "wait"
    THEN [task EXCEPT ![par] = "woken"] ELSE task

SigchldIntr(par) ==
    IF par \in UserPids /\ procs[par].chld = "handler" /\ ~procs[par].terminated
       /\ task[par] \notin {"none", "starting"}
    THEN intr \cup {par} ELSE intr

SigchldLeavesStack(par) ==
    /\ par \in UserPids
    /\ procs[par].chld = "handler"
    /\ ~procs[par].terminated
    /\ par \notin intr
    /\ SearchLeavesStack(par)

\* Only a parent that waits for this very process is released (a mutant).
NotifyExactParent ==
    /\ status = "ok"
    /\ cleaner.pc = "cleaning"
    /\ LET p == Head(cleaner.batch)
           par == procs[p].ppid
           ps == GiveToInit(procs, p)
           waits == par \in UserPids /\ task[par] = "wait" /\ want[par] = p
       IN  /\ free' = free \cup Zombies(p)
           /\ procs' = IF waits THEN [ps EXCEPT ![par].kids = Drop(@, p)] ELSE ps
           /\ task' = IF waits THEN [task EXCEPT ![par] = "woken"] ELSE task
           /\ cleaner' = [cleaner EXCEPT !.pc = "closing", !.waited = waits]
    /\ UNCHANGED <<counter, want, old, doomed, intr, targets, killed, status, left, odd>>

(***************************************************************************)
(* clean_process up to the closing of the files: children, SIGCHLD, and    *)
(* the search for a thread of the parent that waits for this process.      *)
(***************************************************************************)
NotifyParent ==
    /\ status = "ok"
    /\ cleaner.pc = "cleaning"
    /\ LET p == Head(cleaner.batch)
           par == procs[p].ppid
           ps == GiveToInit(procs, p)
           ts == SigchldTask(par)
           waits == par \in UserPids /\ ts[par] = "wait" /\ want[par] \in {p, AnyProcess}
       IN  /\ status' = IF ~procs[par].here THEN "assert_parent"
                        ELSE IF SigchldLeavesStack(par) THEN "wild" ELSE Erased(Zombies(p))
           /\ intr' = SigchldIntr(par)
           /\ free' = free \cup Zombies(p)
           /\ procs' = IF waits THEN [ps EXCEPT ![par].kids = Drop(@, p)] ELSE ps
           /\ task' = IF waits THEN [ts EXCEPT ![par] = "woken"] ELSE ts
           /\ want' = IF waits THEN [want EXCEPT ![par] = p] ELSE want
           /\ cleaner' = [cleaner EXCEPT !.pc = "closing", !.waited = waits]
    /\ UNCHANGED <<counter, old, doomed, targets, killed, left, odd>>

(***************************************************************************)
(* The end of clean_process, after the files are closed: the process is    *)
(* erased, or left terminated for its parent.                              *)
(***************************************************************************)
FinishProcess ==
    /\ status = "ok"
    /\ cleaner.pc = "closing"
    /\ LET p == Head(cleaner.batch)
           par == procs[p].ppid
           gone == cleaner.waited \/ par = InitPid \/ procs[par].chld = "ignore"
           ps == IF gone THEN [procs EXCEPT ![par].kids = Drop(@, p), ![par].here = TRUE] ELSE procs
       IN  \/ /\ gone /\ ~cleaner.waited
              /\ procs' = Erase(ps, p)
              /\ free' = free \cup {p}
           \/ /\ ~gone \/ cleaner.waited
              /\ procs' = [ps EXCEPT ![p].terminated = TRUE]
              /\ UNCHANGED free
    /\ cleaner' = [cleaner EXCEPT !.pc = "task", !.batch = Tail(@), !.waited = FALSE]
    /\ UNCHANGED <<counter, task, want, old, doomed, intr, targets, killed, status, left, odd>>

CleanerStep == TakeKilled \/ CleanerBlocks \/ FreeTask \/ NotifyParent \/ FinishProcess

Next ==
    \/ StartProcess
    \/ SendSigintToTty
    \/ CleanerStep
    \/ SendSignalToProcess(Tty) \/ KillWithSignal(Tty)
    \/ \E p \in UserPids :
          \/ StartTask(p) \/ Fork(p) \/ ForkTask(p) \/ FirstRun(p)
          \/ Exec(p) \/ ExecStart(p) \/ ExecTask(p) \/ OldImageDies(p)
          \/ Exit(p) \/ Terminate(p)
          \/ SendSignal(p) \/ SendSignalToProcess(p) \/ KillWithSignal(p)
          \/ HandleSignal(p) \/ HandleSignalReturn(p) \/ SetSignalAction(p)
          \/ WaitReturns(p)
          \/ \E room \in BOOLEAN :
                WaitForAny(p, room) \/ \E c \in UserPids : WaitForChild(p, c, room)

\* The cleaner's level is above every user task's and the mutexes it waits for are
\* released: a step it can take, it takes.
Spec == Init /\ [][Next]_vars /\ WF_vars(CleanerStep)

-----------------------------------------------------------------------------
(* Properties *)

\* Every variable has its type; between two batches the cleaner holds nothing.
TypeOK ==
    /\ procs \in [Pids -> [here : BOOLEAN, pid : 0..MaxPid, ppid : 0..MaxPid, kids : Seq(UserPids),
                           terminated : BOOLEAN, fresh : BOOLEAN, thread : BOOLEAN,
                           chld : {"default", "ignore", "handler"}]]
    /\ free \subseteq UserPids
    /\ counter \in 2..(MaxPid + 1)
    /\ task \in [UserPids -> {"none", "starting", "new", "run", "forking", "wait", "woken",
                              "exec", "execing"}]
    /\ want \in [UserPids -> UserPids \cup {0, AnyProcess}]
    /\ \A p \in UserPids : old[p].doomed \in 0..old[p].n
    /\ doomed \subseteq UserPids /\ intr \subseteq UserPids
    /\ killed \in Seq(UserPids) /\ cleaner.batch \in Seq(UserPids)
    /\ cleaner.pc \in {"blocked", "ready", "task", "cleaning", "closing"}
    /\ cleaner.waited => cleaner.pc = "closing"
    /\ cleaner.pc \in {"blocked", "ready"} => cleaner.batch = <<>>
    /\ status \in {"ok", "no_pid", "wild", "null", "reaped", "cleaned", "assert_gone",
                   "assert_parent", "assert_terminated"}

\* The two records of a family agree (process.ppid and child_processes): the
\* parent of every process exists and lists it, once, except a child for which
\* the parent was just released from wait; and whom a running process lists as
\* its child has it as parent.  A creation that fails half-way and a wait that
\* is interrupted after its release are what breaks this.
FamilyAgrees ==
    status = "ok" /\ odd \cap {"failed", "interrupted"} = {} =>
        /\ \A p \in UserPids : procs[p].here =>
              LET par == procs[p].ppid
                  at == {i \in 1..Len(procs[par].kids) : procs[par].kids[i] = p}
              IN  /\ procs[par].here
                  /\ \/ Cardinality(at) = 1
                     \/ at = {} /\ par \in UserPids /\ task[par] = "woken" /\ want[par] = p
        /\ \A p \in Pids : p = InitPid \/ task[p] \in {"run", "wait", "woken", "forking"} =>
              \A i \in 1..Len(procs[p].kids) :
                 procs[procs[p].kids[i]].here /\ procs[procs[p].kids[i]].ppid = p

\* The parent that clean_process sends SIGCHLD to exists: the kassert at the top
\* of send_signal_to_process cannot fail there, because a dying process gives its
\* children away before its own entry can be erased.
ParentIsThere == status # "assert_parent"

\* Why a behaviour can end in the use of an entry that is not the caller's any
\* more: a live process is erased as a zombie only inside exec, between the two
\* calls that mark it terminated and alive again; a process is cleaned up before
\* its last task is freed only when an exec failed, or came before the old thread
\* of an earlier exec was freed; a pid cannot be had only after a failed creation;
\* wait finds its child not terminated only while the cleaner is still closing
\* that child's files, or after such a failure; it writes through null only for a
\* zombie; a signal goes to an entry that is not there only for a pid given back
\* since it was looked up; and a search leaves a stack or a list only for a thread
\* without a frame of user mode, with no user task left, or for an entry erased
\* between the test of default_signal_handler and the kill.
EndsExplained ==
    /\ status = "reaped" => \/ "failed" \in odd
                            \/ \E p \in UserPids : ~procs[p].here /\ task[p] = "exec"
    /\ status = "cleaned" => odd \cap {"exec_again", "failed"} # {}
    /\ status = "no_pid" => "failed" \in odd
    /\ status = "assert_terminated" => "failed" \in odd \/ (cleaner.pc = "closing" /\ cleaner.waited)
    /\ status = "null" => \E p, c \in UserPids : /\ task[p] = "run"
                                                /\ procs[c].terminated
                                                /\ (procs[c].ppid = p \/ In(c, procs[p].kids))
    /\ status = "assert_gone" => \E s \in DOMAIN targets : targets[s].pids \cap free # {}
    /\ status = "wild" => \/ "failed" \in odd
                          \/ NoUserTask
                          \/ \E p \in UserPids : SearchLeavesStack(p)
                          \/ \E s \in DOMAIN targets : targets[s].aim \in free

\* No zombie is forgotten: a terminated process is in the list of a parent that
\* can still wait for it, or its parent has just been released for it.
ZombiesAreKnown ==
    status = "ok" /\ odd \cap {"failed", "interrupted"} = {} =>
        \A p \in UserPids : procs[p].here /\ procs[p].terminated /\ task[p] = "none" =>
            LET par == procs[p].ppid
            IN  /\ par \in UserPids
                /\ ~procs[par].terminated
                /\ \/ In(p, procs[par].kids)
                   \/ task[par] = "woken" /\ want[par] = p

\* A thread in wait_for_child waits for something that is still to come: some
\* child it waits for has not passed the point in clean_process where waiting
\* parents are released (unless it began to wait while the child's files were
\* being closed, which is after that point).
WaitersHaveAChild ==
    status = "ok" /\ odd \cap {"failed", "late"} = {} =>
        \A p \in UserPids : task[p] = "wait" =>
            \E c \in UserPids :
                /\ want[p] \in {c, AnyProcess}
                /\ procs[c].here /\ procs[c].ppid = p
                /\ procs[c].terminated => task[c] = "exec"
                /\ ~(cleaner.pc = "closing" /\ Head(cleaner.batch) = c)

\* A pid that insert_unique may hand out again has nothing left of its last
\* owner: no entry, no thread, no task waiting to be freed (unless a creation
\* failed half-way).
FreePidsAreUnused ==
    status = "ok" /\ "failed" \notin odd =>
        \A p \in free : /\ ~procs[p].here
                       /\ ~HasThread(p) /\ old[p].n = 0
                       /\ ~In(p, killed) /\ ~In(p, cleaner.batch)

\* A waiting parent is released once the dead child is in the cleaner's batch.
BatchReleasesParent ==
    \A p \in UserPids :
        (\E c \in UserPids :
            /\ task[p] = "wait" /\ want[p] \in {c, AnyProcess} /\ procs[c].ppid = p
            /\ In(c, cleaner.batch) /\ ~procs[c].fresh /\ ~HasThread(c) /\ old[c].n = 0
            /\ ~In(c, killed)
            /\ ~(cleaner.pc = "closing" /\ Head(cleaner.batch) = c))
        ~> (task[p] # "wait" \/ status # "ok")

(***************************************************************************)
(* The table of processes: pids, parents and children agree, and the       *)
(* parent that a dying process signals is there.                           *)
(***************************************************************************)
FamiliesAreSound ==
    /\ TypeOK
    /\ FamilyAgrees
    /\ ParentIsThere
    /\ FreePidsAreUnused

(***************************************************************************)
(* wait_for_child and clean_process meet: a zombie has a parent that can   *)
(* wait for it, and who waits has a child that will release it.            *)
(***************************************************************************)
NobodyIsForgotten ==
    /\ ZombiesAreKnown
    /\ WaitersHaveAChild
=============================================================================
