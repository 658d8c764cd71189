-------------------------------- MODULE Pipe --------------------------------
(***************************************************************************)
(* A pipe between tasks, from vfs::read, vfs::write and vfs::close down to *)
(* pipe_manager and the condition variables.  Both ends of a pipe are open *)
(* files of one vnode, whose file_mutex read and write hold to their end.  *)
(*                                                                         *)
(* The pipe's mutex is held from one step of a call to the next, except in *)
(* a wait; a task that the timer stops between wait_interruptible's        *)
(* enqueue, which blocks it, and its unlock holds it there as well.  Byte  *)
(* <<t, c, k>> is number k of the buffer of the c-th call of task t.       *)
(***************************************************************************)
EXTENDS Fifo, FiniteSets

CONSTANTS
    Users,          \* tasks, each with a descriptor of one of the ends
    Nobody,
    PipeScripts     \* bounds: [end, calls, signals, preemptions] of a behaviour

\* A call of a task, and what the tasks and their surroundings may do
Call == [op : {"read", "write", "close"}, count : Nat]
PipeScript == [end : [Users -> {"r", "w"}], calls : [Users -> Seq(Call)], signals : Nat, preemptions : Nat]

ASSUME PipeAssumption == Nobody \notin Users /\ IsFiniteSet(Users) /\ PipeScripts \subseteq PipeScript

\* vfs::close takes the descriptor from its process: it is the last call with it.
CloseIsLast(calls) == \A k \in 1..Len(calls) : calls[k].op = "close" => k = Len(calls)

ASSUME CloseAssumption == \A s \in PipeScripts : \A t \in Users : CloseIsLast(s.calls[t])

VARIABLES
    pipe,       \* [fifo, ends, mutex, cv]: open ends by flag; read_cv and write_cv
    vn,         \* [file, vnodes]: file_mutex of the vnode, _vnodes_mutex
    user,       \* the call of each task
    todo,       \* [end, calls, signals, preemptions]: what is still to come
    log         \* history: [wrote, got]

pipeVars == <<pipe, vn, user, todo, log>>

AtRest == [pc |-> "idle", op |-> "none", count |-> 0, amount |-> 0, intr |-> FALSE,
           no |-> 0, ret |-> "none"]

PipeInit ==
    \E s \in PipeScripts :
       /\ todo = s
       /\ pipe = [fifo |-> NewFifo, mutex |-> Nobody, cv |-> [op \in {"read", "write"} |-> <<>>],
                  ends |-> [e \in {"r", "w"} |-> Cardinality({t \in Users : s.end[t] = e})]]
       /\ vn = [file |-> Nobody, vnodes |-> Nobody]
       /\ user = [t \in Users |-> AtRest]
       /\ log = [wrote |-> <<>>, got |-> <<>>]

At(t, pc) == user[t].pc = pc
Goto(t, pc) == user' = [user EXCEPT ![t].pc = pc]

Min2(a, b) == IF a <= b THEN a ELSE b

\* vfs::read, vfs::write and vfs::close: they find the open file and its vnode under _vnodes_mutex.
BeginCall(t) ==
    /\ At(t, "idle") /\ todo.calls[t] # <<>> /\ vn.vnodes = Nobody
    /\ LET c == Head(todo.calls[t])
       IN  user' = [user EXCEPT ![t] = [AtRest EXCEPT
                       !.pc = IF c.op = "close" THEN "close" ELSE "file", !.op = c.op,
                       !.count = IF c.op = "read" THEN Min2(c.count, BufSize) ELSE c.count,
                       !.no = user[t].no + 1]]
          /\ vn' = IF c.op = "close" THEN [vn EXCEPT !.vnodes = t] ELSE vn
    /\ todo' = [todo EXCEPT !.calls[t] = Tail(@)]
    /\ UNCHANGED <<pipe, log>>

\* Mutant of LockFile: the file mutex is not held.
LockNothing(t) ==
    /\ At(t, "file")
    /\ Goto(t, user[t].op)
    /\ UNCHANGED <<pipe, vn, todo, log>>

LockFile(t) ==
    /\ At(t, "file") /\ vn.file = Nobody
    /\ vn' = [vn EXCEPT !.file = t]
    /\ Goto(t, user[t].op)
    /\ UNCHANGED <<pipe, todo, log>>

-----------------------------------------------------------------------------
(* The condition variables *)

\* task_wait_queue: enqueue, dequeue for a condition variable that is not empty, remove_task
Enqueue(q, t) == Append(q, t)
Dequeue(q) == Tail(q)
Places(q, t) == {k \in 1..Len(q) : q[k] = t}
RemoveTask(q, t) ==
    IF Places(q, t) = {} THEN q
    ELSE LET k == CHOOSE k \in Places(q, t) : \A j \in Places(q, t) : k <= j
         IN  [j \in 1..(Len(q) - 1) |-> q[IF j < k THEN j ELSE j + 1]]

(***************************************************************************)
(* wait_interruptible: the task blocks and gives up the mutex; or it is    *)
(* stopped in between, and holds it.  A signal from before is not noticed. *)
(***************************************************************************)
WaitInterruptible(t) ==
    /\ Goto(t, "wait")
    /\ \/ /\ pipe' = [pipe EXCEPT !.cv[user[t].op] = Enqueue(@, t), !.mutex = Nobody]
          /\ UNCHANGED todo
       \/ /\ todo.preemptions > 0
          /\ todo' = [todo EXCEPT !.preemptions = @ - 1]
          /\ pipe' = [pipe EXCEPT !.cv[user[t].op] = Enqueue(@, t), !.mutex = t]

\* notify_one: the pipe and the tasks after it
NotifyOne(p, u, op) ==
    IF p.cv[op] = <<>> THEN [pipe |-> p, user |-> u]
    ELSE [pipe |-> [p EXCEPT !.cv[op] = Dequeue(@)], user |-> [u EXCEPT ![Head(p.cv[op])].pc = "woken"]]

\* The mutex of the pipe is free, or task t has it.
CanLock(t) == pipe.mutex \in {Nobody, t}
Unlocked(p) == [p EXCEPT !.mutex = Nobody]

\* The task runs again: a signal ends the wait, without the mutex; or it takes the mutex.
Resume(t) ==
    /\ At(t, "woken")
    /\ LET op == user[t].op
           given == [pipe EXCEPT !.mutex = IF @ = t THEN Nobody ELSE @]
       IN  IF user[t].intr
           THEN /\ user' = [user EXCEPT ![t].pc = "info", ![t].ret = IF op = "read" THEN "read" ELSE "written"]
                /\ pipe' = [given EXCEPT !.cv[op] = RemoveTask(@, t)]
           ELSE /\ CanLock(t)
                /\ Goto(t, IF op = "read" THEN "pop" ELSE "push")
                /\ pipe' = [pipe EXCEPT !.mutex = t]
    /\ UNCHANGED <<vn, todo, log>>

-----------------------------------------------------------------------------
(* pipe_manager::read *)

Read(t) ==
    /\ At(t, "read") /\ CanLock(t)
    /\ IF CurrentSize(pipe.fifo) > 0
       THEN Goto(t, "pop") /\ pipe' = [pipe EXCEPT !.mutex = t] /\ UNCHANGED todo
       ELSE IF pipe.ends["w"] = 0
       THEN user' = [user EXCEPT ![t].pc = "info", ![t].ret = "eof"] /\ UNCHANGED <<pipe, todo>>
       ELSE WaitInterruptible(t)
    /\ UNCHANGED <<vn, log>>

\* The bytes are copied, and a writer is told.
PopBytes(t) ==
    /\ At(t, "pop") /\ pipe.mutex = t
    /\ LET n == Min2(user[t].count, CurrentSize(pipe.fifo))
           popped == [Unlocked(pipe) EXCEPT !.fifo = Pop(@, n)]
           done == [user EXCEPT ![t].pc = "info", ![t].amount = n, ![t].ret = "read"]
           r == IF n > 0 THEN NotifyOne(popped, done, "write") ELSE [pipe |-> popped, user |-> done]
       IN  /\ pipe' = r.pipe
           /\ user' = r.user
           /\ log' = [log EXCEPT !.got = @ \o SubSeq(Contents(pipe.fifo), 1, n)]
    /\ UNCHANGED <<vn, todo>>

-----------------------------------------------------------------------------
(* pipe_manager::write *)

Closed == pipe.ends["r"] = 0

\* One pass of the loop: up to the wait, if the pipe is full.
Write(t) ==
    /\ At(t, "write") /\ CanLock(t)
    /\ IF Closed \/ user[t].amount >= user[t].count
       THEN /\ user' = [user EXCEPT ![t].pc = "info", ![t].ret = IF Closed THEN "closed" ELSE "written"]
            /\ pipe' = Unlocked(pipe)
            /\ UNCHANGED todo
       ELSE IF CurrentSize(pipe.fifo) = BufSize THEN WaitInterruptible(t)
       ELSE Goto(t, "push") /\ pipe' = [pipe EXCEPT !.mutex = t] /\ UNCHANGED todo
    /\ UNCHANGED <<vn, log>>

Bytes(t, from, n) == [k \in 1..n |-> <<t, user[t].no, from + k>>]

\* Mutant of PushBytes: the copy starts at the second byte.
PushFromSecond(t) ==
    /\ At(t, "push") /\ pipe.mutex = t
    /\ LET c == user[t]
           n == Min2(c.count, BufSize - CurrentSize(pipe.fifo))
           r == NotifyOne([pipe EXCEPT !.fifo = Push(@, Bytes(t, 1, n))],
                          [user EXCEPT ![t].pc = "write", ![t].amount = @ + n], "read")
       IN  /\ pipe' = r.pipe
           /\ user' = r.user
           /\ log' = [log EXCEPT !.wrote = @ \o Bytes(t, c.amount, n)]
    /\ UNCHANGED <<vn, todo>>

(***************************************************************************)
(* The bytes are copied, from the start of the caller's buffer, and a      *)
(* reader is told.  The history notes the bytes that it is the turn of.    *)
(***************************************************************************)
PushBytes(t) ==
    /\ At(t, "push") /\ pipe.mutex = t
    /\ LET c == user[t]
           n == Min2(c.count, BufSize - CurrentSize(pipe.fifo))
           pushed == [pipe EXCEPT !.fifo = Push(@, Bytes(t, 0, n))]
           again == [user EXCEPT ![t].pc = "write", ![t].amount = @ + n]
           r == IF n > 0 THEN NotifyOne(pushed, again, "read") ELSE [pipe |-> pushed, user |-> again]
       IN  /\ pipe' = r.pipe
           /\ user' = r.user
           /\ log' = [log EXCEPT !.wrote = @ \o Bytes(t, c.amount, Min2(n, c.count - c.amount))]
    /\ UNCHANGED <<vn, todo>>

-----------------------------------------------------------------------------
\* Nothing was moved, and a signal came, with a handler: the call is interrupted.
Result(t) ==
    IF user[t].amount = 0 /\ user[t].intr /\ user[t].ret # "closed" THEN "interrupted" ELSE user[t].ret

\* Mutant of GetFileInfo: an interrupted call keeps the mutex of the file.
GetInfoKeepsFile(t) ==
    /\ At(t, "info") /\ (Result(t) \in {"interrupted", "closed"} \/ CanLock(t))
    /\ vn' = IF Result(t) = "interrupted" THEN vn ELSE [vn EXCEPT !.file = Nobody]
    /\ user' = [user EXCEPT ![t].pc = "idle", ![t].ret = Result(t)]
    /\ UNCHANGED <<pipe, todo, log>>

(***************************************************************************)
(* The end of vfs::read and vfs::write; after an error the pipe is not     *)
(* asked for its file_info.                                                *)
(***************************************************************************)
GetFileInfo(t) ==
    /\ At(t, "info") /\ (Result(t) \in {"interrupted", "closed"} \/ CanLock(t))
    /\ vn' = [vn EXCEPT !.file = Nobody]
    /\ user' = [user EXCEPT ![t].pc = "idle", ![t].ret = Result(t)]
    /\ UNCHANGED <<pipe, todo, log>>

\* pipe_filesystem::close_open_file, with _vnodes_mutex: no one is told.
CloseOpenFile(t) ==
    /\ At(t, "close") /\ CanLock(t)
    /\ pipe' = [pipe EXCEPT !.ends[todo.end[t]] = @ - 1]
    /\ vn' = [vn EXCEPT !.vnodes = Nobody]
    /\ Goto(t, "idle")
    /\ UNCHANGED <<todo, log>>

\* A signal with a handler comes during a call; it wakes a task that waits for the other side.
Interrupt(t) ==
    /\ todo.signals > 0 /\ ~At(t, "idle") /\ ~user[t].intr
    /\ todo' = [todo EXCEPT !.signals = @ - 1]
    /\ user' = [user EXCEPT ![t].intr = TRUE, ![t].pc = IF @ = "wait" THEN "woken" ELSE @]
    /\ UNCHANGED <<pipe, vn, log>>

UserStep(t) ==
    \/ BeginCall(t) \/ LockFile(t) \/ Read(t) \/ PopBytes(t) \/ Write(t) \/ PushBytes(t)
    \/ Resume(t) \/ GetFileInfo(t) \/ CloseOpenFile(t)

PipeNext == \E t \in Users : UserStep(t) \/ Interrupt(t)

\* The round robin runs every task that can run; signals need not come.
PipeFairness == \A t \in Users : WF_pipeVars(UserStep(t))

PipeSpec == PipeInit /\ [][PipeNext]_pipeVars /\ PipeFairness

-----------------------------------------------------------------------------
\* The state of the pipe: its buffer never holds more than its size, no end is closed twice.
PipeTypeOK ==
    /\ CurrentSize(pipe.fifo) \in 0..BufSize
    /\ pipe.fifo.head \in Nat
    /\ pipe.mutex \in Users \cup {Nobody}
    /\ \A e \in {"r", "w"} : pipe.ends[e] \in 0..Cardinality(Users)
    /\ vn.file \in Users \cup {Nobody} /\ vn.vnodes \in Users \cup {Nobody}

Stream == INSTANCE ByteStream WITH stream <- Contents(pipe.fifo), Capacity <- BufSize

\* The circular buffer of pipe_manager::read and write implements a stream of bytes: one step puts
\* bytes at the end or takes them from the front, and the buffer's size bounds them.
PipeIsAStream == Stream!StreamSpec

(***************************************************************************)
(* The readers get what the writers wrote, each byte once and in its turn, *)
(* also when a signal cut a write short (pipe_manager::write copies from   *)
(* the start of its buffer in each pass).                                  *)
(***************************************************************************)
PipeKeepsOrder ==
    Len(log.got) <= Len(log.wrote) /\ log.got = SubSeq(log.wrote, 1, Len(log.got))

(***************************************************************************)
(* Only a signal ends a wait for the other side: to tell the task, the     *)
(* other side needs the file_mutex that the task holds.                    *)
(***************************************************************************)
OnlySignalsEndWaits ==
    [][\A t \in Users : At(t, "wait") /\ user'[t].pc # "wait" => user'[t].intr]_pipeVars

\* A read that returns nothing, and was not interrupted, means that no writer is left when it
\* returns (pipe_manager::read).
EofMeansNoWriter ==
    \A t \in Users : At(t, "info") /\ user[t].ret = "eof" => pipe.ends["w"] = 0

Waits(t) == At(t, "wait")

\* Task t waits for the other side, or for a mutex that such a task or one stopped in a wait holds.
Held(t) ==
    \/ Waits(t)
    \/ At(t, "file") /\ vn.file # Nobody /\ Waits(vn.file)
    \/ pipe.mutex # Nobody /\ Waits(pipe.mutex)

(***************************************************************************)
(* A call comes to its end, or its task waits for the other side, or for a *)
(* task that does, for ever or until a signal comes (the file_mutex in     *)
(* vfs::read and vfs::write, wait_interruptible).                          *)
(***************************************************************************)
CallsSettle == \A t \in Users : ~At(t, "idle") ~> (At(t, "idle") \/ Held(t))

(***************************************************************************)
(* What the calls of a pipe return: the bytes in order, and the end of the *)
(* file only without a writer.                                             *)
(***************************************************************************)
PipeIsSound ==
    /\ PipeTypeOK
    /\ PipeKeepsOrder
    /\ EofMeansNoWriter
=============================================================================
