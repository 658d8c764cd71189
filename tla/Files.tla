------------------------------- MODULE Files -------------------------------
(***************************************************************************)
(* The descriptors of the processes and the vnodes of the VFS: open, close,*)
(* dup, pipe, unlink, read, write and seek, and what fork, exec and the    *)
(* end of a process do to them.                                            *)
(*                                                                         *)
(* A process has one thread, so that its tables change only by its own     *)
(* calls.  The table of vnodes is shared, under _vnodes_mutex: a call is   *)
(* one step, but for open, which asks the file system before it takes the  *)
(* mutex.  The file system is what filesystem.h promises the VFS, names    *)
(* for inodes with a size: how far ext2 keeps the promise is the subject   *)
(* of module Ext2.  Counters are unsigned and wrap.                        *)
(***************************************************************************)
EXTENDS UniqueMap, FiniteSets, FiniteSetsExt

CONSTANTS
    Procs,      \* processes
    Started,    \* those that init has started; the others are free
    Names,      \* file names
    Inodes,     \* numbers 1..n of the inodes ext2 can give out
    MaxSize,    \* bound: the largest file, in blocks
    Fds,        \* bound: the descriptors that calls are made with
    Budgets     \* bounds: the number of calls of each sort in a behaviour

ASSUME FilesAssumption == Started \subseteq Procs /\ Fds \subseteq Nat /\ 0 \notin Inodes

VARIABLES
    vfs,        \* [vnodes, gone, pipes, dir, size, status]
    proc,       \* per process [live, open, fd, opening]: open is open_files, fd file_descriptors
    left,       \* calls left, by sort
    odd         \* history: events that explain a deviation

vars == <<vfs, proc, left, odd>>

Word == 256    \* uint64_t counters, modulo a small word
Inc(n) == (n + 1) % Word
Dec(n) == (n + Word - 1) % Word

KernelTty == 0    \* vnode of the terminal of the kernel
UserTty == 1      \* vnode of INIT_PROCESS_TTY, on which processes have their standard files

NoInode == 0
Idle == [inode |-> NoInode]     \* opening, outside open

\* The value a map returns, and enters, for an index that it does not hold.
BlankFile == [vn |-> 0, pos |-> 0, flags |-> {}, n |-> 0]
BlankVnode == [kind |-> "blank", data |-> 0, size |-> 0, open |-> 0, deleted |-> FALSE]

NewFile(v, flags) == [vn |-> v, pos |-> 0, flags |-> flags, n |-> 1]
NewVnode(kind, data, size) ==
    [kind |-> kind, data |-> data, size |-> size, open |-> 0, deleted |-> FALSE]

\* A blank file is closed: that of the kernel's terminal, or what has its index by then.
IsBlank(file) == file.flags = {}
Shuts(files) == IF \E file \in files : IsBlank(file) THEN {"blank"} ELSE {}

-----------------------------------------------------------------------------
(* The tables of one process, q. *)

\* Standard input, output and error of start_process.
StdFiles(q) ==
    LET f1 == InsertUnique(q.open, NewFile(UserTty, {"read"}))
        f2 == InsertUnique(f1, NewFile(UserTty, {"write"}))
        f3 == InsertUnique(f2, NewFile(UserTty, {"write"}))
        d1 == InsertUnique(q.fd, 0)
        d2 == InsertUnique(d1, 1)
    IN  [q EXCEPT !.open = f3, !.fd = InsertUnique(d2, 2)]

AddFileDescriptor(q, file) ==
    [q EXCEPT !.open = InsertUnique(@, file), !.fd = InsertUnique(@, NewKey(q.open))]

\* file_descriptors.count(fd): an entry of value -1 counts as none.
HasFd(q, fd) == fd \in Keys(q.fd) /\ q.fd.at[fd] # -1

\* get_file_descriptor: a descriptor of an index that is not there enters a blank file.
Touched(q, i) == IF i \in Keys(q.open) THEN q ELSE [q EXCEPT !.open = Assign(@, i, BlankFile)]

FileOf(q, fd) == Touched(q, q.fd.at[fd]).open.at[q.fd.at[fd]]

UpdateFile(q, fd, file) == [q EXCEPT !.open = Assign(@, q.fd.at[fd], file)]

\* One descriptor less for open file i, which is erased with the last one.
DropFile(q, i) ==
    LET file == Touched(q, i).open.at[i]
    IN  IF Dec(file.n) = 0 THEN [q EXCEPT !.open = EraseKey(@, i)]
        ELSE [q EXCEPT !.open = Assign(@, i, [file EXCEPT !.n = Dec(@)])]

RemoveFileDescriptor(q, fd) == [DropFile(q, q.fd.at[fd]) EXCEPT !.fd = EraseKey(@, fd)]

-----------------------------------------------------------------------------
(* The vnodes, s = vfs. *)

\* A vnode that is looked up by an index that is not there is entered blank.
TouchVnode(s, v) ==
    IF v \in Keys(s.vnodes) THEN s ELSE [s EXCEPT !.vnodes = Assign(@, v, BlankVnode)]

VnodesOf(s, inode) ==
    {v \in Keys(s.vnodes) : s.vnodes.at[v].kind = "file" /\ s.vnodes.at[v].data = inode}

CountOpen(s, v, n) == [s EXCEPT !.vnodes.at[v].open = (@ + n) % Word]

UnlinkFile(s, name) ==
    IF s.dir[name] = NoInode THEN s
    ELSE [s EXCEPT !.dir[name] = NoInode, !.size[s.dir[name]] = 0]

\* pipe_filesystem::close_open_file; the other file systems do nothing.
ClosePipeEnd(s, file) ==
    LET vn == s.vnodes.at[file.vn]
    IN  IF vn.kind # "pipe" THEN s
        ELSE IF file.flags = {"read"} THEN [s EXCEPT !.pipes[vn.data].r = Dec(@)]
        ELSE [s EXCEPT !.pipes[vn.data].w = Dec(@)]

(***************************************************************************)
(* close_open_file: the last open file of a vnode takes the vnode along,   *)
(* and unlinks the file when that was put off.  A blank vnode has no file  *)
(* system to call.                                                         *)
(***************************************************************************)
CloseOpenFile(s, file) ==
    IF file.vn \notin Keys(s.vnodes) \/ TouchVnode(s, file.vn).vnodes.at[file.vn].kind = "blank"
    THEN [s EXCEPT !.status = "wild"]
    ELSE LET t == CountOpen(ClosePipeEnd(s, file), file.vn, Word - 1)
             vn == t.vnodes.at[file.vn]
             put_off == vn.deleted /\ file.vn \in DOMAIN t.gone
             u == IF put_off THEN UnlinkFile(t, t.gone[file.vn]) ELSE t
         IN  IF vn.open # 0 THEN t
             ELSE [u EXCEPT !.vnodes = EraseKey(@, file.vn),
                            !.gone = [v \in DOMAIN @ \ {file.vn} |-> @[v]]]

-----------------------------------------------------------------------------
Free == [live |-> FALSE, open |-> EmptyMap, fd |-> EmptyMap, opening |-> Idle]

\* create_tty_vnodes, and the processes that init has started.
Init ==
    /\ vfs = [vnodes |-> [at |-> [v \in {KernelTty, UserTty} |->
                                  [NewVnode("tty", v, 0) EXCEPT !.open =
                                     IF v = UserTty THEN 1 + 3 * Cardinality(Started) ELSE 1]],
                         counter |-> 2, free |-> <<>>],
              gone |-> <<>>, pipes |-> <<>>, dir |-> [n \in Names |-> NoInode],
              size |-> [i \in Inodes |-> 0], status |-> "ok"]
    /\ proc = [p \in Procs |-> IF p \in Started THEN [StdFiles(Free) EXCEPT !.live = TRUE] ELSE Free]
    /\ left \in Budgets
    /\ odd = {}

Spend(sort) == left[sort] > 0 /\ left' = [left EXCEPT ![sort] = @ - 1]

Calls(p, sort) == vfs.status = "ok" /\ proc[p].live /\ proc[p].opening = Idle /\ Spend(sort)

\* open(2): O_RDONLY, O_WRONLY or O_RDWR, with or without O_APPEND and O_CREAT.
ConvertFlags(o) ==
    (IF "WRONLY" \in o THEN {"write"} ELSE IF "RDWR" \in o THEN {"read", "write"} ELSE {"read"})
    \cup (IF "APPEND" \in o THEN {"append"} ELSE {})
    \cup (IF "CREAT" \in o THEN {"create"} ELSE {})

Modes == {{}, {"WRONLY", "CREAT"}, {"RDWR", "APPEND"}}

(***************************************************************************)
(* The first part of open: the file system finds the file, or creates it,  *)
(* and gives its information.                                              *)
(***************************************************************************)
OpenLookup(p, name, o) ==
    /\ Calls(p, "open")
    /\ LET flags == ConvertFlags(o)
           room == {i \in Inodes : \A n \in Names : vfs.dir[n] # i}
           there == vfs.dir[name] # NoInode
           inode == IF there THEN vfs.dir[name] ELSE Min(room)
       IN  /\ there \/ ("create" \in flags /\ room # {})
           /\ vfs' = [vfs EXCEPT !.dir[name] = inode]
           /\ proc' = [proc EXCEPT ![p].opening =
                          [inode |-> inode, flags |-> flags, size |-> vfs.size[inode]]]
    /\ UNCHANGED odd


(***************************************************************************)
(* The second part, under _vnodes_mutex: the vnode of the file is found or *)
(* made, and the file is added to the tables of the process.  What the     *)
(* file system said may be out of date by then.                            *)
(***************************************************************************)
OpenVnode(p) ==
    /\ vfs.status = "ok"
    /\ proc[p].opening # Idle
    /\ LET o == proc[p].opening
           q == [proc[p] EXCEPT !.opening = Idle]
           found == VnodesOf(vfs, o.inode)
           v == IF found # {} THEN Min(found) ELSE NextKey(vfs.vnodes)
           made == EmplaceUnique(vfs.vnodes, NewVnode("file", o.inode, o.size))
           stale == \/ \A n \in Names : vfs.dir[n] # o.inode
                    \/ found = {} /\ o.size # vfs.size[o.inode]
       IN  /\ \/ /\ found # {} /\ vfs.vnodes.at[v].deleted
                 /\ proc' = [proc EXCEPT ![p] = q]
                 /\ UNCHANGED vfs
              \/ /\ found # {} /\ ~vfs.vnodes.at[v].deleted
                 /\ vfs' = CountOpen(vfs, v, 1)
                 /\ proc' = [proc EXCEPT ![p] = AddFileDescriptor(q, NewFile(v, o.flags))]
              \/ /\ found = {} /\ v \in Keys(vfs.vnodes)
                 /\ vfs' = [vfs EXCEPT !.vnodes = made]
                 /\ proc' = [proc EXCEPT ![p] = q]
              \/ /\ found = {} /\ v \notin Keys(vfs.vnodes)
                 /\ vfs' = CountOpen([vfs EXCEPT !.vnodes = made], v, 1)
                 /\ proc' = [proc EXCEPT ![p] = AddFileDescriptor(q, NewFile(v, o.flags))]
           /\ odd' = IF stale THEN odd \cup {"stale"} ELSE odd
    /\ UNCHANGED left

\* Mutant of Close: the vnode is closed with every descriptor.
CloseEvery(p, fd) ==
    /\ Calls(p, "close")
    /\ HasFd(proc[p], fd)
    /\ LET file == FileOf(proc[p], fd)
       IN  /\ vfs' = CloseOpenFile(vfs, file)
           /\ proc' = [proc EXCEPT ![p] = RemoveFileDescriptor(@, fd)]
           /\ odd' = odd \cup Shuts({file})

Close(p, fd) ==
    /\ Calls(p, "close")
    /\ HasFd(proc[p], fd)
    /\ LET file == FileOf(proc[p], fd)
       IN  /\ vfs' = IF file.n = 1 THEN CloseOpenFile(vfs, file) ELSE vfs
           /\ proc' = [proc EXCEPT ![p] = RemoveFileDescriptor(@, fd)]
           /\ odd' = IF file.n = 1 THEN odd \cup Shuts({file}) ELSE odd

-----------------------------------------------------------------------------
\* pipe_filesystem::duplicate_open_file
DuplicatePipeEnd(s, file) ==
    LET vn == s.vnodes.at[file.vn]
    IN  IF vn.kind # "pipe" THEN s
        ELSE IF file.flags = {"read"} THEN [s EXCEPT !.pipes[vn.data].r = Inc(@)]
        ELSE [s EXCEPT !.pipes[vn.data].w = Inc(@)]

\* The tables after duplicate_file_descriptor; new = -1 asks for any number.
Duplicate(q, old, new) ==
    LET i == q.fd.at[old]
        q1 == UpdateFile(q, old, [FileOf(q, old) EXCEPT !.n = Inc(@)])
        q2 == IF HasFd(q1, new) THEN DropFile(q1, q1.fd.at[new]) ELSE q1
    IN  IF new = -1 THEN [q1 EXCEPT !.fd = InsertUnique(@, i)]
        ELSE [q2 EXCEPT !.fd = Assign(@, new, i)]

(***************************************************************************)
(* dup(2) and dup2(2).  The open file a number had before loses it, and is *)
(* erased with its last number without being closed.  A number the table   *)
(* did not give out is unknown to its counter.                             *)
(***************************************************************************)
Dup(p, old, new) ==
    /\ Calls(p, "dup")
    /\ old # new
    /\ HasFd(proc[p], old)
    /\ LET q == proc[p]
           s == TouchVnode(vfs, FileOf(q, old).vn)
       IN  /\ vfs' = IF s.vnodes.at[FileOf(q, old).vn].kind = "blank" THEN [s EXCEPT !.status = "wild"]
                     ELSE DuplicatePipeEnd(s, FileOf(q, old))
           /\ proc' = [proc EXCEPT ![p] = Duplicate(q, old, new)]
           /\ odd' = odd \cup (IF HasFd(q, new) /\ FileOf(q, new).n = 1 /\ q.fd.at[new] # q.fd.at[old]
                                 THEN {"leak"} ELSE {})
                          \cup (IF new # -1 /\ new \notin Keys(q.fd) THEN {"fresh"} ELSE {})

\* pipe(2): the vnode starts with a count of 0 open files, though it has two.
CreatePipe(p) ==
    /\ Calls(p, "pipe")
    /\ LET v == NextKey(vfs.vnodes)
           made == EmplaceUnique(vfs.vnodes, NewVnode("pipe", Len(vfs.pipes) + 1, 0))
       IN  /\ vfs' = [vfs EXCEPT !.pipes = Append(@, [r |-> 1, w |-> 1]), !.vnodes = made]
           /\ proc' = IF v \in Keys(vfs.vnodes) THEN proc
                      ELSE [proc EXCEPT ![p] =
                              AddFileDescriptor(AddFileDescriptor(@, NewFile(v, {"read"})),
                                                NewFile(v, {"write"}))]
    /\ UNCHANGED odd

\* Mutant of Unlink: an open file is unlinked at once.
UnlinkNow(p, name) ==
    /\ Calls(p, "unlink")
    /\ vfs.dir[name] # NoInode
    /\ vfs' = UnlinkFile(vfs, name)
    /\ UNCHANGED <<proc, odd>>

\* unlink(2): a file with a vnode is marked, and unlinked by the last close.
Unlink(p, name) ==
    /\ Calls(p, "unlink")
    /\ vfs.dir[name] # NoInode
    /\ LET found == VnodesOf(vfs, vfs.dir[name])
           v == Min(found)
       IN  \/ /\ found = {}
              /\ vfs' = UnlinkFile(vfs, name)
           \/ /\ found # {} /\ ~vfs.vnodes.at[v].deleted
              /\ vfs' = [vfs EXCEPT !.vnodes.at[v].deleted = TRUE,
                                    !.gone = [w \in DOMAIN @ \cup {v} |-> IF w = v THEN name ELSE @[w]]]
    /\ UNCHANGED <<proc, odd>>

-----------------------------------------------------------------------------
(***************************************************************************)
(* fork: every open file of the parent is counted for the child, which     *)
(* gets the descriptors of the parent and none of its open files.          *)
(***************************************************************************)
Fork(p, c) ==
    /\ Calls(p, "life")
    /\ ~proc[c].live
    /\ LET Count(i, s) == CountOpen(TouchVnode(s, proc[p].open.at[i].vn), proc[p].open.at[i].vn, 1)
       IN  vfs' = FoldSet(Count, vfs, Keys(proc[p].open))
    /\ proc' = [proc EXCEPT ![c] = [Free EXCEPT !.live = TRUE,
                                                !.fd = [EmptyMap EXCEPT !.at = proc[p].fd.at]]]
    /\ odd' = odd \cup {"fork"}

\* exec: the process keeps its files and gets the standard ones once more.
Exec(p) ==
    /\ Calls(p, "life")
    /\ vfs' = CountOpen(TouchVnode(vfs, UserTty), UserTty, 3)
    /\ proc' = [proc EXCEPT ![p] = StdFiles(@)]
    /\ odd' = odd \cup {"exec"}

\* The end of a process: every open file is closed, blank ones too.
Exit(p) ==
    /\ Calls(p, "life")
    /\ LET Shut(i, s) == CloseOpenFile(s, proc[p].open.at[i])
       IN  vfs' = FoldSet(Shut, vfs, Keys(proc[p].open))
    /\ proc' = [proc EXCEPT ![p] = Free]
    /\ odd' = odd \cup Shuts({proc[p].open.at[i] : i \in Keys(proc[p].open)})

-----------------------------------------------------------------------------
(* read, write and lseek on a file of ext2; pipes and terminals never end. *)

\* The call ends before the file system is called: no access, or a vnode without one.
Refused(p, fd, flag) ==
    LET q == Touched(proc[p], proc[p].fd.at[fd])
        file == FileOf(q, fd)
        s == TouchVnode(vfs, file.vn)
    IN  /\ flag \notin file.flags \/ s.vnodes.at[file.vn].kind = "blank"
        /\ vfs' = IF flag \in file.flags THEN [s EXCEPT !.status = "wild"] ELSE s
        /\ proc' = [proc EXCEPT ![p] = q]
        /\ UNCHANGED odd

\* Access is granted to a file of ext2.
Granted(p, fd, flag) ==
    LET file == FileOf(proc[p], fd)
    IN  flag \in file.flags /\ file.vn \in Keys(vfs.vnodes) /\ vfs.vnodes.at[file.vn].kind = "file"

Read(p, fd) ==
    /\ Calls(p, "io")
    /\ HasFd(proc[p], fd)
    /\ \/ Refused(p, fd, "read")
       \/ LET file == FileOf(proc[p], fd)
              vn == vfs.vnodes.at[file.vn]
          IN  /\ Granted(p, fd, "read")
              /\ proc' = [proc EXCEPT ![p] = UpdateFile(@, fd,
                             [file EXCEPT !.pos = IF @ < vn.size THEN @ + 1 ELSE @])]
              /\ vfs' = [vfs EXCEPT !.vnodes.at[file.vn].size = vfs.size[vn.data]]
              /\ UNCHANGED odd

\* A block is written at the position, or at the end that the vnode knows.  ext2 ends the file there.
Write(p, fd) ==
    /\ Calls(p, "io")
    /\ HasFd(proc[p], fd)
    /\ \/ Refused(p, fd, "write")
       \/ LET file == FileOf(proc[p], fd)
              vn == vfs.vnodes.at[file.vn]
              pos == IF "append" \in file.flags THEN vn.size ELSE file.pos
          IN  /\ Granted(p, fd, "write")
              /\ pos < MaxSize
              /\ proc' = [proc EXCEPT ![p] = UpdateFile(@, fd, [file EXCEPT !.pos = pos + 1])]
              /\ vfs' = [vfs EXCEPT !.size[vn.data] = pos + 1, !.vnodes.at[file.vn].size = pos + 1]
              /\ UNCHANGED odd

\* lseek to the start or to the end; pipes cannot seek, and a terminal has no end.
Seek(p, fd) ==
    /\ Calls(p, "io")
    /\ HasFd(proc[p], fd)
    /\ LET file == FileOf(proc[p], fd)
           vn == TouchVnode(vfs, file.vn).vnodes.at[file.vn]
       IN  /\ vn.kind # "pipe"
           /\ \E pos \in {0, vn.size} :
                 proc' = [proc EXCEPT ![p] = UpdateFile(@, fd, [file EXCEPT !.pos = pos])]
           /\ vfs' = TouchVnode(vfs, file.vn)
    /\ UNCHANGED odd

-----------------------------------------------------------------------------
Next ==
    \E p \in Procs :
       \/ \E name \in Names, o \in Modes : OpenLookup(p, name, o)
       \/ OpenVnode(p)
       \/ \E fd \in Fds : Close(p, fd) \/ Read(p, fd) \/ Write(p, fd) \/ Seek(p, fd)
       \/ \E old \in Fds, new \in Fds \cup {-1} : Dup(p, old, new)
       \/ CreatePipe(p)
       \/ \E name \in Names : Unlink(p, name)
       \/ \E c \in Procs : Fork(p, c)
       \/ Exec(p)
       \/ Exit(p)

Spec == Init /\ [][Next]_vars

-----------------------------------------------------------------------------
FileFlags == SUBSET {"read", "write", "append", "create"}

\* The tables hold what their types allow.
FilesTypeOK ==
    /\ vfs.status \in {"ok", "wild"}
    /\ vfs.dir \in [Names -> Inodes \cup {NoInode}]
    /\ vfs.size \in [Inodes -> 0..MaxSize]
    /\ \A v \in Keys(vfs.vnodes) : /\ vfs.vnodes.at[v].kind \in {"tty", "file", "pipe", "blank"}
                                   /\ vfs.vnodes.at[v].open \in 0..(Word - 1)
                                   /\ vfs.vnodes.at[v].size \in 0..MaxSize
    /\ DOMAIN vfs.gone \subseteq Keys(vfs.vnodes)
    /\ \A p \in Procs : \A i \in Keys(proc[p].open) :
          proc[p].open.at[i].flags \in FileFlags /\ proc[p].open.at[i].n \in 0..(Word - 1)

\* The open files of all processes that refer to vnode v
Users(v) == {x \in Procs \X (0..20) : x[2] \in Keys(proc[x[1]].open) /\ proc[x[1]].open.at[x[2]].vn = v}

\* The vnode of blank files, once one was closed that nobody had opened
Spoilt(v) == v = BlankFile.vn /\ "blank" \in odd

(***************************************************************************)
(* amount_of_open_files of a terminal or an ext2 file covers the open      *)
(* files that refer to it, and is exact until a process forks, execs or    *)
(* has dup2 erase an open file.  The manager holds one of a terminal.      *)
(* Blank files of a forked process are not counted, and a close or the     *)
(* exit of that process counts them off the vnode with index 0.            *)
(***************************************************************************)
CountsCoverUsers ==
    \A v \in Keys(vfs.vnodes) :
       LET vn == vfs.vnodes.at[v]
           n == Cardinality({x \in Users(v) : ~IsBlank(proc[x[1]].open.at[x[2]])})
                + (IF vn.kind = "tty" THEN 1 ELSE 0)
       IN  vn.kind \in {"tty", "file"} /\ ~Spoilt(v) =>
             n <= vn.open /\ (odd \cap {"fork", "exec", "leak"} = {} => n = vn.open)

\* No system call reaches a vnode without a file system, until a forked process
\* has closed a blank file that its descriptors led to, by close or by its exit.
WildIsExplained == vfs.status = "wild" => "blank" \in odd

(***************************************************************************)
(* An open file keeps its vnode, with its file system: the count of a      *)
(* pipe's vnode, which starts at 0 for two ends, too reaches 0 only with   *)
(* the last close, or never.                                               *)
(***************************************************************************)
VnodesAreKept ==
    \A p \in Procs : \A i \in Keys(proc[p].open) :
       LET file == proc[p].open.at[i]
       IN  ~IsBlank(file) /\ ~Spoilt(file.vn) =>
             file.vn \in Keys(vfs.vnodes) /\ vfs.vnodes.at[file.vn].kind # "blank"

(***************************************************************************)
(* The counts of a pipe cover its open ends: a reader does not see the end *)
(* of the file while somebody can write, and a writer gets no SIGPIPE      *)
(* while somebody can read.                                                *)
(***************************************************************************)
OpenEndsAreCounted ==
    \A v \in Keys(vfs.vnodes) :
       LET vn == vfs.vnodes.at[v]
           Ends(f) == {x \in Users(v) : proc[x[1]].open.at[x[2]].flags = f}
       IN  vn.kind = "pipe" /\ ~Spoilt(v) =>
             /\ Cardinality(Ends({"read"})) <= vfs.pipes[vn.data].r
             /\ Cardinality(Ends({"write"})) <= vfs.pipes[vn.data].w

(***************************************************************************)
(* Every descriptor leads to an open file, which counts its descriptors,   *)
(* until a process forks, execs or gives dup2 a fresh number.              *)
(***************************************************************************)
FdsResolve ==
    odd \cap {"fork", "exec", "fresh"} = {} =>
    \A p \in Procs :
       /\ \A fd \in Keys(proc[p].fd) : proc[p].fd.at[fd] \in Keys(proc[p].open)
       /\ \A i \in Keys(proc[p].open) :
             proc[p].open.at[i].n = Cardinality({fd \in Keys(proc[p].fd) : proc[p].fd.at[fd] = i})

\* A file keeps its name as long as a process has it open: unlink waits for the last close,
\* unless the name went between the two parts of an open.
OpenFilesAreLinked ==
    "stale" \notin odd =>
    \A v \in Keys(vfs.vnodes) :
       vfs.vnodes.at[v].kind = "file" /\ ~Spoilt(v) =>
          /\ \E n \in Names : vfs.dir[n] = vfs.vnodes.at[v].data
          /\ vfs.vnodes.at[v].deleted => v \in DOMAIN vfs.gone /\ vfs.dir[vfs.gone[v]] = vfs.vnodes.at[v].data

\* Append writes at the end: the size in the vnode is the size of the file, unless it changed
\* between the two parts of the open that made the vnode.
SizesAreFresh ==
    "stale" \notin odd =>
    \A v \in Keys(vfs.vnodes) :
       vfs.vnodes.at[v].kind = "file" /\ ~Spoilt(v) => vfs.vnodes.at[v].size = vfs.size[vfs.vnodes.at[v].data]


(***************************************************************************)
(* The counts of vnodes and of the ends of pipes cover those who use them, *)
(* so nothing is dropped under an open file.                               *)
(***************************************************************************)
CountsAreRight ==
    /\ FilesTypeOK
    /\ CountsCoverUsers
    /\ VnodesAreKept
    /\ OpenEndsAreCounted

(***************************************************************************)
(* A descriptor leads to an open file and on to a vnode, whose name and    *)
(* size are those of the file.                                             *)
(***************************************************************************)
OpenFilesAreSound ==
    /\ FdsResolve
    /\ WildIsExplained
    /\ OpenFilesAreLinked
    /\ SizesAreFresh
=============================================================================
