-------------------------------- MODULE Ext2 --------------------------------
(***************************************************************************)
(* The ext2 driver: create_file, create_dir, unlink_file, write and        *)
(* read_dir_entries as the VFS calls them, by tasks that run at the same   *)
(* time.  One step is one access to the drive, or the work between two     *)
(* that no other task can see, with the mutexes of the code held across    *)
(* steps.  A signal can arrive during a call, and the machine can stop     *)
(* between any two steps and mount the drive again.                        *)
(*                                                                         *)
(* A directory is one block of at most DirCap entries; a size counts       *)
(* blocks.  The superblock and the group descriptors in memory are written *)
(* in the step that changes them, so one copy stands for both.  Errors of  *)
(* the drive are left to module Slice.                                     *)
(***************************************************************************)
EXTENDS Ext2Layout

CONSTANTS
    Tasks,          \* tasks that use the file system
    None,           \* no task
    NGroups,        \* block groups
    BPG,            \* _sb.blocks_per_group
    IPG,            \* _sb.inodes_per_group
    DirCap,         \* bound: entries that fit in a block
    SbEntry,        \* entries from this place on lie where block 0 holds the superblock
    Scripts         \* bound: the drive to begin with, the calls, the signals and crashes

ASSUME Ext2Assumption ==
    /\ NGroups \in Nat \ {0} /\ BPG \in Nat \ {0} /\ IPG \in Nat \ {0}
    /\ None \notin Tasks

VARIABLES
    fs,         \* the drive, with the superblock and the descriptors
    task,       \* the call of each task
    lock,       \* _dir_edit_mutex, vfs _vnodes_mutex, _block_groups_mutexes
    doomed,     \* the name to unlink at the last close of an inode
    work,       \* calls still to make
    seen        \* history of the calls; signals and crashes still to come

ext2Vars == <<fs, task, lock, doomed, work, seen>>

Groups == 0..(NGroups - 1)
Blocks == 0..(NGroups * BPG - 1)        \* block 0 is EXT2_INVALID_BLOCK
Inodes == 1..(NGroups * IPG)
Root == 1
GroupOfBlock(b) == b \div BPG
GroupOfInode(i) == (i - 1) \div IPG
BlocksOf(g) == {b \in Blocks : GroupOfBlock(b) = g}
InodesOf(g) == {i \in Inodes : GroupOfInode(i) = g}
NPtr == NDir + 3

Least(S) == CHOOSE x \in S : \A y \in S : x <= y

\* A cleared inode, an indirect block of zeros
BlankInode == [type |-> "none", size |-> 0, ptr |-> [p \in 0..(NPtr - 1) |-> 0]]
NewInode(type) == [BlankInode EXCEPT !.type = type]
Zeros == [i \in 0..(Ind - 1) |-> 0]

\* An entry of a directory; one of the image can be full to its last byte.
Entry(ino, name) == [ino |-> ino, name |-> name, full |-> FALSE]
FullEntry(ino, name) == [Entry(ino, name) EXCEPT !.full = TRUE]
Torn == Entry(0, "torn")                \* room cut off an entry, not written yet
Scrap == Entry(0, "scrap")              \* what is read in the middle of another entry

Idle ==
    [pc |-> "idle", op |-> "none", at |-> "none", name |-> "none", index |-> 0, count |-> 0,
     done |-> 0, dir |-> 0, ino |-> 0, dobj |-> BlankInode, obj |-> BlankInode, open |-> FALSE,
     kind |-> "block", group |-> 0, level |-> 0, parent |-> 0, block |-> 0, stage |-> "none",
     free |-> <<>>, intr |-> FALSE]

FsInit ==
    /\ task = [t \in Tasks |-> Idle]
    /\ lock = [dir |-> None, vnodes |-> None, group |-> [g \in Groups |-> None]]
    /\ doomed = [i \in Inodes |-> <<>>]
    /\ \E s \in Scripts :
          /\ fs = s.drive
          /\ work = s.calls
          /\ seen = [signals |-> s.signals, crashes |-> s.crashes, events |-> {}, made |-> {},
                     gone |-> {}, covered |-> {}, lost |-> [block |-> 0, inode |-> 0]]

-----------------------------------------------------------------------------
(* Steps of a task *)

At(t, pc) == task[t].pc = pc

Becomes(t, c) == task' = [task EXCEPT ![t] = c]
Goto(t, pc) == Becomes(t, [task[t] EXCEPT !.pc = pc])

\* The locks without those of t
Released(t) ==
    [dir |-> IF lock.dir = t THEN None ELSE lock.dir,
     vnodes |-> IF lock.vnodes = t THEN None ELSE lock.vnodes,
     group |-> [g \in Groups |-> IF lock.group[g] = t THEN None ELSE lock.group[g]]]

\* The call returns.
End(t) ==
    /\ Becomes(t, Idle)
    /\ lock' = Released(t)

Panic(t) ==
    /\ fs' = [fs EXCEPT !.up = "panic"]
    /\ UNCHANGED <<task, lock>>

\* The loop over the entries never ends.
Hang(t) ==
    /\ Goto(t, "hung")
    /\ UNCHANGED <<fs, lock>>

Events(E) == seen' = [seen EXCEPT !.events = @ \cup E]

Free(g) == lock.group[g] = None

-----------------------------------------------------------------------------
(* Directories *)

Ents(obj) == IF obj.ptr[0] = 0 THEN <<>> ELSE fs.data[obj.ptr[0]]

IsTorn(obj) == \E k \in DOMAIN Ents(obj) : Ents(obj)[k] = Torn

\* The entries without a byte to spare, not the last
Full(obj) == {k \in 1..(Len(Ents(obj)) - 1) : Ents(obj)[k].full}

Places(obj, name) == {k \in DOMAIN Ents(obj) : Ents(obj)[k].name = name}

\* What read_dir does with an inode object: a signal makes read_file return nothing.
ReadDir(t, obj) ==
    IF obj.size = 0 THEN "panic"
    ELSE IF task[t].intr THEN "empty"
    ELSE IF IsTorn(obj) THEN "hang"
    ELSE "ok"

\* One branch of find_inode
Branch(t, d, name) ==
    LET obj == fs.table[d]
        read == ReadDir(t, obj)
    IN  IF obj.type # "dir" \/ read = "empty" THEN [res |-> "missing", ino |-> 0]
        ELSE IF read # "ok" THEN [res |-> read, ino |-> 0]
        ELSE IF Places(obj, name) = {} THEN [res |-> "missing", ino |-> 0]
        ELSE [res |-> "ok", ino |-> Ents(obj)[Least(Places(obj, name))].ino]

\* find_inode of the parent, and of the file
FindParent(t) ==
    IF task[t].at = "/" THEN [res |-> "ok", ino |-> Root] ELSE Branch(t, Root, task[t].at)

FindInode(t) ==
    LET p == FindParent(t)
    IN  IF p.res # "ok" THEN p ELSE Branch(t, p.ino, task[t].name)

-----------------------------------------------------------------------------
(* Blocks *)

\* The blocks of an inode in the order that free_inode_blocks frees them
BlockList(obj) ==
    LET Listed(f) == SelectSeq([i \in 1..Ind |-> f[i - 1]], LAMBDA b : b # 0)
        Singly(b) == IF b = 0 THEN <<>> ELSE Listed(fs.data[b]) \o <<b>>
        Doubly(b) ==
            LET parts[i \in 0..Ind] == IF i = 0 THEN <<>> ELSE parts[i - 1] \o Singly(fs.data[b][i - 1])
            IN  IF b = 0 THEN <<>> ELSE parts[Ind] \o <<b>>
    IN  SelectSeq([i \in 1..NDir |-> obj.ptr[i - 1]], LAMBDA b : b # 0)
        \o Singly(obj.ptr[NDir]) \o Doubly(obj.ptr[NDir + 1])

InodeBlocks(i) == {BlockList(fs.table[i])[k] : k \in DOMAIN BlockList(fs.table[i])}

\* save_inode, save_block_group
SaveInode(i, obj) == [fs EXCEPT !.table[i] = obj]
SaveBlockGroup(kind, g, free) == [fs EXCEPT !.count[kind][g] = free]

Of(kind, g) == IF kind = "block" THEN BlocksOf(g) ELSE InodesOf(g)

-----------------------------------------------------------------------------
(* The calls *)

Openers(i) == {t \in Tasks : task[t].open /\ task[t].ino = i}

\* vfs::unlink holds the mutex of the vnodes to its end.
Begin(t) ==
    /\ At(t, "idle") /\ work[t] # <<>>
    /\ LET call == Head(work[t])
       IN  /\ Becomes(t, [Idle EXCEPT !.pc = "find", !.op = call.op, !.at = call.at,
                                      !.name = call.name, !.index = call.index, !.count = call.count])
           /\ IF call.op = "unlink" THEN lock.vnodes = None /\ lock' = [lock EXCEPT !.vnodes = t]
              ELSE UNCHANGED lock
    /\ work' = [work EXCEPT ![t] = Tail(@)]
    /\ UNCHANGED <<fs, doomed, seen>>

\* The lookups: of the directory for create_file and create_dir, of the file for the others.
Find(t) ==
    /\ At(t, "find")
    /\ LET c == task[t]
           new == c.op \in {"create", "mkdir"}
           r == IF new THEN FindParent(t) ELSE FindInode(t)
           type == fs.table[r.ino].type
       IN  CASE r.res = "panic" -> Panic(t) /\ UNCHANGED doomed
             [] r.res = "hang" -> Hang(t) /\ UNCHANGED doomed
             [] r.res = "missing" -> End(t) /\ UNCHANGED <<fs, doomed>>
             [] r.res = "ok" /\ new ->
                  Becomes(t, [c EXCEPT !.pc = "check", !.dir = r.ino]) /\ UNCHANGED <<fs, lock, doomed>>
             [] r.res = "ok" /\ c.op = "unlink" ->
                  /\ UNCHANGED fs
                  /\ IF Openers(r.ino) = {} THEN Goto(t, "unlink") /\ UNCHANGED <<lock, doomed>>
                     ELSE /\ doomed' = [doomed EXCEPT ![r.ino] = IF @ = <<>> THEN <<c.at, c.name>> ELSE @]
                          /\ End(t)
             [] r.res = "ok" /\ c.op \in {"write", "readdir"} ->
                  /\ UNCHANGED <<fs, doomed>>
                  /\ IF type # (IF c.op = "write" THEN "file" ELSE "dir") THEN End(t)
                     ELSE /\ Becomes(t, [c EXCEPT !.pc = IF c.op = "write" THEN "register" ELSE "g_get",
                                                  !.ino = r.ino])
                          /\ UNCHANGED lock
    /\ UNCHANGED <<work, seen>>

-----------------------------------------------------------------------------
(* create_file and create_dir *)

\* Another task is making the same name: it has looked at the directory.
SameName(t) ==
    \E u \in Tasks \ {t} :
       /\ task[u].op \in {"create", "mkdir"} /\ ~At(u, "find") /\ ~At(u, "check")
       /\ task[u].dir = task[t].dir /\ task[u].name = task[t].name

\* The name is not taken, or the directory could not be read.
Check(t) ==
    /\ At(t, "check")
    /\ LET c == task[t]
           dobj == fs.table[c.dir]
           read == ReadDir(t, dobj)
       IN  CASE dobj.type # "dir" -> End(t) /\ UNCHANGED <<fs, seen>>
             [] dobj.type = "dir" /\ read = "panic" -> Panic(t) /\ UNCHANGED seen
             [] dobj.type = "dir" /\ read = "hang" -> Hang(t) /\ UNCHANGED seen
             [] dobj.type = "dir" /\ read = "ok" /\ Places(dobj, c.name) # {} ->
                  End(t) /\ UNCHANGED <<fs, seen>>
             [] OTHER ->
                  /\ Becomes(t, [c EXCEPT !.pc = "reserve", !.kind = "inode", !.dobj = dobj])
                  /\ Events({e \in {"blind", "overlap"} :
                               IF e = "blind" THEN read = "empty" ELSE SameName(t)})
                  /\ UNCHANGED <<fs, lock>>
    /\ UNCHANGED <<doomed, work>>

\* Mutant of InitInode: the entry is written before the inode.
InitLater(t) ==
    /\ At(t, "init")
    /\ Goto(t, "entry")
    /\ UNCHANGED <<fs, lock, doomed, work, seen>>

\* create_inode writes the inode that alloc_inode found.
InitInode(t) ==
    /\ At(t, "init") /\ Free(GroupOfInode(task[t].ino))
    /\ fs' = SaveInode(task[t].ino, NewInode(IF task[t].op = "mkdir" THEN "dir" ELSE "file"))
    /\ Goto(t, "entry")
    /\ Events(IF InodeBlocks(task[t].ino) = {} THEN {} ELSE {"leak"})
    /\ UNCHANGED <<lock, doomed, work>>

\* get_block_for_offset on inode object `obj`, for `index`
Descend(t, c, obj, index, stage) ==
    Becomes(t, [c EXCEPT !.pc = "walk", !.obj = obj, !.index = index, !.stage = stage,
                         !.count = 1, !.done = 0, !.level = 1, !.parent = 0])

\* The call failed after the inode was made: free_inode.
Undo(t, E) ==
    /\ Goto(t, "f_get")
    /\ lock' = Released(t)
    /\ seen' = [seen EXCEPT !.events = @ \cup E,
                            !.gone = @ \cup (IF "halfmade" \in E THEN {task[t].ino} ELSE {})]

(***************************************************************************)
(* create_dir_entry, in the parent: the first write cuts room off an       *)
(* entry.  A full entry seems to have room, as its slack wraps around: it  *)
(* is made to end inside the next one, and those behind it are lost.  What *)
(* stands there ends the loops over the entries, or keeps them for ever.   *)
(* A signal before the directory is read makes the buffer empty and the    *)
(* entry a null pointer.  A full directory grows in memory only.           *)
(***************************************************************************)
WriteEntry(t) ==
    /\ At(t, "entry") /\ lock.dir = None
    /\ LET c == task[t]
           b == c.dobj.ptr[0]
           ents == Ents(c.dobj)
           k == Least(Full(c.dobj))
       IN  IF c.intr THEN Panic(t) /\ UNCHANGED seen
           ELSE /\ lock' = [lock EXCEPT !.dir = t]
                /\ CASE Full(c.dobj) # {} ->
                         /\ \E e \in {Torn, Scrap} :
                               fs' = [fs EXCEPT !.data[b] =
                                         SubSeq(@, 1, k - 1) \o <<Entry(@[k].ino, @[k].name), e>>]
                         /\ seen' = [seen EXCEPT !.covered = @ \cup {ents[j].ino : j \in (k + 1)..Len(ents)}]
                         /\ Goto(t, "entry2")
                     [] Full(c.dobj) = {} /\ Len(ents) = DirCap /\ ~IsTorn(c.dobj) ->
                         Descend(t, c, c.dobj, c.dobj.size, "grow") /\ UNCHANGED <<fs, seen>>
                     [] OTHER ->
                         /\ fs' = [fs EXCEPT !.data[b] = IF IsTorn(c.dobj) THEN @ ELSE Append(@, Torn)]
                         /\ Goto(t, "entry2") /\ UNCHANGED seen
    /\ UNCHANGED <<doomed, work>>

\* The entry is in the directory, or on a block of its own.
EntryMade(t, grown) ==
    /\ IF task[t].op = "create" THEN End(t) ELSE Goto(t, "dots") /\ lock' = Released(t)
    /\ seen' = [seen EXCEPT !.made = @ \cup {<<task[t].dir, task[t].name, task[t].ino, grown>>},
                            !.events = @ \cup (IF grown THEN {"leak"} ELSE {})]

WriteEntry2(t) ==
    /\ At(t, "entry2")
    /\ LET c == task[t]
           b == c.dobj.ptr[0]
       IN  IF c.intr THEN Undo(t, {"torn"}) /\ UNCHANGED fs
           ELSE /\ fs' = [fs EXCEPT !.data[b] =
                             [@ EXCEPT ![Len(@)] = Entry(c.ino, c.name)]]
                /\ EntryMade(t, FALSE)
    /\ UNCHANGED <<doomed, work>>

\* The entry "." of a new directory: no one sees it before the inode is saved.
Dots(t) ==
    /\ At(t, "dots") /\ lock.dir = None /\ Free(GroupOfInode(task[t].ino))
    /\ IF task[t].intr THEN Undo(t, {"halfmade"})
       ELSE /\ Descend(t, task[t], fs.table[task[t].ino], 0, "dot")
            /\ lock' = [lock EXCEPT !.dir = t]
            /\ UNCHANGED seen
    /\ UNCHANGED <<fs, doomed, work>>

\* The entry "..": the directory is read, and written.
DotDot(t) ==
    /\ At(t, "dotdot") /\ lock.dir = None
    /\ IF task[t].intr THEN Panic(t)
       ELSE Goto(t, "dotdot2") /\ lock' = [lock EXCEPT !.dir = t] /\ UNCHANGED fs
    /\ UNCHANGED <<doomed, work, seen>>

DotDot2(t) ==
    /\ At(t, "dotdot2")
    /\ LET c == task[t]
       IN  IF c.intr THEN Undo(t, {"halfmade", "leak"}) /\ UNCHANGED fs
           ELSE /\ fs' = [fs EXCEPT !.data[c.obj.ptr[0]] = Append(@, Entry(c.dir, ".."))]
                /\ Goto(t, "save") /\ lock' = Released(t)
                /\ UNCHANGED seen
    /\ UNCHANGED <<doomed, work>>

\* save_inode at the end of create_dir
SaveDir(t) ==
    /\ At(t, "save") /\ Free(GroupOfInode(task[t].ino))
    /\ fs' = SaveInode(task[t].ino, task[t].obj)
    /\ End(t)
    /\ UNCHANGED <<doomed, work, seen>>

-----------------------------------------------------------------------------
(* alloc_inode and alloc_block *)

\* The allocation failed, with or without the count that was taken from the superblock.
NotAllocated(t, lost) ==
    /\ seen' = [seen EXCEPT !.lost[task[t].kind] = @ + lost]
    /\ IF task[t].kind = "inode" THEN End(t)
       ELSE Becomes(t, [task[t] EXCEPT !.pc = "link", !.block = 0]) /\ UNCHANGED lock

\* _sb_mutex: one is taken from the count, and the superblock is written.
Reserve(t) ==
    /\ At(t, "reserve")
    /\ LET kind == task[t].kind
       IN  IF fs.sb[kind] = 0 THEN NotAllocated(t, 0) /\ UNCHANGED fs
           ELSE /\ fs' = [fs EXCEPT !.sb[kind] = @ - 1, !.sbOk = TRUE]
                /\ Becomes(t, [task[t] EXCEPT !.pc = "scan", !.group = 0])
                /\ UNCHANGED <<lock, seen>>
    /\ UNCHANGED <<doomed, work>>

\* The search for a group holds the mutex of each group in turn.
Scan(t) ==
    /\ At(t, "scan")
    /\ LET c == task[t]
       IN  /\ Free(c.group)
           /\ IF fs.count[c.kind][c.group] > 0 THEN Goto(t, "take") /\ UNCHANGED <<lock, seen>>
              ELSE IF c.group + 1 < NGroups
              THEN Becomes(t, [c EXCEPT !.group = @ + 1]) /\ UNCHANGED <<lock, seen>>
              ELSE NotAllocated(t, 1)
    /\ UNCHANGED <<fs, doomed, work>>

\* The group's mutex is taken again: its last bit may be gone by now.
Take(t) ==
    /\ At(t, "take") /\ Free(task[t].group)
    /\ LET c == task[t]
           free == Of(c.kind, c.group) \ fs.map[c.kind]
       IN  IF free = {}
           THEN fs' = SaveBlockGroup(c.kind, c.group, 0) /\ NotAllocated(t, 1)
           ELSE /\ fs' = [fs EXCEPT !.map[c.kind] = @ \cup {Least(free)}]
                /\ lock' = [lock EXCEPT !.group[c.group] = t]
                /\ Becomes(t, [c EXCEPT !.pc = "count", !.block = Least(free)])
                /\ UNCHANGED seen
    /\ UNCHANGED <<doomed, work>>

Unlocked(t, g) == [lock EXCEPT !.group[g] = None]

\* save_block_group; the mutex of the group is released.
CountTaken(t) ==
    /\ At(t, "count")
    /\ LET c == task[t]
       IN  /\ fs' = SaveBlockGroup(c.kind, c.group, fs.count[c.kind][c.group] - 1)
           /\ lock' = Unlocked(t, c.group)
           /\ IF c.kind = "inode"
              THEN Becomes(t, [c EXCEPT !.pc = "init", !.ino = c.block, !.block = 0])
              ELSE Goto(t, "link")
    /\ UNCHANGED <<doomed, work, seen>>

-----------------------------------------------------------------------------
(* get_block_for_offset and write_file *)

Path(c) == BlockPath(c.index + c.done)

\* One pointer on the way to the block
Walk(t) ==
    /\ At(t, "walk")
    /\ LET c == task[t]
           p == IF c.level = 1 THEN c.obj.ptr[Path(c)[1]] ELSE fs.data[c.parent][Path(c)[c.level]]
       IN  Becomes(t,
             IF p = 0 THEN [c EXCEPT !.pc = "reserve", !.kind = "block"]
             ELSE IF c.level = Len(Path(c)) THEN [c EXCEPT !.pc = "data", !.block = p]
             ELSE [c EXCEPT !.parent = p, !.level = @ + 1])
    /\ UNCHANGED <<fs, lock, doomed, work, seen>>

(***************************************************************************)
(* The new block is cleared if it is an indirect one, and its number put   *)
(* in the inode object or written to the indirect block above.             *)
(***************************************************************************)
Link(t) ==
    /\ At(t, "link")
    /\ LET c == task[t]
           leaf == c.level = Len(Path(c))
           linked == IF c.level = 1 THEN [c EXCEPT !.obj.ptr[Path(c)[1]] = c.block] ELSE c
           cleared == IF leaf THEN fs.data ELSE [fs.data EXCEPT ![c.block] = Zeros]
       IN  IF c.block = 0
           THEN CASE c.stage = "write" -> Goto(t, "w_save") /\ UNCHANGED <<fs, lock, seen>>
                  [] c.stage = "grow" -> Undo(t, {"leak"}) /\ UNCHANGED fs
                  [] c.stage = "dot" -> Undo(t, {"halfmade"}) /\ UNCHANGED fs
           ELSE /\ fs' = [fs EXCEPT !.data =
                             IF c.level = 1 THEN cleared
                             ELSE [cleared EXCEPT ![c.parent][Path(c)[c.level]] = c.block]]
                /\ Becomes(t, IF leaf THEN [linked EXCEPT !.pc = "data"]
                              ELSE [linked EXCEPT !.pc = "walk", !.parent = c.block, !.level = @ + 1])
                /\ UNCHANGED <<lock, seen>>
    /\ UNCHANGED <<doomed, work>>

\* The data of one block: of a file, the lost entry of a full directory, or the entry ".".
WriteData(t) ==
    /\ At(t, "data")
    /\ LET c == task[t]
           data == CASE c.stage = "write" -> <<>>
                     [] c.stage = "grow" -> <<Entry(c.ino, c.name)>>
                     [] c.stage = "dot" -> <<Entry(c.ino, ".")>>
           written == [c EXCEPT !.done = @ + 1, !.obj.size = c.index + c.done + 1, !.block = 0]
       IN  /\ fs' = [fs EXCEPT !.data[c.block] = data]
           /\ CASE c.stage = "write" -> /\ Becomes(t, [written EXCEPT !.pc = "w_next"])
                                        /\ UNCHANGED <<lock, seen>>
                [] c.stage = "grow" -> EntryMade(t, TRUE)
                [] c.stage = "dot" -> /\ Becomes(t, [written EXCEPT !.pc = "dotdot"])
                                      /\ lock' = Released(t) /\ UNCHANGED seen
    /\ UNCHANGED <<doomed, work>>

-----------------------------------------------------------------------------
(* write, between the open and the close of the VFS *)

\* vfs::open finds the vnode of the inode, or makes it.
Register(t) ==
    /\ At(t, "register") /\ lock.vnodes = None
    /\ IF doomed[task[t].ino] # <<>> THEN End(t)
       ELSE Becomes(t, [task[t] EXCEPT !.pc = "w_get", !.open = TRUE]) /\ UNCHANGED lock
    /\ UNCHANGED <<fs, doomed, work, seen>>

\* Another task holds the mutex of the vnode.
FileBusy(t) ==
    \E u \in Openers(task[t].ino) \ {t} : ~At(u, "w_get") /\ ~At(u, "close")

\* get_inode; a directory is not written.
WriteGet(t) ==
    /\ At(t, "w_get") /\ ~FileBusy(t) /\ Free(GroupOfInode(task[t].ino))
    /\ LET obj == fs.table[task[t].ino]
       IN  Becomes(t, [task[t] EXCEPT !.obj = obj, !.stage = "write",
                                      !.pc = IF obj.type = "dir" THEN "close" ELSE "w_next"])
    /\ UNCHANGED <<fs, lock, doomed, work, seen>>

WriteNext(t) ==
    /\ At(t, "w_next")
    /\ LET c == task[t]
       IN  Becomes(t, IF c.done = c.count \/ c.intr THEN [c EXCEPT !.pc = "w_save"]
                      ELSE [c EXCEPT !.pc = "walk", !.level = 1, !.parent = 0])
    /\ UNCHANGED <<fs, lock, doomed, work, seen>>

\* Nothing is saved if nothing was written, the blocks that were linked neither.
WriteSave(t) ==
    /\ At(t, "w_save") /\ Free(GroupOfInode(task[t].ino))
    /\ LET c == task[t]
       IN  /\ fs' = IF c.done = 0 THEN fs ELSE SaveInode(c.ino, c.obj)
           /\ Events(IF (c.done = 0 /\ c.obj # fs.table[c.ino])
                         \/ (c.done > 0 /\ c.obj.type # fs.table[c.ino].type)
                     THEN {"leak"} ELSE {})
    /\ Goto(t, "close")
    /\ UNCHANGED <<lock, doomed, work>>

\* close_open_file: the last one unlinks a file that was deleted while it was open.
Close(t) ==
    /\ At(t, "close") /\ lock.vnodes = None
    /\ LET c == task[t]
           path == doomed[c.ino]
       IN  IF path # <<>> /\ Openers(c.ino) = {t}
           THEN /\ lock' = [lock EXCEPT !.vnodes = t]
                /\ doomed' = [doomed EXCEPT ![c.ino] = <<>>]
                /\ Becomes(t, [Idle EXCEPT !.pc = "unlink", !.op = "unlink", !.intr = c.intr,
                                           !.at = path[1], !.name = path[2]])
           ELSE End(t) /\ UNCHANGED doomed
    /\ UNCHANGED <<fs, work, seen>>

-----------------------------------------------------------------------------
(* unlink_file *)

Unlink(t) ==
    /\ At(t, "unlink")
    /\ LET p == FindParent(t)
           r == FindInode(t)
       IN  CASE r.res = "panic" -> Panic(t)
             [] r.res = "hang" -> Hang(t)
             [] r.res = "missing" -> End(t) /\ UNCHANGED fs
             [] r.res = "ok" ->
                  /\ IF fs.table[r.ino].type # "file" THEN End(t)
                     ELSE /\ Becomes(t, [task[t] EXCEPT !.pc = "u_entry", !.dir = p.ino, !.ino = r.ino])
                          /\ UNCHANGED lock
                  /\ UNCHANGED fs
    /\ UNCHANGED <<doomed, work, seen>>

(***************************************************************************)
(* remove_dir_entry looks for the name and writes the entry before it with *)
(* the length of both, to the place on the drive that the entry has in the *)
(* directory: block 0.  The directory keeps the name.                      *)
(***************************************************************************)
RemoveEntry(t) ==
    /\ At(t, "u_entry") /\ lock.dir = None
    /\ LET c == task[t]
           dobj == fs.table[c.dir]
           places == Places(dobj, c.name)
       IN  CASE c.intr \/ places = {} -> End(t) /\ UNCHANGED <<fs, seen>>
             [] ~c.intr /\ places # {} ->
                  /\ fs' = [fs EXCEPT !.sbOk = @ /\ Least(places) <= SbEntry]
                  /\ Goto(t, "f_get")
                  /\ seen' = [seen EXCEPT !.gone = @ \cup {c.ino}]
                  /\ UNCHANGED lock
    /\ UNCHANGED <<doomed, work>>

-----------------------------------------------------------------------------
(* free_inode and free_block *)

FreeGet(t) ==
    /\ At(t, "f_get") /\ Free(GroupOfInode(task[t].ino))
    /\ Becomes(t, [task[t] EXCEPT !.pc = "f_map", !.obj = fs.table[task[t].ino]])
    /\ UNCHANGED <<fs, lock, doomed, work, seen>>

FreeMap(t) ==
    /\ At(t, "f_map") /\ Free(GroupOfInode(task[t].ino))
    /\ LET i == task[t].ino
       IN  IF i \notin fs.map["inode"] THEN End(t) /\ UNCHANGED fs
           ELSE /\ fs' = [fs EXCEPT !.map["inode"] = @ \ {i}]
                /\ lock' = [lock EXCEPT !.group[GroupOfInode(i)] = t]
                /\ Goto(t, "f_count")
    /\ UNCHANGED <<doomed, work, seen>>

FreeCount(t) ==
    /\ At(t, "f_count")
    /\ LET g == GroupOfInode(task[t].ino) IN fs' = SaveBlockGroup("inode", g, fs.count["inode"][g] + 1)
    /\ Goto(t, "f_clear")
    /\ UNCHANGED <<lock, doomed, work, seen>>

\* Mutant of FreeClear: the inode keeps its pointers.
FreeClearPart(t) ==
    /\ At(t, "f_clear")
    /\ fs' = [fs EXCEPT !.table[task[t].ino] = [BlankInode EXCEPT !.ptr = fs.table[task[t].ino].ptr]]
    /\ Goto(t, "f_sb")
    /\ UNCHANGED <<lock, doomed, work, seen>>

FreeClear(t) ==
    /\ At(t, "f_clear")
    /\ fs' = SaveInode(task[t].ino, BlankInode)
    /\ Goto(t, "f_sb")
    /\ UNCHANGED <<lock, doomed, work, seen>>

\* The group's mutex is released before the blocks are freed.
FreeSuper(t) ==
    /\ At(t, "f_sb")
    /\ fs' = [fs EXCEPT !.sb["inode"] = @ + 1, !.sbOk = TRUE]
    /\ lock' = Unlocked(t, GroupOfInode(task[t].ino))
    /\ Becomes(t, [task[t] EXCEPT !.pc = "fb_map", !.free = BlockList(task[t].obj),
                                   !.obj = BlankInode])
    /\ UNCHANGED <<doomed, work, seen>>

FreeBlock(t) ==
    /\ At(t, "fb_map")
    /\ LET c == task[t]
           b == Head(c.free)
       IN  IF c.free = <<>> THEN End(t) /\ UNCHANGED fs
           ELSE /\ Free(GroupOfBlock(b))
                /\ IF b \notin fs.map["block"]
                   THEN Becomes(t, [c EXCEPT !.free = Tail(@)]) /\ UNCHANGED <<fs, lock>>
                   ELSE /\ fs' = [fs EXCEPT !.map["block"] = @ \ {b}]
                        /\ lock' = [lock EXCEPT !.group[GroupOfBlock(b)] = t]
                        /\ Goto(t, "fb_count")
    /\ UNCHANGED <<doomed, work, seen>>

FreeBlockCount(t) ==
    /\ At(t, "fb_count")
    /\ LET g == GroupOfBlock(Head(task[t].free)) IN fs' = SaveBlockGroup("block", g, fs.count["block"][g] + 1)
    /\ Goto(t, "fb_sb")
    /\ UNCHANGED <<lock, doomed, work, seen>>

FreeBlockSuper(t) ==
    /\ At(t, "fb_sb")
    /\ fs' = [fs EXCEPT !.sb["block"] = @ + 1, !.sbOk = TRUE]
    /\ lock' = Unlocked(t, GroupOfBlock(Head(task[t].free)))
    /\ Becomes(t, [task[t] EXCEPT !.pc = "fb_map", !.free = Tail(@)])
    /\ UNCHANGED <<doomed, work, seen>>

-----------------------------------------------------------------------------
(* read_dir_entries *)

EntriesGet(t) ==
    /\ At(t, "g_get") /\ Free(GroupOfInode(task[t].ino))
    /\ LET obj == fs.table[task[t].ino]
       IN  IF obj.type # "dir" THEN End(t)
           ELSE Becomes(t, [task[t] EXCEPT !.pc = "g_save", !.obj = obj]) /\ UNCHANGED lock
    /\ UNCHANGED <<fs, doomed, work, seen>>

\* The inode is saved as it was read, for its access time.
EntriesSave(t) ==
    /\ At(t, "g_save") /\ Free(GroupOfInode(task[t].ino))
    /\ LET c == task[t]
           read == IF c.obj.size = 0 THEN "ok" ELSE ReadDir(t, c.obj)
       IN  CASE read = "hang" -> Hang(t) /\ UNCHANGED seen
             [] read = "empty" -> End(t) /\ UNCHANGED <<fs, seen>>
             [] read = "ok" ->
                  /\ fs' = SaveInode(c.ino, c.obj)
                  /\ End(t)
                  /\ Events(IF fs.table[c.ino] # c.obj THEN {"overwritten", "leak"} ELSE {})
    /\ UNCHANGED <<doomed, work>>

-----------------------------------------------------------------------------
Signal(t) ==
    /\ seen.signals > 0
    /\ ~At(t, "idle") /\ ~task[t].intr
    /\ Becomes(t, [task[t] EXCEPT !.intr = TRUE])
    /\ seen' = [seen EXCEPT !.signals = @ - 1]
    /\ UNCHANGED <<fs, lock, doomed, work>>

\* The machine stops, and mount reads what is on the drive: a superblock without its magic is refused.
Crash ==
    /\ seen.crashes > 0
    /\ \E t \in Tasks : ~At(t, "idle")
    /\ task' = [t \in Tasks |-> Idle]
    /\ lock' = [dir |-> None, vnodes |-> None, group |-> [g \in Groups |-> None]]
    /\ doomed' = [i \in Inodes |-> <<>>]
    /\ fs' = [fs EXCEPT !.up = IF fs.sbOk THEN "up" ELSE "unmountable"]
    /\ seen' = [seen EXCEPT !.crashes = @ - 1, !.events = @ \cup {"leak", "crash"}]
    /\ UNCHANGED work

Call(t) ==
    \/ Begin(t) \/ Find(t)
    \/ Check(t) \/ InitInode(t) \/ WriteEntry(t) \/ WriteEntry2(t)
    \/ Dots(t) \/ DotDot(t) \/ DotDot2(t) \/ SaveDir(t)
    \/ Reserve(t) \/ Scan(t) \/ Take(t) \/ CountTaken(t)
    \/ Walk(t) \/ Link(t) \/ WriteData(t)
    \/ Register(t) \/ WriteGet(t) \/ WriteNext(t) \/ WriteSave(t) \/ Close(t)
    \/ Unlink(t) \/ RemoveEntry(t)
    \/ FreeGet(t) \/ FreeMap(t) \/ FreeCount(t) \/ FreeClear(t) \/ FreeSuper(t)
    \/ FreeBlock(t) \/ FreeBlockCount(t) \/ FreeBlockSuper(t)
    \/ EntriesGet(t) \/ EntriesSave(t)
    \/ Signal(t)

\* Nothing is left to do: or a task hangs, or the kernel has stopped.
Rest ==
    /\ \/ fs.up # "up"
       \/ \A t \in Tasks : At(t, "idle") /\ work[t] = <<>>
       \/ \E t \in Tasks : At(t, "hung")
    /\ UNCHANGED ext2Vars

FsNext ==
    \/ fs.up = "up" /\ \E t \in Tasks : Call(t)
    \/ fs.up \in {"up", "panic"} /\ Crash
    \/ Rest

-----------------------------------------------------------------------------
InodeObjects == [type : {"none", "file", "dir"}, size : 0..Addressable, ptr : [0..(NPtr - 1) -> Blocks]]

\* The state of the driver.
FsTypeOK ==
    /\ \A kind \in {"block", "inode"} :
          /\ fs.sb[kind] \in Nat
          /\ \A g \in Groups : fs.count[kind][g] \in Nat
    /\ fs.map["block"] \subseteq Blocks /\ fs.map["inode"] \subseteq Inodes
    /\ \A i \in Inodes : fs.table[i] \in InodeObjects
    /\ \A t \in Tasks : task[t].dobj \in InodeObjects /\ task[t].obj \in InodeObjects

(***************************************************************************)
(* A block belongs to one inode, once, and is marked in the bitmap: at     *)
(* every moment, so that it also holds after a crash.                      *)
(***************************************************************************)
BlocksHaveOneOwner ==
    /\ \A i \in Inodes :
          /\ Cardinality(InodeBlocks(i)) = Len(BlockList(fs.table[i]))
          /\ InodeBlocks(i) \subseteq fs.map["block"] \ {0}
    /\ \A i, j \in Inodes : i # j => InodeBlocks(i) \cap InodeBlocks(j) = {}

\* Tasks at one of the places pcs, of an allocation of this kind
Within(pcs, kind) == {t \in Tasks : task[t].pc \in pcs /\ (kind = "any" \/ task[t].kind = kind)}

(***************************************************************************)
(* Without a crash the counts of free inodes and blocks are exact: that of *)
(* a group follows its bitmap, that of the superblock the groups, up to    *)
(* the calls that are under way; one is lost from the superblock with each *)
(* allocation that finds its group emptied by another.                     *)
(***************************************************************************)
CountsAreExact ==
    "crash" \notin seen.events =>
       \A kind \in {"block", "inode"} :
          LET sum[g \in 0..NGroups] == IF g = 0 THEN 0 ELSE sum[g - 1] + fs.count[kind][g - 1]
              freeing == Within(IF kind = "block" THEN {"fb_count"} ELSE {"f_count"}, "any")
              freed == Within(IF kind = "block" THEN {"fb_sb"} ELSE {"f_clear", "f_sb"}, "any")
          IN  /\ \A g \in Groups :
                    LET mine == IF Free(g) THEN {} ELSE {lock.group[g]}
                    IN  fs.count[kind][g] + Cardinality(freeing \cap mine)
                        = Cardinality(Of(kind, g) \ fs.map[kind])
                          + Cardinality(Within({"count"}, kind) \cap mine)
              /\ fs.sb[kind] + seen.lost[kind] + Cardinality(freed)
                 + Cardinality(Within({"scan", "take", "count"}, kind)) = sum[NGroups]

(***************************************************************************)
(* A block that is marked belongs to an inode or to a call under way:      *)
(* unless a crash, a write that saved nothing, a directory that grew, a    *)
(* directory that was saved over, or a write to an inode that was freed    *)
(* between its lookup and its open lost it.                                *)
(***************************************************************************)
NoBlockIsLost ==
    "leak" \notin seen.events =>
       fs.map["block"] \ {0} =
          (UNION {InodeBlocks(i) : i \in Inodes})
          \cup {b \in fs.map["block"] \ {0} : \E t \in Tasks :
                   \/ b = task[t].block /\ task[t].kind = "block"
                   \/ \E k \in DOMAIN task[t].free : task[t].free[k] = b
                   \/ \E k \in DOMAIN BlockList(task[t].obj) : BlockList(task[t].obj)[k] = b}

Dirs == {i \in Inodes : fs.table[i].type = "dir"}

(***************************************************************************)
(* A name stands once in a directory: unless two calls that make it both   *)
(* looked before either wrote, or one looked after a signal.               *)
(***************************************************************************)
NamesAreUnique ==
    seen.events \cap {"overlap", "blind"} = {} =>
       \A d \in Dirs : \A k, j \in DOMAIN Ents(fs.table[d]) :
          Ents(fs.table[d])[k].name = Ents(fs.table[d])[j].name => k = j

(***************************************************************************)
(* An entry names an inode that was initialised, also after a crash: and   *)
(* no two entries name one file, unless the inode was freed before, which  *)
(* leaves its name behind.  What a call cut short leaves is no entry.      *)
(***************************************************************************)
EntriesResolve ==
    \A d \in Dirs : \A k \in DOMAIN Ents(fs.table[d]) :
       LET e == Ents(fs.table[d])[k]
       IN  e \notin {Torn, Scrap} /\ e.ino \notin seen.gone =>
             /\ fs.table[e.ino].type # "none"
             /\ e.ino \in fs.map["inode"]
             /\ fs.table[e.ino].type = "file" =>
                   \A j \in DOMAIN Ents(fs.table[d]) : Ents(fs.table[d])[j].ino = e.ino => j = k

(***************************************************************************)
(* A name whose creation succeeded is found in its directory, if it had    *)
(* room: the entry of a full directory is on a block that nothing leads    *)
(* to.                                                                     *)
(***************************************************************************)
CreatedIsFound ==
    \A m \in seen.made :
       {m[1], m[3]} \cap seen.gone # {} \/ "overwritten" \in seen.events
       \/ (~m[4] <=> \E k \in DOMAIN Ents(fs.table[m[1]]) : Ents(fs.table[m[1]])[k] = Entry(m[3], m[2]))

(***************************************************************************)
(* A file has a name until it is unlinked: unless the name stood behind a  *)
(* full entry when another was made, found no room or was being made; or a *)
(* crash or a save of an older inode came between.                         *)
(***************************************************************************)
FilesHaveNames ==
    seen.events \cap {"crash", "overwritten"} = {} =>
       \A i \in fs.map["inode"] \ seen.covered :
          fs.table[i].type = "file" =>
             \/ \E d \in Dirs : \E k \in DOMAIN Ents(fs.table[d]) : Ents(fs.table[d])[k].ino = i
             \/ \E t \in Tasks : task[t].ino = i
             \/ \E m \in seen.made : m[3] = i /\ m[4]

(***************************************************************************)
(* A directory can be read: it has its entries and none of them is cut,    *)
(* unless a task is making it or writing it, which reads do not wait for;  *)
(* or a signal, a crash or a save of an older inode left it so.            *)
(***************************************************************************)
DirsAreReadable ==
    \A d \in Dirs :
       \/ fs.table[d].size > 0 /\ ~IsTorn(fs.table[d])
       \/ \E t \in Tasks : task[t].op = "mkdir" /\ task[t].ino = d
       \/ fs.table[d].size > 0 /\ \E t \in Tasks : At(t, "entry2") /\ task[t].dir = d
       \/ seen.events \cap {"torn", "crash", "overwritten"} # {}

(***************************************************************************)
(* Blocks have one owner, none is lost, and the counts follow the bitmaps. *)
(***************************************************************************)
BlocksAreKept ==
    /\ FsTypeOK
    /\ BlocksHaveOneOwner
    /\ NoBlockIsLost
    /\ CountsAreExact

(***************************************************************************)
(* A directory can be read, its names are unique and lead to inodes, what  *)
(* was created is found in it, and no file is without a name.              *)
(***************************************************************************)
DirectoriesAreSound ==
    /\ NamesAreUnique
    /\ EntriesResolve
    /\ CreatedIsFound
    /\ FilesHaveNames
    /\ DirsAreReadable
=============================================================================
