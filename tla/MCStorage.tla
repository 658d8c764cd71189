----------------------------- MODULE MCStorage -----------------------------
(***************************************************************************)
(* The storage modules on a small drive: module Ext2 from three images,    *)
(* with scripts of one and two calls, or module Slice with two users.      *)
(***************************************************************************)
EXTENDS Ext2, Slice

VARIABLE part        \* which of the two parts runs

\* Root directory on block 1, with these entries for files
MCImage(files) ==
    LET blocks == {0, 1}
        inodes == {1} \cup {files[k].ino : k \in DOMAIN files}
        count == [block |-> [g \in Groups |-> Cardinality(BlocksOf(g) \ blocks)],
                  inode |-> [g \in Groups |-> Cardinality(InodesOf(g) \ inodes)]]
    IN  [sb |-> [block |-> Cardinality(Blocks \ blocks), inode |-> Cardinality(Inodes \ inodes)],
         count |-> count,
         map |-> [block |-> blocks, inode |-> inodes],
         table |-> [i \in Inodes |->
                      IF i = Root THEN [BlankInode EXCEPT !.type = "dir", !.size = 1, !.ptr[0] = 1]
                      ELSE IF i \in inodes THEN NewInode("file") ELSE BlankInode],
         data |-> [b \in Blocks |->
                      IF b # 1 THEN <<>>
                      ELSE <<Entry(1, "."), Entry(1, "..")>> \o files],
         sbOk |-> TRUE, up |-> "up"]

C(op, at, name) == [op |-> op, at |-> at, name |-> name, index |-> 0, count |-> 1]
W(name, index, count) == [C("write", "/", name) EXCEPT !.index = index, !.count = count]

DirOps == {C("create", "/", "a"), C("mkdir", "/", "d"), C("create", "d", "x"), C("readdir", "/", "d")}
FileOps == {C("unlink", "/", "f"), W("f", 0, 2), W("f", 3, 1)}
Ops == DirOps \cup FileOps

First == CHOOSE t \in Tasks : TRUE

\* No file; the file f; a full entry before it
Empty == <<>>
OneFile == <<Entry(2, "f")>>
FullFirst == <<FullEntry(3, "g"), Entry(2, "f")>>

Script(files, x, y, signals, crashes) ==
    [drive |-> MCImage(files), calls |-> [t \in Tasks |-> IF t = First THEN x ELSE y],
     signals |-> signals, crashes |-> crashes]

\* Two calls and a fault, or one call against two, or none
MCScripts ==
    {Script(OneFile, <<x>>, <<y>>, 1, 0) : x \in Ops, y \in Ops \cup {C("unlink", "d", "x")}}
    \cup {Script(OneFile, <<x>>, <<y>>, 0, 1) : x, y \in Ops}
    \cup {Script(OneFile, <<x>>, <<y, z>>, 0, 0) : x, y, z \in Ops}
    \cup {Script(Empty, <<x>>, <<y, z>>, 0, 0) : x, y, z \in DirOps}
    \cup {Script(FullFirst, <<C("create", "/", "a")>>, <<y>>, 1, 0) : y \in Ops}
    \cup {Script(FullFirst, <<C("create", "/", "a")>>, <<y>>, 0, 1) : y \in Ops}
    \cup {Script(Empty, <<>>, <<>>, 0, 0)}

MCRanges == (0..3) \X (1..4)

MCInit ==
    /\ FsInit /\ SliceInit
    /\ part = IF \A t \in Tasks : work[t] = <<>> THEN "slice" ELSE "fs"

MCNext ==
    /\ UNCHANGED part
    /\ \/ part = "fs" /\ FsNext /\ UNCHANGED sliceVars
       \/ part = "slice" /\ SliceNext /\ UNCHANGED ext2Vars
       \/ part = "slice" /\ Rest /\ UNCHANGED sliceVars

MCSpec == MCInit /\ [][MCNext]_<<ext2Vars, sliceVars, part>>

-----------------------------------------------------------------------------
\* read_file brings together the right bytes, with blocks of 3 bytes.
ReadsRight == ReadsTheRightBytes(3)

\* write_file makes the file as long as what was appended, with words of 6 bits.
WriteGrows == WriteGrowsFile(64)

\* create_dir_entry keeps the entries of a block of 60 bytes, with names of up to 5 characters.
InsertKeeps == InsertKeepsEntries(60, 1..5)

=============================================================================
