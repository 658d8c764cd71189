----------------------------- MODULE Ext2Layout -----------------------------
(***************************************************************************)
(* The layout algorithms of ext2.cpp: where block i of a file hangs, which *)
(* parts of which blocks read_file brings together, what write_file makes  *)
(* of the size, and where create_dir_entry puts an entry.                  *)
(*                                                                         *)
(* Offsets, sizes and name lengths are bytes.  Block number 0 is           *)
(* EXT2_INVALID_BLOCK, a hole.                                             *)
(***************************************************************************)
EXTENDS Integers, Sequences, FiniteSets

CONSTANTS
    NDir,       \* EXT2_NDIR_BLOCKS: direct pointers of an inode
    Ind         \* EXT2_IND_N_BLOCKS: pointers in a block

ASSUME LayoutAssumption == NDir \in Nat /\ Ind \in Nat \ {0}

-----------------------------------------------------------------------------
(* get_block_for_offset *)


(***************************************************************************)
(* The pointers that lead to block i: one of the inode, then one of each   *)
(* indirect block.  In the triply indirect part the second is a byte       *)
(* offset, and the third is divided like the second.                       *)
(***************************************************************************)
BlockPath(i) ==
    LET s == i - NDir
        d == s - Ind
        t == d - Ind * Ind
    IN  IF i < NDir THEN <<i>>
        ELSE IF s < Ind THEN <<NDir, s>>
        ELSE IF d < Ind * Ind THEN <<NDir + 1, d \div Ind, d % Ind>>
        ELSE <<NDir + 2, t \div (Ind * Ind), t \div (Ind * Ind), t % Ind>>

\* The blocks a file can have before the triply indirect ones
Addressable == NDir + Ind + Ind * Ind

(***************************************************************************)
(* Two blocks of a file never share their pointer, and every pointer lies  *)
(* in its block: before the triply indirect part.                          *)
(***************************************************************************)
PathsAreDistinct ==
    \A i, j \in 0..(Addressable - 1) :
       /\ \A k \in 2..Len(BlockPath(i)) : BlockPath(i)[k] \in 0..(Ind - 1)
       /\ BlockPath(i) = BlockPath(j) => i = j

-----------------------------------------------------------------------------
(* read_file: blocks of bs bytes, block B[j] at index j, 0 for a hole. *)

BlockAt(bs, B, size, offset) == IF offset >= size THEN 0 ELSE B[offset \div bs]

(***************************************************************************)
(* What read_file reads, as <<place in the buffer, block, offset in the    *)
(* block, length>>.  The loop over the whole blocks ends at the first one  *)
(* whose number is that of the last.                                       *)
(***************************************************************************)
ReadPieces(bs, B, size, offset, amount) ==
    LET At(o) == BlockAt(bs, B, size, o)
        end == offset + amount
        first == At(offset)
        last == At(end - (end % bs))
        first_amount == IF amount + (offset % bs) > bs THEN bs - (offset % bs) ELSE amount
        start == (offset + (bs - (offset % bs))) \div bs
        Full == {j \in start..((size \div bs) + 1) :
                    \A k \in start..j : At(k * bs) # last}
    IN  (IF first = 0 THEN {} ELSE {<<0, first, offset % bs, first_amount>>})
        \cup (IF first_amount = amount THEN {}
              ELSE {<<j * bs - offset, At(j * bs), 0, bs>> : j \in {k \in Full : At(k * bs) # 0}})
        \cup (IF last \in {first, 0} THEN {} ELSE {<<amount - (end % bs), last, 0, end % bs>>})

\* The byte at place x of the buffer, as <<block, offset in the block>>
BytesAt(pieces, x) ==
    {<<p[2], p[3] + (x - p[1])>> : p \in {q \in pieces : q[1] <= x /\ x < q[1] + q[4]}}

(***************************************************************************)
(* A read puts at every place of the buffer the byte of the file that      *)
(* belongs there, or nothing, never past the buffer; and in a file without *)
(* holes it leaves no place out.  Files of up to 3 blocks, any range but   *)
(* the empty one at the end of a file that ends inside a block: the bytes  *)
(* of that block are then put before the buffer.                           *)
(***************************************************************************)
ReadsTheRightBytes(bs) ==
    \A size \in 0..(3 * bs) : \A B \in [0..2 -> {0, 1}] :
    \A offset \in 0..size : \A amount \in 0..(size - offset) :
       LET File == [j \in 0..2 |-> IF B[j] = 0 THEN 0 ELSE 10 + j]
           pieces == ReadPieces(bs, File, size, offset, amount)
       IN  (amount # 0 \/ offset # size \/ size % bs = 0) =>
           /\ \A p \in pieces : p[1] >= 0 /\ p[1] + p[4] <= amount
           /\ \A x \in 0..(amount - 1) :
                 LET o == offset + x
                 IN  /\ BytesAt(pieces, x) \subseteq {<<File[o \div bs], o % bs>>}
                     /\ (\A j \in 0..2 : B[j] = 1) => BytesAt(pieces, x) # {}

-----------------------------------------------------------------------------
(* write_file: the size after done of n bytes were written; W is the word. *)

SizeAfterWrite(W, size, offset, n, done) ==
    LET change == (n - (size - offset)) % W
    IN  IF done = 0 THEN size ELSE (size + (change - (n - done))) % W

(***************************************************************************)
(* A file grows to the end of a write that reaches its end, all of it or a *)
(* part was written.  A write that stops before the end is left out: the   *)
(* unsigned arithmetic then wraps around and cuts the rest of the file.    *)
(***************************************************************************)
WriteGrowsFile(W) ==
    \A size, offset \in 0..(W \div 2 - 1), n \in 1..(W \div 2 - 1) : \A done \in 1..n :
       offset + done >= size => SizeAfterWrite(W, size, offset, n, done) = offset + done

-----------------------------------------------------------------------------
(* create_dir_entry: a directory is a sequence of entries [ino, name, len, size]. *)

Header == 8                         \* sizeof(ext2_dir_entry)
Pad(x) == 4 - (x % 4)
Uint16 == 65536

\* The offset of entry k
EntryOffset(dir, k) ==
    LET at[j \in 0..Len(dir)] == IF j = 0 THEN 0 ELSE at[j - 1] + dir[j].size
    IN  at[k - 1]

Slack(dir, k) ==
    LET e == dir[k]
    IN  e.size - e.len - Header - Pad(EntryOffset(dir, k) + e.len + Header)

PlaceAfter(dir, k) ==
    LET x == EntryOffset(dir, k) + dir[k].len + Header IN x + Pad(x)

\* There is room behind entry k: the slack is unsigned, so that a negative one is plenty.
HasRoom(bs, dir, k, len) ==
    /\ Slack(dir, k) < 0 \/ Slack(dir, k) >= Header + len
    /\ PlaceAfter(dir, k) \div bs = (PlaceAfter(dir, k) + Header + len) \div bs

Slots(bs, dir, len) == {k \in DOMAIN dir : HasRoom(bs, dir, k, len)}

FirstSlot(bs, dir, len) ==
    CHOOSE k \in Slots(bs, dir, len) : \A j \in Slots(bs, dir, len) : k <= j

\* The new entry takes the rest of the first entry that has room.
SplitEntry(bs, dir, new) ==
    LET k == FirstSlot(bs, dir, new.len)
        kept == PlaceAfter(dir, k) - EntryOffset(dir, k)
    IN  SubSeq(dir, 1, k - 1)
        \o << [dir[k] EXCEPT !.size = kept],
              [new EXCEPT !.size = (dir[k].size - kept) % Uint16] >>
        \o SubSeq(dir, k + 1, Len(dir))

\* No entry has room: the new one takes a block of its own.
AppendEntry(bs, dir, new) == Append(dir, [new EXCEPT !.size = bs])

InsertEntry(bs, dir, new) ==
    IF Slots(bs, dir, new.len) = {} THEN AppendEntry(bs, dir, new) ELSE SplitEntry(bs, dir, new)

\* The entries follow each other without overlap and fill their blocks.
Tiles(bs, dir) ==
    /\ \A k \in DOMAIN dir : dir[k].len + Header <= dir[k].size
    /\ \A k \in DOMAIN dir : (EntryOffset(dir, k) % bs) + dir[k].size <= bs
    /\ EntryOffset(dir, Len(dir) + 1) % bs = 0

\* The entries as mke2fs writes them: as short as the alignment allows, the last one to the end.
Packed(bs, lens) ==
    LET Least(k) == lens[k] + Header + ((4 - ((lens[k] + Header) % 4)) % 4)
        used[k \in 0..Len(lens)] == IF k = 0 THEN 0 ELSE used[k - 1] + Least(k)
    IN  [k \in 1..Len(lens) |->
            [ino |-> k, name |-> k, len |-> lens[k],
             size |-> IF k = Len(lens) THEN bs - used[k - 1] ELSE Least(k)]]

\* The entries that the loop of read_dir comes to: the last is the first that reaches the end.
Reached(size, dir) ==
    {k \in DOMAIN dir : \A j \in 1..(k - 1) : EntryOffset(dir, j) + dir[j].size < size}

(***************************************************************************)
(* A new entry is found, with all those that were there, and the directory *)
(* stays a tiling: if no entry before the last is full to the last byte,   *)
(* as mke2fs leaves one whose name has a multiple of 4 characters.  The    *)
(* new entry is written behind the first full one, over the next; those up *)
(* to the full one are kept then too.                                      *)
(***************************************************************************)
InsertKeepsEntries(bs, lens) ==
    \A a, b, c \in lens : \A new \in lens :
       LET dir == Packed(bs, <<a, b, c>>)
           result == InsertEntry(bs, dir, [ino |-> 9, name |-> 9, len |-> new, size |-> 0])
           full == {k \in 1..2 : Slack(dir, k) < 0}
           size == IF Slots(bs, dir, new) = {} THEN 2 * bs ELSE bs
           names == {result[k].name : k \in Reached(size, result)}
       IN  Tiles(bs, dir) =>
             /\ {k \in 1..3 : \A j \in full : k <= j} \cup {9} \subseteq names
             /\ full = {} => Tiles(bs, result)
=============================================================================
