------------------------------- MODULE Slice -------------------------------
(***************************************************************************)
(* drive_slice over the ATA driver: reads and writes of any range of bytes *)
(* made of accesses to whole sectors.  One access holds the mutex of the   *)
(* driver; a write that does not cover its first or last sector reads it   *)
(* in an access of its own before it writes.  An access can fail, or be    *)
(* cut short by a signal if it is interruptible.                           *)
(*                                                                         *)
(* Byte c of the slice holds c to begin with; a write stores Data(c).      *)
(***************************************************************************)
EXTENDS Integers, FiniteSets

CONSTANTS
    Users,          \* tasks that use the slice
    S,              \* ATA_SECTOR_SIZE
    Sectors,        \* bound: the number of sectors
    MaxAccess,      \* MAX_ATA_SECTOR_ACCESS
    Ranges,         \* bound: the ranges <<address, amount>> of the calls, inside of the slice
    Faults          \* bound: accesses that fail or are interrupted, buffers that find no memory

ASSUME SliceAssumption ==
    /\ S \in Nat \ {0} /\ MaxAccess \in Nat \ {0} /\ Sectors \in Nat /\ Faults \in Nat
    /\ Ranges \subseteq {r \in Nat \X (Nat \ {0}) : r[1] + r[2] <= Sectors * S}

VARIABLES
    drive,      \* the bytes of the slice
    io,         \* the call of each task
    faults,     \* accesses that may still go wrong
    met         \* history: two writes were under way in one sector

sliceVars == <<drive, io, faults, met>>

Cells == 0..(Sectors * S - 1)
Data(c) == 1000 + c
Garbage == -1           \* the contents of memory from kmalloc

-----------------------------------------------------------------------------

\* The number of sectors that read and write access, in a uint16_t.
SectorCount(s, address, amount) ==
    ((amount + s - 1) \div s)
    + (IF address % s # 0 /\ (address + amount) \div s # address \div s THEN 1 ELSE 0)

\* The callers pass a block, a bitmap or a table of descriptors: the count fits in 16 bits.
ASSUME CountAssumption == \A r \in Ranges : SectorCount(S, r[1], r[2]) < 65536

\* The number of sectors the range lies in
Spanned(s, address, amount) == ((address + amount + s - 1) \div s) - (address \div s)

\* The count is one too many when start and end are inside sectors and the parts fit in one.
Overshoots(s, address, amount) ==
    /\ address % s # 0 /\ amount % s # 0
    /\ (address % s) + (amount % s) <= s
    /\ (address + amount) \div s # address \div s

\* The last sector is read before it is written in part, from a number that counts the start twice.
ReadsLast(s, address, amount) ==
    (address + amount) % s # 0 /\ SectorCount(s, address, amount) > 1

WrongTail(s, address, amount) == ReadsLast(s, address, amount) /\ address \div s # 0

Exact(address, amount) == ~Overshoots(S, address, amount) /\ ~WrongTail(S, address, amount)

-----------------------------------------------------------------------------
NoCall == [pc |-> "idle"]

SliceInit ==
    /\ drive = [c \in Cells |-> c]
    /\ io = [t \in Users |-> NoCall]
    /\ faults = Faults
    /\ met = FALSE

\* The byte of sector `lba` at place x; beyond the bound the drive has bytes of its own.
SectorByte(lba, x) == IF lba * S + x \in Cells THEN drive[lba * S + x] ELSE Garbage

Extent(t) == io[t].address..(io[t].address + io[t].amount - 1)
FirstSector(t) == io[t].address \div S
Count(t) == SectorCount(S, io[t].address, io[t].amount)
SectorsOf(t) == FirstSector(t)..(FirstSector(t) + Count(t) - 1)

\* Something that goes wrong: an access, or kmalloc
Fault == faults > 0 /\ faults' = faults - 1

NewCall(op, range, pc) ==
    [op |-> op, address |-> range[1], amount |-> range[2], done |-> 0, ret |-> 0, pc |-> pc,
     buf |-> [x \in 0..(SectorCount(S, range[1], range[2]) * S - 1) |-> Garbage]]

\* A call without memory for its buffer returns 0.
StartCall(t, op, range) ==
    /\ io[t] = NoCall
    /\ \/ /\ io' = [io EXCEPT ![t] = NewCall(op, range, IF op = "write" THEN "first" ELSE "access")]
          /\ UNCHANGED faults
       \/ /\ Fault
          /\ io' = [io EXCEPT ![t] = NewCall(op, range, "returned")]
    /\ UNCHANGED <<drive, met>>

\* Mutant of NeedsFirst: a write inside one sector does not read it.
NeedsFirstUnaligned(t) == io[t].address % S # 0

NeedsFirst(t) == io[t].address % S # 0 \/ Count(t) = 1

\* The first sector is read, when the start is inside it or it is the only one.
ReadFirst(t) ==
    /\ io[t].pc = "first"
    /\ \/ /\ io' = [io EXCEPT ![t].pc = "last",
                              ![t].buf = [x \in DOMAIN @ |->
                                 IF NeedsFirst(t) /\ x < S THEN SectorByte(FirstSector(t), x) ELSE @[x]]]
          /\ UNCHANGED faults
       \/ /\ NeedsFirst(t) /\ Fault
          /\ io' = [io EXCEPT ![t].pc = "returned"]
    /\ UNCHANGED <<drive, met>>

\* The last sector is read, when the end is inside it; then the data is copied over.
ReadLast(t) ==
    /\ io[t].pc = "last"
    /\ LET lba == FirstSector(t) + ((io[t].address + io[t].amount) \div S)
           at == (Count(t) - 1) * S
           tail == ReadsLast(S, io[t].address, io[t].amount)
           first == FirstSector(t) * S
       IN  \/ /\ io' = [io EXCEPT ![t].pc = "access",
                                  ![t].buf = [x \in DOMAIN @ |->
                                     IF first + x \in Extent(t) THEN Data(first + x)
                                     ELSE IF tail /\ x >= at THEN SectorByte(lba, x - at) ELSE @[x]]]
              /\ UNCHANGED faults
           \/ /\ tail /\ Fault
              /\ io' = [io EXCEPT ![t].pc = "returned"]
    /\ UNCHANGED <<drive, met>>

\* What a call returns after k sectors: the difference is unsigned, min(amount, ...) is not.
Returned(address, amount, k) ==
    LET bytes == (k * S) - (address % S)
    IN  IF bytes < 0 \/ bytes > amount THEN amount ELSE bytes

\* Another write is under way in a sector of this one.
Shares(t) ==
    \E u \in Users \ {t} : /\ io[u].pc \in {"first", "last", "access"}
                           /\ io[u].op = "write" /\ io[t].op = "write"
                           /\ SectorsOf(u) \cap SectorsOf(t) # {}

(***************************************************************************)
(* One access of at most MaxAccess sectors: access_drive_sectors transfers *)
(* them all; or it stops at an error, which counts as none, or at a        *)
(* signal, and the call ends.                                              *)
(***************************************************************************)
Access(t) ==
    /\ io[t].pc = "access"
    /\ met' = (met \/ Shares(t))
    /\ LET done == io[t].done
           rest == Count(t) - done
           n == IF rest > MaxAccess THEN MaxAccess ELSE rest
           first == FirstSector(t) * S
           Moved(x, k) == done * S <= x /\ x < (done + k) * S
           Transfer(k) ==
               IF io[t].op = "write"
               THEN drive' = [c \in Cells |->
                                 IF Moved(c - first, k) THEN io[t].buf[c - first] ELSE drive[c]]
               ELSE UNCHANGED drive
           Buffer(k) ==
               [x \in DOMAIN io[t].buf |->
                   IF io[t].op = "read" /\ Moved(x, k) THEN SectorByte(FirstSector(t), x) ELSE io[t].buf[x]]
           Return(k) == Returned(io[t].address, io[t].amount, k)
       IN  \/ /\ Transfer(n)
              /\ io' = [io EXCEPT ![t].done = @ + n, ![t].buf = Buffer(n),
                                  ![t].pc = IF n = rest THEN "returned" ELSE "access",
                                  ![t].ret = IF n = rest THEN Return(done + n) ELSE 0]
              /\ UNCHANGED faults
           \/ /\ Fault
              /\ \E k \in 0..n :
                    /\ Transfer(k)
                    /\ io' = [io EXCEPT ![t].buf = Buffer(k), ![t].pc = "returned",
                                        ![t].ret = Return(done)]

SliceNext ==
    \E t \in Users :
       \/ \E range \in Ranges, op \in {"read", "write"} : StartCall(t, op, range)
       \/ ReadFirst(t)
       \/ ReadLast(t)
       \/ Access(t)

SliceSpec == SliceInit /\ [][SliceNext]_sliceVars

-----------------------------------------------------------------------------
(***************************************************************************)
(* The sectors that a call accesses are those its range lies in, and one   *)
(* more exactly when Overshoots says so.                                   *)
(***************************************************************************)
SectorCountIsExact ==
    \A address \in 0..(4 * S), amount \in 1..(4 * S) :
       SectorCount(S, address, amount) =
          Spanned(S, address, amount) + (IF Overshoots(S, address, amount) THEN 1 ELSE 0)

Writers == {t \in Users : io[t].pc # "idle" /\ io[t].op = "write"}

\* No write overshot its range or took the wrong last sector, and no two overlapped.
Orderly == ~met /\ \A t \in Writers : Exact(io[t].address, io[t].amount)

(***************************************************************************)
(* A write leaves the bytes outside its range alone: if its count is exact *)
(* and its last sector is read from the right place, and no other write    *)
(* was under way in its sectors between its reads and its accesses.        *)
(***************************************************************************)
WritesStayInRange ==
    Orderly =>
       \A c \in Cells : drive[c] = c \/ \E t \in Writers : c \in Extent(t) /\ drive[c] = Data(c)

(***************************************************************************)
(* The bytes that a call reports were transferred: unless it starts inside *)
(* a sector and its first access failed, when it reports all of them.      *)
(***************************************************************************)
ReportedIsTransferred ==
    \A t \in Users :
       io[t].pc = "returned" /\ Orderly /\ ~(io[t].done = 0 /\ io[t].address % S # 0) =>
          \A c \in io[t].address..(io[t].address + io[t].ret - 1) :
             IF io[t].op = "read" THEN io[t].buf[c - FirstSector(t) * S] \in {c, Data(c)}
             ELSE drive[c] = Data(c)

(***************************************************************************)
(* drive_slice turns a range of bytes into accesses that touch its         *)
(* sectors, change its bytes only, and are reported as they went.          *)
(***************************************************************************)
AccessesAreExact ==
    /\ SectorCountIsExact
    /\ WritesStayInRange
    /\ ReportedIsTransferred
=============================================================================
