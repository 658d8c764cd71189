----------------------------- MODULE SliceProofs ----------------------------
(***************************************************************************)
(* Proofs about Slice, for any users, sector size, ranges and faults.      *)
(***************************************************************************)
EXTENDS Slice, TLAPS

CallOf(a, n) ==
    [op : {"read", "write"}, address : {a}, amount : {n}, done : 0..SectorCount(S, a, n), ret : Nat,
     pc : {"first", "last", "access", "returned"}, buf : [0..(SectorCount(S, a, n) * S - 1) -> Int]]

Calls == {NoCall} \cup UNION {CallOf(r[1], r[2]) : r \in Ranges}

Types ==
    /\ drive \in [Cells -> Int]
    /\ io \in [Users -> Calls]
    /\ faults \in Nat
    /\ met \in BOOLEAN

\* The byte of the slice at which the buffer of a call begins, and the number of bytes in it
PlaceOf(v) == (v.address \div S) * S
SizeOf(v) == SectorCount(S, v.address, v.amount) * S

Place(t) == FirstSector(t) * S

\* Only a write reads sectors before its first access, and only the end of a call sets its result.
PcFits ==
    \A t \in Users : /\ io[t].pc \in {"first", "last"} => io[t].op = "write" /\ io[t].done = 0
                     /\ io[t].pc \in {"first", "last", "access"} => io[t].ret = 0

\* The first sector is in the buffer as it is on the drive.
FirstIsRead(t) ==
    io[t].pc = "last" /\ NeedsFirst(t) => \A x \in 0..(S - 1) : io[t].buf[x] = drive[Place(t) + x]

\* The buffer holds the data, and around it what is on the drive.
Prepared(t) ==
    io[t].pc = "access" =>
       \A x \in DOMAIN io[t].buf :
          io[t].buf[x] = IF Place(t) + x \in Extent(t) THEN Data(Place(t) + x) ELSE drive[Place(t) + x]

\* The sectors that are done have their data.
Written(t) == \A c \in Extent(t) : c < Place(t) + io[t].done * S => drive[c] = Data(c)

\* The sectors that a read has done are in its buffer.
Loaded(t) ==
    \A x \in DOMAIN io[t].buf :
       x < io[t].done * S /\ Place(t) + x \in Cells => io[t].buf[x] \in {Place(t) + x, Data(Place(t) + x)}

\* A call reports no more than it has done.
Told(t) ==
    io[t].pc = "returned" /\ ~(io[t].done = 0 /\ io[t].address % S # 0) =>
       /\ io[t].ret <= io[t].amount
       /\ io[t].ret = 0 \/ (io[t].address % S) + io[t].ret <= io[t].done * S

BuffersAreRight ==
    Orderly => /\ \A t \in Writers : FirstIsRead(t) /\ Prepared(t) /\ Written(t)
               /\ \A t \in Users : io[t].pc # "idle" /\ io[t].op = "read" => Loaded(t)

ReportsAreRight == \A t \in Users : Told(t)

IInv == Types /\ PcFits /\ WritesStayInRange /\ BuffersAreRight /\ ReportsAreRight

-----------------------------------------------------------------------------
(* Sectors and bytes *)

(* Quotient and remainder *)
LEMMA Divided ==
    ASSUME NEW s \in Nat \ {0}, NEW a \in Nat
    PROVE  a \div s \in Nat /\ a % s \in 0..(s - 1) /\ a = (a \div s) * s + (a % s)
OBVIOUS

(* They are determined by their number. *)
LEMMA DividedUnique ==
    ASSUME NEW s \in Nat \ {0}, NEW q \in Nat, NEW r \in 0..(s - 1)
    PROVE  (q * s + r) \div s = q /\ (q * s + r) % s = r
BY SMTT(60)

(* A larger number of sectors is larger by a sector at least. *)
LEMMA SectorsGrow ==
    ASSUME NEW s \in Nat \ {0}, NEW a \in Int, NEW b \in Int, a < b
    PROVE  a * s + s <= b * s
<1>1. b - a - 1 \in Nat
    OBVIOUS
<1>2. (b - a - 1) * s >= 0
    BY <1>1
<1>3. (b - a - 1) * s = b * s - a * s - s
    OBVIOUS
<1>4. a * s \in Int /\ b * s \in Int
    OBVIOUS
<1> QED BY <1>2, <1>3, <1>4

(***************************************************************************)
(* SectorCount is the number of sectors of a range, or one more: for every *)
(* range and every size of a sector.                                       *)
(***************************************************************************)
LEMMA CountIsSpan ==
    ASSUME NEW s \in Nat \ {0}, NEW address \in Nat, NEW amount \in Nat \ {0}
    PROVE  /\ SectorCount(s, address, amount) =
                 Spanned(s, address, amount) + (IF Overshoots(s, address, amount) THEN 1 ELSE 0)
           /\ Spanned(s, address, amount) \in Nat \ {0}
<1> DEFINE q == address \div s
           r == address % s
           m == amount \div s
           k == amount % s
<1>1. q \in Nat /\ r \in 0..(s - 1) /\ address = q * s + r
    BY Zenon, Divided
<1>2. m \in Nat /\ k \in 0..(s - 1) /\ amount = m * s + k
    BY Zenon, Divided
<1> HIDE DEF q, r, m, k
<1>3. \A p \in Nat, x \in 0..(s - 1) : (p * s + x) \div s = p
    BY DividedUnique
<1>4. (m + 1) * s = m * s + s /\ (q + m) * s = q * s + m * s /\ (q + m + 1) * s = q * s + m * s + s
      /\ (q + m + 2) * s = q * s + m * s + s + s /\ q * s \in Nat /\ m * s \in Nat
    BY <1>1, <1>2
<1>5. (amount + s - 1) \div s = IF k = 0 THEN m ELSE m + 1
  <2>1. CASE k = 0
    <3>1. amount + s - 1 = m * s + (s - 1) /\ s - 1 \in 0..(s - 1)
        BY <1>2, <1>4, <2>1
    <3> QED BY <3>1, <1>2, <1>3, <2>1
  <2>2. CASE k # 0
    <3>1. amount + s - 1 = (m + 1) * s + (k - 1) /\ k - 1 \in 0..(s - 1) /\ m + 1 \in Nat
        BY <1>2, <1>4, <2>2
    <3> QED BY <3>1, <1>3, <2>2
  <2> QED BY <2>1, <2>2
<1>6. (address + amount) \div s = IF r + k < s THEN q + m ELSE q + m + 1
  <2>1. CASE r + k < s
    <3>1. address + amount = (q + m) * s + (r + k) /\ r + k \in 0..(s - 1) /\ q + m \in Nat
        BY <1>1, <1>2, <1>4, <2>1
    <3> QED BY <3>1, <1>3, <2>1
  <2>2. CASE ~(r + k < s)
    <3>1. address + amount = (q + m + 1) * s + (r + k - s) /\ r + k - s \in 0..(s - 1) /\ q + m + 1 \in Nat
        BY <1>1, <1>2, <1>4, <2>2
    <3> QED BY <3>1, <1>3, <2>2
  <2> QED BY <2>1, <2>2
<1>7. (address + amount + s - 1) \div s =
         IF r + k = 0 THEN q + m ELSE IF r + k <= s THEN q + m + 1 ELSE q + m + 2
  <2>1. CASE r + k = 0
    <3>1. address + amount + s - 1 = (q + m) * s + (s - 1) /\ s - 1 \in 0..(s - 1) /\ q + m \in Nat
        BY <1>1, <1>2, <1>4, <2>1
    <3> QED BY <3>1, <1>3, <2>1
  <2>2. CASE r + k # 0 /\ r + k <= s
    <3>1. address + amount + s - 1 = (q + m + 1) * s + (r + k - 1) /\ r + k - 1 \in 0..(s - 1) /\ q + m + 1 \in Nat
        BY <1>1, <1>2, <1>4, <2>2
    <3> QED BY <3>1, <1>3, <2>2
  <2>3. CASE r + k > s
    <3>1. address + amount + s - 1 = (q + m + 2) * s + (r + k - s - 1) /\ r + k - s - 1 \in 0..(s - 1) /\ q + m + 2 \in Nat
        BY <1>1, <1>2, <1>4, <2>3
    <3> QED BY <3>1, <1>1, <1>2, <1>3, <2>3
  <2> QED BY <1>1, <1>2, <2>1, <2>2, <2>3
<1>8. m = 0 => k # 0
    BY <1>2
<1>9. SectorCount(s, address, amount) =
         (IF k = 0 THEN m ELSE m + 1)
         + (IF r # 0 /\ (IF r + k < s THEN q + m ELSE q + m + 1) # q THEN 1 ELSE 0)
    BY <1>5, <1>6 DEF SectorCount, q, r
<1>10. Spanned(s, address, amount) = (IF r + k = 0 THEN q + m ELSE IF r + k <= s THEN q + m + 1 ELSE q + m + 2) - q
    BY <1>7 DEF Spanned, q
<1>11. Overshoots(s, address, amount) <=>
          r # 0 /\ k # 0 /\ r + k <= s /\ (IF r + k < s THEN q + m ELSE q + m + 1) # q
    BY <1>6 DEF Overshoots, q, r, k
<1> QED BY <1>1, <1>2, <1>8, <1>9, <1>10, <1>11

(***************************************************************************)
(* The sectors of a call hold its range, and when they are not too many,   *)
(* end with the sector in which the range ends.                            *)
(***************************************************************************)
LEMMA SectorsCover ==
    ASSUME NEW a \in Nat, NEW n \in Nat \ {0}
    PROVE  LET first == a \div S
               count == SectorCount(S, a, n)
           IN  /\ first \in Nat /\ count \in Nat \ {0}
               /\ first * S \in Nat /\ count * S \in Nat /\ (first + count) * S = first * S + count * S
               /\ a % S \in 0..(S - 1) /\ a = first * S + (a % S)
               /\ a + n <= first * S + count * S
               /\ ~Overshoots(S, a, n) => first * S + count * S < a + n + S
<1> DEFINE f == a \div S
           c == SectorCount(S, a, n)
           e == (a + n + S - 1) \div S
<1>1. S \in Nat \ {0}
    BY SliceAssumption
<1>2. f \in Nat /\ a % S \in 0..(S - 1) /\ a = f * S + (a % S)
    BY Zenon, <1>1, Divided
<1>3. e \in Nat /\ (a + n + S - 1) % S \in 0..(S - 1) /\ a + n + S - 1 = e * S + ((a + n + S - 1) % S)
  <2>1. a + n + S - 1 \in Nat
      BY <1>1
  <2> QED BY Zenon, <1>1, <2>1, Divided
<1>4. c = e - f + (IF Overshoots(S, a, n) THEN 1 ELSE 0) /\ e - f \in Nat \ {0}
    BY Zenon, <1>1, CountIsSpan DEF Spanned
<1> HIDE DEF f, c, e
<1>5. f * S \in Nat /\ c * S \in Nat /\ (f + c) * S = f * S + c * S /\ e * S \in Nat
    BY <1>1, <1>2, <1>3, <1>4
<1>6. CASE Overshoots(S, a, n)
  <2>1. f + c = e + 1
      BY <1>2, <1>3, <1>4, <1>6
  <2>2. (e + 1) * S = e * S + S
      BY <1>1, <1>3
  <2> QED BY <1>1, <1>2, <1>3, <1>4, <1>5, <1>6, <2>1, <2>2 DEF f, c
<1>7. CASE ~Overshoots(S, a, n)
  <2>1. f + c = e
      BY <1>2, <1>3, <1>4, <1>7
  <2> QED BY <1>1, <1>2, <1>3, <1>4, <1>5, <1>7, <2>1 DEF f, c
<1> QED BY <1>6, <1>7

-----------------------------------------------------------------------------
(* The buffer of a call *)

\* A call has its fields, and its sectors hold its range, which lies in the slice.
PlacedCall(v) ==
    /\ v \in CallOf(v.address, v.amount) /\ <<v.address, v.amount>> \in Ranges
    /\ v.address \in Nat /\ v.amount \in Nat \ {0} /\ v.address + v.amount <= Sectors * S
    /\ v.address \div S \in Nat /\ SectorCount(S, v.address, v.amount) \in Nat \ {0}
    /\ PlaceOf(v) \in Nat /\ SizeOf(v) \in Nat
    /\ v.done \in 0..SectorCount(S, v.address, v.amount) /\ v.ret \in Nat
    /\ v.buf \in [0..(SizeOf(v) - 1) -> Int]
    /\ v.address % S \in 0..(S - 1) /\ v.address = PlaceOf(v) + (v.address % S)
    /\ v.address + v.amount <= PlaceOf(v) + SizeOf(v)

\* The sectors of an exact write end with its range, and lie in the slice.
FittingCall(v) ==
    /\ PlaceOf(v) + SizeOf(v) < v.address + v.amount + S
    /\ PlaceOf(v) + SizeOf(v) <= Sectors * S

(* A call is placed, and fits if its count is exact. *)
LEMMA CallIsPlaced ==
    ASSUME NEW v \in Calls, v.pc # "idle"
    PROVE  /\ PlacedCall(v)
           /\ ~Overshoots(S, v.address, v.amount) => FittingCall(v)
<1>1. PICK r \in Ranges : v \in CallOf(r[1], r[2])
  <2>1. v # NoCall
      BY DEF NoCall
  <2> QED BY Zenon, <2>1 DEF Calls
<1> DEFINE a == r[1]
           n == r[2]
           first == a \div S
           count == SectorCount(S, a, n)
<1>2. a \in Nat /\ n \in Nat \ {0} /\ a + n <= Sectors * S /\ r = <<a, n>>
    BY SliceAssumption
<1>3. v.address = a /\ v.amount = n
    BY Zenon, <1>1 DEF CallOf
<1>4. v \in CallOf(v.address, v.amount) /\ <<v.address, v.amount>> \in Ranges
    BY Zenon, <1>1, <1>2, <1>3
<1>5. v.address \div S = first /\ SectorCount(S, v.address, v.amount) = count
      /\ PlaceOf(v) = first * S /\ SizeOf(v) = count * S
    BY Zenon, <1>3 DEF PlaceOf, SizeOf
<1>6. v.done \in 0..count /\ v.ret \in Nat /\ v.buf \in [0..(count * S - 1) -> Int]
    BY Zenon, <1>3, <1>4, <1>5 DEF CallOf
<1>7. /\ first \in Nat /\ count \in Nat \ {0} /\ first * S \in Nat /\ count * S \in Nat
      /\ (first + count) * S = first * S + count * S
      /\ a % S \in 0..(S - 1) /\ a = first * S + (a % S)
      /\ a + n <= first * S + count * S
      /\ ~Overshoots(S, a, n) => first * S + count * S < a + n + S
  <2> HIDE DEF a, n
  <2> QED BY Zenon, <1>2, SectorsCover
<1> HIDE DEF a, n, first, count
<1>8. PlacedCall(v)
    BY Zenon, <1>2, <1>3, <1>4, <1>5, <1>6, <1>7 DEF PlacedCall
<1>9. ASSUME ~Overshoots(S, a, n) PROVE FittingCall(v)
  <2> DEFINE f == first + count
  <2>1. f * S < a + n + S /\ f * S \in Int /\ f \in Nat
      BY <1>2, <1>7, <1>9, SliceAssumption
  <2>2. f <= Sectors
    <3> HIDE DEF f
    <3>1. Sectors < f => Sectors * S + S <= f * S
        BY <2>1, SectorsGrow, SliceAssumption
    <3>2. Sectors * S \in Nat
        BY SliceAssumption
    <3> QED BY <1>2, <2>1, <3>1, <3>2, SliceAssumption
  <2>3. f * S <= Sectors * S
    <3>1. f < Sectors => f * S + S <= Sectors * S
        BY <2>1, SectorsGrow, SliceAssumption
    <3> QED BY <2>1, <2>2, <3>1, SliceAssumption
  <2>4. first * S + count * S < a + n + S /\ first * S + count * S <= Sectors * S
      BY <1>7, <1>9, <2>3
  <2> QED BY Zenon, <1>3, <1>5, <2>4 DEF FittingCall
<1> QED BY Zenon, <1>3, <1>8, <1>9

(* The bytes of a range are bytes of the slice, and of the buffer. *)
LEMMA RangeOfCall ==
    ASSUME NEW v, PlacedCall(v), NEW c \in v.address..(v.address + v.amount - 1)
    PROVE  c \in Cells /\ c \in Nat /\ c - PlaceOf(v) \in 0..(SizeOf(v) - 1) /\ c >= PlaceOf(v)
<1> DEFINE p == PlaceOf(v)
           b == SizeOf(v)
           e == Sectors * S
           a == v.address
           n == v.amount
<1>1. e \in Nat
    BY SliceAssumption
<1>2. /\ p \in Nat /\ b \in Nat /\ a \in Nat /\ n \in Nat /\ a + n <= e /\ a + n <= p + b
      /\ a % S \in 0..(S - 1) /\ a = p + (a % S)
    BY Zenon DEF PlacedCall
<1>3. p <= a
    BY <1>2, SliceAssumption
<1> HIDE DEF p, b, e
<1>4. c \in 0..(e - 1) /\ c \in Nat /\ c - p \in 0..(b - 1) /\ c >= p
    BY <1>1, <1>2, <1>3
<1> QED BY Zenon, <1>4 DEF Cells, p, b, e

Placed(t) ==
    /\ PlacedCall(io[t])
    /\ FirstSector(t) \in Nat /\ Count(t) \in Nat \ {0} /\ Place(t) \in Nat /\ Count(t) * S \in Nat
    /\ Place(t) = PlaceOf(io[t]) /\ Count(t) * S = SizeOf(io[t])
    /\ io[t].address \in Nat /\ io[t].amount \in Nat \ {0}
    /\ io[t].done \in 0..Count(t) /\ io[t].ret \in Nat
    /\ io[t].buf \in [0..(Count(t) * S - 1) -> Int]
    /\ io[t].address % S \in 0..(S - 1) /\ io[t].address = Place(t) + (io[t].address % S)
    /\ io[t].address + io[t].amount <= Place(t) + Count(t) * S

Fits(t) ==
    /\ Place(t) + Count(t) * S < io[t].address + io[t].amount + S
    /\ Place(t) + Count(t) * S <= Sectors * S

(* The calls of the tasks are placed. *)
LEMMA CallsArePlaced ==
    ASSUME Types, NEW t \in Users, io[t].pc # "idle"
    PROVE  /\ Placed(t)
           /\ ~Overshoots(S, io[t].address, io[t].amount) => Fits(t)
<1>1. io[t] \in Calls
    BY Zenon DEF Types
<1>2. Place(t) = PlaceOf(io[t]) /\ Count(t) * S = SizeOf(io[t])
    BY Zenon DEF Place, PlaceOf, SizeOf, FirstSector, Count
<1>3. PlacedCall(io[t]) /\ (~Overshoots(S, io[t].address, io[t].amount) => FittingCall(io[t]))
    BY Zenon, <1>1, CallIsPlaced
<1>4. Placed(t)
    BY Zenon, <1>2, <1>3 DEF Placed, PlacedCall, FirstSector, Count
<1> QED BY Zenon, <1>2, <1>3, <1>4 DEF Fits, FittingCall

(* The last sector of a write that reads it from the right place. *)
LEMMA LastSector ==
    ASSUME NEW t \in Users, Placed(t), Exact(io[t].address, io[t].amount),
           ReadsLast(S, io[t].address, io[t].amount)
    PROVE  /\ FirstSector(t) + ((io[t].address + io[t].amount) \div S) = Count(t) - 1
           /\ Place(t) = 0 /\ Count(t) > 1
<1> DEFINE a == io[t].address
           n == io[t].amount
           q == (a + n) \div S
           r == (a + n) % S
<1>1. S \in Nat \ {0} /\ a \in Nat /\ n \in Nat \ {0}
    BY Zenon, SliceAssumption DEF Placed
<1>2. r # 0 /\ FirstSector(t) = 0 /\ Count(t) > 1
    BY Zenon DEF Exact, WrongTail, ReadsLast, Count, FirstSector
<1>3. Count(t) = Spanned(S, a, n)
  <2>1. SectorCount(S, a, n) = Spanned(S, a, n) + 0 /\ Spanned(S, a, n) \in Nat
      BY Zenon, <1>1, CountIsSpan DEF Exact
  <2>2. SectorCount(S, a, n) = Spanned(S, a, n)
    <3> DEFINE x == Spanned(S, a, n)
    <3> HIDE DEF x
    <3> QED BY <2>1
  <2> QED BY Zenon, <2>2 DEF Count
<1>4. Count(t) = ((a + n + S - 1) \div S) - 0
    BY Zenon, <1>2, <1>3 DEF Spanned, FirstSector
<1>5. q \in Nat /\ r \in 0..(S - 1) /\ a + n = q * S + r
  <2>1. a + n \in Nat
      BY <1>1
  <2> QED BY Zenon, <1>1, <2>1, Divided
<1> HIDE DEF a, n, q, r
<1>6. (a + n + S - 1) \div S = q + 1
  <2>1. q + 1 \in Nat /\ r - 1 \in 0..(S - 1) /\ q * S \in Nat /\ (q + 1) * S = q * S + S
      BY <1>1, <1>2, <1>5
  <2>2. a + n + S - 1 = (q + 1) * S + (r - 1)
      BY <1>1, <1>5, <2>1
  <2> QED BY Zenon, <1>1, <2>1, <2>2, DividedUnique
<1>7. Place(t) = 0
    BY <1>1, <1>2 DEF Place
<1> QED BY <1>2, <1>4, <1>5, <1>6, <1>7 DEF a, n, q

-----------------------------------------------------------------------------
(* A step of one call *)

SameCall(t) ==
    /\ io'[t].pc # "idle"
    /\ io'[t].op = io[t].op /\ io'[t].address = io[t].address /\ io'[t].amount = io[t].amount

\* Task t begins a call or goes on with it.
StepOf(t) ==
    /\ io' \in [Users -> Calls]
    /\ \A u \in Users \ {t} : io'[u] = io[u]
    /\ io[t].pc # "idle" => SameCall(t)
    /\ met => met'

\* What a step of t may change on the drive: bytes of its range
Changes(t) ==
    \A c \in Cells : drive'[c] = drive[c] \/ (t \in Writers /\ c \in Extent(t) /\ drive'[c] = Data(c))

\* A step of t leaves the sectors of the other writes that are under way.
Spares(t) ==
    \A u \in Writers \ {t} : io[u].pc \in {"first", "last", "access"} =>
       \A x \in 0..(Count(u) * S - 1) : drive'[Place(u) + x] = drive[Place(u) + x]

SamePlace(t) ==
    /\ FirstSector(t)' = FirstSector(t) /\ Place(t)' = Place(t) /\ Count(t)' = Count(t)
    /\ Extent(t)' = Extent(t) /\ (NeedsFirst(t)' <=> NeedsFirst(t))

(* A call keeps its place. *)
LEMMA SameCallSamePlace ==
    ASSUME NEW t \in Users, SameCall(t)
    PROVE  SamePlace(t)
<1>1. FirstSector(t)' = FirstSector(t) /\ Count(t)' = Count(t) /\ Extent(t)' = Extent(t)
    BY Zenon DEF SameCall, FirstSector, Count, Extent
<1>2. Place(t)' = Place(t)
    BY Zenon, <1>1 DEF Place
<1>3. NeedsFirst(t)' <=> NeedsFirst(t)
    BY Zenon, <1>1 DEF NeedsFirst, SameCall
<1> QED BY Zenon, <1>1, <1>2, <1>3 DEF SamePlace

(* What was orderly is orderly in every earlier state. *)
LEMMA OrderlyBefore ==
    ASSUME NEW t \in Users, StepOf(t), Orderly'
    PROVE  /\ Orderly
           /\ \A u \in Users : io[u].pc # "idle" => SameCall(u)
           /\ \A u \in Writers : u \in Writers'
<1>1. \A u \in Users : io[u].pc # "idle" => SameCall(u)
    BY Zenon DEF StepOf, SameCall
<1>2. \A u \in Writers : u \in Writers'
    BY Zenon, <1>1 DEF Writers, SameCall
<1>3. \A u \in Writers : Exact(io[u].address, io[u].amount)
  <2>1. TAKE u \in Writers
  <2>2. Exact(io'[u].address, io'[u].amount)
      BY Zenon, <1>2 DEF Orderly
  <2>3. io'[u].address = io[u].address /\ io'[u].amount = io[u].amount
      BY Zenon, <1>1 DEF SameCall, Writers
  <2> QED BY Zenon, <2>2, <2>3
<1>4. ~met
    BY Zenon DEF Orderly, StepOf
<1> QED BY Zenon, <1>1, <1>2, <1>3, <1>4 DEF Orderly

(* The bytes of the range of a call. *)
LEMMA RangeInSlice ==
    ASSUME NEW t \in Users, Placed(t), NEW c \in Extent(t)
    PROVE  c \in Cells /\ c \in Nat /\ c - Place(t) \in 0..(Count(t) * S - 1) /\ c >= Place(t)
<1>1. c \in io[t].address..(io[t].address + io[t].amount - 1)
    BY Zenon DEF Extent
<1> QED BY Zenon, <1>1, RangeOfCall DEF Placed

(* The sectors of an exact write lie in the slice. *)
LEMMA SectorsInSlice ==
    ASSUME NEW t \in Users, Placed(t), Fits(t)
    PROVE  /\ \A x \in 0..(Count(t) * S - 1) : Place(t) + x \in Cells
           /\ 0..(S - 1) \subseteq 0..(Count(t) * S - 1)
<1>1. Sectors * S \in Nat /\ S \in Nat \ {0}
    BY SliceAssumption
<1>2. S <= Count(t) * S
  <2>1. Count(t) \in Int /\ 0 < Count(t)
    <3>1. Count(t) \in Nat \ {0}
        BY Zenon DEF Placed
    <3> QED BY <3>1
  <2>2. 0 * S + S <= Count(t) * S
      BY <1>1, <2>1, SectorsGrow
  <2> QED BY <1>1, <2>1, <2>2
<1> DEFINE p == Place(t)
           b == Count(t) * S
           e == Sectors * S
<1>3. p \in Nat /\ b \in Nat /\ p + b <= e /\ S <= b /\ e \in Nat
    BY Zenon, <1>1, <1>2 DEF Placed, Fits
<1> HIDE DEF p, b, e
<1>4. (\A x \in 0..(b - 1) : p + x \in 0..(e - 1)) /\ 0..(S - 1) \subseteq 0..(b - 1)
    BY <1>1, <1>3
<1> QED BY Zenon, <1>4 DEF Cells, p, b, e

(***************************************************************************)
(* The buffers and reports of the other calls stay right, and so does the  *)
(* drive.                                                                  *)
(***************************************************************************)
LEMMA OthersStayRight ==
    ASSUME IInv, NEW t \in Users, StepOf(t), Orderly', Changes(t), Spares(t), NEW u \in Users \ {t}
    PROVE  /\ u \in Writers' => FirstIsRead(u)' /\ Prepared(u)' /\ Written(u)'
           /\ (io[u].pc # "idle" /\ io[u].op = "read" => Loaded(u))'
<1>1. io'[u] = io[u] /\ Orderly
    BY Zenon, OrderlyBefore DEF StepOf
<1>2. CASE io[u].pc = "idle"
    BY Zenon, <1>1, <1>2 DEF Writers
<1>3. CASE io[u].pc # "idle"
  <2>1. SameCall(u) /\ SamePlace(u)
      BY Zenon, <1>1, <1>3, SameCallSamePlace DEF SameCall
  <2>2. Placed(u)
      BY Zenon, <1>3, CallsArePlaced DEF IInv
  <2>3. ASSUME u \in Writers' PROVE FirstIsRead(u)' /\ Prepared(u)' /\ Written(u)'
    <3>1. u \in Writers
        BY Zenon, <1>1, <2>3 DEF Writers
    <3>2. FirstIsRead(u) /\ Prepared(u) /\ Written(u)
        BY Zenon, <1>1, <3>1 DEF IInv, BuffersAreRight
    <3>3. Fits(u)
        BY Zenon, <1>1, <1>3, <3>1, CallsArePlaced DEF IInv, Orderly, Exact
    <3>4. FirstIsRead(u)'
      <4>1. SUFFICES ASSUME io[u].pc = "last", NeedsFirst(u), NEW x \in 0..(S - 1)
                     PROVE  io[u].buf[x] = drive'[Place(u) + x]
          BY Zenon, <1>1, <2>1 DEF FirstIsRead, SamePlace
      <4>2. x \in 0..(Count(u) * S - 1)
          BY Zenon, <2>2, <3>3, SectorsInSlice
      <4>3. drive'[Place(u) + x] = drive[Place(u) + x]
          BY Zenon, <3>1, <4>1, <4>2 DEF Spares
      <4> QED BY Zenon, <3>2, <4>1, <4>3 DEF FirstIsRead
    <3>5. Prepared(u)'
      <4>1. SUFFICES ASSUME io[u].pc = "access", NEW x \in DOMAIN io[u].buf
                     PROVE  io[u].buf[x] = IF Place(u) + x \in Extent(u) THEN Data(Place(u) + x)
                                           ELSE drive'[Place(u) + x]
          BY Zenon, <1>1, <2>1 DEF Prepared, SamePlace
      <4>2. x \in 0..(Count(u) * S - 1)
          BY Zenon, <2>2 DEF Placed
      <4>3. drive'[Place(u) + x] = drive[Place(u) + x]
          BY Zenon, <3>1, <4>1, <4>2 DEF Spares
      <4> QED BY Zenon, <3>2, <4>1, <4>3 DEF Prepared
    <3>6. Written(u)'
      <4>1. SUFFICES ASSUME NEW c \in Extent(u), c < Place(u) + io[u].done * S
                     PROVE  drive'[c] = Data(c)
          BY Zenon, <1>1, <2>1 DEF Written, SamePlace
      <4>2. drive[c] = Data(c) /\ c \in Cells
          BY Zenon, <2>2, <3>2, <4>1, RangeInSlice DEF Written
      <4> QED BY Zenon, <4>2 DEF Changes
    <3> QED BY Zenon, <3>4, <3>5, <3>6
  <2>4. ASSUME io[u].op = "read" PROVE Loaded(u)'
    <3>1. Loaded(u)
        BY Zenon, <1>1, <1>3, <2>4 DEF IInv, BuffersAreRight
    <3>2. Cells' = Cells
        BY Zenon DEF Cells
    <3> QED BY Zenon, <1>1, <2>1, <3>1, <3>2 DEF Loaded, SamePlace
  <2> QED BY Zenon, <1>1, <2>3, <2>4
<1> QED BY Zenon, <1>2, <1>3

(* The drive stays right. *)
LEMMA DriveStaysRight ==
    ASSUME IInv, NEW t \in Users, StepOf(t), Orderly' => Changes(t)
    PROVE  WritesStayInRange'
<1>1. SUFFICES ASSUME Orderly', NEW c \in Cells
               PROVE  drive'[c] = c \/ \E u \in Writers' : c \in Extent(u)' /\ drive'[c] = Data(c)
    BY Zenon DEF WritesStayInRange, Cells
<1>2. /\ Orderly /\ \A u \in Writers : u \in Writers' /\ Extent(u)' = Extent(u)
  <2>1. /\ Orderly
        /\ \A u \in Users : io[u].pc # "idle" => SameCall(u)
        /\ \A u \in Writers : u \in Writers'
      BY Zenon, <1>1, OrderlyBefore
  <2> QED BY Zenon, <2>1, SameCallSamePlace DEF SamePlace, Writers
<1>3. drive[c] = c \/ \E u \in Writers : c \in Extent(u) /\ drive[c] = Data(c)
    BY Zenon, <1>2 DEF IInv, WritesStayInRange
<1> QED BY Zenon, <1>1, <1>2, <1>3 DEF Changes

-----------------------------------------------------------------------------
(* What a step of t has to show for itself *)

FitsPc(t) ==
    /\ io[t].pc \in {"first", "last"} => io[t].op = "write" /\ io[t].done = 0
    /\ io[t].pc \in {"first", "last", "access"} => io[t].ret = 0

Own(t) ==
    /\ t \in Writers => FirstIsRead(t) /\ Prepared(t) /\ Written(t)
    /\ io[t].pc # "idle" /\ io[t].op = "read" => Loaded(t)

Sound(t) ==
    /\ StepOf(t) /\ drive' \in [Cells -> Int] /\ faults' \in Nat /\ met' \in BOOLEAN
    /\ Orderly' => Changes(t) /\ Spares(t)
    /\ FitsPc(t)' /\ Told(t)' /\ (Orderly' => Own(t)')

(* That is enough. *)
LEMMA SoundKeeps ==
    ASSUME IInv, NEW t \in Users, Sound(t)
    PROVE  IInv'
<1>1. Types'
    BY Zenon DEF Sound, StepOf, Types, Cells, Calls, CallOf
<1>2. PcFits'
    BY Zenon DEF Sound, StepOf, FitsPc, PcFits, IInv
<1>3. WritesStayInRange'
    BY Zenon, DriveStaysRight DEF Sound
<1>4. BuffersAreRight'
  <2>1. SUFFICES ASSUME Orderly', NEW u \in Users
                 PROVE  /\ u \in Writers' => FirstIsRead(u)' /\ Prepared(u)' /\ Written(u)'
                        /\ (io[u].pc # "idle" /\ io[u].op = "read" => Loaded(u))'
      BY Zenon DEF BuffersAreRight, Writers
  <2>2. CASE u = t
      BY Zenon, <2>1, <2>2 DEF Sound, Own
  <2>3. CASE u # t
      BY Zenon, <2>1, <2>3, OthersStayRight DEF Sound
  <2> QED BY Zenon, <2>2, <2>3
<1>5. ReportsAreRight'
  <2>1. SUFFICES ASSUME NEW u \in Users PROVE Told(u)'
      BY Zenon DEF ReportsAreRight
  <2>2. CASE u = t
      BY Zenon, <2>2 DEF Sound
  <2>3. CASE u # t
      BY Zenon, <2>3 DEF Sound, StepOf, IInv, ReportsAreRight, Told
  <2> QED BY Zenon, <2>2, <2>3
<1> QED BY Zenon, <1>1, <1>2, <1>3, <1>4, <1>5 DEF IInv

(* A step that leaves the drive changes no byte. *)
LEMMA DriveLeft ==
    ASSUME NEW t \in Users, drive' = drive
    PROVE  Changes(t) /\ Spares(t)
BY Zenon DEF Changes, Spares

(* The step of a call, from its new fields. *)
LEMMA StepByCall ==
    ASSUME Types, NEW t \in Users, NEW v \in Calls, io' = [io EXCEPT ![t] = v], met => met',
           io[t].pc # "idle" =>
              v.pc # "idle" /\ v.op = io[t].op /\ v.address = io[t].address /\ v.amount = io[t].amount
    PROVE  StepOf(t) /\ io'[t] = v
<1>1. io'[t] = v /\ \A u \in Users \ {t} : io'[u] = io[u]
    BY Zenon DEF Types
<1>2. io' \in [Users -> Calls]
    BY Zenon DEF Types
<1>3. io[t].pc # "idle" => SameCall(t)
    BY Zenon, <1>1 DEF SameCall
<1> QED BY Zenon, <1>1, <1>2, <1>3 DEF StepOf

(* The beginning of a call. *)
LEMMA StartCallSound ==
    ASSUME IInv, NEW t \in Users, NEW op \in {"read", "write"}, NEW range \in Ranges, StartCall(t, op, range)
    PROVE  Sound(t)
<1>1. PICK p \in {"first", "access", "returned"} :
         io' = [io EXCEPT ![t] = NewCall(op, range, p)] /\ (p = "first" => op = "write") /\ (p = "access" => op = "read")
    BY Zenon DEF StartCall
<1>2. faults' \in Nat
  <2>1. faults \in Nat
      BY Zenon DEF IInv, Types
  <2>2. faults' = faults \/ (faults > 0 /\ faults' = faults - 1)
      BY Zenon DEF StartCall, Fault
  <2> QED BY <2>1, <2>2
<1> DEFINE b == [x \in 0..(SectorCount(S, range[1], range[2]) * S - 1) |-> Garbage]
           v == NewCall(op, range, p)
<1>3. io' = [io EXCEPT ![t] = v] /\ io[t] = NoCall /\ drive' = drive /\ met' = met
    BY Zenon, <1>1 DEF StartCall
<1>4. v \in CallOf(range[1], range[2])
  <2>1. 0 \in 0..SectorCount(S, range[1], range[2]) /\ 0 \in Nat
    <3>1. range[1] \in Nat /\ range[2] \in Nat \ {0}
        BY SliceAssumption
    <3>2. SectorCount(S, range[1], range[2]) \in Nat \ {0}
        BY Zenon, <3>1, SectorsCover
    <3> QED BY <3>2
  <2>2. b \in [0..(SectorCount(S, range[1], range[2]) * S - 1) -> Int]
    <3>1. Garbage \in Int
        BY DEF Garbage
    <3> QED BY Zenon, <3>1
  <2>3. v = [op |-> op, address |-> range[1], amount |-> range[2], done |-> 0, ret |-> 0, pc |-> p, buf |-> b]
      BY Zenon DEF NewCall
  <2> HIDE DEF b, v
  <2> QED BY Zenon, <2>1, <2>2, <2>3 DEF CallOf
<1>5. v.pc = p /\ v.op = op /\ v.done = 0 /\ v.ret = 0 /\ v.amount = range[2]
    BY Zenon DEF NewCall
<1> HIDE DEF v
<1>6. StepOf(t) /\ io'[t] = v
  <2>1. v \in Calls
      BY Zenon, <1>4 DEF Calls
  <2>2. io[t].pc = "idle"
      BY <1>3 DEF NoCall
  <2> QED BY Zenon, <1>3, <2>1, <2>2, StepByCall DEF IInv
<1>7. PlacedCall(v) /\ v.done * S = 0
  <2>1. v \in Calls /\ v.pc # "idle"
      BY Zenon, <1>4, <1>5 DEF Calls
  <2>2. 0 * S = 0
      BY SliceAssumption
  <2> QED BY Zenon, <1>5, <2>1, <2>2, CallIsPlaced
<1>8. Written(t)'
  <2>1. SUFFICES ASSUME NEW c \in Extent(t)' PROVE ~(c < Place(t)' + v.done * S)
      BY Zenon, <1>6 DEF Written
  <2>2. c \in v.address..(v.address + v.amount - 1) /\ Place(t)' = PlaceOf(v)
      BY Zenon, <1>6 DEF Extent, Place, PlaceOf, FirstSector
  <2>3. c \in Nat /\ c >= Place(t)' /\ Place(t)' \in Nat
      BY Zenon, <1>7, <2>2, RangeOfCall DEF PlacedCall
  <2> HIDE DEF Place
  <2> QED BY <1>7, <2>3
<1>9. Loaded(t)'
  <2>1. SUFFICES ASSUME NEW x \in DOMAIN v.buf PROVE ~(x < v.done * S)
      BY Zenon, <1>6 DEF Loaded
  <2>2. x \in 0..(SizeOf(v) - 1) /\ SizeOf(v) \in Nat
      BY Zenon, <1>7 DEF PlacedCall
  <2> QED BY <1>7, <2>2
<1>10. Own(t)'
    BY Zenon, <1>1, <1>5, <1>6, <1>8, <1>9 DEF Own, FirstIsRead, Prepared, Writers
<1>11. FitsPc(t)'
    BY Zenon, <1>1, <1>5, <1>6 DEF FitsPc
<1>12. Told(t)'
  <2>1. 0 <= v.amount
      BY <1>5, SliceAssumption
  <2> QED BY Zenon, <1>5, <1>6, <2>1 DEF Told
<1>13. Changes(t) /\ Spares(t)
    BY Zenon, <1>3, DriveLeft
<1> QED BY Zenon, <1>2, <1>3, <1>6, <1>10, <1>11, <1>12, <1>13 DEF Sound, IInv, Types

Becomes(t, d, r, p, b) == io' = [io EXCEPT ![t] = [io[t] EXCEPT !.done = d, !.ret = r, !.pc = p, !.buf = b]]
Fields(t, d, r, p, b) == io'[t].done = d /\ io'[t].ret = r /\ io'[t].pc = p /\ io'[t].buf = b

(* A step gives a call new fields. *)
LEMMA NewFields ==
    ASSUME Types, NEW t \in Users, io[t].pc # "idle",
           NEW d \in 0..Count(t), NEW r \in Nat, NEW p \in {"first", "last", "access", "returned"},
           NEW b \in [0..(Count(t) * S - 1) -> Int],
           Becomes(t, d, r, p, b), met => met'
    PROVE  StepOf(t) /\ SameCall(t) /\ SamePlace(t) /\ Fields(t, d, r, p, b)
<1> DEFINE v == [io[t] EXCEPT !.done = d, !.ret = r, !.pc = p, !.buf = b]
<1>1. Placed(t) /\ io[t] \in CallOf(io[t].address, io[t].amount) /\ <<io[t].address, io[t].amount>> \in Ranges
    BY Zenon, CallsArePlaced DEF Placed, PlacedCall
<1>2. /\ v \in CallOf(io[t].address, io[t].amount)
      /\ v.op = io[t].op /\ v.address = io[t].address /\ v.amount = io[t].amount
      /\ v.done = d /\ v.ret = r /\ v.pc = p /\ v.buf = b
    BY Zenon, <1>1 DEF CallOf, Count
<1>3. v \in Calls
  <2>1. CallOf(<<io[t].address, io[t].amount>>[1], <<io[t].address, io[t].amount>>[2]) =
           CallOf(io[t].address, io[t].amount)
      BY Zenon
  <2> QED BY Zenon, <1>1, <1>2, <2>1 DEF Calls
<1>4. StepOf(t) /\ io'[t] = v
    BY Zenon, <1>2, <1>3, StepByCall DEF Becomes
<1>5. SameCall(t)
    BY Zenon, <1>2, <1>4 DEF SameCall
<1> QED BY Zenon, <1>2, <1>4, <1>5, SameCallSamePlace DEF Fields

(* The byte of a sector is a byte. *)
LEMMA SectorBytes ==
    ASSUME Types, NEW lba \in Int, NEW x \in Int
    PROVE  /\ SectorByte(lba, x) \in Int
           /\ lba * S + x \in Cells => SectorByte(lba, x) = drive[lba * S + x]
<1>1. Garbage \in Int
    BY DEF Garbage
<1> QED BY Zenon, <1>1 DEF SectorByte, Types

(* A write has done nothing before its first access. *)
LEMMA NothingWritten ==
    ASSUME NEW t \in Users, Placed(t), SamePlace(t), io'[t].done = 0
    PROVE  Written(t)'
<1>1. 0 * S = 0
    BY SliceAssumption
<1>2. SUFFICES ASSUME NEW c \in Extent(t) PROVE ~(c < Place(t) + 0 * S)
    BY Zenon DEF Written, SamePlace
<1>3. c \in Nat /\ c >= Place(t) /\ Place(t) \in Nat
    BY Zenon, RangeInSlice DEF Placed
<1> HIDE DEF Place
<1> QED BY <1>1, <1>3

(* An access to read a first or last sector went wrong: the call returns nothing. *)
LEMMA GivenUpSound ==
    ASSUME IInv, NEW t \in Users, io[t].pc \in {"first", "last"}, io' = [io EXCEPT ![t].pc = "returned"],
           Fault, drive' = drive, met' = met
    PROVE  Sound(t)
<1> DEFINE v == [io[t] EXCEPT !.done = io[t].done, !.ret = io[t].ret, !.pc = "returned", !.buf = io[t].buf]
<1>1. io[t].pc # "idle" /\ Types /\ io[t].op = "write" /\ io[t].done = 0 /\ io[t].ret = 0
    BY Zenon DEF IInv, PcFits
<1>2. Placed(t)
    BY Zenon, <1>1, CallsArePlaced
<1>3. Becomes(t, io[t].done, io[t].ret, "returned", io[t].buf)
  <2>1. v = [io[t] EXCEPT !.pc = "returned"]
      BY Zenon, <1>2 DEF Placed, PlacedCall, CallOf
  <2> QED BY Zenon, <2>1 DEF Becomes
<1>4. /\ StepOf(t) /\ SameCall(t) /\ SamePlace(t)
      /\ io'[t].done = 0 /\ io'[t].ret = 0 /\ io'[t].pc = "returned"
  <2>1. /\ StepOf(t) /\ SameCall(t) /\ SamePlace(t)
        /\ Fields(t, io[t].done, io[t].ret, "returned", io[t].buf)
      BY Zenon, <1>1, <1>2, <1>3, NewFields DEF Placed
  <2> QED BY Zenon, <1>1, <2>1 DEF Fields
<1>5. Written(t)'
    BY Zenon, <1>2, <1>4, NothingWritten
<1>6. Own(t)'
    BY Zenon, <1>1, <1>4, <1>5 DEF Own, FirstIsRead, Prepared, SameCall
<1>7. FitsPc(t)'
    BY Zenon, <1>4 DEF FitsPc
<1>8. Told(t)'
  <2>1. io'[t].amount \in Nat
      BY Zenon, <1>2, <1>4 DEF SameCall, Placed
  <2>2. 0 <= io'[t].amount
      BY <2>1
  <2> QED BY Zenon, <1>4, <2>2 DEF Told
<1>9. Changes(t) /\ Spares(t)
    BY Zenon, DriveLeft
<1>10. faults' \in Nat
    BY <1>1 DEF Fault, Types
<1> QED BY Zenon, <1>1, <1>4, <1>6, <1>7, <1>8, <1>9, <1>10 DEF Sound, Types

(* Its fields when the buffer of a write is filled. *)
LEMMA FilledFields ==
    ASSUME IInv, NEW t \in Users, io[t].pc \in {"first", "last"}, NEW p \in {"last", "access"},
           NEW b \in [0..(Count(t) * S - 1) -> Int],
           io' = [io EXCEPT ![t].pc = p, ![t].buf = b], met' = met
    PROVE  StepOf(t) /\ SameCall(t) /\ SamePlace(t) /\ Fields(t, 0, 0, p, b)
<1>1. io[t].pc # "idle" /\ Types /\ io[t].done = 0 /\ io[t].ret = 0
    BY Zenon DEF IInv, PcFits
<1>2. Placed(t)
    BY Zenon, <1>1, CallsArePlaced
<1>3. Becomes(t, io[t].done, io[t].ret, p, b)
  <2>1. [io[t] EXCEPT !.done = io[t].done, !.ret = io[t].ret, !.pc = p, !.buf = b] =
           [io[t] EXCEPT !.pc = p, !.buf = b]
      BY Zenon, <1>2 DEF Placed, PlacedCall, CallOf
  <2>2. io' = [io EXCEPT ![t] = [io[t] EXCEPT !.pc = p, !.buf = b]]
      BY Zenon, <1>1 DEF Types
  <2> QED BY Zenon, <2>1, <2>2 DEF Becomes
<1>4. StepOf(t) /\ SameCall(t) /\ SamePlace(t) /\ Fields(t, io[t].done, io[t].ret, p, b)
  <2>1. io[t].done \in 0..Count(t) /\ io[t].ret \in Nat
      BY Zenon, <1>2 DEF Placed
  <2>2. p \in {"first", "last", "access", "returned"}
      OBVIOUS
  <2>3. met => met'
      OBVIOUS
  <2> QED BY Zenon, <1>1, <1>3, <2>1, <2>2, <2>3, NewFields
<1> QED BY Zenon, <1>1, <1>4

(* A step that fills the buffer of a write. *)
LEMMA Filled ==
    ASSUME IInv, NEW t \in Users, io[t].pc \in {"first", "last"}, NEW p \in {"last", "access"},
           NEW b \in [0..(Count(t) * S - 1) -> Int],
           io' = [io EXCEPT ![t].pc = p, ![t].buf = b],
           drive' = drive /\ met' = met /\ faults' = faults,
           Orderly' => FirstIsRead(t)' /\ Prepared(t)'
    PROVE  Sound(t)
<1>1. io[t].pc # "idle" /\ Types /\ io[t].op = "write" /\ io[t].done = 0 /\ io[t].ret = 0
    BY Zenon DEF IInv, PcFits
<1>2. Placed(t)
    BY Zenon, <1>1, CallsArePlaced
<1>3. StepOf(t) /\ SameCall(t) /\ SamePlace(t) /\ Fields(t, 0, 0, p, b)
    BY Zenon, <1>1, <1>2, FilledFields
<1>4. Written(t)'
    BY Zenon, <1>2, <1>3, NothingWritten DEF Fields
<1>5. Orderly' => Own(t)'
    BY Zenon, <1>1, <1>3, <1>4 DEF Own, SameCall
<1>6. FitsPc(t)' /\ Told(t)'
    BY Zenon, <1>1, <1>3 DEF FitsPc, Told, Fields, SameCall
<1>7. Changes(t) /\ Spares(t)
    BY Zenon, DriveLeft
<1> QED BY Zenon, <1>1, <1>3, <1>5, <1>6, <1>7 DEF Sound, Types

(* The first sector is read. *)
LEMMA ReadFirstSound ==
    ASSUME IInv, NEW t \in Users, ReadFirst(t)
    PROVE  Sound(t)
<1> DEFINE b == [x \in DOMAIN io[t].buf |->
                    IF NeedsFirst(t) /\ x < S THEN SectorByte(FirstSector(t), x) ELSE io[t].buf[x]]
<1>1. io[t].pc = "first" /\ drive' = drive /\ met' = met
    BY Zenon DEF ReadFirst
<1>2. CASE Fault /\ io' = [io EXCEPT ![t].pc = "returned"]
    BY Zenon, <1>1, <1>2, GivenUpSound
<1>3. CASE io' = [io EXCEPT ![t].pc = "last", ![t].buf = b] /\ faults' = faults
  <2>1. Types /\ io[t].pc # "idle" /\ Placed(t)
    <3>1. Types /\ io[t].pc # "idle"
        BY Zenon, <1>1 DEF IInv
    <3> QED BY Zenon, <3>1, CallsArePlaced
  <2>2. DOMAIN io[t].buf = 0..(Count(t) * S - 1) /\ FirstSector(t) \in Int
    <3>1. FirstSector(t) \in Nat
        BY Zenon, <2>1 DEF Placed
    <3>2. FirstSector(t) \in Int
        BY <3>1
    <3> QED BY Zenon, <2>1, <3>2 DEF Placed
  <2>3. b \in [0..(Count(t) * S - 1) -> Int]
    <3>1. \A x \in 0..(Count(t) * S - 1) : x \in Int
        OBVIOUS
    <3>2. \A x \in 0..(Count(t) * S - 1) : SectorByte(FirstSector(t), x) \in Int /\ io[t].buf[x] \in Int
        BY Zenon, <2>1, <2>2, <3>1, SectorBytes DEF Placed
    <3> QED BY Zenon, <2>2, <3>2
  <2>4. StepOf(t) /\ SameCall(t) /\ SamePlace(t) /\ Fields(t, 0, 0, "last", b)
    <3> HIDE DEF b
    <3> QED BY Zenon, <1>1, <1>3, <2>1, <2>3, FilledFields
  <2>5. ASSUME Orderly' PROVE FirstIsRead(t)'
    <3>1. SUFFICES ASSUME NeedsFirst(t), NEW x \in 0..(S - 1) PROVE b[x] = drive[Place(t) + x]
      <4> HIDE DEF b
      <4> QED BY Zenon, <1>1, <2>4 DEF FirstIsRead, Fields, SamePlace
    <3>2. Fits(t)
      <4>1. Orderly /\ t \in Writers
          BY Zenon, <1>1, <2>1, <2>4, <2>5, OrderlyBefore DEF IInv, PcFits, Writers
      <4> QED BY Zenon, <2>1, <4>1, CallsArePlaced DEF Orderly, Exact
    <3>3. x \in DOMAIN io[t].buf /\ Place(t) + x \in Cells
        BY Zenon, <2>1, <2>2, <3>2, SectorsInSlice
    <3>4. x < S /\ x \in Int
        BY SliceAssumption
    <3>5. b[x] = SectorByte(FirstSector(t), x)
        BY Zenon, <3>1, <3>3, <3>4
    <3> QED BY Zenon, <2>1, <2>2, <3>3, <3>4, <3>5, SectorBytes DEF Place
  <2>6. Prepared(t)'
      BY Zenon, <2>4 DEF Prepared, Fields
  <2> HIDE DEF b
  <2> QED BY Zenon, <1>1, <1>3, <2>3, <2>5, <2>6, Filled
<1> QED BY Zenon, <1>2, <1>3 DEF ReadFirst

(***************************************************************************)
(* A byte of the buffer outside of the range is in the last sector, which  *)
(* is read, or in the first, which is read.                                *)
(***************************************************************************)
LEMMA AroundRange ==
    ASSUME NEW t \in Users, Placed(t), Fits(t), NEW x \in 0..(Count(t) * S - 1), Place(t) + x \notin Extent(t),
           ~(ReadsLast(S, io[t].address, io[t].amount) /\ x >= (Count(t) - 1) * S)
    PROVE  x \in 0..(S - 1) /\ NeedsFirst(t)
<1> DEFINE a == io[t].address
           n == io[t].amount
           p == Place(t)
           k == Count(t)
           b == k * S
           r == a % S
           f == FirstSector(t)
<1>1. /\ S \in Nat \ {0} /\ a \in Nat /\ n \in Nat \ {0} /\ p \in Nat /\ k \in Nat \ {0} /\ b \in Nat /\ f \in Nat
      /\ r \in 0..(S - 1) /\ a = p + r /\ a + n <= p + b /\ p + b < a + n + S
    BY Zenon, SliceAssumption DEF Placed, Fits
<1>2. p + x \notin a..(a + n - 1)
    BY Zenon DEF Extent
<1>3. p = f * S
    BY Zenon DEF Place
<1>4. NeedsFirst(t) <=> (r # 0 \/ k = 1)
    BY Zenon DEF NeedsFirst
<1>5. ReadsLast(S, a, n) <=> ((a + n) % S # 0 /\ k > 1)
    BY Zenon DEF ReadsLast, Count
<1>6. ~(ReadsLast(S, a, n) /\ x >= (k - 1) * S)
    OBVIOUS
<1>7. (k - 1) * S = b - S
    BY <1>1
<1>8. x \in 0..(b - 1)
    OBVIOUS
<1> HIDE DEF a, n, p, k, r, f
<1>9. CASE p + x < a
  <2> HIDE DEF b
  <2> QED BY <1>1, <1>4, <1>8, <1>9
<1>10. CASE p + x >= a + n
  <2>1. (a + n) % S # 0
    <3> SUFFICES ASSUME (a + n) % S = 0 PROVE FALSE
        OBVIOUS
    <3> DEFINE q == (a + n) \div S
    <3>1. q \in Nat /\ a + n = q * S + 0
      <4>1. a + n \in Nat
          BY <1>1
      <4> QED BY Zenon, <1>1, <4>1, Divided
    <3>2. f + k \in Nat /\ (f + k) * S = p + b
        BY <1>1, <1>3
    <3> HIDE DEF q
    <3>3. q * S < (f + k) * S /\ (f + k) * S < q * S + S
      <4> HIDE DEF b
      <4> QED BY <1>1, <1>8, <1>10, <3>1, <3>2
    <3>4. q < f + k => q * S + S <= (f + k) * S
        BY <1>1, <3>1, <3>2, SectorsGrow
    <3>5. f + k < q => (f + k) * S + S <= q * S
        BY <1>1, <3>1, <3>2, SectorsGrow
    <3>6. q * S \in Int /\ (f + k) * S \in Int
        BY <1>1, <3>1, <3>2
    <3> QED BY <1>1, <3>1, <3>2, <3>3, <3>4, <3>5, <3>6
  <2>2. x >= b - S
    <3> HIDE DEF b
    <3> QED BY <1>1, <1>8, <1>10
  <2>3. k = 1
    <3>1. ~(k > 1)
        BY Zenon, <1>5, <1>6, <1>7, <2>1, <2>2
    <3> QED BY <1>1, <3>1
  <2>4. b = S
      BY <1>1, <2>3
  <2> HIDE DEF b
  <2> QED BY <1>1, <1>4, <1>8, <2>3, <2>4
<1>11. p + x < a \/ p + x >= a + n
  <2> HIDE DEF b
  <2> QED BY <1>1, <1>2, <1>8
<1> QED BY Zenon, <1>9, <1>10, <1>11 DEF a, n, p, k, r, f

(* The last sector is read and the data copied over. *)
LEMMA ReadLastSound ==
    ASSUME IInv, NEW t \in Users, ReadLast(t)
    PROVE  Sound(t)
<1> DEFINE lba == FirstSector(t) + ((io[t].address + io[t].amount) \div S)
           at == (Count(t) - 1) * S
           tail == ReadsLast(S, io[t].address, io[t].amount)
           b == [x \in DOMAIN io[t].buf |->
                    IF Place(t) + x \in Extent(t) THEN Data(Place(t) + x)
                    ELSE IF tail /\ x >= at THEN SectorByte(lba, x - at) ELSE io[t].buf[x]]
<1>1. io[t].pc = "last" /\ drive' = drive /\ met' = met
    BY Zenon DEF ReadLast
<1>2. CASE Fault /\ io' = [io EXCEPT ![t].pc = "returned"]
    BY Zenon, <1>1, <1>2, GivenUpSound
<1>3. CASE io' = [io EXCEPT ![t].pc = "access", ![t].buf = b] /\ faults' = faults
  <2>1. Types /\ io[t].pc # "idle" /\ Placed(t)
    <3>1. Types /\ io[t].pc # "idle"
        BY Zenon, <1>1 DEF IInv
    <3> QED BY Zenon, <3>1, CallsArePlaced
  <2>2. /\ DOMAIN io[t].buf = 0..(Count(t) * S - 1) /\ lba \in Int /\ at \in Int /\ Place(t) \in Nat
        /\ Count(t) \in Nat
    <3>1. FirstSector(t) \in Nat /\ Count(t) \in Nat \ {0} /\ io[t].address \in Nat /\ io[t].amount \in Nat \ {0}
        BY Zenon, <2>1 DEF Placed
    <3>2. (io[t].address + io[t].amount) \div S \in Nat
      <4>1. io[t].address + io[t].amount \in Nat
          BY <3>1
      <4> QED BY Zenon, <4>1, Divided, SliceAssumption
    <3>3. lba \in Int /\ at \in Int /\ Count(t) \in Nat
        BY <3>1, <3>2, SliceAssumption
    <3> QED BY Zenon, <2>1, <3>3 DEF Placed
  <2>3. b \in [0..(Count(t) * S - 1) -> Int]
    <3>1. \A x \in 0..(Count(t) * S - 1) : x - at \in Int /\ Data(Place(t) + x) \in Int
      <4> HIDE DEF at
      <4> QED BY <2>2 DEF Data
    <3>2. \A x \in 0..(Count(t) * S - 1) : SectorByte(lba, x - at) \in Int /\ io[t].buf[x] \in Int
      <4> HIDE DEF lba, at
      <4> QED BY Zenon, <2>1, <2>2, <3>1, SectorBytes DEF Placed
    <3> HIDE DEF lba, at, tail
    <3> QED BY Zenon, <2>2, <3>1, <3>2
  <2>4. StepOf(t) /\ SameCall(t) /\ SamePlace(t) /\ Fields(t, 0, 0, "access", b)
    <3> HIDE DEF b
    <3> QED BY Zenon, <1>1, <1>3, <2>1, <2>3, FilledFields
  <2>5. FirstIsRead(t)'
    <3> HIDE DEF b
    <3> QED BY Zenon, <2>4 DEF FirstIsRead, Fields
  <2>6. ASSUME Orderly' PROVE Prepared(t)'
    <3>1. SUFFICES ASSUME NEW x \in 0..(Count(t) * S - 1)
                   PROVE  b[x] = IF Place(t) + x \in Extent(t) THEN Data(Place(t) + x) ELSE drive[Place(t) + x]
      <4>1. DOMAIN b = 0..(Count(t) * S - 1)
          BY Zenon, <2>3
      <4> HIDE DEF b
      <4> QED BY Zenon, <1>1, <2>4, <4>1 DEF Prepared, Fields, SamePlace
    <3>2. Orderly /\ t \in Writers
        BY Zenon, <1>1, <2>1, <2>4, <2>6, OrderlyBefore DEF IInv, PcFits, Writers
    <3>3. Exact(io[t].address, io[t].amount) /\ Fits(t) /\ FirstIsRead(t)
        BY Zenon, <2>1, <3>2, CallsArePlaced DEF Orderly, Exact, IInv, BuffersAreRight
    <3>4. b[x] = IF Place(t) + x \in Extent(t) THEN Data(Place(t) + x)
                 ELSE IF tail /\ x >= at THEN SectorByte(lba, x - at) ELSE io[t].buf[x]
        BY Zenon, <2>2
    <3>5. ASSUME tail, x >= at PROVE SectorByte(lba, x - at) = drive[Place(t) + x]
      <4>1. lba = Count(t) - 1 /\ Place(t) = 0
          BY Zenon, <2>1, <3>3, <3>5, LastSector
      <4>2. lba * S + (x - at) = Place(t) + x /\ x - at \in Int
        <5>1. lba * S = at /\ x \in Int
            BY <4>1
        <5> HIDE DEF lba, at
        <5> QED BY <2>2, <4>1, <5>1
      <4>3. Place(t) + x \in Cells
          BY Zenon, <2>1, <3>3, SectorsInSlice
      <4> HIDE DEF lba, at
      <4> QED BY Zenon, <2>1, <2>2, <4>2, <4>3, SectorBytes
    <3>6. ASSUME ~(tail /\ x >= at), Place(t) + x \notin Extent(t) PROVE io[t].buf[x] = drive[Place(t) + x]
      <4>1. x \in 0..(S - 1) /\ NeedsFirst(t)
          BY Zenon, <2>1, <3>3, <3>6, AroundRange
      <4> QED BY Zenon, <1>1, <3>3, <4>1 DEF FirstIsRead
    <3> HIDE DEF b, lba, at, tail
    <3> QED BY Zenon, <3>4, <3>5, <3>6
  <2> HIDE DEF b
  <2> QED BY Zenon, <1>1, <1>3, <2>3, <2>5, <2>6, Filled
<1> QED BY Zenon, <1>2, <1>3 DEF ReadLast, Place

-----------------------------------------------------------------------------
(* An access *)

Moved(t, k, x) == io[t].done * S <= x /\ x < (io[t].done + k) * S

Stored(t, k) == [c \in Cells |-> IF Moved(t, k, c - Place(t)) THEN io[t].buf[c - Place(t)] ELSE drive[c]]

Buffer(t, k) ==
    [x \in DOMAIN io[t].buf |->
        IF io[t].op = "read" /\ Moved(t, k, x) THEN SectorByte(FirstSector(t), x) ELSE io[t].buf[x]]

\* An access moves k sectors; then d sectors are done, and the call returns r if it is over.
AccessBy(t, k, d, r, p) ==
    /\ k \in 0..(Count(t) - io[t].done) /\ d \in {io[t].done, io[t].done + k}
    /\ p \in {"access", "returned"}
    /\ p = "access" => r = 0
    /\ p = "returned" => r = Returned(io[t].address, io[t].amount, d)
    /\ Becomes(t, d, r, p, Buffer(t, k))
    /\ drive' = IF io[t].op = "write" THEN Stored(t, k) ELSE drive
    /\ met' = (met \/ Shares(t)) /\ faults' \in Nat

(* Access is that, whether it succeeds or not. *)
LEMMA AccessForm ==
    ASSUME Types, NEW t \in Users, Access(t)
    PROVE  \E k, d, r, p : AccessBy(t, k, d, r, p)
<1> DEFINE done == io[t].done
           rest == Count(t) - done
           n == IF rest > MaxAccess THEN MaxAccess ELSE rest
           p == IF n = rest THEN "returned" ELSE "access"
           ret(d) == Returned(io[t].address, io[t].amount, d)
           r == IF n = rest THEN ret(done + n) ELSE 0
<1>1. io[t].pc # "idle" /\ met' = (met \/ Shares(t))
    BY Zenon DEF Access
<1>2. Placed(t)
    BY Zenon, <1>1, CallsArePlaced
<1>3. done \in 0..Count(t) /\ Count(t) \in Nat /\ io[t] \in CallOf(io[t].address, io[t].amount)
  <2>1. done \in 0..Count(t) /\ Count(t) \in Nat \ {0} /\ io[t] \in CallOf(io[t].address, io[t].amount)
      BY Zenon, <1>2 DEF Placed, PlacedCall
  <2> QED BY Zenon, <2>1
<1>4. n \in 0..rest /\ \A k \in 0..n : k \in 0..rest
    BY <1>3, SliceAssumption
<1> HIDE DEF n
<1>5. CASE /\ (IF io[t].op = "write" THEN drive' = Stored(t, n) ELSE drive' = drive)
           /\ io' = [io EXCEPT ![t].done = done + n, ![t].buf = Buffer(t, n), ![t].pc = p, ![t].ret = r]
           /\ faults' = faults
  <2>1. Becomes(t, done + n, r, p, Buffer(t, n))
    <3> HIDE DEF p, r
    <3>1. io' = [io EXCEPT ![t] = [io[t] EXCEPT !.done = done + n, !.buf = Buffer(t, n), !.pc = p, !.ret = r]]
        BY Zenon, <1>5 DEF Types
    <3>2. [io[t] EXCEPT !.done = done + n, !.buf = Buffer(t, n), !.pc = p, !.ret = r] =
             [io[t] EXCEPT !.done = done + n, !.ret = r, !.pc = p, !.buf = Buffer(t, n)]
        BY Zenon, <1>3 DEF CallOf
    <3> QED BY Zenon, <3>1, <3>2 DEF Becomes
  <2>2. AccessBy(t, n, done + n, r, p)
      BY Zenon, <1>1, <1>4, <1>5, <2>1 DEF AccessBy, Types
  <2> QED BY Zenon, <2>2
<1>6. CASE /\ Fault
           /\ \E k \in 0..n : /\ IF io[t].op = "write" THEN drive' = Stored(t, k) ELSE drive' = drive
                              /\ io' = [io EXCEPT ![t].buf = Buffer(t, k), ![t].pc = "returned", ![t].ret = ret(done)]
  <2>1. PICK k \in 0..n :
             /\ IF io[t].op = "write" THEN drive' = Stored(t, k) ELSE drive' = drive
             /\ io' = [io EXCEPT ![t].buf = Buffer(t, k), ![t].pc = "returned", ![t].ret = ret(done)]
      BY Zenon, <1>6
  <2>2. Becomes(t, done, ret(done), "returned", Buffer(t, k))
    <3> HIDE DEF ret
    <3>1. io' = [io EXCEPT ![t] = [io[t] EXCEPT !.buf = Buffer(t, k), !.pc = "returned", !.ret = ret(done)]]
        BY Zenon, <2>1 DEF Types
    <3>2. [io[t] EXCEPT !.buf = Buffer(t, k), !.pc = "returned", !.ret = ret(done)] =
             [io[t] EXCEPT !.done = done, !.ret = ret(done), !.pc = "returned", !.buf = Buffer(t, k)]
        BY Zenon, <1>3 DEF CallOf
    <3> QED BY Zenon, <3>1, <3>2 DEF Becomes
  <2>3. faults' \in Nat
      BY <1>6 DEF Fault, Types
  <2>4. AccessBy(t, k, done, ret(done), "returned")
      BY Zenon, <1>1, <1>4, <2>1, <2>2, <2>3 DEF AccessBy
  <2> QED BY Zenon, <2>4
<1> QED BY Zenon, <1>5, <1>6 DEF Access, Stored, Buffer, Moved, Place, n

(* What is moved is in the buffer, and done or not done before it is moved. *)
LEMMA MovedBytes ==
    ASSUME NEW t \in Users, Placed(t), NEW k \in 0..(Count(t) - io[t].done), NEW d \in {io[t].done, io[t].done + k},
           NEW x \in Int
    PROVE  /\ Moved(t, k, x) => x \in 0..(Count(t) * S - 1)
           /\ d \in 0..Count(t)
           /\ x < d * S => x < io[t].done * S \/ Moved(t, k, x)
           /\ x < io[t].done * S => ~Moved(t, k, x)
<1> DEFINE done == io[t].done
           n == Count(t)
           a == done * S
           b == (done + k) * S
           c == n * S
<1>1. S \in Nat \ {0} /\ done \in 0..n /\ n \in Nat
  <2>1. done \in 0..n /\ n \in Nat \ {0}
      BY Zenon DEF Placed
  <2> QED BY <2>1, SliceAssumption
<1>2. k \in 0..(n - done) /\ d \in {done, done + k}
    OBVIOUS
<1> HIDE DEF done, n
<1>3. a \in Nat /\ b \in Nat /\ c \in Nat /\ d * S \in {a, b} /\ d \in 0..n
    BY <1>1, <1>2
<1>4. b <= c
  <2>1. done + k < n => (done + k) * S + S <= n * S
      BY <1>1, <1>2, SectorsGrow
  <2>2. done + k = n => b = c
      OBVIOUS
  <2>3. done + k < n \/ done + k = n
      BY <1>1, <1>2
  <2> QED BY <1>1, <1>3, <2>1, <2>2, <2>3
<1>5. Moved(t, k, x) <=> a <= x /\ x < b
    BY Zenon DEF Moved, done
<1> DEFINE e == d * S
<1> HIDE DEF a, b, c, e
<1>6. /\ Moved(t, k, x) => x \in 0..(c - 1)
      /\ e \in {a, b} /\ (x < e => x < a \/ Moved(t, k, x))
      /\ x < a => ~Moved(t, k, x)
    BY <1>3, <1>4, <1>5 DEF e
<1> QED BY Zenon, <1>3, <1>6 DEF a, c, e, done, n

(* The sector of a byte of the buffer is one of the call's. *)
LEMMA SectorOfByte ==
    ASSUME NEW t \in Users, Placed(t), NEW x \in 0..(Count(t) * S - 1)
    PROVE  (Place(t) + x) \div S \in SectorsOf(t)
<1> DEFINE f == FirstSector(t)
           n == Count(t)
           q == x \div S
           r == x % S
<1>1. S \in Nat \ {0} /\ f \in Nat /\ n \in Nat
  <2>1. f \in Nat /\ n \in Nat \ {0}
      BY Zenon DEF Placed
  <2> QED BY <2>1, SliceAssumption
<1>2. x \in Nat /\ x < n * S /\ n * S \in Nat
    BY <1>1
<1>3. q \in Nat /\ r \in 0..(S - 1) /\ x = q * S + r
    BY Zenon, <1>1, <1>2, Divided
<1> HIDE DEF f, n, q, r
<1>4. q < n
  <2>1. n < q => n * S + S <= q * S
      BY <1>1, <1>3, SectorsGrow
  <2>2. n = q => n * S = q * S
      OBVIOUS
  <2>3. q * S \in Nat
      BY <1>1, <1>3
  <2> QED BY <1>1, <1>2, <1>3, <2>1, <2>2, <2>3
<1>5. f * S + x = (f + q) * S + r /\ f + q \in Nat
    BY <1>1, <1>3
<1>6. (f * S + x) \div S = f + q
    BY Zenon, <1>1, <1>3, <1>5, DividedUnique
<1>7. f + q \in f..(f + n - 1)
    BY <1>1, <1>3, <1>4
<1> QED BY Zenon, <1>6, <1>7 DEF f, n, Place, SectorsOf

(* What a call returns is no more than it has done. *)
LEMMA ReturnedIsDone ==
    ASSUME NEW a \in Nat, NEW n \in Nat \ {0}, NEW d \in Nat
    PROVE  /\ Returned(a, n, d) \in Nat
           /\ ~(d = 0 /\ a % S # 0) =>
                 /\ Returned(a, n, d) <= n
                 /\ Returned(a, n, d) = 0 \/ (a % S) + Returned(a, n, d) <= d * S
<1> DEFINE r == a % S
           e == d * S
<1>1. S \in Nat \ {0} /\ r \in 0..(S - 1)
    BY Divided, SliceAssumption
<1>2. e \in Nat /\ (d = 0 => e = 0) /\ (d # 0 => e >= S)
  <2>1. 0 < d => 0 * S + S <= d * S
      BY <1>1, SectorsGrow
  <2> QED BY <1>1, <2>1
<1>3. Returned(a, n, d) = IF e - r < 0 \/ e - r > n THEN n ELSE e - r
    BY Zenon DEF Returned
<1> HIDE DEF r, e
<1>4. /\ Returned(a, n, d) \in Nat
      /\ ~(d = 0 /\ r # 0) => Returned(a, n, d) <= n /\ (Returned(a, n, d) = 0 \/ r + Returned(a, n, d) <= e)
    BY <1>1, <1>2, <1>3
<1> QED BY Zenon, <1>4 DEF r, e

(* The fields of a call after an access. *)
LEMMA AccessFields ==
    ASSUME Types, NEW t \in Users, io[t].pc = "access", NEW k, NEW d, NEW r, NEW p, AccessBy(t, k, d, r, p)
    PROVE  /\ StepOf(t) /\ SameCall(t) /\ SamePlace(t) /\ Fields(t, d, r, p, Buffer(t, k))
           /\ Placed(t) /\ d \in Nat /\ r \in Nat
<1>1. io[t].pc # "idle"
    BY Zenon
<1>2. Placed(t)
    BY Zenon, <1>1, CallsArePlaced
<1>3. k \in 0..(Count(t) - io[t].done) /\ d \in {io[t].done, io[t].done + k} /\ Becomes(t, d, r, p, Buffer(t, k))
    BY Zenon DEF AccessBy
<1>4. d \in 0..Count(t)
  <2>1. 0 \in Int
      OBVIOUS
  <2> QED BY Zenon, <1>2, <1>3, <2>1, MovedBytes
<1>5. d \in Nat /\ r \in Nat
  <2>1. d \in Nat
      BY <1>4
  <2>2. io[t].address \in Nat /\ io[t].amount \in Nat \ {0}
      BY Zenon, <1>2 DEF Placed
  <2>3. Returned(io[t].address, io[t].amount, d) \in Nat /\ 0 \in Nat
    <3>1. 0 \in Nat
        OBVIOUS
    <3> QED BY Zenon, <2>1, <2>2, <3>1, ReturnedIsDone
  <2> QED BY Zenon, <2>1, <2>3 DEF AccessBy
<1>6. Buffer(t, k) \in [0..(Count(t) * S - 1) -> Int]
  <2>1. \A x \in 0..(Count(t) * S - 1) : x \in Int
      OBVIOUS
  <2>2. FirstSector(t) \in Int
    <3>1. FirstSector(t) \in Nat
        BY Zenon, <1>2 DEF Placed
    <3> QED BY <3>1
  <2>3. \A x \in 0..(Count(t) * S - 1) : SectorByte(FirstSector(t), x) \in Int /\ io[t].buf[x] \in Int
      BY Zenon, <1>2, <2>1, <2>2, SectorBytes DEF Placed
  <2>4. DOMAIN io[t].buf = 0..(Count(t) * S - 1)
      BY Zenon, <1>2 DEF Placed
  <2> QED BY Zenon, <2>3, <2>4 DEF Buffer
<1>7. p \in {"first", "last", "access", "returned"}
    BY Zenon DEF AccessBy
<1>8. met => met'
    BY Zenon DEF AccessBy
<1> QED BY Zenon, <1>1, <1>2, <1>3, <1>4, <1>5, <1>6, <1>7, <1>8, NewFields

(* What an access does to the drive. *)
LEMMA AccessOnDrive ==
    ASSUME Types, NEW t \in Users, io[t].pc = "access", Placed(t), NEW k, NEW d, NEW r, NEW p, AccessBy(t, k, d, r, p)
    PROVE  /\ drive' \in [Cells -> Int]
           /\ io[t].op # "write" => drive' = drive
           /\ \A c \in Cells : ~Moved(t, k, c - Place(t)) => drive'[c] = drive[c]
           /\ \A c \in Cells : io[t].op = "write" /\ Moved(t, k, c - Place(t)) =>
                 drive'[c] = io[t].buf[c - Place(t)] /\ c - Place(t) \in DOMAIN io[t].buf
<1>1. \A c \in Cells : Moved(t, k, c - Place(t)) => c - Place(t) \in 0..(Count(t) * S - 1)
  <2>1. SUFFICES ASSUME NEW c \in Cells PROVE Moved(t, k, c - Place(t)) => c - Place(t) \in 0..(Count(t) * S - 1)
      BY Zenon
  <2>2. c - Place(t) \in Int
    <3>1. Place(t) \in Nat
        BY Zenon DEF Placed
    <3> HIDE DEF Place
    <3> QED BY <3>1 DEF Cells
  <2>3. k \in 0..(Count(t) - io[t].done) /\ d \in {io[t].done, io[t].done + k}
      BY Zenon DEF AccessBy
  <2> QED BY Zenon, <2>2, <2>3, MovedBytes
<1>2. DOMAIN io[t].buf = 0..(Count(t) * S - 1) /\ \A x \in DOMAIN io[t].buf : io[t].buf[x] \in Int
    BY Zenon DEF Placed
<1>3. Stored(t, k) \in [Cells -> Int]
    BY Zenon, <1>1, <1>2 DEF Stored, Types
<1>4. drive' = IF io[t].op = "write" THEN Stored(t, k) ELSE drive
    BY Zenon DEF AccessBy
<1>5. drive' \in [Cells -> Int] /\ (io[t].op # "write" => drive' = drive)
    BY Zenon, <1>3, <1>4 DEF Types
<1>6. \A c \in Cells : Stored(t, k)[c] = IF Moved(t, k, c - Place(t)) THEN io[t].buf[c - Place(t)] ELSE drive[c]
    BY Zenon DEF Stored
<1> QED BY Zenon, <1>1, <1>2, <1>4, <1>5, <1>6

(***************************************************************************)
(* No other write is under way in the sectors of this one, so an access    *)
(* leaves theirs alone.                                                    *)
(***************************************************************************)
LEMMA AccessSpares ==
    ASSUME IInv, NEW t \in Users, io[t].pc = "access", Placed(t), NEW k, NEW d, NEW r, NEW p, AccessBy(t, k, d, r, p),
           StepOf(t), Orderly'
    PROVE  Spares(t)
<1>1. Types /\ Orderly
    BY Zenon, OrderlyBefore DEF IInv
<1>2. SUFFICES ASSUME NEW u \in Writers \ {t}, io[u].pc \in {"first", "last", "access"},
                      NEW x \in 0..(Count(u) * S - 1)
               PROVE  drive'[Place(u) + x] = drive[Place(u) + x]
    BY Zenon DEF Spares
<1>3. u \in Users /\ u # t /\ io[u].op = "write" /\ io[u].pc # "idle"
    BY Zenon, <1>2 DEF Writers
<1>4. Placed(u) /\ Fits(u)
    BY Zenon, <1>1, <1>2, <1>3, CallsArePlaced DEF Orderly, Exact
<1>5. Place(u) + x \in Cells /\ (Place(u) + x) \div S \in SectorsOf(u)
    BY Zenon, <1>3, <1>4, SectorsInSlice, SectorOfByte
<1>6. CASE io[t].op # "write"
    BY Zenon, <1>1, <1>6, AccessOnDrive
<1>7. CASE io[t].op = "write"
  <2>1. SectorsOf(u) \cap SectorsOf(t) = {}
    <3>1. ~Shares(t)
        BY Zenon DEF Orderly, AccessBy
    <3> QED BY Zenon, <1>2, <1>3, <1>7, <3>1 DEF Shares
  <2>2. ~Moved(t, k, (Place(u) + x) - Place(t))
    <3> DEFINE y == (Place(u) + x) - Place(t)
    <3>1. SUFFICES ASSUME Moved(t, k, y) PROVE FALSE
        OBVIOUS
    <3>2. y \in Int /\ Place(t) + y = Place(u) + x
      <4>1. Place(u) \in Nat /\ Place(t) \in Nat
          BY Zenon, <1>4 DEF Placed
      <4> HIDE DEF Place
      <4> QED BY <4>1
    <3> HIDE DEF y
    <3>3. y \in 0..(Count(t) * S - 1)
        BY Zenon, <3>1, <3>2, MovedBytes DEF AccessBy
    <3>4. (Place(u) + x) \div S \in SectorsOf(t)
        BY Zenon, <3>2, <3>3, SectorOfByte
    <3> QED BY Zenon, <1>5, <2>1, <3>4
  <2>3. \A c \in Cells : ~Moved(t, k, c - Place(t)) => drive'[c] = drive[c]
      BY Zenon, <1>1, AccessOnDrive
  <2> QED BY Zenon, <1>5, <2>2, <2>3
<1> QED BY Zenon, <1>6, <1>7

(* The accesses of a write store its data in its range, and leave the rest. *)
LEMMA AccessStores ==
    ASSUME IInv, NEW t \in Users, io[t].pc = "access", io[t].op = "write", Placed(t), NEW k, NEW d, NEW r, NEW p,
           AccessBy(t, k, d, r, p), Orderly
    PROVE  /\ \A c \in Cells : drive'[c] = drive[c] \/ (c \in Extent(t) /\ drive'[c] = Data(c))
           /\ \A c \in Extent(t) : Moved(t, k, c - Place(t)) => drive'[c] = Data(c)
<1>1. t \in Writers /\ Prepared(t) /\ Types
    BY Zenon DEF IInv, BuffersAreRight, Writers
<1>2. \A c \in Cells : Moved(t, k, c - Place(t)) => drive'[c] = IF c \in Extent(t) THEN Data(c) ELSE drive[c]
  <2>1. SUFFICES ASSUME NEW c \in Cells, Moved(t, k, c - Place(t))
                 PROVE  drive'[c] = IF c \in Extent(t) THEN Data(c) ELSE drive[c]
      BY Zenon
  <2>2. drive'[c] = io[t].buf[c - Place(t)] /\ c - Place(t) \in DOMAIN io[t].buf
      BY Zenon, <1>1, <2>1, AccessOnDrive
  <2>3. Place(t) + (c - Place(t)) = c
    <3>1. Place(t) \in Nat
        BY Zenon DEF Placed
    <3> HIDE DEF Place
    <3> QED BY <3>1 DEF Cells
  <2> QED BY Zenon, <1>1, <2>2, <2>3 DEF Prepared
<1>3. \A c \in Cells : ~Moved(t, k, c - Place(t)) => drive'[c] = drive[c]
    BY Zenon, <1>1, AccessOnDrive
<1>4. \A c \in Extent(t) : c \in Cells
    BY Zenon, RangeInSlice
<1> QED BY Zenon, <1>2, <1>3, <1>4

(* The sectors that are done have their data after an access. *)
LEMMA AccessWritten ==
    ASSUME IInv, NEW t \in Users, io[t].pc = "access", io[t].op = "write", Placed(t), NEW k, NEW d, NEW r, NEW p,
           AccessBy(t, k, d, r, p), Orderly, SamePlace(t), Fields(t, d, r, p, Buffer(t, k))
    PROVE  Prepared(t)' /\ Written(t)'
<1>1. t \in Writers /\ Prepared(t) /\ Written(t) /\ Types
    BY Zenon DEF IInv, BuffersAreRight, Writers
<1>2. /\ \A c \in Cells : drive'[c] = drive[c] \/ (c \in Extent(t) /\ drive'[c] = Data(c))
      /\ \A c \in Extent(t) : Moved(t, k, c - Place(t)) => drive'[c] = Data(c)
    BY Zenon, AccessStores
<1>3. Prepared(t)'
  <2>1. DOMAIN Buffer(t, k) = DOMAIN io[t].buf /\ \A x \in DOMAIN io[t].buf : Buffer(t, k)[x] = io[t].buf[x]
      BY Zenon DEF Buffer
  <2>2. SUFFICES ASSUME NEW x \in DOMAIN io[t].buf
                 PROVE  io[t].buf[x] = IF Place(t) + x \in Extent(t) THEN Data(Place(t) + x) ELSE drive'[Place(t) + x]
      BY Zenon, <2>1 DEF Prepared, SamePlace, Fields
  <2>3. io[t].buf[x] = IF Place(t) + x \in Extent(t) THEN Data(Place(t) + x) ELSE drive[Place(t) + x]
      BY Zenon, <1>1 DEF Prepared
  <2>4. Place(t) + x \in Cells
    <3>1. Fits(t) /\ x \in 0..(Count(t) * S - 1)
        BY Zenon, <1>1, CallsArePlaced DEF Orderly, Exact, Placed
    <3> QED BY Zenon, <3>1, SectorsInSlice
  <2> QED BY Zenon, <1>2, <2>3, <2>4
<1>4. Written(t)'
  <2>1. SUFFICES ASSUME NEW c \in Extent(t), c < Place(t) + d * S PROVE drive'[c] = Data(c)
      BY Zenon DEF Written, SamePlace, Fields
  <2>2. c \in Cells /\ c \in Nat /\ Place(t) \in Nat
      BY Zenon, RangeInSlice DEF Placed
  <2>3. k \in 0..(Count(t) - io[t].done) /\ d \in {io[t].done, io[t].done + k} /\ d \in Nat /\ io[t].done \in Nat
    <3>1. k \in 0..(Count(t) - io[t].done) /\ d \in {io[t].done, io[t].done + k} /\ io[t].done \in 0..Count(t)
        BY Zenon DEF AccessBy, Placed
    <3>2. d \in Nat /\ io[t].done \in Nat
        BY <3>1
    <3> QED BY Zenon, <3>1, <3>2
  <2> DEFINE y == c - Place(t)
             e == d * S
             f == io[t].done * S
  <2>4. e \in Nat /\ f \in Nat
      BY <2>3, SliceAssumption
  <2>5. y \in Int /\ y < e
    <3> HIDE DEF Place, e
    <3> QED BY <2>1, <2>2, <2>4 DEF e
  <2>6. y < f \/ Moved(t, k, y)
      BY Zenon, <2>3, <2>5, MovedBytes
  <2>7. CASE y < f
    <3>1. c < Place(t) + f
      <4> HIDE DEF Place, f
      <4> QED BY <2>2, <2>4, <2>7
    <3>2. drive[c] = Data(c)
        BY Zenon, <1>1, <3>1 DEF Written
    <3> QED BY Zenon, <1>2, <2>2, <3>2
  <2>8. CASE Moved(t, k, y)
      BY Zenon, <1>2, <2>8
  <2> QED BY Zenon, <2>6, <2>7, <2>8
<1> QED BY Zenon, <1>3, <1>4

(* The sectors that a read has done are in its buffer after an access. *)
LEMMA AccessLoaded ==
    ASSUME IInv, NEW t \in Users, io[t].pc = "access", io[t].op = "read", Placed(t), NEW k, NEW d, NEW r, NEW p,
           AccessBy(t, k, d, r, p), Orderly, SamePlace(t), Fields(t, d, r, p, Buffer(t, k))
    PROVE  Loaded(t)'
<1>1. Loaded(t) /\ Types /\ WritesStayInRange
    BY Zenon DEF IInv, BuffersAreRight
<1>2. DOMAIN Buffer(t, k) = DOMAIN io[t].buf /\ DOMAIN io[t].buf = 0..(Count(t) * S - 1)
    BY Zenon DEF Buffer, Placed
<1>3. SUFFICES ASSUME NEW x \in DOMAIN io[t].buf, x < d * S, Place(t) + x \in Cells
               PROVE  Buffer(t, k)[x] \in {Place(t) + x, Data(Place(t) + x)}
    BY Zenon, <1>2 DEF Loaded, SamePlace, Fields, Cells
<1>4. x \in Int
  <2>1. x \in 0..(Count(t) * S - 1)
      BY Zenon, <1>2
  <2> QED BY <2>1
<1>5. (x < io[t].done * S /\ ~Moved(t, k, x)) \/ Moved(t, k, x)
    BY Zenon, <1>3, <1>4, MovedBytes DEF AccessBy
<1>6. CASE x < io[t].done * S /\ ~Moved(t, k, x)
  <2>1. Buffer(t, k)[x] = io[t].buf[x]
      BY Zenon, <1>6 DEF Buffer
  <2> QED BY Zenon, <1>1, <1>3, <1>6, <2>1 DEF Loaded
<1>7. CASE Moved(t, k, x)
  <2>1. Buffer(t, k)[x] = SectorByte(FirstSector(t), x)
      BY Zenon, <1>7 DEF Buffer
  <2>2. FirstSector(t) \in Int
    <3>1. FirstSector(t) \in Nat
        BY Zenon DEF Placed
    <3> QED BY <3>1
  <2>3. SectorByte(FirstSector(t), x) = drive[Place(t) + x]
      BY Zenon, <1>1, <1>3, <1>4, <2>2, SectorBytes DEF Place
  <2>4. drive[Place(t) + x] \in {Place(t) + x, Data(Place(t) + x)}
      BY Zenon, <1>1, <1>3 DEF WritesStayInRange
  <2> QED BY Zenon, <2>1, <2>3, <2>4
<1> QED BY Zenon, <1>5, <1>6, <1>7

(* An access. *)
LEMMA AccessSound ==
    ASSUME IInv, NEW t \in Users, Access(t)
    PROVE  Sound(t)
<1>1. Types /\ io[t].pc = "access"
    BY Zenon DEF IInv, Access
<1>2. PICK k, d, r, p : AccessBy(t, k, d, r, p)
    BY Zenon, <1>1, AccessForm
<1>3. /\ StepOf(t) /\ SameCall(t) /\ SamePlace(t) /\ Fields(t, d, r, p, Buffer(t, k))
      /\ Placed(t) /\ d \in Nat /\ r \in Nat
    BY Zenon, <1>1, <1>2, AccessFields
<1>4. drive' \in [Cells -> Int] /\ (io[t].op # "write" => drive' = drive)
    BY Zenon, <1>1, <1>2, <1>3, AccessOnDrive
<1>5. faults' \in Nat /\ met' \in BOOLEAN
    BY Zenon, <1>2 DEF AccessBy
<1>6. ASSUME Orderly' PROVE Changes(t) /\ Spares(t) /\ Own(t)'
  <2>1. Orderly
      BY Zenon, <1>3, <1>6, OrderlyBefore
  <2>2. Spares(t)
      BY Zenon, <1>1, <1>2, <1>3, <1>6, AccessSpares
  <2>3. CASE io[t].op = "write"
    <3>1. t \in Writers
        BY Zenon, <1>1, <2>3 DEF Writers
    <3>2. Changes(t)
        BY Zenon, <1>1, <1>2, <1>3, <2>1, <2>3, <3>1, AccessStores DEF Changes
    <3>3. Prepared(t)' /\ Written(t)'
        BY Zenon, <1>1, <1>2, <1>3, <2>1, <2>3, AccessWritten
    <3>4. FirstIsRead(t)'
        BY Zenon, <1>2, <1>3 DEF FirstIsRead, Fields, AccessBy
    <3> QED BY Zenon, <1>3, <2>2, <2>3, <3>2, <3>3, <3>4 DEF Own, SameCall
  <2>4. CASE io[t].op # "write"
    <3>1. io[t].op = "read"
        BY Zenon, <1>3, <2>4 DEF Placed, PlacedCall, CallOf
    <3>2. Changes(t)
        BY Zenon, <1>4, <2>4 DEF Changes
    <3>3. Loaded(t)'
        BY Zenon, <1>1, <1>2, <1>3, <2>1, <3>1, AccessLoaded
    <3> QED BY Zenon, <1>3, <2>2, <2>4, <3>2, <3>3 DEF Own, SameCall, Writers
  <2> QED BY Zenon, <2>3, <2>4
<1>7. FitsPc(t)'
    BY Zenon, <1>2, <1>3 DEF FitsPc, Fields, AccessBy
<1>8. Told(t)'
  <2>1. p = "returned" => r = Returned(io[t].address, io[t].amount, d)
      BY Zenon, <1>2 DEF AccessBy
  <2>2. io[t].address \in Nat /\ io[t].amount \in Nat \ {0}
      BY Zenon, <1>3 DEF Placed
  <2>3. p = "returned" /\ ~(d = 0 /\ io[t].address % S # 0) =>
           r <= io[t].amount /\ (r = 0 \/ (io[t].address % S) + r <= d * S)
      BY Zenon, <1>3, <2>1, <2>2, ReturnedIsDone
  <2> QED BY Zenon, <1>3, <2>3 DEF Told, Fields, SameCall
<1> QED BY Zenon, <1>3, <1>4, <1>5, <1>6, <1>7, <1>8 DEF Sound

-----------------------------------------------------------------------------
(***************************************************************************)
(* The inductive invariant holds.                                          *)
(***************************************************************************)
LEMMA InitIInv == SliceInit => IInv
<1> SUFFICES ASSUME SliceInit PROVE IInv
    OBVIOUS
<1>1. \A t \in Users : io[t].pc = "idle"
    BY DEF SliceInit, NoCall
<1>2. Types
  <2>1. io \in [Users -> Calls]
      BY Zenon DEF SliceInit, Calls
  <2>2. drive \in [Cells -> Int]
      BY DEF SliceInit, Cells
  <2>3. faults \in Nat /\ met \in BOOLEAN
      BY Zenon, SliceAssumption DEF SliceInit
  <2> QED BY Zenon, <2>1, <2>2, <2>3 DEF Types
<1>3. Writers = {}
    BY Zenon, <1>1 DEF Writers
<1>4. WritesStayInRange
    BY Zenon DEF SliceInit, WritesStayInRange
<1>5. BuffersAreRight /\ PcFits /\ ReportsAreRight
    BY Zenon, <1>1, <1>3 DEF BuffersAreRight, PcFits, ReportsAreRight, Told
<1> QED BY Zenon, <1>2, <1>4, <1>5 DEF IInv

(* Every step keeps it. *)
LEMMA NextIInv == IInv /\ [SliceNext]_sliceVars => IInv'
<1> SUFFICES ASSUME IInv, [SliceNext]_sliceVars PROVE IInv'
    OBVIOUS
<1>1. CASE SliceNext
  <2>1. PICK t \in Users : \/ \E range \in Ranges, op \in {"read", "write"} : StartCall(t, op, range)
                           \/ ReadFirst(t) \/ ReadLast(t) \/ Access(t)
      BY Zenon, <1>1 DEF SliceNext
  <2>2. Sound(t)
      BY Zenon, <2>1, StartCallSound, ReadFirstSound, ReadLastSound, AccessSound
  <2> QED BY Zenon, <2>2, SoundKeeps
<1>2. CASE UNCHANGED sliceVars
  <2>1. drive' = drive /\ io' = io /\ faults' = faults /\ met' = met
      BY Zenon, <1>2 DEF sliceVars
  <2> QED BY <2>1 DEF IInv, Types, PcFits, WritesStayInRange, BuffersAreRight, ReportsAreRight, Told, Orderly,
             Writers, FirstIsRead, Prepared, Written, Loaded, Place, Extent, FirstSector, Count, NeedsFirst
<1> QED BY Zenon, <1>1, <1>2

(* The number of sectors is right for every range. *)
LEMMA CountsAreExact == SectorCountIsExact
<1>1. SUFFICES ASSUME NEW address \in 0..(4 * S), NEW amount \in 1..(4 * S)
               PROVE  SectorCount(S, address, amount) =
                         Spanned(S, address, amount) + (IF Overshoots(S, address, amount) THEN 1 ELSE 0)
    BY Zenon DEF SectorCountIsExact
<1>2. S \in Nat \ {0} /\ address \in Nat /\ amount \in Nat \ {0}
    BY SliceAssumption
<1> QED BY Zenon, <1>2, CountIsSpan

(* What is reported was transferred. *)
LEMMA ReportsFollow == IInv => ReportedIsTransferred
<1>1. SUFFICES ASSUME IInv, NEW t \in Users, io[t].pc = "returned", Orderly,
                      ~(io[t].done = 0 /\ io[t].address % S # 0),
                      NEW c \in io[t].address..(io[t].address + io[t].ret - 1)
               PROVE  IF io[t].op = "read" THEN io[t].buf[c - FirstSector(t) * S] \in {c, Data(c)}
                      ELSE drive[c] = Data(c)
    BY Zenon DEF ReportedIsTransferred
<1> DEFINE a == io[t].address
           n == io[t].amount
           ret == io[t].ret
           p == Place(t)
           e == io[t].done * S
<1>2. Types /\ Placed(t)
  <2>1. Types /\ io[t].pc # "idle"
      BY Zenon, <1>1 DEF IInv
  <2> QED BY Zenon, <2>1, CallsArePlaced
<1>3. /\ a \in Nat /\ n \in Nat \ {0} /\ ret \in Nat /\ p \in Nat /\ io[t].done \in 0..Count(t) /\ Count(t) \in Nat \ {0}
      /\ a = p + (a % S) /\ a % S \in 0..(S - 1) /\ p = FirstSector(t) * S
    BY Zenon, <1>2 DEF Placed, Place
<1>4. ret <= n /\ (ret = 0 \/ (a % S) + ret <= e)
    BY Zenon, <1>1 DEF IInv, ReportsAreRight, Told
<1>5. e \in Nat /\ S \in Nat \ {0}
    BY <1>3, SliceAssumption
<1>6. c \in a..(a + ret - 1)
    BY Zenon, <1>1
<1>7. c \in a..(a + n - 1) /\ c < p + e /\ c \in Int /\ c - p < e /\ p + (c - p) = c
  <2> HIDE DEF a, n, ret, p, e
  <2> QED BY <1>3, <1>4, <1>5, <1>6
<1>8. c \in Extent(t)
    BY Zenon, <1>7 DEF Extent
<1>9. CASE io[t].op = "read"
  <2>1. Loaded(t)
      BY Zenon, <1>1, <1>9 DEF IInv, BuffersAreRight
  <2>2. c - p \in DOMAIN io[t].buf /\ c \in Cells
      BY Zenon, <1>2, <1>8, RangeInSlice DEF Placed
  <2>3. io[t].buf[c - p] \in {p + (c - p), Data(p + (c - p))}
      BY Zenon, <1>7, <2>1, <2>2 DEF Loaded
  <2> QED BY Zenon, <1>3, <1>7, <1>9, <2>3
<1>10. CASE io[t].op # "read"
  <2>1. t \in Writers
      BY Zenon, <1>1, <1>2, <1>10 DEF Writers, Placed, PlacedCall, CallOf
  <2>2. Written(t)
      BY Zenon, <1>1, <2>1 DEF IInv, BuffersAreRight
  <2> QED BY Zenon, <1>7, <1>8, <1>10, <2>2 DEF Written
<1> QED BY Zenon, <1>9, <1>10

(***************************************************************************)
(* For any users, sector size, ranges of bytes inside of the slice and     *)
(* faults: the sectors of an access are those of its range, or one more in *)
(* the case that Overshoots names; writes change the bytes of their ranges *)
(* only, and what read and write report was transferred, unless writes met *)
(* in a sector or one took a sector that is not of its range.              *)
(***************************************************************************)
THEOREM SliceAccesses == SliceSpec => []AccessesAreExact
<1>1. IInv => AccessesAreExact
    BY Zenon, CountsAreExact, ReportsFollow DEF IInv, AccessesAreExact
<1> QED BY <1>1, InitIInv, NextIInv, PTL DEF SliceSpec
=============================================================================
