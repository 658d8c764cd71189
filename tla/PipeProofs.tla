----------------------------- MODULE PipeProofs -----------------------------
(***************************************************************************)
(* Proofs about Fifo, the circular buffer, for any size of it; then about  *)
(* Pipe, which is built on it, for any tasks, calls and size: who waits,   *)
(* the refinement of ByteStream, and what the calls return.                *)
(***************************************************************************)
EXTENDS Pipe, TLAPS

(* The cells hold elements of B, and no more than fit. *)
Fifos(B) ==
    {f \in [buf : [0..(BufSize - 1) -> B], head : Nat, tail : Nat] : CurrentSize(f) \in 0..BufSize}

-----------------------------------------------------------------------------
(* Remainders *)

(* A remainder is a cell of the buffer. *)
LEMMA ModRange ==
    ASSUME NEW N \in Nat \ {0}, NEW a \in Int
    PROVE  a % N \in 0..(N - 1) /\ a = N * (a \div N) + (a % N) /\ a \div N \in Int
OBVIOUS

(* The remainder is the only number of its range that differs by a multiple of N. *)
LEMMA ModUnique ==
    ASSUME NEW N \in Nat \ {0}, NEW q \in Int, NEW r \in 0..(N - 1)
    PROVE  (q * N + r) % N = r
BY SMTT(60)

(* Small numbers are their own remainder, those below zero the one above. *)
LEMMA ModSmall ==
    ASSUME NEW N \in Nat \ {0}, NEW r \in 0..(N - 1)
    PROVE  r % N = r /\ (r - N) % N = r
<1>1. 0 * N + r = r /\ (-1) * N + r = r - N
    OBVIOUS
<1>2. (0 * N + r) % N = r /\ ((-1) * N + r) % N = r
    BY ModUnique
<1> QED BY Zenon, <1>1, <1>2

(* A remainder may be taken before a sum. *)
LEMMA ModAdd ==
    ASSUME NEW N \in Nat \ {0}, NEW a \in Int, NEW b \in Int
    PROVE  ((a % N) + b) % N = (a + b) % N
<1> DEFINE q == a \div N
           c == (a % N) + b
           p == c \div N
           r == c % N
<1>1. a = N * q + (a % N) /\ q \in Int /\ a % N \in Int
    BY ModRange
<1>2. c = N * p + r /\ p \in Int /\ c \in Int /\ r \in 0..(N - 1)
  <2>1. c \in Int
      BY <1>1
  <2> QED BY Zenon, <2>1, ModRange
<1>3. a + b = N * q + c
    BY <1>1
<1>4. N * q + N * p = (q + p) * N
    BY <1>1, <1>2
<1>5. a + b = (q + p) * N + r
    BY <1>1, <1>2, <1>3, <1>4
<1>6. ((q + p) * N + r) % N = r
  <2> HIDE DEF q, c, p, r
  <2>1. q + p \in Int
      BY <1>1, <1>2
  <2> QED BY Zenon, <2>1, <1>2, ModUnique
<1> QED BY Zenon, <1>5, <1>6

-----------------------------------------------------------------------------
(* The buffer *)

(* Head and tail brought back into the buffer: the same distance, the same cells. *)
LEMMA WrapBoth ==
    ASSUME NEW N \in Nat \ {0}, NEW a \in Nat, NEW b \in Nat, b - a \in 0..N, b % N > a % N
    PROVE  /\ a % N \in 0..(N - 1) /\ b % N \in 0..(N - 1)
           /\ (b % N) - (a % N) = b - a
           /\ \A k \in Int : ((a % N) + k - 1) % N = (a + k - 1) % N
<1> DEFINE h == a % N
           t == b % N
           s == b - a
<1>1. h \in 0..(N - 1) /\ t \in 0..(N - 1)
    BY ModRange
<1>2. (h + s) % N = t
  <2>1. a + s = b /\ a \in Int /\ s \in Int
      OBVIOUS
  <2>2. (h + s) % N = (a + s) % N
      BY <2>1, ModAdd, Zenon
  <2> QED BY Zenon, <2>1, <2>2
<1>3. t - h = s
  <2> HIDE DEF h, t
  <2>1. CASE h + s < N
    <3>1. h + s \in 0..(N - 1)
        BY <2>1, <1>1
    <3>2. (h + s) % N = h + s
        BY Zenon, <3>1, ModSmall
    <3> QED BY <3>2, <1>1, <1>2
  <2>2. CASE ~(h + s < N)
    <3> DEFINE r == h + s - N
    <3>1. r \in 0..(N - 1) /\ h + s = 1 * N + r
        BY <2>2, <1>1
    <3>2. (1 * N + r) % N = r
        BY SMTT(60), <3>1, ModUnique
    <3>3. t = r
        BY Zenon, <3>1, <3>2, <1>2
    <3> QED BY <3>3, <1>1 DEF t, h
  <2> QED BY Zenon, <2>1, <2>2
<1>4. ASSUME NEW k \in Int PROVE (h + k - 1) % N = (a + k - 1) % N
  <2> DEFINE j == k - 1
  <2>1. h + k - 1 = h + j /\ a + k - 1 = a + j /\ j \in Int /\ a \in Int
      BY <1>1
  <2>2. (h + j) % N = (a + j) % N
      BY <2>1, ModAdd, Zenon
  <2> QED BY Zenon, <2>1, <2>2
<1> QED BY Zenon, <1>1, <1>3, <1>4

(* Normalising head and tail moves no byte. *)
LEMMA NormalisedKeeps ==
    ASSUME NEW B, NEW f \in Fifos(B)
    PROVE  /\ Normalised(f) \in Fifos(B)
           /\ CurrentSize(Normalised(f)) = CurrentSize(f)
           /\ Contents(Normalised(f)) = Contents(f)
<1> DEFINE N == BufSize
           h == f.head % N
           t == f.tail % N
           g == [f EXCEPT !.tail = t, !.head = h]
<1>0. N \in Nat \ {0} /\ f.head \in Nat /\ f.tail \in Nat /\ f.tail - f.head \in 0..N
    BY Zenon, BufSizeAssumption DEF Fifos, CurrentSize
<1>1. CASE ~(t > h)
    BY Zenon, <1>1 DEF Normalised
<1>2. CASE t > h
  <2>1. Normalised(f) = g
      BY Zenon, <1>2 DEF Normalised
  <2>2. /\ h \in 0..(N - 1) /\ t \in 0..(N - 1) /\ t - h = f.tail - f.head
        /\ \A k \in Int : (h + k - 1) % N = (f.head + k - 1) % N
    <3> DEFINE x == f.head
               y == f.tail
    <3>1. x \in Nat /\ y \in Nat /\ y - x \in 0..N /\ y % N > x % N
        BY Zenon, <1>0, <1>2
    <3> HIDE DEF x, y, N
    <3>2. /\ x % N \in 0..(N - 1) /\ y % N \in 0..(N - 1) /\ (y % N) - (x % N) = y - x
          /\ \A k \in Int : ((x % N) + k - 1) % N = (x + k - 1) % N
        BY ZenonT(60), <3>1, <1>0, WrapBoth
    <3> QED BY Zenon, <3>2 DEF x, y, N
  <2> HIDE DEF h, t
  <2>4. g.head = h /\ g.tail = t /\ g.buf = f.buf
      BY Zenon DEF Fifos
  <2>5. CurrentSize(g) = CurrentSize(f) /\ CurrentSize(f) \in 0..BufSize
      BY Zenon, <2>2, <2>4, <1>0 DEF CurrentSize
  <2>6. g \in Fifos(B)
    <3> DEFINE Cells == [0..(BufSize - 1) -> B]
    <3>1. f \in [buf : Cells, head : Nat, tail : Nat]
        BY Zenon DEF Fifos
    <3>2. h \in Nat /\ t \in Nat
        BY <2>2, <1>0
    <3>3. g \in [buf : Cells, head : Nat, tail : Nat]
      <4> HIDE DEF Cells
      <4> QED BY ZenonT(60), <3>1, <3>2
    <3> HIDE DEF g
    <3> QED BY Zenon, <3>3, <2>5 DEF Fifos
  <2>7. \A k \in 1..CurrentSize(f) : (g.head + k - 1) % N = (f.head + k - 1) % N
      BY <2>2, <2>4
  <2>8. Contents(g) = Contents(f)
      BY <2>4, <2>5, <2>7 DEF Contents
  <2> QED BY Zenon, <2>1, <2>5, <2>6, <2>8
<1> QED BY Zenon, <1>1, <1>2

(* The contents are a sequence, of the size that current_size returns. *)
LEMMA ContentsIsSeq ==
    ASSUME NEW B, NEW f \in Fifos(B)
    PROVE  Contents(f) \in Seq(B) /\ Len(Contents(f)) = CurrentSize(f) /\ CurrentSize(f) \in 0..BufSize
<1>1. /\ CurrentSize(f) \in 0..BufSize /\ BufSize \in Nat \ {0}
      /\ f.buf \in [0..(BufSize - 1) -> B] /\ f.head \in Nat /\ f.tail \in Nat
    BY Zenon, BufSizeAssumption DEF Fifos
<1>2. \A k \in 1..CurrentSize(f) : f.buf[(f.head + k - 1) % BufSize] \in B
  <2> SUFFICES ASSUME NEW k \in 1..CurrentSize(f) PROVE f.buf[(f.head + k - 1) % BufSize] \in B
      BY Zenon
  <2> DEFINE x == f.head + k - 1
  <2>1. x \in Int
      BY <1>1
  <2>2. x % BufSize \in 0..(BufSize - 1)
    <3> HIDE DEF x
    <3> QED BY ZenonT(60), <2>1, <1>1, ModRange
  <2> QED BY Zenon, <2>2, <1>1
<1>3. CurrentSize(f) \in Nat
    BY <1>1
<1> DEFINE m == CurrentSize(f)
           c == Contents(f)
<1>4. c \in [1..m -> B]
    BY Zenon, <1>2 DEF Contents
<1> HIDE DEF m, c
<1>5. c \in Seq(B) /\ Len(c) = m
  <2>1. m \in Nat
      BY Zenon, <1>3 DEF m
  <2>2. c \in Seq(B)
      BY <2>1, <1>4, SMT
  <2>3. Len(c) = m
      BY <2>1, <1>4, <2>2, SMT
  <2> QED BY Zenon, <2>2, <2>3
<1> QED BY Zenon, <1>1, <1>5 DEF m, c

(* pop removes bytes from the front, if there are so many. *)
THEOREM PopContents ==
    ASSUME NEW B, NEW f \in Fifos(B), NEW n \in 0..CurrentSize(f)
    PROVE  /\ Pop(f, n) \in Fifos(B)
           /\ CurrentSize(Pop(f, n)) = CurrentSize(f) - n
           /\ Contents(Pop(f, n)) = SubSeq(Contents(f), n + 1, Len(Contents(f)))
<1> DEFINE p == [f EXCEPT !.head = @ + n]
           Cells == [0..(BufSize - 1) -> B]
<1>1. /\ f \in [buf : Cells, head : Nat, tail : Nat] /\ CurrentSize(f) \in 0..BufSize
      /\ BufSize \in Nat \ {0} /\ n \in Nat /\ n <= CurrentSize(f)
    BY BufSizeAssumption DEF Fifos
<1> HIDE DEF Cells
<1>2. /\ p \in [buf : Cells, head : Nat, tail : Nat]
      /\ p.head = f.head + n /\ p.tail = f.tail /\ p.buf = f.buf
    BY <1>1
<1>3. CurrentSize(p) = CurrentSize(f) - n /\ CurrentSize(p) \in 0..BufSize
    BY <1>1, <1>2 DEF CurrentSize
<1>4. p \in Fifos(B)
    BY ZenonT(60), <1>2, <1>3 DEF Fifos, Cells
<1>5. Pop(f, n) = Normalised(p)
    BY <1>1 DEF Pop
<1>6. Contents(p) = SubSeq(Contents(f), n + 1, Len(Contents(f)))
  <2>1. \A k \in 1..(CurrentSize(f) - n) : p.head + k - 1 = f.head + (n + k) - 1
      BY <1>1, <1>2
  <2>2. \A k \in 1..(CurrentSize(f) - n) : n + k \in 1..CurrentSize(f)
      BY <1>1
  <2>3. Contents(p) = [k \in 1..(CurrentSize(f) - n) |-> f.buf[(f.head + (n + k) - 1) % BufSize]]
      BY Zenon, <2>1, <1>2, <1>3 DEF Contents
  <2>4. \A k \in 1..(CurrentSize(f) - n) :
           Contents(f)[n + k] = f.buf[(f.head + (n + k) - 1) % BufSize]
      BY Zenon, <2>2 DEF Contents
  <2>5. Contents(f) \in Seq(B) /\ Len(Contents(f)) = CurrentSize(f)
      BY Zenon, ContentsIsSeq
  <2> DEFINE c == Contents(f)
             m == CurrentSize(f)
  <2>6. SubSeq(c, n + 1, m) = [k \in 1..(m - n) |-> c[n + k]]
    <3>1. m \in Nat
        BY <1>1
    <3> HIDE DEF c, m
    <3>2. SubSeq(c, n + 1, m) = [k \in 1..(m - (n + 1) + 1) |-> c[(n + 1) + k - 1]]
        BY <3>1, <1>1, <2>5 DEF SubSeq
    <3> QED BY <3>1, <3>2, <1>1
  <2> QED BY ZenonT(60), <2>3, <2>4, <2>5, <2>6
<1> QED BY ZenonT(60), <1>3, <1>4, <1>5, <1>6, NormalisedKeeps

(* The k-th byte after a push to a buffer that had size bytes: the new bytes are at distance *)
(* 0, 1, ... of the old tail, and the ones kept behind them.                                 *)
LEMMA PlaceOfByte ==
    ASSUME NEW N \in Nat \ {0}, NEW h \in Nat, NEW size \in 0..N, NEW k \in 1..N
    PROVE  /\ (h + k - 1) % N \in 0..(N - 1)
           /\ k <= size => (((h + k - 1) % N) - (h + size)) % N = N + k - 1 - size
           /\ ~(k <= size) => (((h + k - 1) % N) - (h + size)) % N = k - 1 - size
<1> DEFINE a == h + k - 1
           b == -(h + size)
           x == k - 1 - size
<1>1. a \in Int /\ b \in Int /\ x \in Int
    OBVIOUS
<1>2. a + b = x
    OBVIOUS
<1>3. k <= size => x + N \in 0..(N - 1) /\ x = (x + N) - N
    OBVIOUS
<1>4. ~(k <= size) => x \in 0..(N - 1)
    OBVIOUS
<1>5. a % N \in 0..(N - 1)
  <2> HIDE DEF a
  <2> QED BY Zenon, <1>1, ModRange
<1>6. ((a % N) + b) % N = x % N
  <2> HIDE DEF a, b
  <2>1. ((a % N) + b) % N = (a + b) % N
      BY <1>1, ModAdd, Zenon
  <2> QED BY Zenon, <2>1, <1>2
<1>7. k <= size => x % N = x + N
  <2> DEFINE r == x + N
  <2> HIDE DEF x
  <2>1. k <= size => r \in 0..(N - 1) /\ x = r - N
      BY Zenon, <1>3
  <2> HIDE DEF r
  <2>2. k <= size => (r - N) % N = r
      BY Zenon, <2>1, ModSmall
  <2>3. k <= size => x % N = r
      BY <2>1, <2>2, Zenon
  <2> QED BY Zenon, <2>3 DEF r
<1>8. ~(k <= size) => x % N = x
  <2> HIDE DEF x
  <2> QED BY Zenon, <1>4, ModSmall
<1>9. (a % N) + b = ((h + k - 1) % N) - (h + size)
    BY Zenon, <1>5
<1>10. x + N = N + k - 1 - size
    OBVIOUS
<1> HIDE DEF b
<1> QED BY <1>5, <1>6, <1>7, <1>8, <1>9, <1>10, Zenon

(* Two sequences in a row. *)
LEMMA ConcatIs ==
    ASSUME NEW B, NEW d \in Seq(B), NEW e \in Seq(B), NEW c,
           c = [k \in 1..(Len(d) + Len(e)) |-> c[k]],
           \A k \in 1..(Len(d) + Len(e)) : c[k] = IF k <= Len(d) THEN d[k] ELSE e[k - Len(d)]
    PROVE  c = d \o e
<1> DEFINE n == Len(d) + Len(e)
           g == d \o e
<1>1. Len(d) \in Nat /\ Len(e) \in Nat /\ n \in Nat
    OBVIOUS
<1>2. g \in Seq(B) /\ Len(g) = n
    OBVIOUS
<1>3. \A k \in 1..n : g[k] = IF k <= Len(d) THEN d[k] ELSE e[k - Len(d)]
    OBVIOUS
<1>4. g = [k \in 1..n |-> g[k]]
  <2> HIDE DEF g, n
  <2> QED BY <1>2
<1>5. [k \in 1..n |-> c[k]] = [k \in 1..n |-> g[k]]
    BY Zenon, <1>3
<1> QED BY Zenon, <1>4, <1>5

(* push appends the bytes, if there is room for them. *)
THEOREM PushContents ==
    ASSUME NEW B, NEW f \in Fifos(B), NEW data \in Seq(B), CurrentSize(f) + Len(data) <= BufSize
    PROVE  /\ Push(f, data) \in Fifos(B)
           /\ CurrentSize(Push(f, data)) = CurrentSize(f) + Len(data)
           /\ Contents(Push(f, data)) = Contents(f) \o data
<1> DEFINE l == Len(data)
           s == CurrentSize(f)
           Dist(c) == (c - f.tail) % BufSize
           cells == [c \in 0..(BufSize - 1) |-> IF Dist(c) < l THEN data[Dist(c) + 1] ELSE f.buf[c]]
           end == f.tail + l
           p == [f EXCEPT !.tail = end, !.buf = cells]
           Cells == [0..(BufSize - 1) -> B]
<1>1. /\ f \in [buf : Cells, head : Nat, tail : Nat] /\ s \in 0..BufSize /\ BufSize \in Nat \ {0}
      /\ l \in Nat /\ f.tail = f.head + s /\ s + l <= BufSize
    BY BufSizeAssumption DEF Fifos, CurrentSize
<1>2. f.head \in Nat /\ f.tail \in Nat /\ s \in Nat /\ f.buf \in Cells
    BY <1>1
<1>3. \A c \in 0..(BufSize - 1) : Dist(c) \in 0..(BufSize - 1)
  <2> SUFFICES ASSUME NEW c \in 0..(BufSize - 1) PROVE Dist(c) \in 0..(BufSize - 1)
      BY Zenon
  <2> DEFINE x == c - f.tail
  <2>1. x \in Int
      BY <1>2, <1>1
  <2>2. x % BufSize \in 0..(BufSize - 1)
    <3> HIDE DEF x
    <3> QED BY ZenonT(60), <2>1, <1>1, ModRange
  <2> QED BY Zenon, <2>2
<1>4. Push(f, data) = Normalised(p)
    BY <1>1 DEF Push
<1> HIDE DEF l, s, Dist
<1>5. cells \in Cells
  <2>1. \A d \in 0..(BufSize - 1) : d < l => data[d + 1] \in B
      BY <1>1 DEF l
  <2> QED BY ZenonT(60), <2>1, <1>2, <1>3
<1>6. \A c \in 0..(BufSize - 1) : cells[c] = IF Dist(c) < l THEN data[Dist(c) + 1] ELSE f.buf[c]
    BY Zenon
<1> HIDE DEF cells, Cells
<1>7. /\ p \in [buf : Cells, head : Nat, tail : Nat]
      /\ p.head = f.head /\ p.tail = f.tail + l /\ p.buf = cells
  <2>1. end \in Nat
      BY <1>1, <1>2
  <2> HIDE DEF end
  <2>2. p \in [buf : Cells, head : Nat, tail : Nat]
      BY ZenonT(60), <2>1, <1>1, <1>5
  <2>3. p.head = f.head /\ p.tail = end /\ p.buf = cells
      BY Zenon, <1>1
  <2> QED BY Zenon, <2>2, <2>3 DEF end
<1> HIDE DEF p
<1>8. CurrentSize(p) = s + l /\ s + l \in 0..BufSize
    BY <1>1, <1>2, <1>7 DEF CurrentSize
<1>9. p \in Fifos(B)
    BY Zenon, <1>7, <1>8 DEF Fifos, Cells
<1>10. ASSUME NEW k \in 1..(s + l)
       PROVE  cells[(f.head + k - 1) % BufSize] =
                 IF k <= s THEN f.buf[(f.head + k - 1) % BufSize] ELSE data[k - s]
  <2> DEFINE c == (f.head + k - 1) % BufSize
             h == f.head
  <2>1. /\ c \in 0..(BufSize - 1)
        /\ k <= s => (c - (h + s)) % BufSize = BufSize + k - 1 - s
        /\ ~(k <= s) => (c - (h + s)) % BufSize = k - 1 - s
    <3>1. BufSize \in Nat \ {0} /\ h \in Nat /\ s \in 0..BufSize /\ k \in 1..BufSize
        BY <1>1, <1>2
    <3> HIDE DEF h
    <3>2. /\ (h + k - 1) % BufSize \in 0..(BufSize - 1)
          /\ k <= s => (((h + k - 1) % BufSize) - (h + s)) % BufSize = BufSize + k - 1 - s
          /\ ~(k <= s) => (((h + k - 1) % BufSize) - (h + s)) % BufSize = k - 1 - s
        BY <3>1, PlaceOfByte, ZenonT(60)
    <3> QED BY Zenon, <3>2 DEF h
  <2>2. Dist(c) = (c - (h + s)) % BufSize
      BY Zenon, <1>1 DEF Dist
  <2> HIDE DEF c, h
  <2>3. k <= s => ~(Dist(c) < l)
    <3>1. k <= s => ~(BufSize + k - 1 - s < l)
        BY <1>1, <1>2
    <3> QED BY Zenon, <3>1, <2>1, <2>2
  <2>4. ~(k <= s) => Dist(c) < l /\ Dist(c) + 1 = k - s
    <3>1. ~(k <= s) => (k - 1 - s < l /\ (k - 1 - s) + 1 = k - s)
        BY <1>1, <1>2
    <3> QED BY Zenon, <3>1, <2>1, <2>2
  <2>5. cells[c] = IF k <= s THEN f.buf[c] ELSE data[k - s]
      BY Zenon, <2>1, <2>3, <2>4, <1>6
  <2> QED BY Zenon, <2>5 DEF c
<1>11. Contents(p) = Contents(f) \o data
  <2> DEFINE d == Contents(f)
             g == Contents(p)
  <2>1. g = [k \in 1..(s + l) |-> cells[(f.head + k - 1) % BufSize]]
      BY Zenon, <1>7, <1>8 DEF Contents
  <2>2. d \in Seq(B) /\ Len(d) = s
      BY Zenon, ContentsIsSeq DEF s
  <2>3. \A k \in 1..s : d[k] = f.buf[(f.head + k - 1) % BufSize]
      BY Zenon DEF Contents, s
  <2> HIDE DEF d, g
  <2>4. ASSUME NEW k \in 1..(s + l) PROVE g[k] = IF k <= s THEN d[k] ELSE data[k - s]
    <3>1. g[k] = cells[(f.head + k - 1) % BufSize]
        BY Zenon, <2>1
    <3>2. k <= s => k \in 1..s
        BY <1>2
    <3> QED BY Zenon, <3>1, <3>2, <2>3, <1>10
  <2>5. g = [k \in 1..(s + l) |-> g[k]]
      BY Zenon, <2>1
  <2>6. g = d \o data
      BY ZenonT(60), <2>2, <2>4, <2>5, ConcatIs DEF l
  <2> QED BY Zenon, <2>6 DEF d, g
<1> QED BY Zenon, <1>4, <1>8, <1>9, <1>11, NormalisedKeeps DEF l, s

-----------------------------------------------------------------------------
(* Bytes read and bytes in the buffer *)

(* Bytes put behind bytes put behind bytes. *)
Regroups(s, c, b) == (s \o c) \o b = s \o (c \o b)

(* Concatenation is associative. *)
LEMMA Regroup ==
    ASSUME NEW B, NEW s \in Seq(B), NEW c \in Seq(B), NEW b \in Seq(B)
    PROVE  Regroups(s, c, b)
<1> DEFINE l == (s \o c) \o b
           r == s \o (c \o b)
<1>1. s \o c \in Seq(B) /\ Len(s \o c) = Len(s) + Len(c) /\ c \o b \in Seq(B) /\ Len(c \o b) = Len(c) + Len(b)
    OBVIOUS
<1>2. l \in Seq(B) /\ r \in Seq(B) /\ Len(l) = Len(s) + Len(c) + Len(b) /\ Len(r) = Len(l)
    BY <1>1
<1>3. \A k \in 1..(Len(s) + Len(c) + Len(b)) : l[k] = r[k]
  <2> SUFFICES ASSUME NEW k \in 1..(Len(s) + Len(c) + Len(b)) PROVE l[k] = r[k]
      BY Zenon
  <2>1. CASE k <= Len(s)
      BY <1>1, <2>1
  <2>2. CASE k > Len(s) /\ k <= Len(s) + Len(c)
    <3>1. l[k] = (s \o c)[k] /\ (s \o c)[k] = c[k - Len(s)] /\ r[k] = (c \o b)[k - Len(s)]
        BY <1>1, <2>2
    <3>2. (c \o b)[k - Len(s)] = c[k - Len(s)]
        BY <2>2
    <3> QED BY Zenon, <3>1, <3>2
  <2>3. CASE k > Len(s) + Len(c)
    <3>1. l[k] = b[k - (Len(s) + Len(c))] /\ r[k] = (c \o b)[k - Len(s)]
        BY <1>1, <2>3
    <3>2. (c \o b)[k - Len(s)] = b[k - Len(s) - Len(c)] /\ k - Len(s) - Len(c) = k - (Len(s) + Len(c))
        BY <2>3
    <3> QED BY Zenon, <3>1, <3>2
  <2> QED BY <2>1, <2>2, <2>3
<1> HIDE DEF l, r
<1>4. l = r
    BY <1>2, <1>3
<1> QED BY Zenon, <1>4 DEF l, r, Regroups

(* A read moves the bytes from the front of the buffer to what was read. *)
LEMMA MoveFront ==
    ASSUME NEW B, NEW s \in Seq(B), NEW c \in Seq(B), NEW n \in 0..Len(c)
    PROVE  (s \o SubSeq(c, 1, n)) \o SubSeq(c, n + 1, Len(c)) = s \o c
<1> DEFINE a == SubSeq(c, 1, n)
           b == SubSeq(c, n + 1, Len(c))
<1>1. a \in Seq(B) /\ b \in Seq(B)
    OBVIOUS
<1>2. c = a \o b
  <2>1. Len(a) = n /\ Len(b) = Len(c) - n /\ Len(a) + Len(b) = Len(c)
    <3>1. Len(c) \in Nat /\ n \in Nat /\ n <= Len(c)
        OBVIOUS
    <3>2. Len(a) = n
        OBVIOUS
    <3>3. Len(b) = Len(c) - n
        OBVIOUS
    <3> HIDE DEF a, b
    <3> QED BY <3>1, <3>2, <3>3
  <2>2. \A k \in 1..Len(c) : c[k] = IF k <= n THEN a[k] ELSE b[k - n]
      OBVIOUS
  <2>3. c = [k \in 1..Len(c) |-> c[k]]
      OBVIOUS
  <2> HIDE DEF a, b
  <2> QED BY Zenon, <1>1, <2>1, <2>2, <2>3, ConcatIs
<1> HIDE DEF a, b
<1>3. Regroups(s, a, b)
    BY <1>1, Regroup, Zenon
<1> QED BY <1>2, <1>3, Zenon DEF a, b, Regroups

-----------------------------------------------------------------------------
(***************************************************************************)
(* The pipe                                                                *)
(***************************************************************************)

Pcs == {"idle", "file", "read", "write", "pop", "push", "wait", "woken", "info", "close"}
Inside == {"read", "write", "pop", "push", "wait", "woken", "info"}
Ops == {"read", "write"}
Rets == {"none", "read", "written", "eof", "closed", "interrupted"}

User == [pc : Pcs, op : {"none", "read", "write", "close"}, count : Nat, amount : Nat,
         intr : BOOLEAN, no : Nat, ret : Rets]
Byte == {<<>>} \cup (Users \X Nat \X Nat)
Cvs == [Ops -> Seq(Users)]
PipeState == [fifo : Fifos(Byte), mutex : Users \cup {Nobody}, cv : Cvs, ends : {pipe.ends}]

Types ==
    /\ user \in [Users -> User]
    /\ pipe \in PipeState
    /\ vn \in [file : Users \cup {Nobody}, vnodes : Users \cup {Nobody}]
    /\ todo \in PipeScript

(***************************************************************************)
(* A task holds the file_mutex from LockFile to the end of its call.       *)
(***************************************************************************)
HoldsFile == \A t \in Users : user[t].pc \in Inside => vn.file = t

OpFits ==
    \A t \in Users : /\ user[t].pc \in Inside \cup {"file"} => user[t].op \in Ops
                     /\ user[t].pc \in {"read", "pop"} => user[t].op = "read"
                     /\ user[t].pc \in {"write", "push"} => user[t].op = "write"

(***************************************************************************)
(* A condition variable has one task at most, which waits or was woken by  *)
(* a signal, and then has still to leave the queue.                        *)
(***************************************************************************)
Queued ==
    \A op \in Ops :
        \/ pipe.cv[op] = <<>>
        \/ \E u \in Users : /\ pipe.cv[op] = <<u>>
                            /\ user[u].pc \in {"wait", "woken"}
                            /\ user[u].op = op

WokenBySignal == \A t \in Users : user[t].pc = "woken" => user[t].intr

IInv == Types /\ HoldsFile /\ OpFits /\ Queued /\ WokenBySignal

-----------------------------------------------------------------------------
(* A task that reads or writes holds the file_mutex, so that no task waits *)
(* for the other side: notify_one finds no one.                            *)
LEMMA NobodyWaits ==
    ASSUME IInv, NEW t \in Users, user[t].pc \in {"read", "write", "pop", "push"}
    PROVE  \A op \in Ops : pipe.cv[op] = <<>>
<1> SUFFICES ASSUME NEW op \in Ops, pipe.cv[op] # <<>> PROVE FALSE
    BY Zenon
<1>1. PICK u \in Users : user[u].pc \in {"wait", "woken"}
    BY Zenon DEF IInv, Queued
<1>2. vn.file = u /\ vn.file = t
    BY Zenon, <1>1 DEF IInv, HoldsFile, Inside
<1> QED BY Zenon, <1>1, <1>2

(* The pipe of PipeInit has an empty buffer. *)
LEMMA NewFifoIsEmpty == NewFifo \in Fifos(Byte) /\ Contents(NewFifo) = <<>>
<1>1. BufSize \in Nat \ {0}
    BY Zenon, BufSizeAssumption
<1> DEFINE cells == [i \in 0..(BufSize - 1) |-> <<>>]
           Cells == [0..(BufSize - 1) -> Byte]
<1>2. cells \in Cells
    BY Zenon DEF Byte
<1> HIDE DEF cells, Cells
<1>3. NewFifo = [buf |-> cells, head |-> 0, tail |-> 0]
    BY Zenon DEF NewFifo, cells
<1>4. NewFifo \in [buf : Cells, head : Nat, tail : Nat] /\ CurrentSize(NewFifo) = 0
    BY <1>2, <1>3 DEF CurrentSize
<1>5. NewFifo \in Fifos(Byte)
    BY <1>1, <1>4 DEF Fifos, Cells
<1> QED BY <1>4, <1>5 DEF Contents

(* PipeInit establishes the invariant. *)
LEMMA InitIInv == PipeInit => IInv
<1> SUFFICES ASSUME PipeInit PROVE IInv
    BY Zenon
<1> DEFINE cv0 == [op \in {"read", "write"} |-> <<>>]
<1>1. PICK s \in PipeScripts :
        /\ todo = s
        /\ pipe = [fifo |-> NewFifo, mutex |-> Nobody, cv |-> cv0,
                   ends |-> [e \in {"r", "w"} |-> Cardinality({t \in Users : s.end[t] = e})]]
    BY ZenonT(60) DEF PipeInit
<1>2. vn = [file |-> Nobody, vnodes |-> Nobody] /\ user = [t \in Users |-> AtRest]
    BY Zenon DEF PipeInit
<1>3. todo \in PipeScript
    BY Zenon, <1>1, PipeAssumption
<1>4. cv0 \in Cvs
    BY DEF Cvs, Ops
<1>5. AtRest \in User
    BY Zenon DEF AtRest, User, Pcs, Rets
<1>6. user \in [Users -> User] /\ \A t \in Users : user[t].pc = "idle"
  <2> HIDE DEF cv0
  <2> QED BY Zenon, <1>2, <1>5 DEF AtRest
<1>7. pipe.cv = cv0 /\ \A op \in Ops : pipe.cv[op] = <<>>
    BY Zenon, <1>1 DEF Ops
<1> HIDE DEF cv0
<1>8. pipe \in PipeState
    BY Zenon, <1>1, <1>4, NewFifoIsEmpty DEF PipeState
<1>9. Types
    BY Zenon, <1>2, <1>3, <1>6, <1>8 DEF Types
<1> QED BY Zenon, <1>6, <1>7, <1>9 DEF IInv, HoldsFile, OpFits, Queued, WokenBySignal, Inside

-----------------------------------------------------------------------------
(* The steps *)

(* A step that changes the call of one task only. *)
OnlyCallOf(t) == \A u \in Users \ {t} : user'[u] = user[u]

(* A step of task t that leaves the condition variables alone, and does not end a wait. *)
LEMMA QuietStep ==
    ASSUME IInv, NEW t \in Users, OnlyCallOf(t), Types', pipe'.cv = pipe.cv,
           user[t].pc \in {"wait", "woken"} => user'[t].pc \in {"wait", "woken"} /\ user'[t].op = user[t].op
    PROVE  Queued'
<1> SUFFICES ASSUME NEW op \in Ops, pipe.cv[op] # <<>>
             PROVE  \E u \in Users : pipe.cv[op] = <<u>> /\ user'[u].pc \in {"wait", "woken"} /\ user'[u].op = op
    BY DEF Queued
<1>1. PICK u \in Users : pipe.cv[op] = <<u>> /\ user[u].pc \in {"wait", "woken"} /\ user[u].op = op
    BY Zenon DEF IInv, Queued
<1>2. user'[u].pc \in {"wait", "woken"} /\ user'[u].op = op
    BY Zenon, <1>1 DEF OnlyCallOf
<1> QED BY Zenon, <1>1, <1>2

(* What a step of task t has to see to, for the rest of the invariant. *)
LEMMA CallStep ==
    ASSUME IInv, NEW t \in Users, NEW new \in User, user' = [user EXCEPT ![t] = new], Types', Queued',
           vn'.file = vn.file \/ vn.file \in {t, Nobody},
           new.pc \in Inside => vn'.file = t,
           new.pc \in Inside \cup {"file"} => new.op \in Ops,
           new.pc \in {"read", "pop"} => new.op = "read",
           new.pc \in {"write", "push"} => new.op = "write",
           new.pc = "woken" => new.intr
    PROVE  IInv'
<1>1. user \in [Users -> User] /\ user'[t] = new /\ \A u \in Users \ {t} : user'[u] = user[u]
    BY Zenon DEF IInv, Types
<1>2. HoldsFile'
  <2> SUFFICES ASSUME NEW u \in Users, user'[u].pc \in Inside PROVE vn'.file = u
      BY Zenon DEF HoldsFile
  <2>1. CASE u = t
      BY Zenon, <2>1, <1>1
  <2>2. CASE u # t
      BY Zenon, <2>2, <1>1, PipeAssumption DEF IInv, HoldsFile
  <2> QED BY Zenon, <2>1, <2>2
<1>3. OpFits'
  <2> SUFFICES ASSUME NEW u \in Users
               PROVE  /\ user'[u].pc \in Inside \cup {"file"} => user'[u].op \in Ops
                      /\ user'[u].pc \in {"read", "pop"} => user'[u].op = "read"
                      /\ user'[u].pc \in {"write", "push"} => user'[u].op = "write"
      BY Zenon DEF OpFits
  <2>1. CASE u = t
      BY Zenon, <2>1, <1>1
  <2>2. CASE u # t
      BY Zenon, <2>2, <1>1 DEF IInv, OpFits
  <2> QED BY Zenon, <2>1, <2>2
<1>4. WokenBySignal'
    BY Zenon, <1>1 DEF IInv, WokenBySignal
<1> QED BY Zenon, <1>2, <1>3, <1>4 DEF IInv

(* BeginCall keeps the invariant. *)
LEMMA BeginCallStep ==
    ASSUME IInv, NEW t \in Users, BeginCall(t)
    PROVE  IInv'
<1> DEFINE c == Head(todo.calls[t])
           new == [AtRest EXCEPT
                       !.pc = IF c.op = "close" THEN "close" ELSE "file", !.op = c.op,
                       !.count = IF c.op = "read" THEN Min2(c.count, BufSize) ELSE c.count,
                       !.no = user[t].no + 1]
<1>1. /\ todo.calls \in [Users -> Seq(Call)] /\ todo.calls[t] # <<>> /\ BufSize \in Nat
      /\ user \in [Users -> User] /\ user[t].no \in Nat
    BY Zenon, BufSizeAssumption DEF IInv, Types, PipeScript, BeginCall, User
<1>2. c \in Call /\ Tail(todo.calls[t]) \in Seq(Call)
    BY <1>1
<1>3. c.op \in {"read", "write", "close"} /\ c.count \in Nat
    BY Zenon, <1>2 DEF Call
<1>4. /\ user' = [user EXCEPT ![t] = new]
      /\ vn' = IF c.op = "close" THEN [vn EXCEPT !.vnodes = t] ELSE vn
      /\ todo' = [todo EXCEPT !.calls[t] = Tail(@)]
      /\ user[t].pc = "idle" /\ pipe' = pipe
    BY Zenon DEF BeginCall, At
<1> HIDE DEF c
<1>5. /\ new \in User
      /\ new.pc \in {"close", "file"} /\ new.op = c.op /\ (new.pc = "file" => c.op # "close")
  <2> DEFINE pc1 == IF c.op = "close" THEN "close" ELSE "file"
             count1 == IF c.op = "read" THEN Min2(c.count, BufSize) ELSE c.count
             no1 == user[t].no + 1
             op1 == c.op
  <2>1. count1 \in Nat /\ no1 \in Nat
      BY <1>1, <1>3 DEF Min2
  <2>2. pc1 \in Pcs /\ pc1 \in {"close", "file"} /\ (pc1 = "file" => op1 # "close")
      BY Zenon DEF Pcs
  <2>3. op1 \in {"none", "read", "write", "close"}
      BY Zenon, <1>3
  <2> DEFINE mid == [AtRest EXCEPT !.pc = pc1, !.op = op1, !.count = count1, !.no = no1]
  <2>4. new = mid
      BY Zenon
  <2> HIDE DEF pc1, count1, no1, op1, new
  <2>5. AtRest \in User
      BY Zenon DEF AtRest, User, Pcs, Rets
  <2>6. mid \in User /\ mid.pc = pc1 /\ mid.op = op1
      BY ZenonT(60), <2>1, <2>2, <2>3, <2>5 DEF User
  <2> HIDE DEF mid
  <2> QED BY Zenon, <2>2, <2>4, <2>6 DEF op1
<1> HIDE DEF new
<1>6. user' \in [Users -> User] /\ user'[t] = new /\ OnlyCallOf(t)
    BY Zenon, <1>1, <1>4, <1>5 DEF OnlyCallOf
<1>7. todo' \in PipeScript
  <2> DEFINE calls == [todo.calls EXCEPT ![t] = Tail(@)]
             Calls == [Users -> Seq(Call)]
             Ends == [Users -> {"r", "w"}]
  <2>1. calls \in Calls
      BY Zenon, <1>1, <1>2
  <2>2. todo' = [todo EXCEPT !.calls = calls]
      BY Zenon, <1>4
  <2>3. todo \in [end : Ends, calls : Calls, signals : Nat, preemptions : Nat]
      BY Zenon DEF IInv, Types, PipeScript
  <2> HIDE DEF calls, Calls, Ends
  <2>4. todo' \in [end : Ends, calls : Calls, signals : Nat, preemptions : Nat]
      BY Zenon, <2>1, <2>2, <2>3
  <2> QED BY Zenon, <2>4 DEF PipeScript, Calls, Ends
<1>8. vn' \in [file : Users \cup {Nobody}, vnodes : Users \cup {Nobody}] /\ vn'.file = vn.file
    BY Zenon, <1>4 DEF IInv, Types
<1>9. Types'
    BY Zenon, <1>4, <1>6, <1>7, <1>8 DEF IInv, Types, PipeState
<1>10. Queued'
    BY Zenon, <1>4, <1>6, <1>9, QuietStep
<1> QED BY ZenonT(60), <1>3, <1>4, <1>5, <1>8, <1>9, <1>10, CallStep DEF Inside, Ops

(* LockFile keeps the invariant. *)
LEMMA LockFileStep ==
    ASSUME IInv, NEW t \in Users, LockFile(t)
    PROVE  IInv'
<1> DEFINE new == [user[t] EXCEPT !.pc = user[t].op]
<1>1. /\ user \in [Users -> User] /\ user[t].pc = "file" /\ vn.file = Nobody
      /\ vn' = [vn EXCEPT !.file = t] /\ user' = [user EXCEPT ![t] = new] /\ pipe' = pipe /\ todo' = todo
    BY Zenon DEF LockFile, At, Goto, IInv, Types
<1>2. user[t].op \in Ops
    BY Zenon, <1>1 DEF IInv, OpFits
<1>3. new \in User /\ new.pc = user[t].op /\ new.op = user[t].op
    BY Zenon, <1>1, <1>2 DEF User, Pcs, Ops
<1> HIDE DEF new
<1>4. user' \in [Users -> User] /\ user'[t] = new /\ OnlyCallOf(t)
    BY Zenon, <1>1, <1>3 DEF OnlyCallOf
<1>5. vn' \in [file : Users \cup {Nobody}, vnodes : Users \cup {Nobody}] /\ vn'.file = t
    BY Zenon, <1>1 DEF IInv, Types
<1>6. Types'
    BY Zenon, <1>1, <1>4, <1>5 DEF IInv, Types, PipeState
<1>7. Queued'
    BY Zenon, <1>1, <1>4, <1>6, QuietStep
<1> QED BY ZenonT(60), <1>1, <1>2, <1>3, <1>5, <1>6, <1>7, CallStep DEF Inside, Ops

(* GetFileInfo keeps the invariant. *)
LEMMA GetFileInfoStep ==
    ASSUME IInv, NEW t \in Users, GetFileInfo(t)
    PROVE  IInv'
<1> DEFINE r == Result(t)
           new == [user[t] EXCEPT !.pc = "idle", !.ret = r]
<1>1. /\ user \in [Users -> User] /\ user[t].pc = "info" /\ vn' = [vn EXCEPT !.file = Nobody]
      /\ user' = [user EXCEPT ![t] = new] /\ pipe' = pipe /\ todo' = todo
    BY ZenonT(60) DEF GetFileInfo, At, IInv, Types
<1>2. vn.file = t
    BY Zenon, <1>1 DEF IInv, HoldsFile, Inside
<1>3. r \in Rets
    BY Zenon, <1>1 DEF Result, User, Rets
<1> HIDE DEF r
<1>4. new \in User /\ new.pc = "idle"
    BY ZenonT(60), <1>1, <1>3 DEF User, Pcs
<1> HIDE DEF new
<1>5. user' \in [Users -> User] /\ user'[t] = new /\ OnlyCallOf(t)
    BY Zenon, <1>1, <1>4 DEF OnlyCallOf
<1>6. vn' \in [file : Users \cup {Nobody}, vnodes : Users \cup {Nobody}]
    BY Zenon, <1>1 DEF IInv, Types
<1>7. Types'
    BY Zenon, <1>1, <1>5, <1>6 DEF IInv, Types, PipeState
<1>8. Queued'
    BY Zenon, <1>1, <1>5, <1>7, QuietStep
<1> QED BY ZenonT(60), <1>1, <1>2, <1>4, <1>7, <1>8, CallStep DEF Inside

(* CloseOpenFile keeps the invariant. *)
LEMMA CloseOpenFileStep ==
    ASSUME IInv, NEW t \in Users, CloseOpenFile(t)
    PROVE  IInv'
<1> DEFINE new == [user[t] EXCEPT !.pc = "idle"]
           ends == [pipe.ends EXCEPT ![todo.end[t]] = @ - 1]
<1>1. /\ user \in [Users -> User] /\ user[t].pc = "close" /\ vn' = [vn EXCEPT !.vnodes = Nobody]
      /\ user' = [user EXCEPT ![t] = new] /\ pipe' = [pipe EXCEPT !.ends = ends] /\ todo' = todo
    BY Zenon DEF CloseOpenFile, At, Goto, IInv, Types
<1> HIDE DEF ends
<1>2. new \in User /\ new.pc = "idle"
    BY Zenon, <1>1 DEF User, Pcs
<1> HIDE DEF new
<1>3. user' \in [Users -> User] /\ user'[t] = new /\ OnlyCallOf(t)
    BY Zenon, <1>1, <1>2 DEF OnlyCallOf
<1>4. vn' \in [file : Users \cup {Nobody}, vnodes : Users \cup {Nobody}] /\ vn'.file = vn.file
    BY Zenon, <1>1 DEF IInv, Types
<1>5. pipe' \in PipeState' /\ pipe'.cv = pipe.cv
    BY Zenon, <1>1 DEF IInv, Types, PipeState
<1>6. Types'
    BY Zenon, <1>1, <1>3, <1>4, <1>5 DEF IInv, Types
<1>7. Queued'
    BY Zenon, <1>1, <1>3, <1>5, <1>6, QuietStep
<1> QED BY ZenonT(60), <1>1, <1>2, <1>4, <1>6, <1>7, CallStep DEF Inside

(* Interrupt keeps the invariant. *)
LEMMA InterruptStep ==
    ASSUME IInv, NEW t \in Users, Interrupt(t)
    PROVE  IInv'
<1> DEFINE pc1 == IF user[t].pc = "wait" THEN "woken" ELSE user[t].pc
           left == todo.signals - 1
           new == [user[t] EXCEPT !.intr = TRUE, !.pc = pc1]
<1>1. /\ user \in [Users -> User] /\ vn' = vn /\ user' = [user EXCEPT ![t] = new]
      /\ pipe' = pipe /\ todo' = [todo EXCEPT !.signals = left]
    BY ZenonT(60) DEF Interrupt, IInv, Types
<1>2. left \in Nat
    BY DEF Interrupt, IInv, Types, PipeScript
<1>3. pc1 \in Pcs
    BY Zenon, <1>1 DEF User, Pcs
<1> HIDE DEF pc1, left
<1>4. new \in User /\ new.pc = pc1 /\ new.intr = TRUE /\ new.op = user[t].op
    BY ZenonT(60), <1>1, <1>3 DEF User
<1> HIDE DEF new
<1>5. user' \in [Users -> User] /\ user'[t] = new /\ OnlyCallOf(t)
    BY Zenon, <1>1, <1>4 DEF OnlyCallOf
<1>6. todo' \in PipeScript
  <2> DEFINE Calls == [Users -> Seq(Call)]
             Ends == [Users -> {"r", "w"}]
  <2>1. todo \in [end : Ends, calls : Calls, signals : Nat, preemptions : Nat]
      BY Zenon DEF IInv, Types, PipeScript
  <2> HIDE DEF Calls, Ends
  <2>2. todo' \in [end : Ends, calls : Calls, signals : Nat, preemptions : Nat]
      BY Zenon, <2>1, <1>1, <1>2
  <2> QED BY Zenon, <2>2 DEF PipeScript, Calls, Ends
<1>7. Types'
    BY Zenon, <1>1, <1>5, <1>6 DEF IInv, Types, PipeState
<1>8. user[t].pc \in {"wait", "woken"} => new.pc \in {"wait", "woken"}
    BY Zenon, <1>4 DEF pc1
<1>9. Queued'
    BY Zenon, <1>1, <1>4, <1>5, <1>7, <1>8, QuietStep
<1>10. /\ new.pc \in Inside => user[t].pc \in Inside
       /\ new.pc \in {"read", "pop", "write", "push", "file"} => user[t].pc = new.pc
    BY Zenon, <1>4 DEF pc1, Inside
<1>11. /\ new.pc \in Inside => vn.file = t
       /\ new.pc \in Inside \cup {"file"} => new.op \in Ops
       /\ new.pc \in {"read", "pop"} => new.op = "read"
       /\ new.pc \in {"write", "push"} => new.op = "write"
    BY Zenon, <1>4, <1>10 DEF IInv, HoldsFile, OpFits
<1> QED BY ZenonT(60), <1>1, <1>4, <1>7, <1>9, <1>11, CallStep

(* The condition variables are empty but for what a step of task t puts there. *)
LEMMA WaitStep ==
    ASSUME IInv, NEW t \in Users, user[t].pc \in Ops, WaitInterruptible(t), vn' = vn
    PROVE  IInv'
<1> DEFINE op == user[t].op
           new == [user[t] EXCEPT !.pc = "wait"]
           cv1 == [pipe.cv EXCEPT ![op] = Append(@, t)]
<1>1. /\ user \in [Users -> User] /\ user' = [user EXCEPT ![t] = new] /\ op \in Ops /\ vn.file = t
    BY Zenon DEF WaitInterruptible, Goto, IInv, Types, OpFits, HoldsFile, Inside, Ops
<1>2. pipe.cv \in Cvs /\ \A o \in Ops : pipe.cv[o] = <<>>
    BY Zenon, NobodyWaits DEF IInv, Types, PipeState, Ops
<1>3. PICK m \in {Nobody, t} :
           /\ pipe' = [pipe EXCEPT !.cv = cv1, !.mutex = m]
           /\ \/ todo' = todo
              \/ todo.preemptions > 0 /\ todo' = [todo EXCEPT !.preemptions = @ - 1]
    BY Zenon DEF WaitInterruptible, Enqueue
<1>4. new \in User /\ new.pc = "wait" /\ new.op = op
    BY <1>1 DEF User, Pcs
<1>5. cv1[op] = <<t>> /\ cv1 \in Cvs /\ \A o \in Ops \ {op} : cv1[o] = <<>>
  <2> DEFINE one == <<t>>
  <2>1. Append(pipe.cv[op], t) = one /\ one \in Seq(Users)
    <3>1. pipe.cv[op] = <<>>
        BY Zenon, <1>1, <1>2
    <3>2. Append(<<>>, t) = one /\ one \in Seq(Users)
        OBVIOUS
    <3> QED BY <3>1, <3>2, Zenon
  <2>2. cv1 = [pipe.cv EXCEPT ![op] = one]
      BY Zenon, <2>1
  <2> HIDE DEF one, cv1
  <2>3. cv1[op] = one /\ cv1 \in Cvs /\ \A o \in Ops \ {op} : cv1[o] = <<>>
      BY Zenon, <2>1, <2>2, <1>1, <1>2 DEF Cvs
  <2> QED BY Zenon, <2>3 DEF one
<1> HIDE DEF new, cv1
<1>6. user' \in [Users -> User] /\ user'[t] = new
    BY Zenon, <1>1, <1>4
<1>7. pipe' \in PipeState' /\ pipe'.cv = cv1
    BY ZenonT(60), <1>3, <1>5 DEF IInv, Types, PipeState
<1>8. todo' \in PipeScript
  <2> DEFINE Calls == [Users -> Seq(Call)]
             Ends == [Users -> {"r", "w"}]
             less == todo.preemptions - 1
  <2>1. todo \in [end : Ends, calls : Calls, signals : Nat, preemptions : Nat]
      BY Zenon DEF IInv, Types, PipeScript
  <2>2. CASE todo' = todo
      BY Zenon, <2>2 DEF IInv, Types
  <2>3. CASE todo.preemptions > 0 /\ todo' = [todo EXCEPT !.preemptions = less]
    <3>1. less \in Nat
        BY <2>1, <2>3
    <3> HIDE DEF Calls, Ends, less
    <3>2. todo' \in [end : Ends, calls : Calls, signals : Nat, preemptions : Nat]
        BY Zenon, <2>1, <2>3, <3>1
    <3> QED BY Zenon, <3>2 DEF PipeScript, Calls, Ends
  <2> QED BY Zenon, <1>3, <2>2, <2>3
<1>9. Types'
    BY Zenon, <1>6, <1>7, <1>8 DEF IInv, Types
<1>10. Queued'
    BY Zenon, <1>1, <1>4, <1>5, <1>6, <1>7 DEF Queued
<1> QED BY ZenonT(60), <1>1, <1>4, <1>9, <1>10, CallStep DEF Inside, Ops

(* A step within a call of task t, that holds the file_mutex, but for the pipe. *)
LEMMA InsideStep ==
    ASSUME IInv, NEW t \in Users, user[t].pc \in Inside, NEW new \in User,
           user' = [user EXCEPT ![t] = new], vn' = vn, todo' = todo,
           pipe' \in PipeState', Queued', new.op = user[t].op,
           new.pc \in {user[t].op, "info"} \/ (user[t].op = "read" /\ new.pc = "pop")
                                           \/ (user[t].op = "write" /\ new.pc = "push")
    PROVE  IInv'
<1>1. user \in [Users -> User] /\ vn.file = t /\ new.op \in Ops
    BY Zenon DEF IInv, Types, HoldsFile, OpFits
<1>2. Types'
    BY Zenon, <1>1 DEF IInv, Types
<1> QED BY ZenonT(60), <1>1, <1>2, CallStep DEF Inside, Ops

(* A change of the mutex, the fifo or nothing in the pipe, while nobody waits. *)
LEMMA EmptyQueues ==
    ASSUME pipe' \in PipeState', \A op \in Ops : pipe.cv[op] = <<>>, pipe'.cv = pipe.cv
    PROVE  Queued'
BY Zenon DEF Queued

(* Read keeps the invariant. *)
LEMMA ReadStep ==
    ASSUME IInv, NEW t \in Users, Read(t)
    PROVE  IInv'
<1>1. /\ user \in [Users -> User] /\ user[t].pc = "read" /\ vn' = vn /\ user[t].op = "read"
      /\ pipe \in PipeState /\ \A op \in Ops : pipe.cv[op] = <<>>
    BY Zenon, NobodyWaits DEF Read, At, IInv, Types, OpFits, Inside
<1>2. CASE CurrentSize(pipe.fifo) > 0
  <2> DEFINE new == [user[t] EXCEPT !.pc = "pop"]
  <2>1. user' = [user EXCEPT ![t] = new] /\ todo' = todo /\ pipe' = [pipe EXCEPT !.mutex = t]
      BY Zenon, <1>2 DEF Read, Goto
  <2>2. new \in User /\ new.pc = "pop" /\ new.op = user[t].op
      BY Zenon, <1>1 DEF User, Pcs
  <2> HIDE DEF new
  <2>3. pipe' \in PipeState' /\ pipe'.cv = pipe.cv
      BY Zenon, <1>1, <2>1 DEF PipeState
  <2> QED BY ZenonT(60), <1>1, <2>1, <2>2, <2>3, EmptyQueues, InsideStep DEF Inside
<1>3. CASE ~(CurrentSize(pipe.fifo) > 0) /\ pipe.ends["w"] = 0
  <2> DEFINE new == [user[t] EXCEPT !.pc = "info", !.ret = "eof"]
  <2>1. user' = [user EXCEPT ![t] = new] /\ todo' = todo /\ pipe' = pipe
      BY ZenonT(60), <1>3 DEF Read
  <2>2. new \in User /\ new.pc = "info" /\ new.op = user[t].op
      BY ZenonT(60), <1>1 DEF User, Pcs, Rets
  <2> HIDE DEF new
  <2>3. pipe' \in PipeState' /\ pipe'.cv = pipe.cv
      BY Zenon, <1>1, <2>1 DEF PipeState
  <2> QED BY ZenonT(60), <1>1, <2>1, <2>2, <2>3, EmptyQueues, InsideStep DEF Inside
<1>4. CASE ~(CurrentSize(pipe.fifo) > 0) /\ pipe.ends["w"] # 0
  <2>1. WaitInterruptible(t)
      BY Zenon, <1>4 DEF Read
  <2> QED BY Zenon, <1>1, <2>1, WaitStep DEF Ops
<1> QED BY Zenon, <1>2, <1>3, <1>4

(* Write keeps the invariant. *)
LEMMA WriteStep ==
    ASSUME IInv, NEW t \in Users, Write(t)
    PROVE  IInv'
<1>1. /\ user \in [Users -> User] /\ user[t].pc = "write" /\ vn' = vn /\ user[t].op = "write"
      /\ pipe \in PipeState /\ \A op \in Ops : pipe.cv[op] = <<>>
    BY Zenon, NobodyWaits DEF Write, At, IInv, Types, OpFits, Inside
<1>2. CASE Closed \/ user[t].amount >= user[t].count
  <2> DEFINE r == IF Closed THEN "closed" ELSE "written"
             new == [user[t] EXCEPT !.pc = "info", !.ret = r]
  <2>1. user' = [user EXCEPT ![t] = new] /\ todo' = todo /\ pipe' = [pipe EXCEPT !.mutex = Nobody]
      BY ZenonT(60), <1>2 DEF Write, Unlocked
  <2>2. r \in Rets
      BY Zenon DEF Rets
  <2> HIDE DEF r
  <2>3. new \in User /\ new.pc = "info" /\ new.op = user[t].op
      BY ZenonT(60), <1>1, <2>2 DEF User, Pcs
  <2> HIDE DEF new
  <2>4. pipe' \in PipeState' /\ pipe'.cv = pipe.cv
      BY Zenon, <1>1, <2>1 DEF PipeState
  <2> QED BY ZenonT(60), <1>1, <2>1, <2>3, <2>4, EmptyQueues, InsideStep DEF Inside
<1>3. CASE ~(Closed \/ user[t].amount >= user[t].count) /\ CurrentSize(pipe.fifo) # BufSize
  <2> DEFINE new == [user[t] EXCEPT !.pc = "push"]
  <2>1. user' = [user EXCEPT ![t] = new] /\ todo' = todo /\ pipe' = [pipe EXCEPT !.mutex = t]
      BY Zenon, <1>3 DEF Write, Goto
  <2>2. new \in User /\ new.pc = "push" /\ new.op = user[t].op
      BY Zenon, <1>1 DEF User, Pcs
  <2> HIDE DEF new
  <2>3. pipe' \in PipeState' /\ pipe'.cv = pipe.cv
      BY Zenon, <1>1, <2>1 DEF PipeState
  <2> QED BY ZenonT(60), <1>1, <2>1, <2>2, <2>3, EmptyQueues, InsideStep DEF Inside
<1>4. CASE ~(Closed \/ user[t].amount >= user[t].count) /\ CurrentSize(pipe.fifo) = BufSize
  <2>1. WaitInterruptible(t)
      BY Zenon, <1>4 DEF Write
  <2> QED BY Zenon, <1>1, <2>1, WaitStep DEF Ops
<1> QED BY Zenon, <1>2, <1>3, <1>4

(* To leave the queue of one task. *)
LEMMA RemoveLast ==
    ASSUME NEW t \in Users, NEW q \in Seq(Users), q = <<>> \/ q = <<t>>
    PROVE  RemoveTask(q, t) = <<>>
<1>1. CASE q = <<>>
  <2>1. Places(q, t) = {}
      BY <1>1 DEF Places
  <2> QED BY Zenon, <1>1, <2>1 DEF RemoveTask
<1>2. CASE q = <<t>>
  <2>1. Len(q) = 1 /\ Places(q, t) # {}
      BY <1>2 DEF Places
  <2>2. \A k : [j \in 1..(Len(q) - 1) |-> q[IF j < k THEN j ELSE j + 1]] = <<>>
      BY <2>1
  <2> QED BY Zenon, <2>1, <2>2 DEF RemoveTask
<1> QED BY Zenon, <1>1, <1>2

(* Resume keeps the invariant: only a signal wakes a task. *)
LEMMA ResumeStep ==
    ASSUME IInv, NEW t \in Users, Resume(t)
    PROVE  IInv'
<1> DEFINE op == user[t].op
           r == IF op = "read" THEN "read" ELSE "written"
           new == [user[t] EXCEPT !.pc = "info", !.ret = r]
           m == IF pipe.mutex = t THEN Nobody ELSE pipe.mutex
           q == RemoveTask(pipe.cv[op], t)
           cv1 == [pipe.cv EXCEPT ![op] = q]
<1>1. /\ user \in [Users -> User] /\ user[t].pc = "woken" /\ vn' = vn /\ todo' = todo /\ user[t].intr
      /\ pipe \in PipeState /\ op \in Ops /\ vn.file = t
    BY Zenon DEF Resume, At, IInv, Types, WokenBySignal, OpFits, HoldsFile, Inside
<1>2. user' = [user EXCEPT ![t] = new] /\ pipe' = [pipe EXCEPT !.mutex = m, !.cv = cv1]
    BY ZenonT(60), <1>1 DEF Resume
<1>3. r \in Rets /\ m \in Users \cup {Nobody} /\ pipe.cv \in Cvs
    BY Zenon, <1>1 DEF Rets, PipeState
<1>4. \A o \in Ops : pipe.cv[o] = <<>> \/ (o = op /\ pipe.cv[o] = <<t>>)
  <2> SUFFICES ASSUME NEW o \in Ops, pipe.cv[o] # <<>> PROVE o = op /\ pipe.cv[o] = <<t>>
      BY Zenon
  <2>1. PICK u \in Users : pipe.cv[o] = <<u>> /\ user[u].pc \in {"wait", "woken"} /\ user[u].op = o
      BY Zenon DEF IInv, Queued
  <2>2. vn.file = u
      BY Zenon, <2>1 DEF IInv, HoldsFile, Inside
  <2> QED BY Zenon, <2>1, <2>2, <1>1
<1>5. q = <<>> /\ q \in Seq(Users)
  <2>1. pipe.cv[op] \in Seq(Users)
      BY Zenon, <1>1, <1>3 DEF Cvs
  <2>2. q = <<>>
      BY ZenonT(60), <1>1, <1>4, <2>1, RemoveLast
  <2> QED BY <2>2
<1> HIDE DEF r, m, q
<1>6. new \in User /\ new.pc = "info" /\ new.op = op
  <2>1. user[t] \in User
      BY Zenon, <1>1
  <2> QED BY ZenonT(60), <2>1, <1>3 DEF User, Pcs
<1>7. cv1 \in Cvs /\ \A o \in Ops : cv1[o] = <<>>
    BY Zenon, <1>1, <1>3, <1>4, <1>5 DEF Cvs
<1> HIDE DEF new, cv1
<1>8. pipe' \in PipeState' /\ pipe'.cv = cv1
    BY ZenonT(60), <1>1, <1>2, <1>3, <1>7 DEF PipeState
<1>9. Queued'
    BY Zenon, <1>7, <1>8 DEF Queued
<1> QED BY ZenonT(60), <1>1, <1>2, <1>6, <1>8, <1>9, InsideStep DEF Inside

(* PopBytes takes bytes from the buffer, and no one waits to be told. *)
LEMMA PopFacts ==
    ASSUME IInv, NEW t \in Users, PopBytes(t)
    PROVE  \E n \in 0..CurrentSize(pipe.fifo) :
              /\ pipe' = [pipe EXCEPT !.mutex = Nobody, !.fifo = Pop(pipe.fifo, n)]
              /\ user' = [user EXCEPT ![t] = [user[t] EXCEPT !.pc = "info", !.amount = n, !.ret = "read"]]
              /\ log' = [log EXCEPT !.got = @ \o SubSeq(Contents(pipe.fifo), 1, n)]
<1> DEFINE n == Min2(user[t].count, CurrentSize(pipe.fifo))
           popped == [pipe EXCEPT !.mutex = Nobody, !.fifo = Pop(pipe.fifo, n)]
           done == [user EXCEPT ![t].pc = "info", ![t].amount = n, ![t].ret = "read"]
<1>1. /\ user \in [Users -> User] /\ pipe \in PipeState /\ user[t].pc = "pop"
      /\ user[t].count \in Nat /\ pipe.fifo \in Fifos(Byte)
    BY Zenon DEF IInv, Types, PopBytes, At, User, PipeState
<1>2. CurrentSize(pipe.fifo) \in 0..BufSize /\ BufSize \in Nat
    BY Zenon, <1>1, BufSizeAssumption DEF Fifos
<1>3. n \in 0..CurrentSize(pipe.fifo)
    BY <1>1, <1>2 DEF Min2
<1>4. pipe.cv["write"] = <<>>
    BY Zenon, <1>1, NobodyWaits DEF Ops
<1>5. popped = [Unlocked(pipe) EXCEPT !.fifo = Pop(@, n)]
    BY Zenon, <1>1 DEF Unlocked, PipeState
<1> HIDE DEF n
<1>6. popped.cv = pipe.cv
    BY Zenon, <1>1 DEF PipeState
<1>7. NotifyOne(popped, done, "write") = [pipe |-> popped, user |-> done]
    BY Zenon, <1>4, <1>6 DEF NotifyOne
<1>8. pipe' = popped /\ user' = done
  <2> DEFINE p1 == [Unlocked(pipe) EXCEPT !.fifo = Pop(@, n)]
             r == IF n > 0 THEN NotifyOne(p1, done, "write") ELSE [pipe |-> p1, user |-> done]
  <2>1. pipe' = r.pipe /\ user' = r.user
      BY Zenon DEF PopBytes, n
  <2>2. p1 = popped
      BY Zenon, <1>5
  <2> HIDE DEF popped, done, p1
  <2>3. r = [pipe |-> popped, user |-> done]
      BY Zenon, <1>7, <2>2
  <2> HIDE DEF r
  <2> QED BY Zenon, <2>1, <2>3
<1>9. log' = [log EXCEPT !.got = @ \o SubSeq(Contents(pipe.fifo), 1, n)]
    BY Zenon DEF PopBytes, n
<1> QED BY ZenonT(60), <1>3, <1>8, <1>9

(* PushBytes puts bytes into the buffer that fit, and no one waits to be told. *)
LEMMA PushFacts ==
    ASSUME IInv, NEW t \in Users, PushBytes(t)
    PROVE  \E n \in 0..(BufSize - CurrentSize(pipe.fifo)) :
              /\ pipe' = [pipe EXCEPT !.fifo = Push(pipe.fifo, Bytes(t, 0, n))]
              /\ user' = [user EXCEPT ![t] = [user[t] EXCEPT !.pc = "write", !.amount = @ + n]]
              /\ n = Min2(user[t].count, BufSize - CurrentSize(pipe.fifo))
              /\ log' = [log EXCEPT !.wrote =
                            @ \o Bytes(t, user[t].amount, Min2(n, user[t].count - user[t].amount))]
<1> DEFINE n == Min2(user[t].count, BufSize - CurrentSize(pipe.fifo))
           pushed == [pipe EXCEPT !.fifo = Push(@, Bytes(t, 0, n))]
           again == [user EXCEPT ![t].pc = "write", ![t].amount = @ + n]
<1>1. /\ user \in [Users -> User] /\ pipe \in PipeState /\ user[t].pc = "push"
      /\ user[t].count \in Nat /\ pipe.fifo \in Fifos(Byte)
    BY Zenon DEF IInv, Types, PushBytes, At, User, PipeState
<1>2. CurrentSize(pipe.fifo) \in 0..BufSize /\ BufSize \in Nat
    BY Zenon, <1>1, BufSizeAssumption DEF Fifos
<1>3. n \in 0..(BufSize - CurrentSize(pipe.fifo))
    BY <1>1, <1>2 DEF Min2
<1>4. pipe.cv["read"] = <<>>
    BY Zenon, <1>1, NobodyWaits DEF Ops
<1> HIDE DEF n
<1>5. pushed.cv = pipe.cv
    BY Zenon, <1>1 DEF PipeState
<1>6. NotifyOne(pushed, again, "read") = [pipe |-> pushed, user |-> again]
    BY Zenon, <1>4, <1>5 DEF NotifyOne
<1>7. pipe' = pushed /\ user' = again
  <2> DEFINE r == IF n > 0 THEN NotifyOne(pushed, again, "read") ELSE [pipe |-> pushed, user |-> again]
  <2>1. pipe' = r.pipe /\ user' = r.user
      BY Zenon DEF PushBytes, n
  <2> HIDE DEF pushed, again
  <2>2. r = [pipe |-> pushed, user |-> again]
      BY Zenon, <1>6
  <2> HIDE DEF r
  <2> QED BY Zenon, <2>1, <2>2
<1>8. log' = [log EXCEPT !.wrote = @ \o Bytes(t, user[t].amount, Min2(n, user[t].count - user[t].amount))]
    BY Zenon DEF PushBytes, n
<1>9. n = Min2(user[t].count, BufSize - CurrentSize(pipe.fifo))
    BY Zenon DEF n
<1> QED BY ZenonT(60), <1>3, <1>7, <1>8, <1>9

(* The bytes of a write are a sequence. *)
LEMMA BytesAreSeq ==
    ASSUME IInv, NEW t \in Users, NEW n \in Nat
    PROVE  Bytes(t, 0, n) \in Seq(Byte) /\ Len(Bytes(t, 0, n)) = n
<1> DEFINE b == Bytes(t, 0, n)
<1>1. user[t].no \in Nat
    BY Zenon DEF IInv, Types, User
<1>2. \A k \in 1..n : <<t, user[t].no, 0 + k>> \in Byte
    BY <1>1 DEF Byte
<1>3. b \in [1..n -> Byte]
    BY Zenon, <1>2 DEF Bytes
<1> HIDE DEF b
<1>4. b \in Seq(Byte)
    BY <1>3, SMT
<1>5. Len(b) = n
    BY Zenon, <1>3, <1>4, SMT
<1> QED BY Zenon, <1>4, <1>5 DEF b

(* PopBytes keeps the invariant. *)
LEMMA PopBytesStep ==
    ASSUME IInv, NEW t \in Users, PopBytes(t)
    PROVE  IInv'
<1>1. /\ user[t] \in User /\ user[t].pc = "pop" /\ vn' = vn /\ todo' = todo /\ user[t].op = "read"
      /\ \A op \in Ops : pipe.cv[op] = <<>>
    BY Zenon, NobodyWaits DEF PopBytes, At, IInv, Types, OpFits, Inside
<1>2. PICK n \in 0..CurrentSize(pipe.fifo) :
         /\ pipe' = [pipe EXCEPT !.mutex = Nobody, !.fifo = Pop(pipe.fifo, n)]
         /\ user' = [user EXCEPT ![t] = [user[t] EXCEPT !.pc = "info", !.amount = n, !.ret = "read"]]
    BY ZenonT(60), PopFacts
<1> DEFINE new == [user[t] EXCEPT !.pc = "info", !.amount = n, !.ret = "read"]
           f == Pop(pipe.fifo, n)
<1>3. pipe \in PipeState /\ pipe.fifo \in Fifos(Byte)
    BY Zenon DEF IInv, Types, PipeState
<1>4. n \in Nat
    BY <1>3, BufSizeAssumption DEF Fifos
<1>5. f \in Fifos(Byte)
    BY Zenon, <1>3, PopContents
<1> HIDE DEF f
<1>6. pipe' \in PipeState' /\ pipe'.cv = pipe.cv
    BY ZenonT(60), <1>2, <1>3, <1>5 DEF PipeState, f
<1>7. new \in User /\ new.pc = "info" /\ new.op = user[t].op
    BY ZenonT(60), <1>1, <1>4 DEF User, Pcs, Rets
<1>8. user' = [user EXCEPT ![t] = new]
    BY Zenon, <1>2
<1> HIDE DEF new
<1> QED BY ZenonT(60), <1>1, <1>6, <1>7, <1>8, EmptyQueues, InsideStep DEF Inside

(* PushBytes keeps the invariant. *)
LEMMA PushBytesStep ==
    ASSUME IInv, NEW t \in Users, PushBytes(t)
    PROVE  IInv'
<1>1. /\ user[t] \in User /\ user[t].pc = "push" /\ vn' = vn /\ todo' = todo /\ user[t].op = "write"
      /\ \A op \in Ops : pipe.cv[op] = <<>>
    BY Zenon, NobodyWaits DEF PushBytes, At, IInv, Types, OpFits, Inside
<1>2. PICK n \in 0..(BufSize - CurrentSize(pipe.fifo)) :
         /\ pipe' = [pipe EXCEPT !.fifo = Push(pipe.fifo, Bytes(t, 0, n))]
         /\ user' = [user EXCEPT ![t] = [user[t] EXCEPT !.pc = "write", !.amount = @ + n]]
    BY ZenonT(60), PushFacts
<1> DEFINE amount1 == user[t].amount + n
           new == [user[t] EXCEPT !.pc = "write", !.amount = amount1]
           f == Push(pipe.fifo, Bytes(t, 0, n))
<1>3. pipe \in PipeState /\ pipe.fifo \in Fifos(Byte)
    BY Zenon DEF IInv, Types, PipeState
<1>4. n \in Nat /\ CurrentSize(pipe.fifo) + n <= BufSize
    BY <1>3, BufSizeAssumption DEF Fifos
<1>5. f \in Fifos(Byte)
    BY Zenon, <1>3, <1>4, PushContents, BytesAreSeq
<1>6. amount1 \in Nat
    BY <1>1, <1>4 DEF User
<1>7. user' = [user EXCEPT ![t] = new]
    BY Zenon, <1>2
<1> HIDE DEF f, amount1
<1>8. pipe' \in PipeState' /\ pipe'.cv = pipe.cv
    BY Zenon, <1>2, <1>3, <1>5 DEF PipeState, f
<1>9. new \in User /\ new.pc = "write" /\ new.op = user[t].op
    BY ZenonT(60), <1>1, <1>6 DEF User, Pcs
<1> HIDE DEF new
<1> QED BY ZenonT(60), <1>1, <1>7, <1>8, <1>9, EmptyQueues, InsideStep DEF Inside

-----------------------------------------------------------------------------
(* The theorems *)

(* IInv is an invariant of the pipe: whoever is inside a call holds the    *)
(* file_mutex, and at most one task is in a condition variable's queue.    *)
THEOREM PipeInvariant == PipeSpec => []IInv
<1>1. IInv /\ [PipeNext]_pipeVars => IInv'
  <2> SUFFICES ASSUME IInv, [PipeNext]_pipeVars PROVE IInv'
      BY Zenon
  <2>1. CASE UNCHANGED pipeVars
      BY <2>1 DEF pipeVars, IInv, Types, PipeState, HoldsFile, OpFits, Queued, WokenBySignal
  <2>2. ASSUME NEW t \in Users, UserStep(t) PROVE IInv'
      BY Zenon, <2>2, BeginCallStep, LockFileStep, ReadStep, PopBytesStep, WriteStep, PushBytesStep,
         ResumeStep, GetFileInfoStep, CloseOpenFileStep DEF UserStep
  <2>3. ASSUME NEW t \in Users, Interrupt(t) PROVE IInv'
      BY Zenon, <2>3, InterruptStep
  <2> QED BY Zenon, <2>1, <2>2, <2>3 DEF PipeNext
<1> QED BY <1>1, InitIInv, PTL DEF PipeSpec

(* Only a signal ends a task's wait for the other side of the pipe: to     *)
(* call notify_one the other side needs the file_mutex that the task holds *)
(* (vfs::read and vfs::write), for any tasks, calls and buffer.            *)
THEOREM WaitsEndBySignal == PipeSpec => OnlySignalsEndWaits
<1>1. IInv /\ [PipeNext]_pipeVars
        => [\A t \in Users : At(t, "wait") /\ user'[t].pc # "wait" => user'[t].intr]_pipeVars
  <2> SUFFICES ASSUME IInv, PipeNext
               PROVE  \A t \in Users : At(t, "wait") /\ user'[t].pc # "wait" => user'[t].intr
      BY Zenon
  <2>1. PICK t \in Users : UserStep(t) \/ Interrupt(t)
      BY Zenon DEF PipeNext
  <2>2. user \in [Users -> User]
      BY Zenon DEF IInv, Types
  <2> SUFFICES ASSUME NEW u \in Users, user[u].pc = "wait", user'[u].pc # "wait" PROVE user'[u].intr
      BY Zenon DEF At
  <2>3. CASE Interrupt(t)
      BY Zenon, <2>2, <2>3 DEF Interrupt, User
  <2>4. CASE BeginCall(t) \/ LockFile(t) \/ GetFileInfo(t) \/ CloseOpenFile(t) \/ Read(t) \/ Write(t) \/ Resume(t)
      BY Zenon, <2>2, <2>4 DEF BeginCall, LockFile, GetFileInfo, CloseOpenFile, Read, Write, Resume,
                         WaitInterruptible, At, Goto
  <2>5. CASE PopBytes(t)
      <3>1. PICK n : user' = [user EXCEPT ![t] = [user[t] EXCEPT !.pc = "info", !.amount = n, !.ret = "read"]]
          BY Zenon, <2>5, PopFacts
      <3>2. user[t].pc = "pop"
          BY Zenon, <2>5 DEF PopBytes, At
      <3> QED BY Zenon, <2>2, <3>1, <3>2
  <2>6. CASE PushBytes(t)
      <3>1. PICK n : user' = [user EXCEPT ![t] = [user[t] EXCEPT !.pc = "write", !.amount = @ + n]]
          BY Zenon, <2>6, PushFacts
      <3>2. user[t].pc = "push"
          BY Zenon, <2>6 DEF PushBytes, At
      <3> QED BY Zenon, <2>2, <3>1, <3>2
  <2> QED BY Zenon, <2>1, <2>3, <2>4, <2>5, <2>6 DEF UserStep
<1> QED BY <1>1, PipeInvariant, PTL DEF PipeSpec, OnlySignalsEndWaits

(* A step puts bytes at the end of the contents, or takes them from the front. *)
LEMMA StreamStep ==
    ASSUME IInv, [PipeNext]_pipeVars
    PROVE  [Stream!Put \/ Stream!Get]_(Contents(pipe.fifo))
<1> DEFINE c == Contents(pipe.fifo)
<1>1. pipe \in PipeState /\ pipe.fifo \in Fifos(Byte)
    BY Zenon DEF IInv, Types, PipeState
<1>2. c \in Seq(Byte) /\ Len(c) = CurrentSize(pipe.fifo) /\ CurrentSize(pipe.fifo) \in 0..BufSize /\ BufSize \in Nat
    BY Zenon, <1>1, ContentsIsSeq, BufSizeAssumption
<1>3. CASE pipe'.fifo = pipe.fifo
    BY Zenon, <1>3
<1>4. ASSUME NEW t \in Users, PopBytes(t) PROVE Stream!Get
  <2>1. PICK n \in 0..CurrentSize(pipe.fifo) :
           pipe' = [pipe EXCEPT !.mutex = Nobody, !.fifo = Pop(pipe.fifo, n)]
      BY ZenonT(60), <1>4, PopFacts
  <2>2. pipe'.fifo = Pop(pipe.fifo, n)
      BY Zenon, <2>1, <1>1 DEF PipeState
  <2>3. Contents(pipe'.fifo) = SubSeq(c, n + 1, Len(c))
      BY Zenon, <2>2, <1>1, PopContents
  <2>4. c' = SubSeq(c, n + 1, Len(c)) /\ n \in 0..Len(c)
      BY Zenon, <2>3, <1>2
  <2> QED BY Zenon, <2>4 DEF Stream!Get
<1>5. ASSUME NEW t \in Users, PushBytes(t) PROVE Stream!Put
  <2>1. PICK n \in 0..(BufSize - CurrentSize(pipe.fifo)) :
           pipe' = [pipe EXCEPT !.fifo = Push(pipe.fifo, Bytes(t, 0, n))]
      BY ZenonT(60), <1>5, PushFacts
  <2> DEFINE b == Bytes(t, 0, n)
  <2>2. pipe'.fifo = Push(pipe.fifo, b)
      BY Zenon, <2>1, <1>1 DEF PipeState
  <2>3. n \in Nat /\ CurrentSize(pipe.fifo) + n <= BufSize
      BY <1>2
  <2>4. b \in Seq(Byte) /\ Len(b) = n
      BY Zenon, <2>3, BytesAreSeq
  <2> HIDE DEF b
  <2>5. c' = c \o b
      BY Zenon, <2>2, <2>3, <2>4, <1>1, PushContents
  <2> HIDE DEF c
  <2>6. Len(c \o b) = Len(c) + n /\ SubSeq(c \o b, 1, Len(c)) = c
      BY <2>4, <1>2
  <2>7. Len(c') \in Len(c)..BufSize /\ SubSeq(c', 1, Len(c)) = c
      BY SMTT(60), <2>3, <2>5, <2>6, <1>2
  <2> QED BY Zenon, <2>7 DEF Stream!Put, c
<1>6. ASSUME NEW t \in Users,
             BeginCall(t) \/ LockFile(t) \/ GetFileInfo(t) \/ CloseOpenFile(t) \/ Read(t) \/ Write(t)
             \/ Resume(t) \/ Interrupt(t)
      PROVE  pipe'.fifo = pipe.fifo
    BY ZenonT(60), <1>1, <1>6 DEF PipeState, BeginCall, LockFile, GetFileInfo, CloseOpenFile, Read, Write, Resume,
                      Interrupt, WaitInterruptible, Unlocked
<1>7. CASE UNCHANGED pipeVars
    BY Zenon, <1>3, <1>7 DEF pipeVars
<1> QED BY Zenon, <1>3, <1>4, <1>5, <1>6, <1>7 DEF PipeNext, UserStep

(* The circular buffer of a pipe (pipe_manager::read and write, fifo::push *)
(* and pop) is a stream of bytes, for any tasks, calls and buffer size.    *)
THEOREM PipeRefinesStream == PipeSpec => PipeIsAStream
<1>1. PipeInit => Stream!StreamInit
    BY NewFifoIsEmpty DEF PipeInit, Stream!StreamInit
<1>2. IInv /\ [PipeNext]_pipeVars => [Stream!Put \/ Stream!Get]_(Contents(pipe.fifo))
    BY Zenon, StreamStep
<1> QED BY <1>1, <1>2, PipeInvariant, PTL DEF PipeSpec, PipeIsAStream, Stream!StreamSpec

-----------------------------------------------------------------------------
(* The bytes read and the bytes written *)

(***************************************************************************)
(* The bytes written are those read, then those in the buffer.             *)
(***************************************************************************)
Story ==
    /\ log \in [wrote : Seq(Byte), got : Seq(Byte)]
    /\ log.wrote = log.got \o Contents(pipe.fifo)

(***************************************************************************)
(* A write copies once: then it is done, or the buffer is full, and the    *)
(* wait that follows ends by a signal only.                                *)
(***************************************************************************)
OnePass ==
    \A t \in Users :
        /\ user[t].pc \in {"file", "push"} => user[t].amount = 0
        /\ user[t].pc = "write" => \/ user[t].amount = 0
                                   \/ user[t].amount >= user[t].count
                                   \/ CurrentSize(pipe.fifo) = BufSize

(* The steps that move no bytes. *)
NoBytes(t) ==
    \/ BeginCall(t) \/ LockFile(t) \/ GetFileInfo(t) \/ CloseOpenFile(t) \/ Read(t) \/ Write(t)
    \/ Resume(t) \/ Interrupt(t)

(* They leave the buffer and the history alone. *)
LEMMA BufferKept ==
    ASSUME IInv, NEW t \in Users, NoBytes(t)
    PROVE  pipe'.fifo = pipe.fifo /\ log' = log
<1>1. pipe \in PipeState
    BY Zenon DEF IInv, Types
<1>2. pipe'.fifo = pipe.fifo
    BY ZenonT(60), <1>1 DEF NoBytes, PipeState, BeginCall, LockFile, GetFileInfo, CloseOpenFile, Read, Write,
                            Resume, Interrupt, WaitInterruptible, Unlocked
<1>3. log' = log
    BY Zenon DEF NoBytes, BeginCall, LockFile, GetFileInfo, CloseOpenFile, Read, Write, Resume, Interrupt
<1> QED BY Zenon, <1>2, <1>3

(* A step of a task. *)
LEMMA StepCases ==
    ASSUME NEW t \in Users, UserStep(t) \/ Interrupt(t)
    PROVE  NoBytes(t) \/ PopBytes(t) \/ PushBytes(t)
BY Zenon DEF UserStep, NoBytes

(* Every step keeps the story of the bytes. *)
LEMMA StoryStep ==
    ASSUME IInv, Story, OnePass, NEW t \in Users, UserStep(t) \/ Interrupt(t)
    PROVE  Story'
<1> DEFINE c == Contents(pipe.fifo)
<1>1. pipe \in PipeState /\ pipe.fifo \in Fifos(Byte) /\ user \in [Users -> User]
    BY Zenon DEF IInv, Types, PipeState
<1>2. c \in Seq(Byte) /\ Len(c) = CurrentSize(pipe.fifo) /\ CurrentSize(pipe.fifo) \in 0..BufSize /\ BufSize \in Nat
    BY Zenon, <1>1, ContentsIsSeq, BufSizeAssumption
<1>3. log \in [wrote : Seq(Byte), got : Seq(Byte)] /\ log.wrote = log.got \o c
    BY Zenon DEF Story
<1>4. CASE NoBytes(t)
    BY ZenonT(60), <1>3, <1>4, BufferKept DEF Story
<1>5. CASE PopBytes(t)
  <2>1. PICK n \in 0..CurrentSize(pipe.fifo) :
           /\ pipe' = [pipe EXCEPT !.mutex = Nobody, !.fifo = Pop(pipe.fifo, n)]
           /\ log' = [log EXCEPT !.got = @ \o SubSeq(c, 1, n)]
      BY ZenonT(60), <1>5, PopFacts
  <2>2. pipe'.fifo = Pop(pipe.fifo, n)
      BY Zenon, <2>1, <1>1 DEF PipeState
  <2>3. Contents(pipe'.fifo) = SubSeq(c, n + 1, Len(c))
      BY Zenon, <2>2, <1>1, PopContents
  <2> HIDE DEF c
  <2> DEFINE g == log.got \o SubSeq(c, 1, n)
  <2>4. g \in Seq(Byte) /\ g \o SubSeq(c, n + 1, Len(c)) = log.got \o c
    <3>1. log.got \in Seq(Byte) /\ n \in 0..Len(c)
        BY Zenon, <1>2, <1>3
    <3>2. g \in Seq(Byte)
        BY <1>2, <3>1
    <3> QED BY ZenonT(60), <1>2, <3>1, <3>2, MoveFront
  <2>5. log' = [log EXCEPT !.got = g]
      BY Zenon, <2>1
  <2> HIDE DEF g
  <2>6. log' \in [wrote : Seq(Byte), got : Seq(Byte)] /\ log'.got = g /\ log'.wrote = log.wrote
      BY ZenonT(60), <1>3, <2>4, <2>5
  <2> QED BY ZenonT(60), <1>3, <2>3, <2>4, <2>6 DEF Story
<1>6. CASE PushBytes(t)
  <2>1. PICK n \in 0..(BufSize - CurrentSize(pipe.fifo)) :
           /\ pipe' = [pipe EXCEPT !.fifo = Push(pipe.fifo, Bytes(t, 0, n))]
           /\ n = Min2(user[t].count, BufSize - CurrentSize(pipe.fifo))
           /\ log' = [log EXCEPT !.wrote =
                            @ \o Bytes(t, user[t].amount, Min2(n, user[t].count - user[t].amount))]
      BY ZenonT(60), <1>6, PushFacts
  <2> DEFINE b == Bytes(t, 0, n)
  <2>2. pipe'.fifo = Push(pipe.fifo, b)
      BY Zenon, <2>1, <1>1 DEF PipeState
  <2>3. n \in Nat /\ CurrentSize(pipe.fifo) + n <= BufSize
      BY <1>2
  <2>4. b \in Seq(Byte) /\ Len(b) = n
      BY Zenon, <2>3, BytesAreSeq
  <2>5. user[t].amount = 0 /\ user[t].count \in Nat
      BY Zenon, <1>1, <1>6 DEF OnePass, PushBytes, At, User
  <2>6. Min2(n, user[t].count - user[t].amount) = n
      BY <1>2, <2>1, <2>5 DEF Min2
  <2>7. log' = [log EXCEPT !.wrote = @ \o b]
      BY ZenonT(60), <2>1, <2>5, <2>6
  <2> HIDE DEF b
  <2>8. Contents(pipe'.fifo) = c \o b
      BY Zenon, <2>2, <2>3, <2>4, <1>1, PushContents
  <2> HIDE DEF c
  <2> DEFINE w == log.wrote \o b
  <2>9. w \in Seq(Byte) /\ w = log.got \o (c \o b)
    <3>1. log.wrote \in Seq(Byte) /\ log.got \in Seq(Byte)
        BY ZenonT(60), <1>3
    <3>2. Regroups(log.got, c, b)
        BY <1>2, <2>4, <3>1, Regroup, Zenon
    <3>3. w \in Seq(Byte)
        BY <2>4, <3>1
    <3> QED BY <1>3, <3>2, <3>3, Zenon DEF Regroups
  <2>10. log' = [log EXCEPT !.wrote = w]
      BY Zenon, <2>7
  <2> HIDE DEF w
  <2>11. log' \in [wrote : Seq(Byte), got : Seq(Byte)] /\ log'.wrote = w /\ log'.got = log.got
      BY ZenonT(60), <1>3, <2>9, <2>10
  <2> QED BY Zenon, <2>8, <2>9, <2>11 DEF Story
<1> QED BY Zenon, <1>4, <1>5, <1>6, StepCases

-----------------------------------------------------------------------------
(* Where the calls go *)

(* The call of task t goes on with the same operation, count and amount. *)
GoesOn(t) ==
    /\ OnlyCallOf(t) /\ user'[t].op = user[t].op
    /\ user'[t].count = user[t].count /\ user'[t].amount = user[t].amount

(* A step that only moves the call of task t to pc. *)
LEMMA SetPc ==
    ASSUME IInv, NEW t \in Users, NEW pc, user' = [user EXCEPT ![t].pc = pc]
    PROVE  GoesOn(t) /\ user'[t].pc = pc /\ user'[t].ret = user[t].ret
<1>1. user \in [Users -> User] /\ user[t] \in User
    BY Zenon DEF IInv, Types
<1>2. user'[t] = [user[t] EXCEPT !.pc = pc] /\ OnlyCallOf(t)
    BY Zenon, <1>1 DEF OnlyCallOf
<1> QED BY Zenon, <1>1, <1>2 DEF GoesOn, User

(* A step that moves the call of task t to pc with result r. *)
LEMMA SetPcRet ==
    ASSUME IInv, NEW t \in Users, NEW pc, NEW r, user' = [user EXCEPT ![t].pc = pc, ![t].ret = r]
    PROVE  GoesOn(t) /\ user'[t].pc = pc /\ user'[t].ret = r
<1>1. user \in [Users -> User] /\ user[t] \in User
    BY Zenon DEF IInv, Types
<1>2. user'[t] = [user[t] EXCEPT !.pc = pc, !.ret = r] /\ OnlyCallOf(t)
    BY Zenon, <1>1 DEF OnlyCallOf
<1> QED BY Zenon, <1>1, <1>2 DEF GoesOn, User

(* Where a call of task t goes from each place. *)
LEMMA LockFileMoves ==
    ASSUME IInv, NEW t \in Users, LockFile(t)
    PROVE  GoesOn(t) /\ user[t].pc = "file" /\ user'[t].pc = user[t].op /\ user[t].op \in Ops
<1>1. user[t].pc = "file" /\ user[t].op \in Ops
    BY Zenon DEF LockFile, At, IInv, OpFits
<1> QED BY <1>1, SetPc, Zenon DEF LockFile, Goto

(* pipe_manager::read finds bytes, waits, or finds no writer. *)
LEMMA ReadMoves ==
    ASSUME IInv, NEW t \in Users, Read(t)
    PROVE  /\ GoesOn(t) /\ user[t].pc = "read"
           /\ \/ user'[t].pc \in {"pop", "wait"}
              \/ user'[t].pc = "info" /\ pipe.ends["w"] = 0
<1>1. user[t].pc = "read"
    BY Zenon DEF Read, At
<1>2. \/ user' = [user EXCEPT ![t].pc = "pop"]
      \/ user' = [user EXCEPT ![t].pc = "wait"]
      \/ user' = [user EXCEPT ![t].pc = "info", ![t].ret = "eof"] /\ pipe.ends["w"] = 0
    BY Zenon DEF Read, WaitInterruptible, Goto
<1>3. CASE user' = [user EXCEPT ![t].pc = "pop"]
    BY <1>1, <1>3, SetPc, Zenon
<1>4. CASE user' = [user EXCEPT ![t].pc = "wait"]
    BY <1>1, <1>4, SetPc, Zenon
<1>5. CASE user' = [user EXCEPT ![t].pc = "info", ![t].ret = "eof"] /\ pipe.ends["w"] = 0
    BY <1>1, <1>5, SetPcRet, Zenon
<1> QED BY Zenon, <1>2, <1>3, <1>4, <1>5

(* pipe_manager::write waits, copies, or is done. *)
LEMMA WriteMoves ==
    ASSUME IInv, NEW t \in Users, Write(t)
    PROVE  /\ GoesOn(t) /\ user[t].pc = "write"
           /\ \/ user'[t].pc = "wait"
              \/ user'[t].pc = "push" /\ ~(user[t].amount >= user[t].count) /\ CurrentSize(pipe.fifo) # BufSize
              \/ user'[t].pc = "info" /\ user'[t].ret # "eof"
<1>1. user[t].pc = "write"
    BY Zenon DEF Write, At
<1>2. CASE Closed \/ user[t].amount >= user[t].count
  <2> DEFINE r == IF Closed THEN "closed" ELSE "written"
  <2>1. user' = [user EXCEPT ![t].pc = "info", ![t].ret = r]
      BY Zenon, <1>2 DEF Write
  <2>2. r # "eof"
      BY Zenon
  <2> HIDE DEF r
  <2> QED BY Zenon, <1>1, <2>1, <2>2, SetPcRet
<1>3. CASE ~(Closed \/ user[t].amount >= user[t].count) /\ CurrentSize(pipe.fifo) = BufSize
  <2>1. user' = [user EXCEPT ![t].pc = "wait"]
      BY Zenon, <1>3 DEF Write, WaitInterruptible, Goto
  <2> QED BY Zenon, <1>1, <2>1, SetPc
<1>4. CASE ~(Closed \/ user[t].amount >= user[t].count) /\ CurrentSize(pipe.fifo) # BufSize
  <2>1. user' = [user EXCEPT ![t].pc = "push"]
      BY Zenon, <1>4 DEF Write, Goto
  <2> QED BY Zenon, <1>1, <1>4, <2>1, SetPc
<1> QED BY Zenon, <1>2, <1>3, <1>4

(* A task that a signal woke ends its call. *)
LEMMA ResumeMoves ==
    ASSUME IInv, NEW t \in Users, Resume(t)
    PROVE  GoesOn(t) /\ user[t].pc = "woken" /\ user'[t].pc = "info" /\ user'[t].ret # "eof"
<1> DEFINE r == IF user[t].op = "read" THEN "read" ELSE "written"
<1>1. user[t].pc = "woken" /\ user[t].intr
    BY Zenon DEF Resume, At, IInv, WokenBySignal
<1>2. user' = [user EXCEPT ![t].pc = "info", ![t].ret = r]
    BY Zenon, <1>1 DEF Resume
<1>3. r # "eof"
    BY Zenon
<1> HIDE DEF r
<1> QED BY Zenon, <1>1, <1>2, <1>3, SetPcRet

(* The end of vfs::read and vfs::write. *)
LEMMA GetFileInfoMoves ==
    ASSUME IInv, NEW t \in Users, GetFileInfo(t)
    PROVE  GoesOn(t) /\ user[t].pc = "info" /\ user'[t].pc = "idle"
BY Zenon, SetPcRet DEF GetFileInfo, At

(* The end of vfs::close. *)
LEMMA CloseMoves ==
    ASSUME IInv, NEW t \in Users, CloseOpenFile(t)
    PROVE  GoesOn(t) /\ user[t].pc = "close" /\ user'[t].pc = "idle"
BY Zenon, SetPc DEF CloseOpenFile, At, Goto

(* A signal leaves the call where it is, unless it waits. *)
LEMMA InterruptMoves ==
    ASSUME IInv, NEW t \in Users, Interrupt(t)
    PROVE  /\ GoesOn(t) /\ user[t].pc # "idle" /\ user'[t].ret = user[t].ret
           /\ user'[t].pc = IF user[t].pc = "wait" THEN "woken" ELSE user[t].pc
<1> DEFINE pc1 == IF user[t].pc = "wait" THEN "woken" ELSE user[t].pc
<1>1. user \in [Users -> User] /\ user[t] \in User
    BY Zenon DEF IInv, Types
<1>2. user' = [user EXCEPT ![t].intr = TRUE, ![t].pc = pc1] /\ user[t].pc # "idle"
    BY Zenon DEF Interrupt, At
<1> HIDE DEF pc1
<1>3. user'[t] = [user[t] EXCEPT !.intr = TRUE, !.pc = pc1] /\ OnlyCallOf(t)
    BY Zenon, <1>1, <1>2 DEF OnlyCallOf
<1>4. GoesOn(t) /\ user'[t].pc = pc1 /\ user'[t].ret = user[t].ret
    BY Zenon, <1>1, <1>3 DEF GoesOn, User
<1> QED BY Zenon, <1>2, <1>4 DEF pc1

(* A read that copied is done. *)
LEMMA PopMoves ==
    ASSUME IInv, NEW t \in Users, PopBytes(t)
    PROVE  /\ OnlyCallOf(t) /\ user'[t].op = user[t].op
           /\ user[t].pc = "pop" /\ user'[t].pc = "info" /\ user'[t].ret = "read"
<1>1. PICK n : user' = [user EXCEPT ![t] = [user[t] EXCEPT !.pc = "info", !.amount = n, !.ret = "read"]]
    BY Zenon, PopFacts
<1>2. user \in [Users -> User] /\ user[t] \in User /\ user[t].pc = "pop"
    BY Zenon DEF IInv, Types, PopBytes, At
<1> QED BY Zenon, <1>1, <1>2 DEF OnlyCallOf, User

(* A write that copied looks again at the buffer. *)
LEMMA PushMoves ==
    ASSUME IInv, NEW t \in Users, PushBytes(t)
    PROVE  /\ OnlyCallOf(t) /\ user'[t].op = user[t].op
           /\ user[t].pc = "push" /\ user'[t].pc = "write"
<1>1. PICK n : user' = [user EXCEPT ![t] = [user[t] EXCEPT !.pc = "write", !.amount = @ + n]]
    BY Zenon, PushFacts
<1>2. user \in [Users -> User] /\ user[t] \in User /\ user[t].pc = "push"
    BY Zenon DEF IInv, Types, PushBytes, At
<1> QED BY Zenon, <1>1, <1>2 DEF OnlyCallOf, User

(* A step of task t that begins no call keeps the kind of its call; a call is closed by CloseOpenFile only. *)
LEMMA StepOfOne ==
    ASSUME IInv, NEW t \in Users, UserStep(t) \/ Interrupt(t), ~BeginCall(t)
    PROVE  /\ OnlyCallOf(t) /\ user'[t].op = user[t].op
           /\ CloseOpenFile(t) \/ Interrupt(t) \/ user[t].pc \in Inside \cup {"file"}
           /\ user'[t].pc = "close" => user[t].pc = "close"
           /\ user'[t].pc = "idle" => user[t].pc \in {"info", "close"}
           /\ user[t].pc # "idle"
<1>1. CASE LockFile(t)
    BY Zenon, <1>1, LockFileMoves DEF GoesOn, Ops
<1>2. CASE Read(t)
    BY Zenon, <1>2, ReadMoves DEF GoesOn, Inside
<1>3. CASE Write(t)
    BY Zenon, <1>3, WriteMoves DEF GoesOn, Inside
<1>4. CASE Resume(t)
    BY Zenon, <1>4, ResumeMoves DEF GoesOn, Inside
<1>5. CASE GetFileInfo(t)
    BY Zenon, <1>5, GetFileInfoMoves DEF GoesOn, Inside
<1>6. CASE CloseOpenFile(t)
    BY Zenon, <1>6, CloseMoves DEF GoesOn
<1>7. CASE Interrupt(t)
    BY Zenon, <1>7, InterruptMoves DEF GoesOn
<1>8. CASE PopBytes(t)
    BY Zenon, <1>8, PopMoves DEF Inside
<1>9. CASE PushBytes(t)
    BY Zenon, <1>9, PushMoves DEF Inside
<1> QED BY <1>1, <1>2, <1>3, <1>4, <1>5, <1>6, <1>7, <1>8, <1>9 DEF UserStep

(* BeginCall *)
LEMMA BeginMoves ==
    ASSUME IInv, NEW t \in Users, BeginCall(t)
    PROVE  /\ OnlyCallOf(t) /\ user[t].pc = "idle" /\ todo.calls[t] # <<>>
           /\ user'[t].op = Head(todo.calls[t]).op /\ user'[t].amount = 0
           /\ user'[t].pc = IF Head(todo.calls[t]).op = "close" THEN "close" ELSE "file"
<1>1. user \in [Users -> User]
    BY Zenon DEF IInv, Types
<1> QED BY Zenon, <1>1 DEF BeginCall, At, AtRest, OnlyCallOf

-----------------------------------------------------------------------------
(***************************************************************************)
(* What the calls of a pipe return, for any tasks, calls and size of the   *)
(* buffer.                                                                 *)
(***************************************************************************)

(* The descriptors of end e that are still open. *)
Open(e) == {t \in Users : todo.end[t] = e /\ ~(user[t].pc = "idle" /\ user[t].op = "close")}

(* A task closes its descriptor in its last call. *)
LastCall ==
    \A t \in Users :
        /\ CloseIsLast(todo.calls[t])
        /\ user[t].op = "close" => user[t].pc \in {"close", "idle"} /\ todo.calls[t] = <<>>
        /\ user[t].pc = "close" => user[t].op = "close"

(* The pipe counts the open descriptors of each end. *)
EndsAreCounted ==
    /\ pipe.ends \in [{"r", "w"} -> Nat]
    /\ \A e \in {"r", "w"} : pipe.ends[e] = Cardinality(Open(e))

SInv == Story /\ OnePass /\ LastCall /\ EndsAreCounted /\ EofMeansNoWriter

(* Every step keeps OnePass: a write that goes on finds the buffer full. *)
LEMMA OnePassStep ==
    ASSUME IInv, OnePass, NEW t \in Users, UserStep(t) \/ Interrupt(t)
    PROVE  OnePass'
<1> DEFINE Fits(u) == /\ user'[u].pc \in {"file", "push"} => user'[u].amount = 0
                      /\ user'[u].pc = "write" => \/ user'[u].amount = 0
                                                  \/ user'[u].amount >= user'[u].count
                                                  \/ CurrentSize(pipe'.fifo) = BufSize
<1>1. user \in [Users -> User] /\ user[t].pc \in Pcs /\ user[t].amount \in Nat /\ user[t].count \in Nat
    BY Zenon DEF IInv, Types, User
<1>2. pipe \in PipeState /\ pipe.fifo \in Fifos(Byte)
    BY Zenon DEF IInv, Types, PipeState
<1>3. CurrentSize(pipe.fifo) \in 0..BufSize /\ BufSize \in Nat
    BY Zenon, <1>2, BufSizeAssumption DEF Fifos
<1>4. Fits(t)
  <2>1. CASE BeginCall(t)
      BY Zenon, <2>1, BeginMoves
  <2>2. CASE LockFile(t)
      BY Zenon, <2>2, LockFileMoves DEF GoesOn, OnePass
  <2>3. CASE Read(t) \/ Resume(t) \/ GetFileInfo(t) \/ CloseOpenFile(t) \/ PopBytes(t)
    <3>1. user'[t].pc \in {"pop", "wait", "info", "idle"}
        BY Zenon, <2>3, ReadMoves, ResumeMoves, GetFileInfoMoves, CloseMoves, PopMoves
    <3> QED BY Zenon, <3>1
  <2>4. CASE Write(t)
      BY Zenon, <1>1, <2>4, WriteMoves DEF GoesOn, OnePass
  <2>6. CASE PushBytes(t)
    <3>1. PICK n \in 0..(BufSize - CurrentSize(pipe.fifo)) :
             /\ pipe' = [pipe EXCEPT !.fifo = Push(pipe.fifo, Bytes(t, 0, n))]
             /\ user' = [user EXCEPT ![t] = [user[t] EXCEPT !.pc = "write", !.amount = @ + n]]
             /\ n = Min2(user[t].count, BufSize - CurrentSize(pipe.fifo))
        BY ZenonT(60), <2>6, PushFacts
    <3>2. user[t].amount = 0
        BY Zenon, <2>6 DEF PushBytes, At, OnePass
    <3>3. user'[t].pc = "write" /\ user'[t].amount = n /\ user'[t].count = user[t].count
        BY <1>1, <3>1, <3>2 DEF User
    <3>4. n \in Nat /\ CurrentSize(pipe.fifo) + n <= BufSize
        BY <1>3
    <3>5. CurrentSize(Push(pipe.fifo, Bytes(t, 0, n))) = CurrentSize(pipe.fifo) + n
        BY <1>2, <3>4, PushContents, BytesAreSeq
    <3>6. pipe'.fifo = Push(pipe.fifo, Bytes(t, 0, n))
        BY Zenon, <1>2, <3>1 DEF PipeState
    <3>7. n = user[t].count \/ CurrentSize(pipe'.fifo) = BufSize
        BY <1>1, <1>3, <3>1, <3>5, <3>6 DEF Min2
    <3> QED BY <1>1, <3>3, <3>7
  <2>7. CASE Interrupt(t)
    <3>1. pipe' = pipe
        BY Zenon, <2>7 DEF Interrupt
    <3> QED BY Zenon, <2>7, <3>1, InterruptMoves DEF GoesOn, OnePass
  <2> QED BY Zenon, <2>1, <2>2, <2>3, <2>4, <2>6, <2>7 DEF UserStep
<1>5. ASSUME NEW u \in Users \ {t} PROVE Fits(u)
  <2>1. user'[u] = user[u]
      BY Zenon, StepOfOne, BeginMoves DEF OnlyCallOf
  <2>2. CASE NoBytes(t)
    <3>1. pipe'.fifo = pipe.fifo
        BY Zenon, <2>2, BufferKept
    <3> QED BY Zenon, <2>1, <3>1 DEF OnePass
  <2>3. CASE PopBytes(t) \/ PushBytes(t)
    <3>1. user[t].pc \in Inside /\ vn.file = t
        BY ZenonT(60), <2>3 DEF PopBytes, PushBytes, At, IInv, HoldsFile, Inside
    <3>2. user[u].pc # "write"
        BY Zenon, <3>1 DEF IInv, HoldsFile, Inside
    <3> QED BY Zenon, <2>1, <3>2 DEF OnePass
  <2> QED BY Zenon, <2>2, <2>3, StepCases
<1> HIDE DEF Fits
<1>6. \A u \in Users : Fits(u)
    BY Zenon, <1>4, <1>5
<1> QED BY <1>6, Zenon DEF OnePass, Fits

(* Every step keeps LastCall. *)
LEMMA LastCallStep ==
    ASSUME IInv, LastCall, NEW t \in Users, UserStep(t) \/ Interrupt(t)
    PROVE  LastCall'
<1> DEFINE Fits(u) == /\ CloseIsLast(todo'.calls[u])
                      /\ user'[u].op = "close" => user'[u].pc \in {"close", "idle"} /\ todo'.calls[u] = <<>>
                      /\ user'[u].pc = "close" => user'[u].op = "close"
<1>1. todo \in PipeScript /\ todo.calls \in [Users -> Seq(Call)]
    BY Zenon DEF IInv, Types, PipeScript
<1>2. OnlyCallOf(t)
    BY Zenon, StepOfOne, BeginMoves
<1>3. CASE BeginCall(t)
  <2> DEFINE q == todo.calls[t]
             c == Head(q)
  <2>1. q \in Seq(Call) /\ q # <<>> /\ CloseIsLast(q) /\ c = q[1]
      BY <1>1, <1>3, BeginMoves DEF LastCall
  <2>2. todo'.calls[t] = Tail(q) /\ \A u \in Users \ {t} : todo'.calls[u] = todo.calls[u]
      BY Zenon, <1>1, <1>3 DEF BeginCall, PipeScript
  <2>3. user'[t].pc = (IF c.op = "close" THEN "close" ELSE "file") /\ user'[t].op = c.op
      BY Zenon, <1>3, BeginMoves
  <2> HIDE DEF q, c
  <2>4. CloseIsLast(Tail(q))
      BY <2>1 DEF CloseIsLast
  <2>5. c.op = "close" => Tail(q) = <<>>
      BY <2>1 DEF CloseIsLast
  <2>6. Fits(t)
      BY Zenon, <2>2, <2>3, <2>4, <2>5
  <2>7. \A u \in Users \ {t} : Fits(u)
      BY <1>2, <2>2, Zenon DEF OnlyCallOf, LastCall
  <2> HIDE DEF Fits
  <2>8. \A u \in Users : Fits(u)
      BY Zenon, <2>6, <2>7
  <2> QED BY <2>8, Zenon DEF LastCall, Fits
<1>4. CASE ~BeginCall(t)
  <2>1. todo'.calls = todo.calls
    <3>1. CASE Interrupt(t) \/ Read(t) \/ Write(t)
        BY Zenon, <1>1, <3>1 DEF Interrupt, Read, Write, WaitInterruptible, PipeScript
    <3>2. CASE ~(Interrupt(t) \/ Read(t) \/ Write(t))
        BY ZenonT(60), <1>4, <3>2 DEF UserStep, LockFile, PopBytes, PushBytes, Resume, GetFileInfo, CloseOpenFile
    <3> QED BY Zenon, <3>1, <3>2
  <2>2. \A u \in Users \ {t} : Fits(u)
      BY <1>2, <2>1, Zenon DEF OnlyCallOf, LastCall
  <2>3. /\ user'[t].op = user[t].op /\ user[t].pc # "idle"
        /\ CloseOpenFile(t) \/ Interrupt(t) \/ user[t].pc \in Inside \cup {"file"}
        /\ user'[t].pc = "close" => user[t].pc = "close"
      BY Zenon, <1>4, StepOfOne
  <2>4. ASSUME user[t].op = "close" PROVE Fits(t)
    <3>1. user[t].pc = "close" /\ user[t].pc \notin Inside \cup {"file"}
        BY Zenon, <2>3, <2>4 DEF LastCall, Inside
    <3>2. user'[t].pc \in {"close", "idle"}
        BY Zenon, <2>3, <3>1, CloseMoves, InterruptMoves
    <3> QED BY Zenon, <2>1, <2>3, <2>4, <3>2 DEF LastCall
  <2>5. ASSUME user[t].op # "close" PROVE Fits(t)
      BY Zenon, <2>1, <2>3, <2>5 DEF LastCall
  <2> HIDE DEF Fits
  <2>6. \A u \in Users : Fits(u)
      BY Zenon, <2>2, <2>4, <2>5
  <2> QED BY <2>6, Zenon DEF LastCall, Fits
<1> QED BY Zenon, <1>3, <1>4

(* What CloseOpenFile does to the open descriptors, and no other step to any of them. *)
LEMMA OpenKept ==
    ASSUME IInv, LastCall, NEW t \in Users, UserStep(t) \/ Interrupt(t)
    PROVE  /\ todo'.end = todo.end /\ todo.end \in [Users -> {"r", "w"}]
           /\ \A e : Open(e)' = IF CloseOpenFile(t) /\ todo.end[t] = e THEN Open(e) \ {t} ELSE Open(e)
           /\ CloseOpenFile(t) => t \in Open(todo.end[t])
<1> DEFINE Gone(u) == user[u].pc = "idle" /\ user[u].op = "close"
           Goes(u) == user'[u].pc = "idle" /\ user'[u].op = "close"
<1>1. todo \in PipeScript /\ todo.end \in [Users -> {"r", "w"}]
    BY Zenon DEF IInv, Types, PipeScript
<1>2. todo'.end = todo.end
  <2>1. CASE BeginCall(t) \/ Interrupt(t) \/ Read(t) \/ Write(t)
      BY Zenon, <1>1, <2>1 DEF BeginCall, Interrupt, Read, Write, WaitInterruptible, PipeScript
  <2>2. CASE ~(BeginCall(t) \/ Interrupt(t) \/ Read(t) \/ Write(t))
      BY ZenonT(60), <2>2 DEF UserStep, LockFile, PopBytes, PushBytes, Resume, GetFileInfo, CloseOpenFile
  <2> QED BY Zenon, <2>1, <2>2
<1>3. \A u \in Users \ {t} : Goes(u) <=> Gone(u)
    BY StepOfOne, BeginMoves DEF OnlyCallOf
<1>4. CASE CloseOpenFile(t)
  <2>1. user[t].pc = "close" /\ user'[t].pc = "idle" /\ user'[t].op = user[t].op
      BY Zenon, <1>4, CloseMoves DEF GoesOn
  <2>2. Goes(t) /\ ~Gone(t)
      BY Zenon, <2>1 DEF LastCall
  <2> HIDE DEF Gone, Goes
  <2>3. t \in Open(todo.end[t])
      BY Zenon, <2>2 DEF Open, Gone
  <2>4. ASSUME NEW e PROVE Open(e)' = IF todo.end[t] = e THEN Open(e) \ {t} ELSE Open(e)
    <3>1. Open(e) = {u \in Users : todo.end[u] = e /\ ~Gone(u)}
        BY Zenon DEF Open, Gone
    <3>2. Open(e)' = {u \in Users : todo.end[u] = e /\ ~Goes(u)}
        BY Zenon, <1>2 DEF Open, Goes
    <3> QED BY Zenon, <1>3, <2>2, <3>1, <3>2
  <2> QED BY Zenon, <1>1, <1>2, <1>4, <2>3, <2>4
<1>5. CASE ~CloseOpenFile(t)
  <2>1. ~Gone(t)
    <3>1. CASE BeginCall(t)
        BY Zenon, <3>1, BeginMoves DEF LastCall
    <3>2. CASE ~BeginCall(t)
        BY Zenon, <3>2, StepOfOne
    <3> QED BY Zenon, <3>1, <3>2
  <2>2. ~Goes(t)
    <3>1. CASE BeginCall(t)
        BY Zenon, <3>1, BeginMoves
    <3>2. CASE ~BeginCall(t) /\ user'[t].pc = "idle"
      <4>1. user[t].pc \in {"info", "close"} /\ user'[t].op = user[t].op
          BY Zenon, <3>2, StepOfOne
      <4>2. user[t].pc = "info"
        <5>1. CASE Interrupt(t)
            BY Zenon, <3>2, <5>1, InterruptMoves
        <5>2. CASE ~Interrupt(t)
            BY Zenon, <1>5, <3>2, <4>1, <5>2, StepOfOne DEF Inside
        <5> QED BY Zenon, <5>1, <5>2
      <4>3. user[t].op \in Ops
          BY Zenon, <4>2 DEF IInv, OpFits, Inside
      <4> QED BY Zenon, <4>1, <4>3 DEF Ops
    <3> QED BY Zenon, <3>1, <3>2
  <2> HIDE DEF Gone, Goes
  <2>3. ASSUME NEW e PROVE Open(e)' = Open(e)
    <3>1. Open(e) = {u \in Users : todo.end[u] = e /\ ~Gone(u)}
        BY Zenon DEF Open, Gone
    <3>2. Open(e)' = {u \in Users : todo.end[u] = e /\ ~Goes(u)}
        BY Zenon, <1>2 DEF Open, Goes
    <3> QED BY Zenon, <1>3, <2>1, <2>2, <3>1, <3>2
  <2> QED BY Zenon, <1>1, <1>2, <1>5, <2>3
<1> QED BY Zenon, <1>4, <1>5

(* What a step does to the counts of the open ends. *)
LEMMA EndsKept ==
    ASSUME IInv, NEW t \in Users, UserStep(t) \/ Interrupt(t)
    PROVE  pipe'.ends = IF CloseOpenFile(t) THEN [pipe.ends EXCEPT ![todo.end[t]] = @ - 1] ELSE pipe.ends
<1>1. pipe \in PipeState
    BY Zenon DEF IInv, Types
<1>2. CASE CloseOpenFile(t)
    BY Zenon, <1>1, <1>2 DEF CloseOpenFile, PipeState
<1>3. CASE ~CloseOpenFile(t) /\ NoBytes(t)
    BY ZenonT(60), <1>1, <1>3 DEF NoBytes, BeginCall, LockFile, Read, Write, Resume, GetFileInfo, Interrupt,
                      WaitInterruptible, Unlocked, PipeState
<1>4. CASE PopBytes(t)
  <2>1. PICK n : pipe' = [pipe EXCEPT !.mutex = Nobody, !.fifo = Pop(pipe.fifo, n)]
      BY Zenon, <1>4, PopFacts
  <2>2. ~CloseOpenFile(t)
      BY Zenon, <1>4 DEF PopBytes, CloseOpenFile, At
  <2> QED BY Zenon, <1>1, <2>1, <2>2 DEF PipeState
<1>5. CASE PushBytes(t)
  <2>1. PICK n : pipe' = [pipe EXCEPT !.fifo = Push(pipe.fifo, Bytes(t, 0, n))]
      BY Zenon, <1>5, PushFacts
  <2>2. ~CloseOpenFile(t)
      BY Zenon, <1>5 DEF PushBytes, CloseOpenFile, At
  <2> QED BY Zenon, <1>1, <2>1, <2>2 DEF PipeState
<1> QED BY Zenon, <1>2, <1>3, <1>4, <1>5, StepCases

-----------------------------------------------------------------------------
(* Counting: what the library shows of finite sets, in one fact *)

LOCAL F == INSTANCE FiniteSetTheorems

(* A part of a finite set has a size, which one element less makes smaller by one. *)
LEMMA CountPart ==
    ASSUME NEW U, IsFiniteSet(U), NEW S \in SUBSET U
    PROVE  /\ Cardinality(S) \in 0..Cardinality(U) /\ Cardinality(U) \in Nat
           /\ \A x \in S : Cardinality(S) > 0 /\ Cardinality(S \ {x}) = Cardinality(S) - 1
<1>1. \A T : Cardinality(T) = F!Cardinality(T)
    BY Zenon DEF Cardinality, F!Cardinality
<1>2. F!IsFiniteSet(U)
    BY Zenon DEF IsFiniteSet, F!IsFiniteSet
<1>3. F!IsFiniteSet(S) /\ F!Cardinality(S) <= F!Cardinality(U)
    BY Zenon, <1>2, F!FS_Subset
<1>4. F!Cardinality(S) \in Nat /\ F!Cardinality(U) \in Nat
    BY <1>2, <1>3, F!FS_CardinalityType
<1>5. ASSUME NEW x \in S
      PROVE  F!Cardinality(S) > 0 /\ F!Cardinality(S \ {x}) = F!Cardinality(S) - 1
  <2>1. F!Cardinality(S \ {x}) = F!Cardinality(S) - 1 /\ F!IsFiniteSet(S \ {x})
      BY Zenon, <1>3, F!FS_RemoveElement
  <2>2. F!Cardinality(S \ {x}) \in Nat
      BY Zenon, <2>1, F!FS_CardinalityType
  <2> QED BY <1>4, <2>1, <2>2
<1> QED BY <1>1, <1>3, <1>4, <1>5

(* An open descriptor is counted. *)
LEMMA OpenCount ==
    ASSUME NEW e
    PROVE  /\ Cardinality(Open(e)) \in 0..Cardinality(Users) /\ Cardinality(Users) \in Nat
           /\ Cardinality(Open(e)) \in Nat
           /\ \A t \in Open(e) : /\ Cardinality(Open(e)) > 0
                                 /\ Cardinality(Open(e) \ {t}) = Cardinality(Open(e)) - 1
<1>1. Open(e) \in SUBSET Users /\ IsFiniteSet(Users)
    BY Zenon, PipeAssumption DEF Open
<1>2. /\ Cardinality(Open(e)) \in 0..Cardinality(Users) /\ Cardinality(Users) \in Nat
      /\ \A t \in Open(e) : /\ Cardinality(Open(e)) > 0
                            /\ Cardinality(Open(e) \ {t}) = Cardinality(Open(e)) - 1
    BY <1>1, CountPart, ZenonT(60)
<1> QED BY <1>2

(* Every step keeps the counts right. *)
LEMMA EndsStep ==
    ASSUME IInv, LastCall, EndsAreCounted, NEW t \in Users, UserStep(t) \/ Interrupt(t)
    PROVE  EndsAreCounted'
<1> DEFINE E == {"r", "w"}
<1>1. /\ todo'.end = todo.end /\ todo.end[t] \in E
      /\ \A e \in E : Open(e)' = IF CloseOpenFile(t) /\ todo.end[t] = e THEN Open(e) \ {t} ELSE Open(e)
      /\ CloseOpenFile(t) => t \in Open(todo.end[t])
    BY Zenon, OpenKept
<1>2. pipe.ends \in [E -> Nat] /\ \A e \in E : pipe.ends[e] = Cardinality(Open(e))
    BY Zenon DEF EndsAreCounted
<1>3. CASE ~CloseOpenFile(t)
  <2>1. pipe'.ends = pipe.ends /\ \A e \in E : Open(e)' = Open(e)
      BY ZenonT(60), <1>1, <1>3, EndsKept
  <2> QED BY Zenon, <1>2, <2>1 DEF EndsAreCounted
<1>4. CASE CloseOpenFile(t)
  <2> DEFINE d == todo.end[t]
  <2>1. t \in Open(d) /\ d \in E
      BY Zenon, <1>1, <1>4
  <2>2. pipe'.ends = [pipe.ends EXCEPT ![d] = @ - 1]
      BY Zenon, <1>4, EndsKept
  <2>3. Cardinality(Open(d) \ {t}) = Cardinality(Open(d)) - 1 /\ Cardinality(Open(d)) > 0
      BY ZenonT(60), <2>1, OpenCount
  <2>4. \A e \in E : Open(e)' = IF d = e THEN Open(e) \ {t} ELSE Open(e)
      BY Zenon, <1>1, <1>4
  <2> HIDE DEF d
  <2>5. pipe'.ends \in [E -> Nat] /\ pipe'.ends[d] = pipe.ends[d] - 1 /\ \A e \in E \ {d} : pipe'.ends[e] = pipe.ends[e]
      BY <1>2, <2>1, <2>2, <2>3
  <2>6. \A e \in E : pipe'.ends[e] = Cardinality(Open(e)')
      BY ZenonT(60), <1>2, <2>1, <2>3, <2>4, <2>5
  <2> QED BY <2>5, <2>6 DEF EndsAreCounted
<1> QED BY Zenon, <1>3, <1>4

(* While no writer is left, no step makes one. *)
LEMMA NoWriterStays ==
    ASSUME IInv, LastCall, EndsAreCounted, NEW t \in Users, UserStep(t) \/ Interrupt(t), pipe.ends["w"] = 0
    PROVE  pipe'.ends["w"] = 0
<1>1. pipe.ends \in [{"r", "w"} -> Nat] /\ pipe.ends["w"] = Cardinality(Open("w"))
    BY Zenon DEF EndsAreCounted
<1>2. CASE ~CloseOpenFile(t)
    BY ZenonT(60), <1>2, EndsKept
<1>3. CASE CloseOpenFile(t)
  <2>1. t \in Open(todo.end[t]) /\ todo.end[t] \in {"r", "w"}
      BY Zenon, <1>3, OpenKept
  <2>2. todo.end[t] # "w"
    <3>1. ASSUME t \in Open("w") PROVE Cardinality(Open("w")) > 0
        BY <3>1, OpenCount, Zenon
    <3> QED BY <1>1, <2>1, <3>1
  <2>3. pipe'.ends = [pipe.ends EXCEPT ![todo.end[t]] = @ - 1]
      BY Zenon, <1>3, EndsKept
  <2> QED BY ZenonT(60), <1>1, <2>2, <2>3
<1> QED BY ZenonT(60), <1>2, <1>3

(* Every step keeps EofMeansNoWriter. *)
LEMMA EofStep ==
    ASSUME IInv, LastCall, EndsAreCounted, EofMeansNoWriter, NEW t \in Users, UserStep(t) \/ Interrupt(t)
    PROVE  EofMeansNoWriter'
<1> DEFINE Eof(u) == user[u].pc = "info" /\ user[u].ret = "eof"
           EofNext(u) == user'[u].pc = "info" /\ user'[u].ret = "eof"
<1>1. ASSUME NEW u \in Users \ {t}, EofNext(u) PROVE Eof(u)
    BY ZenonT(60), <1>1, StepOfOne, BeginMoves DEF OnlyCallOf
<1>2. ASSUME EofNext(t) PROVE Eof(t) \/ pipe.ends["w"] = 0
  <2>1. CASE Read(t)
      BY <1>2, <2>1, ReadMoves
  <2>2. CASE Interrupt(t)
      BY ZenonT(60), <1>2, <2>2, InterruptMoves
  <2>3. CASE Write(t)
      BY <1>2, <2>3, WriteMoves
  <2>4. CASE Resume(t) \/ PopBytes(t) \/ PushBytes(t)
      BY <1>2, <2>4, ResumeMoves, PopMoves, PushMoves
  <2>5. CASE BeginCall(t)
      BY Zenon, <1>2, <2>5, BeginMoves
  <2>6. CASE LockFile(t)
      BY Zenon, <1>2, <2>6, LockFileMoves DEF Ops
  <2>7. CASE GetFileInfo(t) \/ CloseOpenFile(t)
      BY <1>2, <2>7, GetFileInfoMoves, CloseMoves
  <2> QED BY <2>1, <2>2, <2>3, <2>4, <2>5, <2>6, <2>7 DEF UserStep
<1>3. \A u \in Users : Eof(u) => pipe.ends["w"] = 0
    BY Zenon DEF EofMeansNoWriter, At
<1> HIDE DEF Eof, EofNext
<1>4. \A u \in Users : EofNext(u) => pipe'.ends["w"] = 0
    BY ZenonT(60), <1>1, <1>2, <1>3, NoWriterStays
<1> QED BY Zenon, <1>4 DEF EofMeansNoWriter, At, EofNext

(* It holds at the start: the buffer is empty and every descriptor open. *)
LEMMA InitSInv == PipeInit => SInv
<1> SUFFICES ASSUME PipeInit PROVE SInv
    BY Zenon
<1>1. /\ todo \in PipeScripts /\ todo \in PipeScript /\ pipe.fifo = NewFifo /\ user = [t \in Users |-> AtRest]
      /\ pipe.ends = [e \in {"r", "w"} |-> Cardinality({t \in Users : todo.end[t] = e})]
      /\ log = [wrote |-> <<>>, got |-> <<>>]
    BY PipeAssumption DEF PipeInit
<1>2. \A t \in Users : user[t].pc = "idle" /\ user[t].op = "none" /\ user[t].ret = "none"
    BY Zenon, <1>1 DEF AtRest
<1>3. Story
    BY <1>1, NewFifoIsEmpty DEF Story
<1>4. OnePass /\ EofMeansNoWriter
    BY Zenon, <1>2 DEF OnePass, EofMeansNoWriter, At
<1>5. LastCall
    BY ZenonT(60), <1>1, <1>2, CloseAssumption DEF LastCall
<1>6. ASSUME NEW e \in {"r", "w"} PROVE pipe.ends[e] = Cardinality(Open(e)) /\ pipe.ends[e] \in Nat
  <2>1. Open(e) = {t \in Users : todo.end[t] = e}
      BY Zenon, <1>2 DEF Open
  <2>2. pipe.ends[e] = Cardinality(Open(e))
      BY <1>1, <2>1, Zenon
  <2>3. Cardinality(Open(e)) \in Nat
      BY OpenCount, Zenon
  <2> QED BY Zenon, <2>2, <2>3
<1>7. pipe.ends \in [{"r", "w"} -> Nat]
    BY Zenon, <1>1, <1>6
<1>8. EndsAreCounted
    BY Zenon, <1>6, <1>7 DEF EndsAreCounted
<1> QED BY ZenonT(60), <1>3, <1>4, <1>5, <1>8 DEF SInv

(* Every step keeps it. *)
LEMMA NextSInv == IInv /\ SInv /\ [PipeNext]_pipeVars => SInv'
<1> SUFFICES ASSUME IInv, SInv, [PipeNext]_pipeVars PROVE SInv'
    BY Zenon
<1>1. CASE UNCHANGED pipeVars
  <2>1. pipe' = pipe /\ user' = user /\ todo' = todo /\ log' = log
      BY Zenon, <1>1 DEF pipeVars
  <2>2. Story' /\ OnePass'
      BY Zenon, <2>1 DEF SInv, Story, OnePass
  <2>3. LastCall' /\ EofMeansNoWriter'
      BY Zenon, <2>1 DEF SInv, LastCall, EofMeansNoWriter, At
  <2>4. EndsAreCounted'
      BY Zenon, <2>1 DEF SInv, EndsAreCounted, Open
  <2> QED BY <2>2, <2>3, <2>4 DEF SInv
<1>2. ASSUME NEW t \in Users, UserStep(t) \/ Interrupt(t) PROVE SInv'
  <2>1. Story /\ OnePass /\ LastCall /\ EndsAreCounted /\ EofMeansNoWriter
      BY Zenon DEF SInv
  <2> QED BY <1>2, <2>1, StoryStep, OnePassStep, LastCallStep, EndsStep, EofStep DEF SInv
<1> QED BY Zenon, <1>1, <1>2 DEF PipeNext

(* What the readers got is what the writers wrote first. *)
LEMMA SInvSound == IInv /\ SInv => PipeIsSound
<1> SUFFICES ASSUME IInv, SInv PROVE PipeIsSound
    BY Zenon
<1>1. pipe.fifo \in Fifos(Byte) /\ pipe.mutex \in Users \cup {Nobody} /\ vn.file \in Users \cup {Nobody}
      /\ vn.vnodes \in Users \cup {Nobody}
    BY Zenon DEF IInv, Types, PipeState
<1>2. PipeTypeOK
  <2>1. CurrentSize(pipe.fifo) \in 0..BufSize /\ pipe.fifo.head \in Nat
      BY Zenon, <1>1 DEF Fifos
  <2>2. \A e \in {"r", "w"} : pipe.ends[e] \in 0..Cardinality(Users)
      BY Zenon, OpenCount DEF SInv, EndsAreCounted
  <2> QED BY ZenonT(60), <1>1, <2>1, <2>2 DEF PipeTypeOK
<1>3. PipeKeepsOrder
  <2> DEFINE c == Contents(pipe.fifo)
  <2>1. log.got \in Seq(Byte) /\ log.wrote = log.got \o c
      BY Zenon DEF SInv, Story
  <2>2. c \in Seq(Byte)
      BY ZenonT(60), <1>1, ContentsIsSeq
  <2> HIDE DEF c
  <2> QED BY <2>1, <2>2 DEF PipeKeepsOrder
<1> QED BY Zenon, <1>2, <1>3 DEF PipeIsSound, SInv

(***************************************************************************)
(* The calls of a pipe return what they should: the readers get each byte  *)
(* that the writers wrote once and in its turn (pipe_manager::read and     *)
(* write copy through the circular buffer), the buffer holds no more than  *)
(* its size, no end is closed twice, and a read says end of file only when *)
(* no writer is left (pipe_manager::read, pipe_filesystem::close_open_file)*)
(***************************************************************************)
THEOREM PipeReturnsSound == PipeSpec => []PipeIsSound
<1>1. PipeInit => SInv
    BY Zenon, InitSInv
<1>2. IInv /\ SInv /\ [PipeNext]_pipeVars => SInv'
    BY Zenon, NextSInv
<1>3. IInv /\ SInv => PipeIsSound
    BY Zenon, SInvSound
<1> QED BY <1>1, <1>2, <1>3, PipeInvariant, PTL DEF PipeSpec
=============================================================================
