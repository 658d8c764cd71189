----------------------------- MODULE TtyProofs -----------------------------
(***************************************************************************)
(* Switches of the terminal and the keys, for any terminals, programs and  *)
(* keys: the inductive invariant of Tty, and that every step keeps it.     *)
(***************************************************************************)
EXTENDS Tty, TLAPS

Resting == {"wait", "lock", "park"}
Inside == {"echo", "notify", "clear", "sigint", "switch", "deactivate", "activate"}
InputPcs == Resting \cup {"key"} \cup Inside
Holding == {"read", "wait", "woken", "check", "write", "unlock"}
Events == {"grown", "erased", "late", "cleared", "stopped"}
Lines == {"char", "enter", "back", "intr", "switch", "newline"} \cup Programs

TtyState == [active : BOOLEAN, stdin : Seq({"char", "enter"}), stdout : Seq(Lines), raw : Seq(KeySet)]
InputState == [pc : InputPcs, at : Nat, last : Nat, own : BOOLEAN]
MutexState ==
    [raw : [Ttys -> Ttys \cup {Free}], stdin : [Ttys -> Readers \cup {Free}],
     stdout : [Ttys -> Programs \cup {Free}], file : [Ttys -> Programs \cup {Free}],
     active : Ttys \cup {Free}]
IoState == [pc : {"idle", "file"} \cup Holding, intr : BOOLEAN, ret : {"none", "line", "zero", "interrupted"}]
Script == [active : Ttys, on : [Programs -> Ttys], keys : Seq(KeySet), calls : [Programs -> Nat], stops : Nat]
SeenState == [pushed : [Ttys -> Seq(KeySet)], handled : [Ttys -> Seq(KeySet)], events : SUBSET Events]

Typed ==
    /\ tty \in [Ttys -> TtyState]
    /\ mx \in MutexState
    /\ active \in Ttys
    /\ screen \in Seq(Lines)
    /\ input \in [Ttys -> InputState]
    /\ kb \in [pc : {"idle", "push"}, key : KeySet \cup {Key("none", 0)}, to : Ttys \cup {0}]
    /\ io \in [Programs -> IoState]
    /\ coming \in Script
    /\ seen \in SeenState

(* The key that raw_input_thread has is for a terminal. *)
KeyInHand == kb.pc = "push" => kb.key \in KeySet /\ kb.to \in Ttys

(* An input thread that handles a batch is inside of it. *)
Batch(i) ==
    /\ mx.raw[i] \in {Free, i}
    /\ input[i].pc \notin Resting => input[i].last <= Len(tty[i].raw) /\ input[i].at \in 1..(input[i].last + 1)
    /\ input[i].pc \in Inside => input[i].at <= input[i].last

(* Who changes the active terminal holds _active_tty_mutex, and changes it to another one. *)
Switches(i) ==
    /\ input[i].pc \in {"deactivate", "activate"} <=> mx.active = i
    /\ mx.active = i => CurrentKey(i).to \in Ttys \ {active}

(***************************************************************************)
(* In the middle of a change no terminal is active, and what is written is *)
(* not shown; otherwise the console shows the active one.                  *)
(***************************************************************************)
Dark == \E i \in Ttys : input[i].pc = "activate"

Shown ==
    /\ \A i \in Ttys : tty[i].active <=> i = active /\ ~Dark
    /\ Len(screen) <= Rows
    /\ Dark \/ screen = Suffix(tty[active].stdout, Rows)

(* What the input thread has done of its batch. *)
Done(i) ==
    IF input[i].pc \in Resting THEN 0
    ELSE IF input[i].pc = "key" THEN input[i].at - 1 ELSE input[i].at

(* Without a push into a batch that is read, the batch is the whole buffer. *)
InOrder(i) ==
    /\ input[i].pc \notin Resting => input[i].last = Len(tty[i].raw)
    /\ input[i].pc \in {"wait", "park"} => tty[i].raw = <<>>
    /\ seen.handled[i] \o SubSeq(tty[i].raw, Done(i) + 1, Len(tty[i].raw)) = seen.pushed[i]

Ordered == "grown" \in seen.events \/ \A i \in Ttys : InOrder(i)

(***************************************************************************)
(* A program inside a read or a write holds the file_mutex, so the line    *)
(* that woke a reader is not taken by another.  What else takes it back is *)
(* an event.                                                               *)
(***************************************************************************)
Explained == seen.events \cap {"cleared", "erased", "late"} # {}

Holds(p) ==
    /\ io[p].pc \in Holding => mx.file[coming.on[p]] = p
    /\ io[p].pc \in {"read", "wait", "woken", "check"} => p \in Readers

Woken(p) ==
    /\ io[p].pc = "woken" /\ ~io[p].intr /\ ~HasLine(StdinOf(p)) => Explained
    /\ io[p].pc = "check" /\ ~io[p].intr => Explained
    /\ io[p].ret = "zero" => Explained

IInv ==
    /\ Typed /\ KeyInHand /\ Shown /\ Ordered
    /\ \A i \in Ttys : Batch(i) /\ Switches(i)
    /\ \A p \in Programs : Holds(p) /\ Woken(p)

-----------------------------------------------------------------------------
(* Sequences *)

(* Sequences with the same elements *)
LEMMA SameSeq ==
    ASSUME NEW S, NEW a \in Seq(S), NEW b \in Seq(S), Len(a) = Len(b), \A k \in 1..Len(a) : a[k] = b[k]
    PROVE  a = b
<1>1. a = [k \in 1..Len(a) |-> a[k]] /\ b = [k \in 1..Len(b) |-> b[k]]
    OBVIOUS
<1>2. [k \in 1..Len(a) |-> a[k]] = [k \in 1..Len(a) |-> b[k]]
    BY Zenon
<1> QED BY Zenon, <1>1, <1>2

(* The elements of a concatenation *)
Joined(c, a, b, S) ==
    /\ c \in Seq(S) /\ Len(c) = Len(a) + Len(b)
    /\ \A k \in 1..Len(a) : c[k] = a[k]
    /\ \A k \in 1..Len(b) : c[Len(a) + k] = b[k]

(* A concatenation has the elements of both, in order. *)
LEMMA ConcatAt ==
    ASSUME NEW S, NEW a \in Seq(S), NEW b \in Seq(S)
    PROVE  Joined(a \o b, a, b, S)
<1>1. a \o b \in Seq(S) /\ Len(a \o b) = Len(a) + Len(b)
    OBVIOUS
<1>2. \A k \in 1..Len(a) : (a \o b)[k] = a[k]
    OBVIOUS
<1>3. \A k \in 1..Len(b) : (a \o b)[Len(a) + k] = b[k]
    OBVIOUS
<1> QED BY Zenon, <1>1, <1>2, <1>3 DEF Joined

(* The elements of the end of a sequence *)
LEMMA EndAt ==
    ASSUME NEW S, NEW q \in Seq(S), NEW n \in 1..(Len(q) + 1)
    PROVE  /\ SubSeq(q, n, Len(q)) \in Seq(S) /\ Len(SubSeq(q, n, Len(q))) = Len(q) - n + 1
           /\ \A k \in 1..(Len(q) - n + 1) : SubSeq(q, n, Len(q))[k] = q[n + k - 1]
<1>1. SubSeq(q, n, Len(q)) \in Seq(S)
    OBVIOUS
<1>2. Len(SubSeq(q, n, Len(q))) = Len(q) - n + 1
    OBVIOUS
<1>3. \A k \in 1..(Len(q) - n + 1) : SubSeq(q, n, Len(q))[k] = q[n + k - 1]
    OBVIOUS
<1> QED BY Zenon, <1>1, <1>2, <1>3

(* What a window onto the last n lines shows is what it showed before, and the new line. *)
LEMMA SuffixAppend ==
    ASSUME NEW S, NEW q \in Seq(S), NEW x \in S, NEW n \in Nat \ {0}
    PROVE  Suffix(Append(Suffix(q, n), x), n) = Suffix(Append(q, x), n)
<1>1. CASE Len(q) <= n
    BY <1>1 DEF Suffix
<1>2. CASE Len(q) > n
  <2> DEFINE t == SubSeq(q, Len(q) - n + 1, Len(q))
             a == Append(t, x)
             b == Append(q, x)
             c == SubSeq(a, 2, Len(a))
             d == SubSeq(b, Len(q) - n + 2, Len(b))
  <2>0. Len(q) \in Nat /\ Len(q) - n + 1 \in 1..(Len(q) + 1)
      BY <1>2
  <2>1. Suffix(q, n) = t
      BY <1>2 DEF Suffix
  <2>2. t \in Seq(S) /\ Len(t) = n /\ \A k \in 1..n : t[k] = q[Len(q) - n + k]
    <3>1. /\ t \in Seq(S) /\ Len(t) = Len(q) - (Len(q) - n + 1) + 1
          /\ \A k \in 1..(Len(q) - (Len(q) - n + 1) + 1) : t[k] = q[(Len(q) - n + 1) + k - 1]
        BY Zenon, <2>0, EndAt
    <3> HIDE DEF t
    <3> QED BY <2>0, <3>1
  <2> HIDE DEF t
  <2>3. a \in Seq(S) /\ Len(a) = n + 1 /\ a[n + 1] = x /\ \A k \in 1..n : a[k] = t[k]
      BY <2>2
  <2>4. b \in Seq(S) /\ Len(b) = Len(q) + 1 /\ b[Len(q) + 1] = x /\ \A k \in 1..Len(q) : b[k] = q[k]
      OBVIOUS
  <2> HIDE DEF a, b
  <2>5. Suffix(a, n) = c /\ Suffix(b, n) = d
      BY <1>2, <2>0, <2>3, <2>4 DEF Suffix
  <2>6. c \in Seq(S) /\ Len(c) = n /\ \A k \in 1..n : c[k] = a[k + 1]
    <3>1. /\ c \in Seq(S) /\ Len(c) = Len(a) - 2 + 1 /\ \A k \in 1..(Len(a) - 2 + 1) : c[k] = a[2 + k - 1]
        BY <2>3, EndAt
    <3> HIDE DEF c
    <3> QED BY <2>3, <3>1
  <2>7. d \in Seq(S) /\ Len(d) = n /\ \A k \in 1..n : d[k] = b[Len(q) - n + 1 + k]
    <3>1. Len(q) - n + 2 \in 1..(Len(b) + 1)
        BY <1>2, <2>0, <2>4
    <3>2. /\ d \in Seq(S) /\ Len(d) = Len(b) - (Len(q) - n + 2) + 1
          /\ \A k \in 1..(Len(b) - (Len(q) - n + 2) + 1) : d[k] = b[(Len(q) - n + 2) + k - 1]
        BY Zenon, <2>4, <3>1, EndAt
    <3> HIDE DEF d
    <3>3. Len(b) - (Len(q) - n + 2) + 1 = n /\ \A k \in 1..n : (Len(q) - n + 2) + k - 1 = Len(q) - n + 1 + k
        BY <2>0, <2>4
    <3> QED BY Zenon, <3>2, <3>3
  <2> HIDE DEF c, d
  <2>8. ASSUME NEW k \in 1..n PROVE c[k] = d[k]
    <3>1. CASE k = n
        BY <3>1, <2>0, <2>3, <2>4, <2>6, <2>7
    <3>2. CASE k < n
      <4>1. c[k] = a[k + 1] /\ a[k + 1] = t[k + 1] /\ t[k + 1] = q[Len(q) - n + (k + 1)]
          BY <3>2, <2>2, <2>3, <2>6
      <4>2. d[k] = b[Len(q) - n + 1 + k] /\ b[Len(q) - n + 1 + k] = q[Len(q) - n + 1 + k]
        <5>1. Len(q) - n + 1 + k \in 1..Len(q)
            BY <3>2, <2>0, <1>2
        <5> QED BY Zenon, <5>1, <2>4, <2>7
      <4>3. Len(q) - n + (k + 1) = Len(q) - n + 1 + k
          BY <2>0
      <4> QED BY Zenon, <4>1, <4>2, <4>3
    <3> QED BY <3>1, <3>2
  <2>9. c = d
      BY Zenon, <2>6, <2>7, <2>8, SameSeq
  <2> QED BY Zenon, <2>1, <2>5, <2>9 DEF a, b
<1> QED BY <1>1, <1>2

(* The window has at most n lines. *)
LEMMA SuffixShort ==
    ASSUME NEW S, NEW q \in Seq(S), NEW n \in Nat
    PROVE  Suffix(q, n) \in Seq(S) /\ Len(Suffix(q, n)) <= n
BY DEF Suffix

(* The key at n goes from the keys to come to the handled ones. *)
Shifts(h, q, n) == Append(h, q[n]) \o SubSeq(q, n + 1, Len(q)) = h \o SubSeq(q, n, Len(q))

(* One more key is handled: it moves from the rest of the buffer to the handled keys. *)
LEMMA KeyMoves ==
    ASSUME NEW S, NEW h \in Seq(S), NEW q \in Seq(S), NEW n \in 1..Len(q)
    PROVE  Shifts(h, q, n)
<1> DEFINE a == Append(h, q[n])
           r == SubSeq(q, n + 1, Len(q))
           s == SubSeq(q, n, Len(q))
<1>0. Len(h) \in Nat /\ Len(q) \in Nat /\ n \in Nat
    OBVIOUS
<1>1. a \in Seq(S) /\ Len(a) = Len(h) + 1 /\ a[Len(h) + 1] = q[n] /\ \A k \in 1..Len(h) : a[k] = h[k]
    OBVIOUS
<1>2. r \in Seq(S) /\ Len(r) = Len(q) - (n + 1) + 1 /\ \A k \in 1..(Len(q) - (n + 1) + 1) : r[k] = q[(n + 1) + k - 1]
  <2>1. n + 1 \in 1..(Len(q) + 1)
      OBVIOUS
  <2> QED BY Zenon, <2>1, EndAt
<1>3. s \in Seq(S) /\ Len(s) = Len(q) - n + 1 /\ \A k \in 1..(Len(q) - n + 1) : s[k] = q[n + k - 1]
  <2>1. n \in 1..(Len(q) + 1)
      OBVIOUS
  <2> QED BY Zenon, <2>1, EndAt
<1> HIDE DEF a, r, s
<1> DEFINE u == a \o r
           v == h \o s
<1>9. u = a \o r /\ v = h \o s
    BY Zenon
<1> HIDE DEF u, v
<1>4. /\ u \in Seq(S) /\ Len(u) = Len(a) + Len(r)
      /\ \A k \in 1..Len(a) : u[k] = a[k]
      /\ \A k \in 1..Len(r) : u[Len(a) + k] = r[k]
  <2>1. Joined(u, a, r, S)
      BY Zenon, <1>1, <1>2, <1>9, ConcatAt
  <2> QED BY Zenon, <2>1 DEF Joined
<1>5. /\ v \in Seq(S) /\ Len(v) = Len(h) + Len(s)
      /\ \A k \in 1..Len(h) : v[k] = h[k]
      /\ \A k \in 1..Len(s) : v[Len(h) + k] = s[k]
  <2>1. Joined(v, h, s, S)
      BY Zenon, <1>3, <1>9, ConcatAt
  <2> QED BY Zenon, <2>1 DEF Joined
<1>6. Len(u) = Len(v) /\ Len(u) = Len(h) + (Len(q) - n + 1)
    BY <1>0, <1>1, <1>2, <1>3, <1>4, <1>5
<1>7. ASSUME NEW k \in 1..Len(u) PROVE u[k] = v[k]
  <2>1. CASE k <= Len(h)
      BY <2>1, <1>0, <1>1, <1>4, <1>5
  <2>2. CASE k = Len(h) + 1
    <3>1. u[k] = q[n]
        BY <2>2, <1>0, <1>1, <1>4
    <3>2. 1 \in 1..Len(s) /\ v[k] = s[1] /\ s[1] = q[n]
        BY <2>2, <1>0, <1>3, <1>5
    <3> QED BY <3>1, <3>2
  <2>3. CASE k > Len(h) + 1
    <3> DEFINE j == k - Len(h) - 1
    <3>1. j \in 1..Len(r) /\ Len(a) + j = k /\ j + 1 \in 1..Len(s) /\ Len(h) + (j + 1) = k
        BY <2>3, <1>0, <1>1, <1>2, <1>3, <1>6
    <3>2. u[k] = r[j] /\ r[j] = q[(n + 1) + j - 1]
        BY Zenon, <3>1, <1>2, <1>4
    <3>3. v[k] = s[j + 1] /\ s[j + 1] = q[n + (j + 1) - 1]
        BY ZenonT(60), <3>1, <1>3, <1>5
    <3>4. (n + 1) + j - 1 = n + (j + 1) - 1
        BY <3>1, <1>0
    <3> QED BY Zenon, <3>2, <3>3, <3>4
  <2> QED BY <2>1, <2>2, <2>3, <1>0
<1>8. u = v
    BY Zenon, <1>4, <1>5, <1>6, <1>7, SameSeq
<1> QED BY Zenon, <1>8 DEF a, r, s, u, v, Shifts

(* Keys that are added to the buffer are the last ones to come. *)
Adds(h, q, x) == h \o Append(q, x) = Append(h \o q, x)

(* A key is pushed: it follows the rest of the buffer. *)
LEMMA KeyAdded ==
    ASSUME NEW S, NEW h \in Seq(S), NEW q \in Seq(S), NEW x \in S
    PROVE  Adds(h, q, x)
<1> DEFINE a == Append(q, x)
           b == h \o q
<1>0. Len(h) \in Nat /\ Len(q) \in Nat
    OBVIOUS
<1>1. a \in Seq(S) /\ Len(a) = Len(q) + 1 /\ a[Len(q) + 1] = x /\ \A k \in 1..Len(q) : a[k] = q[k]
    OBVIOUS
<1>8. b = h \o q
    BY Zenon
<1> HIDE DEF a, b
<1>2. /\ b \in Seq(S) /\ Len(b) = Len(h) + Len(q)
      /\ \A k \in 1..Len(h) : b[k] = h[k]
      /\ \A k \in 1..Len(q) : b[Len(h) + k] = q[k]
  <2>1. Joined(b, h, q, S)
      BY Zenon, <1>8, ConcatAt
  <2> QED BY Zenon, <2>1 DEF Joined
<1> DEFINE u == h \o a
           v == Append(b, x)
<1>9. u = h \o a
    BY Zenon
<1> HIDE DEF u
<1>3. /\ u \in Seq(S) /\ Len(u) = Len(h) + Len(a)
      /\ \A k \in 1..Len(h) : u[k] = h[k]
      /\ \A k \in 1..Len(a) : u[Len(h) + k] = a[k]
  <2>1. Joined(u, h, a, S)
      BY Zenon, <1>1, <1>9, ConcatAt
  <2> QED BY Zenon, <2>1 DEF Joined
<1>4. v \in Seq(S) /\ Len(v) = Len(b) + 1 /\ v[Len(b) + 1] = x /\ \A k \in 1..Len(b) : v[k] = b[k]
    BY <1>2
<1> HIDE DEF v
<1>5. ASSUME NEW k \in 1..Len(u) PROVE u[k] = v[k]
  <2>1. CASE k <= Len(h)
      BY <2>1, <1>0, <1>2, <1>3, <1>4
  <2>2. CASE k > Len(h)
    <3> DEFINE j == k - Len(h)
    <3>1. j \in 1..Len(a) /\ Len(h) + j = k
        BY <2>2, <1>0, <1>1, <1>3
    <3>2. u[k] = a[j]
        BY Zenon, <3>1, <1>3
    <3> HIDE DEF j
    <3>3. CASE j = Len(q) + 1
        BY <3>1, <3>2, <3>3, <1>0, <1>1, <1>2, <1>4
    <3>4. CASE j \in 1..Len(q)
      <4>1. k \in 1..Len(b) /\ b[k] = q[j] /\ a[j] = q[j]
          BY <3>1, <3>4, <1>0, <1>1, <1>2
      <4> QED BY Zenon, <3>2, <4>1, <1>4
    <3>5. j = Len(q) + 1 \/ j \in 1..Len(q)
        BY <3>1, <1>0, <1>1
    <3> QED BY Zenon, <3>3, <3>4, <3>5
  <2> QED BY <2>1, <2>2, <1>0
<1>6. Len(u) = Len(v)
    BY <1>0, <1>1, <1>2, <1>3, <1>4
<1>7. u = v
    BY Zenon, <1>3, <1>4, <1>5, <1>6, SameSeq
<1> QED BY Zenon, <1>7 DEF a, b, u, v, Adds

-----------------------------------------------------------------------------
(* What the steps change *)

InputOthers(i) == \A j \in Ttys \ {i} : input'[j] = input[j]
TtyOthers(i) == \A j \in Ttys \ {i} : tty'[j] = tty[j]

(* The input thread of terminal i goes on. *)
LEMMA GotoFacts ==
    ASSUME Typed, NEW i \in Ttys, NEW pc \in InputPcs, InputGoto(i, pc)
    PROVE  /\ input' \in [Ttys -> InputState] /\ InputOthers(i)
           /\ input'[i].pc = pc /\ input'[i].at = input[i].at /\ input'[i].last = input[i].last
<1> DEFINE r == [input[i] EXCEPT !.pc = pc]
<1>1. input[i] \in InputState /\ input \in [Ttys -> InputState]
    BY Zenon DEF Typed
<1>2. r \in InputState /\ r.pc = pc /\ r.at = input[i].at /\ r.last = input[i].last
    BY Zenon, <1>1 DEF InputState
<1>3. input' = [input EXCEPT ![i] = r]
    BY Zenon DEF InputGoto
<1> HIDE DEF r
<1> QED BY Zenon, <1>1, <1>2, <1>3 DEF InputOthers

(* NextKey: the thread of i goes to its next key, the others stay. *)
LEMMA NextKeyFacts ==
    ASSUME Typed, NEW i \in Ttys, NextKey(i)
    PROVE  /\ input' \in [Ttys -> InputState] /\ InputOthers(i)
           /\ input'[i].pc = "key" /\ input'[i].at = input[i].at + 1 /\ input'[i].last = input[i].last
<1> DEFINE n == input[i].at + 1
           r == [input[i] EXCEPT !.pc = "key", !.at = n]
<1>1. input[i] \in InputState /\ input \in [Ttys -> InputState] /\ input[i].at \in Nat
    BY Zenon DEF Typed, InputState
<1>2. n \in Nat
    BY <1>1
<1>3. input' = [input EXCEPT ![i] = r]
    BY Zenon, <1>1 DEF NextKey, InputState
<1> HIDE DEF n
<1>4. r \in InputState /\ r.pc = "key" /\ r.at = n /\ r.last = input[i].last
    BY Zenon, <1>1, <1>2 DEF InputState, InputPcs
<1> HIDE DEF r
<1>5. /\ input' \in [Ttys -> InputState] /\ InputOthers(i)
      /\ input'[i].pc = "key" /\ input'[i].at = n /\ input'[i].last = input[i].last
    BY Zenon, <1>1, <1>3, <1>4 DEF InputOthers
<1> QED BY Zenon, <1>5 DEF n

(* One field of a terminal changes. *)
LEMMA StdinFacts ==
    ASSUME Typed, NEW i \in Ttys, NEW q \in Seq({"char", "enter"}), tty' = [tty EXCEPT ![i].stdin = q]
    PROVE  /\ tty' \in [Ttys -> TtyState] /\ TtyOthers(i) /\ tty'[i].stdin = q
           /\ tty'[i].active = tty[i].active /\ tty'[i].stdout = tty[i].stdout /\ tty'[i].raw = tty[i].raw
<1> DEFINE r == [tty[i] EXCEPT !.stdin = q]
<1>1. tty[i] \in TtyState /\ tty \in [Ttys -> TtyState]
    BY Zenon DEF Typed
<1>2. r \in TtyState /\ r.stdin = q /\ r.active = tty[i].active /\ r.stdout = tty[i].stdout /\ r.raw = tty[i].raw
    BY Zenon, <1>1 DEF TtyState
<1>3. tty' = [tty EXCEPT ![i] = r]
    BY Zenon
<1> HIDE DEF r
<1> QED BY Zenon, <1>1, <1>2, <1>3 DEF TtyOthers

(* A write to stdout of terminal i changes nothing else. *)
LEMMA StdoutFacts ==
    ASSUME Typed, NEW i \in Ttys, NEW q \in Seq(Lines), tty' = [tty EXCEPT ![i].stdout = q]
    PROVE  /\ tty' \in [Ttys -> TtyState] /\ TtyOthers(i) /\ tty'[i].stdout = q
           /\ tty'[i].active = tty[i].active /\ tty'[i].stdin = tty[i].stdin /\ tty'[i].raw = tty[i].raw
<1> DEFINE r == [tty[i] EXCEPT !.stdout = q]
<1>1. tty[i] \in TtyState /\ tty \in [Ttys -> TtyState]
    BY Zenon DEF Typed
<1>2. r \in TtyState /\ r.stdout = q /\ r.active = tty[i].active /\ r.stdin = tty[i].stdin /\ r.raw = tty[i].raw
    BY Zenon, <1>1 DEF TtyState
<1>3. tty' = [tty EXCEPT ![i] = r]
    BY Zenon
<1> HIDE DEF r
<1> QED BY Zenon, <1>1, <1>2, <1>3 DEF TtyOthers

(* A change of the raw buffer of terminal i changes nothing else. *)
LEMMA RawFacts ==
    ASSUME Typed, NEW i \in Ttys, NEW q \in Seq(KeySet), tty' = [tty EXCEPT ![i].raw = q]
    PROVE  /\ tty' \in [Ttys -> TtyState] /\ TtyOthers(i) /\ tty'[i].raw = q
           /\ tty'[i].active = tty[i].active /\ tty'[i].stdin = tty[i].stdin /\ tty'[i].stdout = tty[i].stdout
<1> DEFINE r == [tty[i] EXCEPT !.raw = q]
<1>1. tty[i] \in TtyState /\ tty \in [Ttys -> TtyState]
    BY Zenon DEF Typed
<1>2. r \in TtyState /\ r.raw = q /\ r.active = tty[i].active /\ r.stdin = tty[i].stdin /\ r.stdout = tty[i].stdout
    BY Zenon, <1>1 DEF TtyState
<1>3. tty' = [tty EXCEPT ![i] = r]
    BY Zenon
<1> HIDE DEF r
<1> QED BY Zenon, <1>1, <1>2, <1>3 DEF TtyOthers

(* A change of the active flag of terminal i changes nothing else. *)
LEMMA ActiveFacts ==
    ASSUME Typed, NEW i \in Ttys, NEW b \in BOOLEAN, tty' = [tty EXCEPT ![i].active = b]
    PROVE  /\ tty' \in [Ttys -> TtyState] /\ TtyOthers(i) /\ (tty'[i].active <=> b)
           /\ tty'[i].raw = tty[i].raw /\ tty'[i].stdin = tty[i].stdin /\ tty'[i].stdout = tty[i].stdout
<1> DEFINE r == [tty[i] EXCEPT !.active = b]
<1>1. tty[i] \in TtyState /\ tty \in [Ttys -> TtyState]
    BY Zenon DEF Typed
<1>2. r \in TtyState /\ r.active = b /\ r.raw = tty[i].raw /\ r.stdin = tty[i].stdin /\ r.stdout = tty[i].stdout
    BY Zenon, <1>1 DEF TtyState
<1>3. tty' = [tty EXCEPT ![i] = r]
    BY Zenon
<1> HIDE DEF r
<1> QED BY Zenon, <1>1, <1>2, <1>3 DEF TtyOthers

(* One mutex is taken or given up. *)
LEMMA RawMutexFacts ==
    ASSUME Typed, NEW i \in Ttys, NEW v \in Ttys \cup {Free}, mx' = [mx EXCEPT !.raw[i] = v]
    PROVE  /\ mx' \in MutexState /\ mx'.raw[i] = v /\ (\A j \in Ttys \ {i} : mx'.raw[j] = mx.raw[j])
           /\ mx'.file = mx.file /\ mx'.active = mx.active
<1> DEFINE f == [mx.raw EXCEPT ![i] = v]
<1>1. mx \in MutexState /\ mx.raw \in [Ttys -> Ttys \cup {Free}]
    BY Zenon DEF Typed, MutexState
<1>2. f \in [Ttys -> Ttys \cup {Free}] /\ f[i] = v /\ \A j \in Ttys \ {i} : f[j] = mx.raw[j]
    BY Zenon, <1>1
<1>3. mx' = [mx EXCEPT !.raw = f]
    BY Zenon
<1> HIDE DEF f
<1>4. mx'.raw = f /\ mx'.file = mx.file /\ mx'.active = mx.active /\ mx' \in MutexState
    BY Zenon, <1>1, <1>2, <1>3 DEF MutexState
<1> QED BY Zenon, <1>2, <1>4

(* stdin_mutex of terminal i gets a holder or is given up. *)
LEMMA StdinMutexFacts ==
    ASSUME Typed, NEW i \in Ttys, NEW v \in Readers \cup {Free}, mx' = [mx EXCEPT !.stdin[i] = v]
    PROVE  mx' \in MutexState /\ mx'.raw = mx.raw /\ mx'.file = mx.file /\ mx'.active = mx.active
<1> DEFINE f == [mx.stdin EXCEPT ![i] = v]
<1>1. mx \in MutexState /\ mx.stdin \in [Ttys -> Readers \cup {Free}]
    BY Zenon DEF Typed, MutexState
<1>2. f \in [Ttys -> Readers \cup {Free}]
    BY Zenon, <1>1
<1>3. mx' = [mx EXCEPT !.stdin = f]
    BY Zenon
<1> HIDE DEF f
<1> QED BY Zenon, <1>1, <1>2, <1>3 DEF MutexState

(* stdout_mutex of terminal i gets a holder or is given up. *)
LEMMA StdoutMutexFacts ==
    ASSUME Typed, NEW i \in Ttys, NEW v \in Programs \cup {Free}, mx' = [mx EXCEPT !.stdout[i] = v]
    PROVE  mx' \in MutexState /\ mx'.raw = mx.raw /\ mx'.file = mx.file /\ mx'.active = mx.active
<1> DEFINE f == [mx.stdout EXCEPT ![i] = v]
<1>1. mx \in MutexState /\ mx.stdout \in [Ttys -> Programs \cup {Free}]
    BY Zenon DEF Typed, MutexState
<1>2. f \in [Ttys -> Programs \cup {Free}]
    BY Zenon, <1>1
<1>3. mx' = [mx EXCEPT !.stdout = f]
    BY Zenon
<1> HIDE DEF f
<1> QED BY Zenon, <1>1, <1>2, <1>3 DEF MutexState

(* file_mutex of terminal i gets a holder or is given up. *)
LEMMA FileMutexFacts ==
    ASSUME Typed, NEW i \in Ttys, NEW v \in Programs \cup {Free}, mx' = [mx EXCEPT !.file[i] = v]
    PROVE  /\ mx' \in MutexState /\ mx'.raw = mx.raw /\ mx'.active = mx.active
           /\ mx'.file[i] = v /\ \A j \in Ttys \ {i} : mx'.file[j] = mx.file[j]
<1> DEFINE f == [mx.file EXCEPT ![i] = v]
<1>1. mx \in MutexState /\ mx.file \in [Ttys -> Programs \cup {Free}]
    BY Zenon DEF Typed, MutexState
<1>2. f \in [Ttys -> Programs \cup {Free}] /\ f[i] = v /\ \A j \in Ttys \ {i} : f[j] = mx.file[j]
    BY Zenon, <1>1
<1>3. mx' = [mx EXCEPT !.file = f]
    BY Zenon
<1> HIDE DEF f
<1>4. mx'.file = f /\ mx'.raw = mx.raw /\ mx'.active = mx.active /\ mx' \in MutexState
    BY Zenon, <1>1, <1>2, <1>3 DEF MutexState
<1> QED BY Zenon, <1>2, <1>4

(* _active_tty_mutex gets a holder or is given up. *)
LEMMA ActiveMutexFacts ==
    ASSUME Typed, NEW v \in Ttys \cup {Free}, mx' = [mx EXCEPT !.active = v]
    PROVE  mx' \in MutexState /\ mx'.raw = mx.raw /\ mx'.file = mx.file /\ mx'.active = v
BY Zenon DEF Typed, MutexState

(* A program goes on. *)
IoOthers(p) == \A q \in Programs \ {p} : io'[q] = io[q]

(* A program goes on to another place of its call, the others stay. *)
LEMMA IoGotoFacts ==
    ASSUME Typed, NEW p \in Programs, NEW pc \in {"idle", "file"} \cup Holding, IoGoto(p, pc)
    PROVE  /\ io' \in [Programs -> IoState] /\ IoOthers(p)
           /\ io'[p].pc = pc /\ io'[p].intr = io[p].intr /\ io'[p].ret = io[p].ret
<1> DEFINE r == [io[p] EXCEPT !.pc = pc]
<1>1. io[p] \in IoState /\ io \in [Programs -> IoState]
    BY Zenon DEF Typed
<1>2. r \in IoState /\ r.pc = pc /\ r.intr = io[p].intr /\ r.ret = io[p].ret
    BY Zenon, <1>1 DEF IoState
<1>3. io' = [io EXCEPT ![p] = r]
    BY Zenon DEF IoGoto
<1> HIDE DEF r
<1> QED BY Zenon, <1>1, <1>2, <1>3 DEF IoOthers

(* An event is noted. *)
LEMMA NoteFacts ==
    ASSUME Typed, NEW e \in SUBSET Events, Note(e)
    PROVE  /\ seen' \in SeenState /\ seen'.events = seen.events \cup e
           /\ seen'.pushed = seen.pushed /\ seen'.handled = seen.handled
<1> DEFINE f == seen.events \cup e
<1>1. seen \in SeenState /\ f \in SUBSET Events
    BY Zenon DEF Typed, SeenState
<1>2. seen' = [seen EXCEPT !.events = f]
    BY Zenon, <1>1 DEF Note
<1> HIDE DEF f
<1>3. seen' \in SeenState /\ seen'.events = f /\ seen'.pushed = seen.pushed /\ seen'.handled = seen.handled
    BY Zenon, <1>1, <1>2 DEF SeenState
<1> QED BY Zenon, <1>3 DEF f

(* The timer has stopped one task more. *)
LEMMA StopFacts ==
    ASSUME Typed, coming.stops > 0, coming' = [coming EXCEPT !.stops = @ - 1]
    PROVE  coming' \in Script /\ coming'.on = coming.on
<1> DEFINE n == coming.stops - 1
<1>1. coming \in Script /\ coming.stops \in Nat
    BY Zenon DEF Typed, Script
<1>2. n \in Nat
    BY <1>1
<1>3. coming' = [coming EXCEPT !.stops = n]
    BY Zenon, <1>1 DEF Script
<1> HIDE DEF n
<1> QED BY Zenon, <1>1, <1>2, <1>3 DEF Script

-----------------------------------------------------------------------------
(* What the steps leave alone *)

(* Events are not forgotten. *)
Grows == \A e \in seen.events : e \in seen'.events

(* What explains a read of nothing is not forgotten. *)
LEMMA StillExplained ==
    ASSUME Grows, Explained
    PROVE  Explained'
BY Zenon DEF Grows, Explained

(* The programs, while an input thread or the keyboard works. *)
LEMMA IoStays ==
    ASSUME IInv, io' = io, coming'.on = coming.on, mx'.file = mx.file, Grows,
           \A j \in Ttys : HasLine(tty[j].stdin) => HasLine(tty'[j].stdin) \/ Explained'
    PROVE  \A p \in Programs : Holds(p)' /\ Woken(p)'
<1> SUFFICES ASSUME NEW p \in Programs PROVE Holds(p)' /\ Woken(p)'
    BY Zenon
<1>1. Holds(p) /\ Woken(p)
    BY Zenon DEF IInv
<1>2. Holds(p)'
    BY Zenon, <1>1 DEF Holds
<1>3. coming.on[p] \in Ttys
    BY Zenon DEF IInv, Typed, Script
<1>4. ~HasLine(tty'[coming.on[p]].stdin) => ~HasLine(tty[coming.on[p]].stdin) \/ Explained'
    BY Zenon, <1>3
<1>5. Explained => Explained'
    BY Zenon, StillExplained
<1>6. Woken(p)'
    BY Zenon, <1>1, <1>4, <1>5 DEF Woken, StdinOf
<1> QED BY Zenon, <1>2, <1>6

(* A program works on its terminal: the others have it only one at a time. *)
LEMMA IoMoves ==
    ASSUME IInv, NEW p \in Programs, IoOthers(p), coming'.on = coming.on, Grows,
           \A j \in Ttys \ {coming.on[p]} : tty'[j].stdin = tty[j].stdin /\ mx'.file[j] = mx.file[j],
           tty'[coming.on[p]].stdin = tty[coming.on[p]].stdin \/ io[p].pc \in Holding,
           mx'.file[coming.on[p]] = mx.file[coming.on[p]] \/ mx.file[coming.on[p]] \in {Free, p},
           Holds(p)', Woken(p)'
    PROVE  \A q \in Programs : Holds(q)' /\ Woken(q)'
<1> SUFFICES ASSUME NEW q \in Programs, q # p PROVE Holds(q)' /\ Woken(q)'
    BY Zenon
<1>1. Holds(q) /\ Woken(q) /\ Holds(p) /\ io'[q] = io[q]
    BY Zenon DEF IInv, IoOthers
<1>2. coming.on[q] \in Ttys /\ coming.on[p] \in Ttys /\ q # Free
    BY Zenon, TtyAssumption DEF IInv, Typed, Script
<1>3. Holds(q)'
    BY ZenonT(60), <1>1, <1>2 DEF Holds
<1>4. Explained => Explained'
    BY Zenon, StillExplained
<1>5. io[q].pc = "woken" => tty'[coming.on[q]].stdin = tty[coming.on[q]].stdin
    BY Zenon, <1>1, <1>2 DEF Holds, Holding
<1>6. Woken(q)'
    BY Zenon, <1>1, <1>4, <1>5 DEF Woken, StdinOf
<1> QED BY Zenon, <1>3, <1>6

(* The terminals and the threads of others, while the input thread of terminal i works. *)
LEMMA InputMoves ==
    ASSUME IInv, NEW i \in Ttys, InputOthers(i), Grows,
           \A j \in Ttys \ {i} : /\ tty'[j].raw = tty[j].raw /\ mx'.raw[j] = mx.raw[j]
                                 /\ seen'.pushed[j] = seen.pushed[j] /\ seen'.handled[j] = seen.handled[j]
                                 /\ mx'.active = j <=> mx.active = j,
           active' = active \/ mx.active = i,
           Batch(i)', Switches(i)',
           "grown" \in seen'.events \/ (InOrder(i) => InOrder(i)')
    PROVE  Ordered' /\ \A j \in Ttys : Batch(j)' /\ Switches(j)'
<1>1. ASSUME NEW j \in Ttys \ {i} PROVE Batch(j)' /\ Switches(j)' /\ (InOrder(j) => InOrder(j)')
  <2>1. Batch(j) /\ Switches(j) /\ input'[j] = input[j] /\ tty'[j].raw = tty[j].raw /\ mx'.raw[j] = mx.raw[j]
      BY Zenon, <1>1 DEF IInv, InputOthers
  <2>2. Batch(j)'
      BY Zenon, <2>1 DEF Batch
  <2>3. mx'.active = j => active' = active
      BY Zenon
  <2>4. Switches(j)'
      BY Zenon, <2>1, <2>3 DEF Switches, CurrentKey
  <2>5. InOrder(j) => InOrder(j)'
      BY Zenon, <2>1 DEF InOrder, Done
  <2> QED BY Zenon, <2>2, <2>4, <2>5
<1>2. Ordered'
    BY Zenon, <1>1 DEF IInv, Ordered, Grows
<1> QED BY Zenon, <1>1, <1>2

(* All the input threads, while a program works. *)
LEMMA InputStays ==
    ASSUME IInv, input' = input, mx'.raw = mx.raw, mx'.active = mx.active, active' = active, Grows,
           \A j \in Ttys : tty'[j].raw = tty[j].raw, seen'.pushed = seen.pushed, seen'.handled = seen.handled
    PROVE  Ordered' /\ (Dark' <=> Dark) /\ \A j \in Ttys : Batch(j)' /\ Switches(j)'
<1>1. ASSUME NEW j \in Ttys PROVE Batch(j)' /\ Switches(j)' /\ (InOrder(j) => InOrder(j)')
  <2>1. Batch(j) /\ Switches(j) /\ tty'[j].raw = tty[j].raw
      BY Zenon, <1>1 DEF IInv
  <2> QED BY Zenon, <2>1 DEF Batch, Switches, CurrentKey, InOrder, Done
<1>2. Ordered'
    BY Zenon, <1>1 DEF IInv, Ordered, Grows
<1> QED BY Zenon, <1>1, <1>2 DEF Dark

(* A step of the input thread of terminal i neither begins nor ends the dark. *)
LEMMA DarkStays ==
    ASSUME NEW i \in Ttys, InputOthers(i), input[i].pc # "activate", input'[i].pc # "activate"
    PROVE  Dark' <=> Dark
BY Zenon DEF Dark, InputOthers

(* The console stays as it is. *)
LEMMA ShownStays ==
    ASSUME IInv, screen' = screen, active' = active, Dark' <=> Dark,
           \A j \in Ttys : tty'[j].active = tty[j].active /\ tty'[j].stdout = tty[j].stdout
    PROVE  Shown'
<1>1. active \in Ttys /\ Shown
    BY Zenon DEF IInv, Typed
<1> QED BY Zenon, <1>1 DEF Shown

(* stdout_write: a line of the active terminal is shown, that of another one is not. *)
LEMMA WriteFacts ==
    ASSUME IInv, NEW i \in Ttys, NEW line \in Lines, StdoutWrite(i, line), active' = active, Dark' <=> Dark
    PROVE  /\ Shown' /\ tty' \in [Ttys -> TtyState] /\ screen' \in Seq(Lines)
           /\ \A j \in Ttys : tty'[j].raw = tty[j].raw /\ tty'[j].stdin = tty[j].stdin
<1> DEFINE q == Append(tty[i].stdout, line)
<1>1. tty[i].stdout \in Seq(Lines) /\ screen \in Seq(Lines) /\ active \in Ttys /\ Shown /\ Typed
    BY Zenon DEF IInv, Typed, TtyState
<1>2. q \in Seq(Lines) /\ Append(screen, line) \in Seq(Lines)
    BY <1>1
<1>3. tty' = [tty EXCEPT ![i].stdout = q]
    BY Zenon, <1>1 DEF StdoutWrite
<1>4. screen' = IF tty[i].active THEN Suffix(Append(screen, line), Rows) ELSE screen
    BY Zenon DEF StdoutWrite
<1>5. tty[i].active /\ ~Dark => Suffix(Append(screen, line), Rows) = Suffix(q, Rows)
  <2>1. Rows \in Nat \ {0}
      BY Zenon, TtyAssumption
  <2>2. Suffix(Append(Suffix(tty[i].stdout, Rows), line), Rows) = Suffix(q, Rows)
      BY Zenon, <1>1, <2>1, SuffixAppend
  <2>3. tty[i].active /\ ~Dark => screen = Suffix(tty[i].stdout, Rows)
      BY Zenon, <1>1 DEF Shown
  <2> QED BY Zenon, <2>2, <2>3
<1> HIDE DEF q
<1>6. /\ tty' \in [Ttys -> TtyState] /\ TtyOthers(i) /\ tty'[i].stdout = q
      /\ tty'[i].active = tty[i].active /\ tty'[i].stdin = tty[i].stdin /\ tty'[i].raw = tty[i].raw
    BY Zenon, <1>1, <1>2, <1>3, StdoutFacts
<1>7. Rows \in Nat
    BY TtyAssumption
<1>8. screen' \in Seq(Lines) /\ Len(screen') <= Rows
    BY Zenon, <1>1, <1>2, <1>4, <1>7, SuffixShort DEF Shown
<1>9. \A j \in Ttys : tty'[j].active = tty[j].active /\ (j # i => tty'[j].stdout = tty[j].stdout)
    BY Zenon, <1>6 DEF TtyOthers
<1>10. Shown'
  <2>1. \A j \in Ttys : tty'[j].active <=> j = active' /\ ~Dark'
      BY Zenon, <1>1, <1>9 DEF Shown
  <2>2. Dark' \/ screen' = Suffix(tty'[active'].stdout, Rows)
      BY Zenon, <1>1, <1>4, <1>5, <1>6, <1>9 DEF Shown
  <2> QED BY Zenon, <1>8, <2>1, <2>2 DEF Shown
<1>11. \A j \in Ttys : tty'[j].raw = tty[j].raw /\ tty'[j].stdin = tty[j].stdin
    BY Zenon, <1>6 DEF TtyOthers
<1> QED BY Zenon, <1>6, <1>8, <1>10, <1>11

-----------------------------------------------------------------------------
(* raw_input_thread *)

(* raw_input_thread takes a key, and the active terminal with it. *)
LEMMA TakeKeyInv ==
    ASSUME IInv, TakeKey
    PROVE  IInv'
<1>1. Typed /\ coming \in Script /\ coming.keys \in Seq(KeySet) /\ coming.keys # <<>> /\ active \in Ttys
    BY Zenon DEF IInv, Typed, Script, TakeKey
<1>2. Head(coming.keys) \in KeySet /\ Tail(coming.keys) \in Seq(KeySet)
    BY <1>1
<1>3. coming' \in Script /\ coming'.on = coming.on
  <2>1. coming' = [coming EXCEPT !.keys = Tail(coming.keys)]
      BY Zenon, <1>1 DEF TakeKey, Script
  <2> QED BY Zenon, <1>1, <1>2, <2>1 DEF Script
<1>4. kb' \in [pc : {"idle", "push"}, key : KeySet \cup {Key("none", 0)}, to : Ttys \cup {0}] /\ KeyInHand'
    BY Zenon, <1>1, <1>2 DEF TakeKey, KeyInHand
<1>5. tty' = tty /\ mx' = mx /\ active' = active /\ screen' = screen /\ input' = input /\ io' = io /\ seen' = seen
    BY Zenon DEF TakeKey
<1>6. Typed' /\ Grows
    BY Zenon, <1>1, <1>3, <1>4, <1>5 DEF Typed, Grows
<1>7. Ordered' /\ (Dark' <=> Dark) /\ \A j \in Ttys : Batch(j)' /\ Switches(j)'
    BY Zenon, <1>5, <1>6, InputStays
<1>8. Shown'
    BY Zenon, <1>5, <1>7, ShownStays
<1>9. \A p \in Programs : Holds(p)' /\ Woken(p)'
    BY Zenon, <1>3, <1>5, <1>6, IoStays
<1> QED BY Zenon, <1>4, <1>6, <1>7, <1>8, <1>9 DEF IInv

(* The key joins the buffer of that terminal; pushed into a batch that is read, it is an event. *)
LEMMA PushKeyInv ==
    ASSUME IInv, PushKey, NEW i \in Ttys, kb.to = i
    PROVE  IInv'
<1> DEFINE q == Append(tty[i].raw, kb.key)
           w == Append(seen.pushed[i], kb.key)
           pc == IF input[i].pc = "wait" THEN "lock" ELSE input[i].pc
<1>1. kb.key \in KeySet /\ Typed /\ Batch(i) /\ Switches(i)
    BY Zenon DEF IInv, KeyInHand, PushKey
<1>2. /\ tty[i].raw \in Seq(KeySet) /\ seen.pushed \in [Ttys -> Seq(KeySet)] /\ seen.pushed[i] \in Seq(KeySet)
      /\ seen.handled[i] \in Seq(KeySet) /\ input[i].pc \in InputPcs /\ seen \in SeenState
    BY Zenon, <1>1 DEF Typed, TtyState, SeenState, InputState
<1>3. q \in Seq(KeySet) /\ w \in Seq(KeySet) /\ Len(q) = Len(tty[i].raw) + 1 /\ \A k \in 1..Len(tty[i].raw) : q[k] = tty[i].raw[k]
    BY <1>1, <1>2
<1>4. pc \in InputPcs /\ InputGoto(i, pc)
    BY Zenon, <1>1, <1>2 DEF PushKey, InputGoto, InputPcs, Resting, Typed
<1>5. tty' = [tty EXCEPT ![i].raw = q]
    BY Zenon, <1>1 DEF PushKey
<1>6. mx.raw[i] = Free /\ mx' = mx /\ active' = active /\ screen' = screen /\ io' = io /\ coming' = coming
    BY Zenon DEF PushKey
<1>7. kb' \in [pc : {"idle", "push"}, key : KeySet \cup {Key("none", 0)}, to : Ttys \cup {0}] /\ kb'.pc = "idle"
    BY Zenon, <1>1 DEF PushKey, Typed
<1>8. /\ seen' \in SeenState /\ seen'.handled = seen.handled /\ Grows
      /\ seen'.pushed = [seen.pushed EXCEPT ![i] = w]
      /\ input[i].pc \notin {"wait", "lock"} => "grown" \in seen'.events
  <2> DEFINE f == [seen.pushed EXCEPT ![i] = w]
             e == IF input[i].pc \in {"wait", "lock"} THEN seen.events ELSE seen.events \cup {"grown"}
  <2>1. f \in [Ttys -> Seq(KeySet)]
      BY Zenon, <1>2, <1>3
  <2>2. e \in SUBSET Events /\ (\A x \in seen.events : x \in e) /\ (input[i].pc \notin {"wait", "lock"} => "grown" \in e)
      BY Zenon, <1>2 DEF SeenState, Events
  <2>3. seen' = [seen EXCEPT !.pushed = f, !.events = e]
      BY Zenon, <1>2 DEF PushKey, SeenState
  <2> HIDE DEF f, e
  <2>4. seen' \in SeenState /\ seen'.handled = seen.handled /\ seen'.pushed = f /\ seen'.events = e
      BY Zenon, <1>2, <2>1, <2>2, <2>3 DEF SeenState
  <2> QED BY Zenon, <2>2, <2>4 DEF f, Grows
<1>9. /\ input' \in [Ttys -> InputState] /\ InputOthers(i)
      /\ input'[i].pc = pc /\ input'[i].at = input[i].at /\ input'[i].last = input[i].last
    BY Zenon, <1>1, <1>4, GotoFacts
<1>10. /\ tty' \in [Ttys -> TtyState] /\ TtyOthers(i) /\ tty'[i].raw = q
       /\ tty'[i].active = tty[i].active /\ tty'[i].stdin = tty[i].stdin /\ tty'[i].stdout = tty[i].stdout
    BY Zenon, <1>1, <1>3, <1>5, RawFacts
<1>11. seen'.pushed[i] = w /\ \A j \in Ttys \ {i} : seen'.pushed[j] = seen.pushed[j]
    BY Zenon, <1>1, <1>2, <1>3, <1>8
<1> HIDE DEF q, w
<1>12. Typed' /\ KeyInHand'
    BY Zenon, <1>1, <1>6, <1>7, <1>8, <1>9, <1>10 DEF Typed, KeyInHand
<1>13. /\ input[i].pc = "wait" => pc = "lock"
       /\ input[i].pc # "wait" => pc = input[i].pc
    BY Zenon
<1> HIDE DEF pc
<1>14. Batch(i)' /\ (pc \in {"deactivate", "activate"} => CurrentKey(i)' = CurrentKey(i))
  <2>1. pc \notin Resting => input[i].pc = pc
      BY Zenon, <1>13 DEF Resting
  <2>2. pc \in {"deactivate", "activate"} => pc \in Inside /\ pc \notin Resting
      BY Zenon DEF Inside, Resting
  <2>3. mx'.raw[i] \in {Free, i}
      BY Zenon, <1>6
  <2>4. /\ input'[i].pc \notin Resting => input'[i].last <= Len(tty'[i].raw) /\ input'[i].at \in 1..(input'[i].last + 1)
        /\ input'[i].pc \in Inside => input'[i].at <= input'[i].last
    <3>1. input[i].at \in Nat /\ input[i].last \in Nat /\ Len(tty[i].raw) \in Nat
        BY <1>1, <1>2 DEF Typed, InputState
    <3>2. CASE pc \in Resting
        BY Zenon, <3>2, <1>9 DEF Inside, Resting
    <3>3. CASE pc \notin Resting
        BY <3>1, <3>3, <2>1, <1>1, <1>3, <1>9, <1>10 DEF Batch
    <3> QED BY Zenon, <3>2, <3>3
  <2>5. pc \in {"deactivate", "activate"} => input[i].at \in 1..Len(tty[i].raw)
    <3>1. input[i].at \in Nat /\ input[i].last \in Nat /\ Len(tty[i].raw) \in Nat
        BY <1>1, <1>2 DEF Typed, InputState
    <3> QED BY <3>1, <2>1, <2>2, <1>1 DEF Batch
  <2> QED BY Zenon, <2>3, <2>4, <2>5, <1>3, <1>9, <1>10 DEF Batch, CurrentKey
<1>15. Switches(i)'
    BY Zenon, <1>1, <1>6, <1>9, <1>13, <1>14 DEF Switches
<1>16. "grown" \in seen'.events \/ (InOrder(i) => InOrder(i)')
  <2> SUFFICES ASSUME input[i].pc \in {"wait", "lock"}, InOrder(i) PROVE InOrder(i)'
      BY Zenon, <1>8
  <2>1. pc = "lock"
      BY Zenon, <1>13
  <2>2. seen.handled[i] \o tty[i].raw = seen.pushed[i]
    <3>1. Done(i) = 0
        BY Zenon DEF Done, Resting
    <3>2. SubSeq(tty[i].raw, 0 + 1, Len(tty[i].raw)) = tty[i].raw
        BY <1>2
    <3> QED BY Zenon, <3>1, <3>2 DEF InOrder
  <2>3. seen.handled[i] \o q = w
    <3>1. Adds(seen.handled[i], tty[i].raw, kb.key)
        BY Zenon, <1>1, <1>2, KeyAdded
    <3> QED BY Zenon, <2>2, <3>1 DEF Adds, q, w
  <2>4. Done(i)' = 0
      BY Zenon, <2>1, <1>9 DEF Done, Resting
  <2>5. SubSeq(q, 0 + 1, Len(q)) = q
      BY <1>3
  <2> QED BY Zenon, <2>1, <2>3, <2>4, <2>5, <1>8, <1>9, <1>10, <1>11 DEF InOrder, Resting
<1>17. Ordered' /\ \A j \in Ttys : Batch(j)' /\ Switches(j)'
  <2>1. \A j \in Ttys \ {i} : /\ tty'[j].raw = tty[j].raw /\ mx'.raw[j] = mx.raw[j]
                              /\ seen'.pushed[j] = seen.pushed[j] /\ seen'.handled[j] = seen.handled[j]
                              /\ mx'.active = j <=> mx.active = j
      BY Zenon, <1>6, <1>8, <1>10, <1>11 DEF TtyOthers
  <2> QED BY Zenon, <2>1, <1>1, <1>6, <1>8, <1>9, <1>14, <1>15, <1>16, InputMoves
<1>18. Dark' <=> Dark
    BY Zenon, <1>9, <1>13 DEF Dark, InputOthers
<1>19. Shown'
  <2>1. \A j \in Ttys : tty'[j].active = tty[j].active /\ tty'[j].stdout = tty[j].stdout
      BY Zenon, <1>10 DEF TtyOthers
  <2> QED BY Zenon, <2>1, <1>6, <1>18, ShownStays
<1>20. \A p \in Programs : Holds(p)' /\ Woken(p)'
  <2>1. \A j \in Ttys : tty'[j].stdin = tty[j].stdin
      BY Zenon, <1>10 DEF TtyOthers
  <2> QED BY Zenon, <2>1, <1>6, <1>8, IoStays
<1> QED BY Zenon, <1>12, <1>17, <1>19, <1>20 DEF IInv

-----------------------------------------------------------------------------
(* The input threads *)

(* A step of the input thread of terminal i: what remains to be shown of it. *)
LEMMA InputStepInv ==
    ASSUME IInv, NEW i \in Ttys, Typed', Shown', kb' = kb, InputOthers(i), Grows,
           \A j \in Ttys \ {i} : /\ tty'[j].raw = tty[j].raw /\ mx'.raw[j] = mx.raw[j]
                                 /\ seen'.handled[j] = seen.handled[j]
                                 /\ mx'.active = j <=> mx.active = j,
           seen'.pushed = seen.pushed,
           active' = active \/ mx.active = i,
           Batch(i)', Switches(i)',
           "grown" \in seen'.events \/ (InOrder(i) => InOrder(i)'),
           \A p \in Programs : Holds(p)' /\ Woken(p)'
    PROVE  IInv'
<1>1. KeyInHand'
    BY Zenon DEF IInv, KeyInHand
<1>2. \A j \in Ttys \ {i} : /\ tty'[j].raw = tty[j].raw /\ mx'.raw[j] = mx.raw[j]
                            /\ seen'.pushed[j] = seen.pushed[j] /\ seen'.handled[j] = seen.handled[j]
                            /\ mx'.active = j <=> mx.active = j
    BY Zenon
<1>3. Ordered' /\ \A j \in Ttys : Batch(j)' /\ Switches(j)'
    BY Zenon, <1>2, InputMoves
<1> QED BY Zenon, <1>1, <1>3 DEF IInv

(* Types of what the input thread of terminal i reads *)
LEMMA InputTypes ==
    ASSUME Typed, NEW i \in Ttys
    PROVE  /\ input[i].at \in Nat /\ input[i].last \in Nat /\ input[i].pc \in InputPcs
           /\ tty[i].raw \in Seq(KeySet) /\ Len(tty[i].raw) \in Nat
           /\ seen.handled[i] \in Seq(KeySet) /\ seen.pushed[i] \in Seq(KeySet)
<1>1. /\ input[i].at \in Nat /\ input[i].last \in Nat /\ input[i].pc \in InputPcs
      /\ tty[i].raw \in Seq(KeySet)
      /\ seen.handled[i] \in Seq(KeySet) /\ seen.pushed[i] \in Seq(KeySet)
    BY Zenon DEF Typed, InputState, TtyState, SeenState
<1>2. Len(tty[i].raw) \in Nat
    BY <1>1
<1> QED BY Zenon, <1>1, <1>2

(***************************************************************************)
(* The thread goes on with what comes of the key, or to the next one.      *)
(***************************************************************************)
LEMMA InBatch ==
    ASSUME IInv, NEW i \in Ttys, input[i].pc \in Inside, tty'[i].raw = tty[i].raw, mx'.raw[i] = mx.raw[i],
           seen'.handled = seen.handled, seen'.pushed = seen.pushed, input'[i].last = input[i].last,
           \/ input'[i].pc \in Inside /\ input'[i].at = input[i].at
           \/ input'[i].pc = "key" /\ input'[i].at = input[i].at + 1
    PROVE  Batch(i)' /\ (InOrder(i) => InOrder(i)') /\ CurrentKey(i) \in KeySet
<1>1. /\ input[i].at \in Nat /\ input[i].last \in Nat /\ Len(tty[i].raw) \in Nat
      /\ tty[i].raw \in Seq(KeySet) /\ Batch(i)
    BY Zenon, InputTypes DEF IInv
<1>2. input[i].pc \notin Resting /\ input[i].pc # "key" /\ input'[i].pc \notin Resting
    BY Zenon DEF Inside, Resting
<1>3. input[i].last <= Len(tty[i].raw) /\ input[i].at \in 1..input[i].last /\ mx.raw[i] \in {Free, i}
  <2>1. input[i].last <= Len(tty[i].raw) /\ input[i].at \in 1..(input[i].last + 1) /\ input[i].at <= input[i].last
        /\ mx.raw[i] \in {Free, i}
      BY Zenon, <1>1, <1>2 DEF Batch
  <2>2. input[i].at \in 1..input[i].last
      BY <1>1, <2>1
  <2> QED BY Zenon, <2>1, <2>2
<1>4. CurrentKey(i) \in KeySet
    BY <1>1, <1>3 DEF CurrentKey
<1>5. Done(i) = input[i].at
    BY Zenon, <1>2 DEF Done
<1>6. CASE input'[i].pc \in Inside /\ input'[i].at = input[i].at
  <2>1. input'[i].pc # "key"
      BY Zenon, <1>6 DEF Inside
  <2>2. Done(i)' = input[i].at
      BY Zenon, <1>2, <1>6, <2>1 DEF Done
  <2>3. Batch(i)'
      BY Zenon, <1>1, <1>2, <1>3, <1>6 DEF Batch
  <2>4. InOrder(i) => InOrder(i)'
      BY Zenon, <1>2, <1>5, <2>2 DEF InOrder, Resting
  <2> QED BY Zenon, <1>4, <2>3, <2>4
<1>7. CASE input'[i].pc = "key" /\ input'[i].at = input[i].at + 1
  <2>1. input[i].at + 1 \in 1..(input[i].last + 1) /\ input[i].at + 1 - 1 = input[i].at
      BY <1>1, <1>3
  <2>2. Done(i)' = input[i].at
    <3>1. Done(i)' = input'[i].at - 1
        BY Zenon, <1>2, <1>7 DEF Done
    <3> QED BY <3>1, <1>1, <1>7
  <2>3. Batch(i)'
      BY Zenon, <1>2, <1>3, <1>7, <2>1 DEF Batch, Inside
  <2>4. InOrder(i) => InOrder(i)'
      BY Zenon, <1>2, <1>5, <2>2 DEF InOrder, Resting
  <2> QED BY Zenon, <1>4, <2>3, <2>4
<1> QED BY Zenon, <1>6, <1>7

(* The input thread starts a batch: the whole buffer. *)
LEMMA InputLockInv ==
    ASSUME IInv, NEW i \in Ttys, InputLock(i)
    PROVE  IInv'
<1> DEFINE r == [pc |-> "key", at |-> 1, last |-> Len(tty[i].raw), own |-> TRUE]
<1>1. Typed /\ Len(tty[i].raw) \in Nat /\ Switches(i)
    BY Zenon, InputTypes DEF IInv
<1>2. 1 \in Nat
    OBVIOUS
<1>3. r \in InputState /\ r.pc = "key" /\ r.at = 1 /\ r.last = Len(tty[i].raw)
    BY Zenon, <1>1, <1>2 DEF InputState, InputPcs
<1>4. input' = [input EXCEPT ![i] = r] /\ mx' = [mx EXCEPT !.raw[i] = i] /\ input[i].pc = "lock"
    BY Zenon DEF InputLock, InputAt
<1>5. tty' = tty /\ active' = active /\ screen' = screen /\ kb' = kb /\ io' = io /\ coming' = coming /\ seen' = seen
    BY Zenon DEF InputLock
<1> HIDE DEF r
<1>6. input' \in [Ttys -> InputState] /\ input'[i] = r /\ InputOthers(i)
    BY Zenon, <1>1, <1>3, <1>4 DEF Typed, InputOthers
<1>7. /\ mx' \in MutexState /\ mx'.raw[i] = i /\ (\A j \in Ttys \ {i} : mx'.raw[j] = mx.raw[j])
      /\ mx'.file = mx.file /\ mx'.active = mx.active
    BY Zenon, <1>1, <1>4, RawMutexFacts
<1>8. Typed' /\ Grows
    BY Zenon, <1>1, <1>5, <1>6, <1>7 DEF Typed, Grows
<1>9. Dark' <=> Dark
    BY Zenon, <1>3, <1>4, <1>6, DarkStays
<1>10. Shown'
    BY Zenon, <1>5, <1>9, ShownStays
<1>11. \A p \in Programs : Holds(p)' /\ Woken(p)'
    BY Zenon, <1>5, <1>7, <1>8, IoStays
<1>12. Batch(i)'
  <2>1. Len(tty[i].raw) <= Len(tty[i].raw) /\ 1 \in 1..(Len(tty[i].raw) + 1)
      BY <1>1
  <2> QED BY Zenon, <2>1, <1>3, <1>5, <1>6, <1>7 DEF Batch, Inside
<1>13. Switches(i)'
    BY Zenon, <1>1, <1>3, <1>4, <1>6, <1>7 DEF Switches
<1>14. InOrder(i) => InOrder(i)'
  <2>1. Done(i) = 0
      BY Zenon, <1>4 DEF Done, Resting
  <2>2. Done(i)' = 0
    <3>1. 1 - 1 = 0
        OBVIOUS
    <3> QED BY Zenon, <3>1, <1>3, <1>6 DEF Done, Resting
  <2> QED BY Zenon, <2>1, <2>2, <1>3, <1>5, <1>6 DEF InOrder, Resting
<1> QED BY Zenon, <1>5, <1>6, <1>7, <1>8, <1>10, <1>11, <1>12, <1>13, <1>14, InputStepInv

(* A key can be missed only in a batch that was pushed into. *)
LEMMA MissKeyInv ==
    ASSUME IInv, NEW i \in Ttys, MissKey(i)
    PROVE  IInv'
<1>1. /\ Typed /\ Switches(i) /\ Batch(i) /\ input[i].at \in Nat /\ input[i].last \in Nat /\ Len(tty[i].raw) \in Nat
    BY Zenon, InputTypes DEF IInv
<1>2. input[i].pc = "key" /\ NextKey(i) /\ input[i].at <= input[i].last /\ Len(tty[i].raw) > input[i].last
    BY Zenon DEF MissKey, InputAt
<1>3. /\ tty' = tty /\ mx' = mx /\ active' = active /\ screen' = screen /\ kb' = kb /\ io' = io
      /\ coming' = coming /\ seen' = seen
    BY Zenon DEF MissKey
<1>4. /\ input' \in [Ttys -> InputState] /\ InputOthers(i)
      /\ input'[i].pc = "key" /\ input'[i].at = input[i].at + 1 /\ input'[i].last = input[i].last
    BY Zenon, <1>1, <1>2, NextKeyFacts
<1>5. Typed' /\ Grows
    BY Zenon, <1>1, <1>3, <1>4 DEF Typed, Grows
<1>6. Dark' <=> Dark
    BY Zenon, <1>2, <1>4, DarkStays
<1>7. Shown'
    BY Zenon, <1>3, <1>6, ShownStays
<1>8. \A p \in Programs : Holds(p)' /\ Woken(p)'
    BY Zenon, <1>3, <1>5, IoStays
<1>9. Batch(i)'
  <2>1. input[i].at + 1 \in 1..(input[i].last + 1)
      BY <1>1, <1>2
  <2> QED BY Zenon, <1>1, <1>2, <1>3, <1>4, <2>1 DEF Batch, Inside, Resting
<1>10. Switches(i)'
    BY Zenon, <1>1, <1>2, <1>3, <1>4 DEF Switches
<1>11. ~InOrder(i)
  <2>1. Len(tty[i].raw) # input[i].last
      BY <1>1, <1>2
  <2> QED BY Zenon, <1>2, <2>1 DEF InOrder, Resting
<1> QED BY Zenon, <1>3, <1>4, <1>5, <1>7, <1>8, <1>9, <1>10, <1>11, InputStepInv

(***************************************************************************)
(* What a key does: it changes the thread, a mutex and the terminal.       *)
(***************************************************************************)
KeyMovesThread(i) ==
    /\ input' \in [Ttys -> InputState] /\ InputOthers(i) /\ input'[i].last = input[i].last
    /\ \/ input'[i].pc \in {"switch", "echo", "clear"} /\ input'[i].at = input[i].at
       \/ input'[i].pc = "key" /\ input'[i].at = input[i].at + 1

KeyMovesMutex(i) ==
    /\ mx' \in MutexState /\ mx'.file = mx.file /\ mx'.active = mx.active
    /\ mx'.raw[i] \in {Free, i} /\ \A j \in Ttys \ {i} : mx'.raw[j] = mx.raw[j]

KeyMovesTty(i) ==
    /\ tty' \in [Ttys -> TtyState] /\ screen' \in Seq(Lines) /\ Shown'
    /\ \A j \in Ttys : tty'[j].raw = tty[j].raw /\ (j # i => tty'[j].stdin = tty[j].stdin)

(* What a key does to the line *)
LEMMA KeyLine ==
    ASSUME IInv, NEW i \in Ttys, NEW q \in Seq({"char", "enter"}), tty' = [tty EXCEPT ![i].stdin = q],
           screen' = screen, active' = active, Dark' <=> Dark
    PROVE  KeyMovesTty(i)
<1>1. Typed /\ screen \in Seq(Lines)
    BY Zenon DEF IInv, Typed
<1>2. /\ tty' \in [Ttys -> TtyState] /\ TtyOthers(i)
      /\ tty'[i].active = tty[i].active /\ tty'[i].stdout = tty[i].stdout /\ tty'[i].raw = tty[i].raw
    BY Zenon, <1>1, StdinFacts
<1>3. \A j \in Ttys : tty'[j].active = tty[j].active /\ tty'[j].stdout = tty[j].stdout /\ tty'[j].raw = tty[j].raw
    BY Zenon, <1>2 DEF TtyOthers
<1>4. Shown'
    BY Zenon, <1>3, ShownStays
<1> QED BY Zenon, <1>1, <1>2, <1>3, <1>4 DEF KeyMovesTty, TtyOthers

(* The key that is handled moves from the rest of the batch to the handled keys. *)
LEMMA KeyFacts ==
    ASSUME IInv, NEW i \in Ttys, HandleKey(i)
    PROVE  KeyMovesThread(i) /\ KeyMovesMutex(i) /\ KeyMovesTty(i)
<1> DEFINE k == CurrentKey(i).kind
           q == tty[i].stdin
<1>1. /\ Typed /\ input[i].pc = "key" /\ active' = active /\ Batch(i)
      /\ input \in [Ttys -> InputState] /\ input[i] \in InputState /\ mx \in MutexState
      /\ tty \in [Ttys -> TtyState] /\ q \in Seq({"char", "enter"}) /\ screen \in Seq(Lines)
    BY Zenon DEF IInv, Typed, TtyState, HandleKey, InputAt
<1>2. KeyMovesThread(i) => (Dark' <=> Dark)
    BY Zenon, <1>1, DarkStays DEF KeyMovesThread
<1>3. mx' = mx => KeyMovesMutex(i)
    BY Zenon, <1>1 DEF KeyMovesMutex, Batch
<1>4. tty' = tty /\ screen' = screen /\ (Dark' <=> Dark) => KeyMovesTty(i)
    BY Zenon, <1>1, ShownStays DEF KeyMovesTty
<1>5. \A pc \in {"echo", "clear"} : InputGoto(i, pc) => KeyMovesThread(i)
  <2>1. \A pc \in {"echo", "clear"} : pc \in InputPcs
      BY Zenon DEF InputPcs, Inside
  <2> QED BY Zenon, <1>1, <2>1, GotoFacts DEF KeyMovesThread
<1>6. CASE /\ k = "switch"
           /\ input' = [input EXCEPT ![i].pc = "switch", ![i].own = FALSE]
           /\ mx' = [mx EXCEPT !.raw[i] = IF input[i].own THEN Free ELSE @]
           /\ UNCHANGED <<tty, screen>>
  <2> DEFINE r == [input[i] EXCEPT !.pc = "switch", !.own = FALSE]
             v == IF input[i].own THEN Free ELSE mx.raw[i]
  <2>1. input' = [input EXCEPT ![i] = r]
      BY Zenon, <1>1, <1>6
  <2>2. r \in InputState /\ r.pc = "switch" /\ r.at = input[i].at /\ r.last = input[i].last
      BY Zenon, <1>1 DEF InputState, InputPcs, Inside
  <2> HIDE DEF r
  <2>3. KeyMovesThread(i)
      BY Zenon, <1>1, <2>1, <2>2 DEF KeyMovesThread, InputOthers
  <2>4. mx' = [mx EXCEPT !.raw[i] = v] /\ v \in {Free, i} /\ v \in Ttys \cup {Free}
      BY Zenon, <1>1, <1>6 DEF Batch, MutexState
  <2> HIDE DEF v
  <2>5. KeyMovesMutex(i)
      BY Zenon, <1>1, <2>4, RawMutexFacts DEF KeyMovesMutex
  <2> QED BY Zenon, <1>2, <1>4, <1>6, <2>3, <2>5
<1>7. CASE /\ k \in {"char", "enter"}
           /\ tty' = [tty EXCEPT ![i].stdin = Append(@, k)]
           /\ InputGoto(i, "echo")
           /\ UNCHANGED <<mx, screen>>
  <2>1. Append(q, k) \in Seq({"char", "enter"})
      BY <1>1, <1>7
  <2>2. tty' = [tty EXCEPT ![i].stdin = Append(q, k)]
      BY Zenon, <1>1, <1>7
  <2> QED BY Zenon, <1>1, <1>2, <1>3, <1>5, <1>7, <2>1, <2>2, KeyLine
<1>8. CASE /\ tty' = [tty EXCEPT ![i].stdin = IF @ = <<>> THEN @ ELSE Front(@)]
           /\ InputGoto(i, "echo")
           /\ UNCHANGED <<mx, screen>>
  <2> DEFINE f == IF q = <<>> THEN q ELSE Front(q)
  <2>1. f \in Seq({"char", "enter"})
      BY <1>1 DEF Front
  <2>2. tty' = [tty EXCEPT ![i].stdin = f]
      BY Zenon, <1>1, <1>8
  <2> HIDE DEF f
  <2> QED BY Zenon, <1>1, <1>2, <1>3, <1>5, <1>8, <2>1, <2>2, KeyLine
<1>9. CASE StdoutWrite(i, "newline") /\ InputGoto(i, "clear") /\ UNCHANGED mx
  <2>1. "newline" \in Lines
      BY Zenon DEF Lines
  <2>2. KeyMovesThread(i) /\ (Dark' <=> Dark)
      BY Zenon, <1>2, <1>5, <1>9
  <2>3. KeyMovesTty(i)
      BY Zenon, <1>1, <1>9, <2>1, <2>2, WriteFacts DEF KeyMovesTty
  <2> QED BY Zenon, <1>3, <1>9, <2>2, <2>3
<1>10. CASE NextKey(i) /\ UNCHANGED <<tty, mx, screen>>
  <2>1. KeyMovesThread(i)
      BY Zenon, <1>1, <1>10, NextKeyFacts DEF KeyMovesThread
  <2> QED BY Zenon, <1>2, <1>3, <1>4, <1>10, <2>1
<1> QED BY Zenon, <1>6, <1>7, <1>8, <1>9, <1>10 DEF HandleKey

(* One key of the batch is handled, whatever its kind. *)
LEMMA HandleKeyInv ==
    ASSUME IInv, NEW i \in Ttys, HandleKey(i)
    PROVE  IInv'
<1> DEFINE k == CurrentKey(i)
           h == Append(seen.handled[i], k)
           lost == HasLine(tty[i].stdin) /\ ~HasLine(tty'[i].stdin)
<1>1. /\ Typed /\ Batch(i) /\ Switches(i) /\ input[i].at \in Nat /\ input[i].last \in Nat
      /\ tty[i].raw \in Seq(KeySet) /\ Len(tty[i].raw) \in Nat /\ seen.handled[i] \in Seq(KeySet)
    BY Zenon, InputTypes DEF IInv
<1>2. KeyMovesThread(i) /\ KeyMovesMutex(i) /\ KeyMovesTty(i)
    BY Zenon, KeyFacts
<1>3. /\ input[i].pc = "key" /\ input[i].at <= input[i].last
      /\ active' = active /\ kb' = kb /\ io' = io /\ coming' = coming
    BY Zenon DEF HandleKey, InputAt
<1>4. input[i].at \in 1..Len(tty[i].raw) /\ input[i].last <= Len(tty[i].raw) /\ input[i].at \in 1..input[i].last
  <2>1. input[i].last <= Len(tty[i].raw) /\ input[i].at \in 1..(input[i].last + 1)
      BY Zenon, <1>1, <1>3 DEF Batch, Resting
  <2> QED BY <1>1, <1>3, <2>1
<1>5. k \in KeySet /\ h \in Seq(KeySet)
    BY <1>1, <1>4 DEF CurrentKey
<1>6. /\ seen' \in SeenState /\ seen'.pushed = seen.pushed /\ Grows /\ (lost => "erased" \in seen'.events)
      /\ seen'.handled[i] = h /\ \A j \in Ttys \ {i} : seen'.handled[j] = seen.handled[j]
  <2> DEFINE f == [seen.handled EXCEPT ![i] = h]
             e == IF lost THEN seen.events \cup {"erased"} ELSE seen.events
  <2>1. seen \in SeenState /\ seen.handled \in [Ttys -> Seq(KeySet)] /\ seen.events \in SUBSET Events
      BY Zenon, <1>1 DEF Typed, SeenState
  <2>2. seen' = [seen EXCEPT !.handled = f, !.events = e]
      BY Zenon, <2>1 DEF HandleKey, SeenState
  <2>3. e \in SUBSET Events /\ (\A x \in seen.events : x \in e) /\ (lost => "erased" \in e)
      BY Zenon, <2>1 DEF Events
  <2> HIDE DEF h, e
  <2>4. f \in [Ttys -> Seq(KeySet)] /\ f[i] = h /\ \A j \in Ttys \ {i} : f[j] = seen.handled[j]
      BY Zenon, <1>5, <2>1
  <2> HIDE DEF f
  <2>5. seen' \in SeenState /\ seen'.pushed = seen.pushed /\ seen'.handled = f /\ seen'.events = e
      BY Zenon, <2>1, <2>2, <2>3, <2>4 DEF SeenState
  <2> QED BY Zenon, <2>3, <2>4, <2>5 DEF Grows
<1>7. Typed'
    BY Zenon, <1>1, <1>2, <1>3, <1>6 DEF Typed, KeyMovesThread, KeyMovesMutex, KeyMovesTty
<1>8. Batch(i)'
  <2>1. CASE input'[i].pc \in {"switch", "echo", "clear"} /\ input'[i].at = input[i].at
    <3>1. input[i].at \in 1..(input[i].last + 1)
        BY <1>1, <1>4
    <3> QED BY Zenon, <2>1, <3>1, <1>2, <1>3, <1>4 DEF Batch, KeyMovesThread, KeyMovesMutex, KeyMovesTty
  <2>2. CASE input'[i].pc = "key" /\ input'[i].at = input[i].at + 1
    <3>1. input[i].at + 1 \in 1..(input[i].last + 1)
        BY <1>1, <1>4
    <3> QED BY Zenon, <2>2, <3>1, <1>2, <1>4 DEF Batch, Inside, KeyMovesThread, KeyMovesMutex, KeyMovesTty
  <2> QED BY Zenon, <2>1, <2>2, <1>2 DEF KeyMovesThread
<1>9. Switches(i)'
  <2>1. input'[i].pc \notin {"deactivate", "activate"} /\ mx'.active = mx.active
      BY Zenon, <1>2 DEF KeyMovesThread, KeyMovesMutex
  <2> QED BY Zenon, <2>1, <1>1, <1>3 DEF Switches
<1>10. InOrder(i) => InOrder(i)'
  <2> SUFFICES ASSUME InOrder(i) PROVE InOrder(i)'
      BY Zenon
  <2>1. Done(i) = input[i].at - 1
      BY Zenon, <1>3 DEF Done, Resting
  <2>2. Done(i)' = input[i].at
    <3>1. CASE input'[i].pc \in {"switch", "echo", "clear"} /\ input'[i].at = input[i].at
        BY Zenon, <3>1 DEF Done, Resting
    <3>2. CASE input'[i].pc = "key" /\ input'[i].at = input[i].at + 1
      <4>1. Done(i)' = input'[i].at - 1
          BY Zenon, <3>2 DEF Done, Resting
      <4> QED BY <1>1, <3>2, <4>1
    <3> QED BY Zenon, <3>1, <3>2, <1>2 DEF KeyMovesThread
  <2>3. input[i].at - 1 + 1 = input[i].at
      BY <1>1
  <2>4. Shifts(seen.handled[i], tty[i].raw, input[i].at)
      BY Zenon, <1>1, <1>4, KeyMoves
  <2>5. h \o SubSeq(tty[i].raw, input[i].at + 1, Len(tty[i].raw)) = seen.pushed[i]
      BY Zenon, <2>1, <2>3, <2>4 DEF Shifts, InOrder, CurrentKey
  <2>6. input'[i].pc \notin Resting /\ input[i].pc \notin Resting
      BY Zenon, <1>2, <1>3 DEF KeyMovesThread, Resting
  <2> HIDE DEF h
  <2> QED BY Zenon, <2>2, <2>5, <2>6, <1>2, <1>6 DEF InOrder, Resting, KeyMovesThread, KeyMovesTty
<1>11. \A p \in Programs : Holds(p)' /\ Woken(p)'
  <2>1. \A j \in Ttys : HasLine(tty[j].stdin) => HasLine(tty'[j].stdin) \/ Explained'
      BY Zenon, <1>2, <1>6 DEF KeyMovesTty, Explained
  <2> QED BY Zenon, <2>1, <1>2, <1>3, <1>6, IoStays DEF KeyMovesMutex
<1> HIDE DEF h, lost, k
<1> QED BY Zenon, <1>2, <1>3, <1>6, <1>7, <1>8, <1>9, <1>10, <1>11, InputStepInv
        DEF KeyMovesThread, KeyMovesMutex, KeyMovesTty

(* A step that the thread takes inside of its batch, whose keys stay. *)
GoesOn(i) ==
    /\ input' \in [Ttys -> InputState] /\ InputOthers(i) /\ input'[i].last = input[i].last
    /\ \/ input'[i].pc \in Inside /\ input'[i].at = input[i].at
       \/ input'[i].pc = "key" /\ input'[i].at = input[i].at + 1

(* A step of an input thread inside its batch that handles no new key *)
LEMMA InsideStepInv ==
    ASSUME IInv, NEW i \in Ttys, input[i].pc \in Inside, GoesOn(i), Typed', Shown', kb' = kb, Grows,
           \A j \in Ttys : tty'[j].raw = tty[j].raw,
           mx'.raw = mx.raw, seen'.handled = seen.handled, seen'.pushed = seen.pushed,
           \A j \in Ttys \ {i} : mx'.active = j <=> mx.active = j,
           active' = active \/ mx.active = i,
           Switches(i)',
           \A p \in Programs : Holds(p)' /\ Woken(p)'
    PROVE  IInv'
<1>1. Batch(i)' /\ (InOrder(i) => InOrder(i)')
    BY Zenon, InBatch DEF GoesOn
<1> QED BY Zenon, <1>1, InputStepInv DEF GoesOn

(* The thread stays away from the active terminal. *)
LEMMA SwitchesStay ==
    ASSUME IInv, NEW i \in Ttys, mx'.active = mx.active,
           input[i].pc \notin {"deactivate", "activate"}, input'[i].pc \notin {"deactivate", "activate"}
    PROVE  Switches(i)'
<1>1. Switches(i)
    BY Zenon DEF IInv
<1> QED BY Zenon, <1>1 DEF Switches

(* InputGoto inside the batch stays at the same key. *)
LEMMA GotoGoesOn ==
    ASSUME Typed, NEW i \in Ttys, NEW pc \in Inside, InputGoto(i, pc)
    PROVE  GoesOn(i) /\ input'[i].pc = pc /\ input'[i].at = input[i].at
<1>1. pc \in InputPcs
    BY Zenon DEF InputPcs
<1> QED BY Zenon, <1>1, GotoFacts DEF GoesOn

(* NextKey after a handled key leaves as much of the batch done. *)
LEMMA NextKeyGoesOn ==
    ASSUME Typed, NEW i \in Ttys, NextKey(i)
    PROVE  GoesOn(i) /\ input'[i].pc = "key"
BY Zenon, NextKeyFacts DEF GoesOn

(* The key that the thread handles *)
LEMMA CurrentKeyType ==
    ASSUME IInv, NEW i \in Ttys, input[i].pc \in Inside
    PROVE  CurrentKey(i) \in KeySet
<1>1. /\ input[i].at \in Nat /\ input[i].last \in Nat /\ Len(tty[i].raw) \in Nat
      /\ tty[i].raw \in Seq(KeySet) /\ Batch(i)
    BY Zenon, InputTypes DEF IInv
<1>2. input[i].last <= Len(tty[i].raw) /\ input[i].at \in 1..(input[i].last + 1) /\ input[i].at <= input[i].last
    BY Zenon, <1>1 DEF Batch, Inside, Resting
<1> QED BY <1>1, <1>2 DEF CurrentKey

(* The echo is written to the terminal, and shown if it is the active one. *)
LEMMA EchoInv ==
    ASSUME IInv, NEW i \in Ttys, Echo(i)
    PROVE  IInv'
<1>1. Typed /\ input[i].pc = "echo" /\ "echo" \in Inside /\ "notify" \in Inside
    BY Zenon DEF IInv, Echo, InputAt, Inside
<1>2. CurrentKey(i).kind \in Lines
  <2>1. CurrentKey(i) \in KeySet
      BY Zenon, <1>1, CurrentKeyType
  <2> QED BY Zenon, <2>1 DEF KeySet, Lines
<1>3. GoesOn(i) /\ input'[i].pc = "notify"
    BY Zenon, <1>1, GotoGoesOn DEF Echo
<1>4. /\ StdoutWrite(i, CurrentKey(i).kind) /\ mx' = mx /\ active' = active /\ kb' = kb
      /\ io' = io /\ coming' = coming /\ seen' = seen
    BY Zenon DEF Echo
<1>5. Dark' <=> Dark
    BY Zenon, <1>1, <1>3, DarkStays DEF GoesOn
<1>6. /\ Shown' /\ tty' \in [Ttys -> TtyState] /\ screen' \in Seq(Lines)
      /\ \A j \in Ttys : tty'[j].raw = tty[j].raw /\ tty'[j].stdin = tty[j].stdin
    BY Zenon, <1>2, <1>4, <1>5, WriteFacts
<1>7. Typed' /\ Grows
    BY Zenon, <1>1, <1>3, <1>4, <1>6 DEF Typed, Grows, GoesOn
<1>8. \A p \in Programs : Holds(p)' /\ Woken(p)'
    BY Zenon, <1>4, <1>6, <1>7, IoStays
<1>9. Switches(i)'
    BY Zenon, <1>1, <1>3, <1>4, SwitchesStay
<1> QED BY Zenon, <1>1, <1>3, <1>4, <1>6, <1>7, <1>8, <1>9, InsideStepInv

(* A reader is woken; that the line is gone already is an event. *)
LEMMA NotifyReaderInv ==
    ASSUME IInv, NEW i \in Ttys, NotifyReader(i)
    PROVE  IInv'
<1> DEFINE e == IF io' # io /\ ~HasLine(tty[i].stdin) THEN {"late"} ELSE {}
<1>1. Typed /\ input[i].pc = "notify" /\ "notify" \in Inside
    BY Zenon DEF IInv, NotifyReader, InputAt, Inside
<1>2. GoesOn(i) /\ input'[i].pc = "key"
    BY Zenon, <1>1, NextKeyGoesOn DEF NotifyReader
<1>3. /\ tty' = tty /\ mx' = mx /\ active' = active /\ screen' = screen /\ kb' = kb /\ coming' = coming
      /\ io' \in {io, WakeReader(i)} /\ Note(e)
    BY Zenon DEF NotifyReader
<1>4. e \in SUBSET Events /\ (io' # io /\ ~HasLine(tty[i].stdin) => "late" \in e)
    BY Zenon DEF Events
<1> HIDE DEF e
<1>5. /\ seen' \in SeenState /\ seen'.events = seen.events \cup e
      /\ seen'.pushed = seen.pushed /\ seen'.handled = seen.handled
    BY Zenon, <1>1, <1>3, <1>4, NoteFacts
<1>6. Grows
    BY Zenon, <1>5 DEF Grows
<1>7. ASSUME NEW p \in Programs
      PROVE  /\ io'[p] \in IoState /\ io'[p].intr = io[p].intr /\ io'[p].ret = io[p].ret
             /\ \/ io'[p].pc = io[p].pc
                \/ io[p].pc = "wait" /\ io'[p].pc = "woken" /\ coming.on[p] = i
  <2>1. io[p] \in IoState
      BY Zenon, <1>1 DEF Typed
  <2> DEFINE r == [io[p] EXCEPT !.pc = "woken"]
  <2>2. r \in IoState /\ r.pc = "woken" /\ r.intr = io[p].intr /\ r.ret = io[p].ret
      BY Zenon, <2>1 DEF IoState, Holding
  <2>3. \/ io'[p] = io[p]
        \/ io'[p] = r /\ io[p].pc = "wait" /\ coming.on[p] = i
      BY Zenon, <1>3 DEF WakeReader
  <2> HIDE DEF r
  <2> QED BY Zenon, <2>1, <2>2, <2>3
<1>8. io' \in [Programs -> IoState]
  <2>1. io' = [p \in Programs |-> io'[p]]
      BY Zenon, <1>1, <1>3 DEF WakeReader, Typed
  <2> QED BY Zenon, <2>1, <1>7
<1>9. Typed'
    BY Zenon, <1>1, <1>2, <1>3, <1>5, <1>8 DEF Typed, GoesOn
<1>10. Shown'
  <2>1. Dark' <=> Dark
      BY Zenon, <1>1, <1>2, DarkStays DEF GoesOn
  <2> QED BY Zenon, <2>1, <1>3, ShownStays
<1>11. ASSUME NEW p \in Programs PROVE Holds(p)' /\ Woken(p)'
  <2>1. Holds(p) /\ Woken(p) /\ (Explained => Explained')
      BY Zenon, <1>6, StillExplained DEF IInv
  <2>2. /\ io'[p].intr = io[p].intr /\ io'[p].ret = io[p].ret
        /\ \/ io'[p].pc = io[p].pc
           \/ io[p].pc = "wait" /\ io'[p].pc = "woken" /\ coming.on[p] = i
      BY Zenon, <1>7
  <2>3. Holds(p)'
      BY Zenon, <1>3, <2>1, <2>2 DEF Holds, Holding
  <2>4. CASE io'[p].pc = io[p].pc
      BY Zenon, <1>3, <2>1, <2>2, <2>4 DEF Woken, StdinOf, Holds, Holding
  <2>5. CASE io[p].pc = "wait" /\ io'[p].pc = "woken" /\ coming.on[p] = i
    <3>1. io' # io
        BY Zenon, <2>5
    <3>2. ~HasLine(tty[i].stdin) => Explained'
        BY Zenon, <3>1, <1>4, <1>5 DEF Explained
    <3> QED BY Zenon, <1>3, <2>1, <2>2, <2>3, <2>5, <3>2 DEF Woken, StdinOf
  <2> QED BY Zenon, <2>2, <2>3, <2>4, <2>5
<1>12. Switches(i)'
    BY Zenon, <1>1, <1>2, <1>3, SwitchesStay
<1> QED BY Zenon, <1>1, <1>2, <1>3, <1>5, <1>6, <1>9, <1>10, <1>11, <1>12, InsideStepInv

(* Ctrl+C drops the line, which is an event. *)
LEMMA ClearLineInv ==
    ASSUME IInv, NEW i \in Ttys, ClearLine(i)
    PROVE  IInv'
<1>1. Typed /\ input[i].pc = "clear" /\ "clear" \in Inside /\ "sigint" \in Inside /\ {"cleared"} \in SUBSET Events
    BY Zenon DEF IInv, ClearLine, InputAt, Inside, Events
<1>2. GoesOn(i) /\ input'[i].pc = "sigint"
    BY Zenon, <1>1, GotoGoesOn DEF ClearLine
<1>3. /\ mx' = mx /\ active' = active /\ screen' = screen /\ kb' = kb /\ io' = io /\ coming' = coming
      /\ tty' = [tty EXCEPT ![i].stdin = <<>>] /\ Note({"cleared"})
    BY Zenon DEF ClearLine
<1>4. <<>> \in Seq({"char", "enter"})
    OBVIOUS
<1>5. /\ seen' \in SeenState /\ seen'.events = seen.events \cup {"cleared"}
      /\ seen'.pushed = seen.pushed /\ seen'.handled = seen.handled
    BY Zenon, <1>1, <1>3, NoteFacts
<1>6. Grows /\ Explained'
    BY Zenon, <1>5 DEF Grows, Explained
<1>7. Dark' <=> Dark
    BY Zenon, <1>1, <1>2, DarkStays DEF GoesOn
<1>8. KeyMovesTty(i)
    BY Zenon, <1>3, <1>4, <1>7, KeyLine
<1>9. Typed'
    BY Zenon, <1>1, <1>2, <1>3, <1>5, <1>8 DEF Typed, GoesOn, KeyMovesTty
<1>10. \A p \in Programs : Holds(p)' /\ Woken(p)'
    BY Zenon, <1>3, <1>6, IoStays
<1>11. Switches(i)'
    BY Zenon, <1>1, <1>2, <1>3, SwitchesStay
<1> QED BY Zenon, <1>1, <1>2, <1>3, <1>5, <1>6, <1>8, <1>9, <1>10, <1>11, InsideStepInv DEF KeyMovesTty

(* SIGINT interrupts the reads of the terminal. *)
LEMMA SendSigintInv ==
    ASSUME IInv, NEW i \in Ttys, SendSigint(i)
    PROVE  IInv'
<1>1. Typed /\ input[i].pc = "sigint" /\ "sigint" \in Inside
    BY Zenon DEF IInv, SendSigint, InputAt, Inside
<1>2. GoesOn(i) /\ input'[i].pc = "key"
    BY Zenon, <1>1, NextKeyGoesOn DEF SendSigint
<1>3. /\ tty' = tty /\ mx' = mx /\ active' = active /\ screen' = screen /\ kb' = kb /\ coming' = coming
      /\ seen' = seen
    BY Zenon DEF SendSigint
<1>4. ASSUME NEW p \in Programs
      PROVE  /\ io'[p] \in IoState
             /\ \/ io'[p] = io[p]
                \/ /\ io'[p].intr /\ io'[p].ret = io[p].ret
                   /\ \/ io'[p].pc = io[p].pc
                      \/ io[p].pc = "wait" /\ io'[p].pc = "woken"
  <2>1. io[p] \in IoState
      BY Zenon, <1>1 DEF Typed
  <2> DEFINE pc == IF io[p].pc = "wait" THEN "woken" ELSE io[p].pc
             r == [io[p] EXCEPT !.intr = TRUE, !.pc = pc]
  <2>2. pc \in {"idle", "file"} \cup Holding /\ (pc = io[p].pc \/ (io[p].pc = "wait" /\ pc = "woken"))
      BY Zenon, <2>1 DEF IoState, Holding
  <2>3. io'[p] \in {io[p], r}
      BY Zenon, <2>1 DEF SendSigint, IoState
  <2> HIDE DEF pc
  <2>4. r \in IoState /\ r.pc = pc /\ r.intr /\ r.ret = io[p].ret
      BY Zenon, <2>1, <2>2 DEF IoState
  <2> HIDE DEF r
  <2> QED BY Zenon, <2>1, <2>2, <2>3, <2>4
<1>5. io' \in [Programs -> IoState]
  <2>1. io' = [p \in Programs |-> io'[p]]
      BY Zenon DEF SendSigint
  <2> QED BY Zenon, <2>1, <1>4
<1>6. Typed' /\ Grows
    BY Zenon, <1>1, <1>2, <1>3, <1>5 DEF Typed, GoesOn, Grows
<1>7. Shown'
  <2>1. Dark' <=> Dark
      BY Zenon, <1>1, <1>2, DarkStays DEF GoesOn
  <2> QED BY Zenon, <2>1, <1>3, ShownStays
<1>8. ASSUME NEW p \in Programs PROVE Holds(p)' /\ Woken(p)'
  <2>1. Holds(p) /\ Woken(p) /\ (Explained => Explained')
      BY Zenon, <1>6, StillExplained DEF IInv
  <2>2. CASE io'[p] = io[p]
      BY Zenon, <1>3, <2>1, <2>2 DEF Holds, Woken, StdinOf
  <2>3. CASE /\ io'[p].intr /\ io'[p].ret = io[p].ret
             /\ \/ io'[p].pc = io[p].pc
                \/ io[p].pc = "wait" /\ io'[p].pc = "woken"
      BY Zenon, <1>3, <2>1, <2>3 DEF Holds, Woken, Holding
  <2> QED BY Zenon, <1>4, <2>2, <2>3
<1>9. Switches(i)'
    BY Zenon, <1>1, <1>2, <1>3, SwitchesStay
<1> QED BY Zenon, <1>1, <1>2, <1>3, <1>6, <1>7, <1>8, <1>9, InsideStepInv

(* A change to another terminal starts with _active_tty_mutex. *)
LEMMA SetActiveTtyInv ==
    ASSUME IInv, NEW i \in Ttys, SetActiveTty(i)
    PROVE  IInv'
<1>1. /\ Typed /\ input[i].pc = "switch" /\ "switch" \in Inside /\ "deactivate" \in Inside /\ mx.active = Free
      /\ i # Free /\ i \in Ttys \cup {Free}
    BY Zenon, TtyAssumption DEF IInv, SetActiveTty, InputAt, Inside
<1>2. /\ tty' = tty /\ active' = active /\ screen' = screen /\ kb' = kb /\ io' = io /\ coming' = coming
      /\ seen' = seen
    BY Zenon DEF SetActiveTty
<1>3. CASE /\ CurrentKey(i).to \in Ttys \ {active}
           /\ mx' = [mx EXCEPT !.active = i] /\ InputGoto(i, "deactivate")
  <2>1. GoesOn(i) /\ input'[i].pc = "deactivate" /\ input'[i].at = input[i].at
      BY Zenon, <1>1, <1>3, GotoGoesOn
  <2>2. mx' \in MutexState /\ mx'.raw = mx.raw /\ mx'.file = mx.file /\ mx'.active = i
      BY Zenon, <1>1, <1>3, ActiveMutexFacts
  <2>3. Typed' /\ Grows
      BY Zenon, <1>1, <1>2, <2>1, <2>2 DEF Typed, GoesOn, Grows
  <2>4. Shown'
    <3>1. Dark' <=> Dark
        BY Zenon, <1>1, <2>1, DarkStays DEF GoesOn
    <3> QED BY Zenon, <3>1, <1>2, ShownStays
  <2>5. \A p \in Programs : Holds(p)' /\ Woken(p)'
      BY Zenon, <1>2, <2>2, <2>3, IoStays
  <2>6. Switches(i)'
      BY Zenon, <1>2, <1>3, <2>1, <2>2 DEF Switches, CurrentKey
  <2>7. \A j \in Ttys \ {i} : mx'.active = j <=> mx.active = j
      BY Zenon, <1>1, <2>2, TtyAssumption
  <2> QED BY Zenon, <1>1, <1>2, <2>1, <2>2, <2>3, <2>4, <2>5, <2>6, <2>7, InsideStepInv
<1>4. CASE NextKey(i) /\ mx' = mx
  <2>1. GoesOn(i) /\ input'[i].pc = "key"
      BY Zenon, <1>1, <1>4, NextKeyGoesOn
  <2>2. Typed' /\ Grows
      BY Zenon, <1>1, <1>2, <1>4, <2>1 DEF Typed, GoesOn, Grows
  <2>3. Shown'
    <3>1. Dark' <=> Dark
        BY Zenon, <1>1, <2>1, DarkStays DEF GoesOn
    <3> QED BY Zenon, <3>1, <1>2, ShownStays
  <2>4. \A p \in Programs : Holds(p)' /\ Woken(p)'
      BY Zenon, <1>2, <1>4, <2>2, IoStays
  <2>5. Switches(i)'
      BY Zenon, <1>1, <1>4, <2>1, SwitchesStay
  <2> QED BY Zenon, <1>1, <1>2, <1>4, <2>1, <2>2, <2>3, <2>4, <2>5, InsideStepInv
<1> QED BY Zenon, <1>3, <1>4 DEF SetActiveTty

(* Who changes the active terminal is the only one to do so. *)
LEMMA OnlySwitch ==
    ASSUME IInv, NEW i \in Ttys, input[i].pc \in {"deactivate", "activate"}
    PROVE  /\ mx.active = i /\ CurrentKey(i).to \in Ttys \ {active}
           /\ \A j \in Ttys \ {i} : input[j].pc \notin {"deactivate", "activate"}
BY Zenon DEF IInv, Switches

(* The active terminal is deactivated: none is active until Activate. *)
LEMMA DeactivateInv ==
    ASSUME IInv, NEW i \in Ttys, Deactivate(i)
    PROVE  IInv'
<1>1. /\ Typed /\ Shown /\ active \in Ttys /\ input[i].pc = "deactivate"
      /\ "deactivate" \in Inside /\ "activate" \in Inside /\ FALSE \in BOOLEAN
    BY Zenon DEF IInv, Typed, Deactivate, InputAt, Inside
<1>2. /\ mx' = mx /\ active' = active /\ screen' = screen /\ kb' = kb /\ io' = io /\ coming' = coming
      /\ seen' = seen /\ tty' = [tty EXCEPT ![active].active = FALSE]
    BY Zenon DEF Deactivate
<1>3. /\ mx.active = i /\ CurrentKey(i).to \in Ttys \ {active}
      /\ \A j \in Ttys \ {i} : input[j].pc \notin {"deactivate", "activate"}
    BY Zenon, <1>1, OnlySwitch
<1>4. GoesOn(i) /\ input'[i].pc = "activate" /\ input'[i].at = input[i].at
    BY Zenon, <1>1, GotoGoesOn DEF Deactivate
<1>5. /\ tty' \in [Ttys -> TtyState] /\ TtyOthers(active) /\ ~tty'[active].active
      /\ tty'[active].raw = tty[active].raw /\ tty'[active].stdin = tty[active].stdin
      /\ tty'[active].stdout = tty[active].stdout
    BY Zenon, <1>1, <1>2, ActiveFacts
<1>6. \A j \in Ttys : tty'[j].raw = tty[j].raw /\ tty'[j].stdin = tty[j].stdin
    BY Zenon, <1>5 DEF TtyOthers
<1>7. ~Dark /\ Dark'
    BY Zenon, <1>1, <1>3, <1>4 DEF Dark
<1>8. Shown'
  <2>1. \A j \in Ttys : ~tty'[j].active
      BY Zenon, <1>1, <1>5 DEF TtyOthers, Shown
  <2> QED BY Zenon, <2>1, <1>1, <1>2, <1>7 DEF Shown
<1>9. Typed' /\ Grows
    BY Zenon, <1>1, <1>2, <1>4, <1>5 DEF Typed, GoesOn, Grows
<1>10. \A p \in Programs : Holds(p)' /\ Woken(p)'
    BY Zenon, <1>2, <1>6, <1>9, IoStays
<1>11. Switches(i)'
    BY Zenon, <1>2, <1>3, <1>4, <1>6 DEF Switches, CurrentKey
<1> QED BY Zenon, <1>1, <1>2, <1>4, <1>6, <1>8, <1>9, <1>10, <1>11, InsideStepInv

(* The other terminal is activated and shown, and the mutex given up. *)
LEMMA ActivateInv ==
    ASSUME IInv, NEW i \in Ttys, Activate(i), NEW to \in Ttys, to = CurrentKey(i).to
    PROVE  IInv'
<1>1. /\ Typed /\ Shown /\ input[i].pc = "activate" /\ "activate" \in Inside
      /\ TRUE \in BOOLEAN /\ Free \in Ttys \cup {Free}
    BY Zenon DEF IInv, Activate, InputAt, Inside
<1>2. /\ kb' = kb /\ io' = io /\ coming' = coming /\ seen' = seen
      /\ tty' = [tty EXCEPT ![to].active = TRUE] /\ active' = to
      /\ screen' = Suffix(tty[to].stdout, Rows) /\ mx' = [mx EXCEPT !.active = Free]
    BY Zenon DEF Activate
<1>3. /\ mx.active = i
      /\ \A j \in Ttys \ {i} : input[j].pc \notin {"deactivate", "activate"}
    BY Zenon, <1>1, OnlySwitch
<1>4. GoesOn(i) /\ input'[i].pc = "key"
    BY Zenon, <1>1, NextKeyGoesOn DEF Activate
<1>5. /\ tty' \in [Ttys -> TtyState] /\ TtyOthers(to) /\ tty'[to].active
      /\ tty'[to].raw = tty[to].raw /\ tty'[to].stdin = tty[to].stdin /\ tty'[to].stdout = tty[to].stdout
    BY Zenon, <1>1, <1>2, ActiveFacts
<1>6. \A j \in Ttys : tty'[j].raw = tty[j].raw /\ tty'[j].stdin = tty[j].stdin
    BY Zenon, <1>5 DEF TtyOthers
<1>7. mx' \in MutexState /\ mx'.raw = mx.raw /\ mx'.file = mx.file /\ mx'.active = Free
    BY Zenon, <1>1, <1>2, ActiveMutexFacts
<1>8. Dark /\ ~Dark'
  <2>1. \A j \in Ttys : input'[j].pc # "activate"
      BY Zenon, <1>3, <1>4 DEF GoesOn, InputOthers
  <2> QED BY Zenon, <2>1, <1>1 DEF Dark
<1>9. screen' \in Seq(Lines) /\ Len(screen') <= Rows
  <2>1. tty[to].stdout \in Seq(Lines)
      BY Zenon, <1>1 DEF Typed, TtyState
  <2>2. Rows \in Nat
      BY TtyAssumption
  <2> QED BY Zenon, <1>2, <2>1, <2>2, SuffixShort
<1>10. Shown'
  <2>1. \A j \in Ttys : tty'[j].active <=> j = to
      BY Zenon, <1>1, <1>5, <1>8 DEF TtyOthers, Shown
  <2> QED BY Zenon, <2>1, <1>2, <1>5, <1>8, <1>9 DEF Shown
<1>11. Typed' /\ Grows
    BY Zenon, <1>1, <1>2, <1>4, <1>5, <1>7, <1>9 DEF Typed, GoesOn, Grows
<1>12. \A p \in Programs : Holds(p)' /\ Woken(p)'
    BY Zenon, <1>2, <1>6, <1>7, <1>11, IoStays
<1>13. Switches(i)'
    BY Zenon, <1>4, <1>7, TtyAssumption DEF Switches
<1>14. \A j \in Ttys \ {i} : mx'.active = j <=> mx.active = j
    BY Zenon, <1>3, <1>7, TtyAssumption
<1> QED BY Zenon, <1>1, <1>2, <1>3, <1>4, <1>6, <1>7, <1>10, <1>11, <1>12, <1>13, <1>14, InsideStepInv

(* The batch is done; unless it was pushed into, all that was in the buffer was handled. *)
LEMMA EndBatchInv ==
    ASSUME IInv, NEW i \in Ttys, EndBatch(i)
    PROVE  IInv'
<1> DEFINE v == IF input[i].own THEN Free ELSE mx.raw[i]
<1>1. /\ Typed /\ Batch(i) /\ input[i].at \in Nat /\ input[i].last \in Nat
      /\ tty[i].raw \in Seq(KeySet) /\ Len(tty[i].raw) \in Nat /\ seen.handled[i] \in Seq(KeySet)
    BY Zenon, InputTypes DEF IInv
<1>2. /\ input[i].pc = "key" /\ input[i].at > input[i].last /\ tty' = [tty EXCEPT ![i].raw = <<>>]
      /\ active' = active /\ screen' = screen /\ kb' = kb /\ io' = io
    BY Zenon DEF EndBatch, InputAt
<1>3. <<>> \in Seq(KeySet)
    OBVIOUS
<1>4. /\ tty' \in [Ttys -> TtyState] /\ TtyOthers(i) /\ tty'[i].raw = <<>>
      /\ tty'[i].active = tty[i].active /\ tty'[i].stdin = tty[i].stdin /\ tty'[i].stdout = tty[i].stdout
    BY Zenon, <1>1, <1>2, <1>3, RawFacts
<1>5. \A j \in Ttys : tty'[j].active = tty[j].active /\ tty'[j].stdin = tty[j].stdin /\ tty'[j].stdout = tty[j].stdout
    BY Zenon, <1>4 DEF TtyOthers
<1>6. /\ input' \in [Ttys -> InputState] /\ InputOthers(i) /\ input'[i].pc \in {"wait", "park"}
  <2>1. "wait" \in InputPcs /\ "park" \in InputPcs
      BY Zenon DEF InputPcs, Resting
  <2>2. InputGoto(i, "wait") \/ InputGoto(i, "park")
      BY Zenon DEF EndBatch
  <2> QED BY Zenon, <1>1, <2>1, <2>2, GotoFacts
<1>7. /\ mx' \in MutexState /\ mx'.raw[i] \in {Free, i} /\ (\A j \in Ttys \ {i} : mx'.raw[j] = mx.raw[j])
      /\ mx'.file = mx.file /\ mx'.active = mx.active
  <2>1. v \in {Free, i} /\ v \in Ttys \cup {Free} /\ mx \in MutexState
      BY Zenon, <1>1 DEF Batch, Typed
  <2>2. mx' = mx \/ mx' = [mx EXCEPT !.raw[i] = v]
      BY Zenon, <2>1 DEF EndBatch, MutexState
  <2> HIDE DEF v
  <2> QED BY Zenon, <1>1, <2>1, <2>2, RawMutexFacts DEF Batch
<1>8. /\ coming' \in Script /\ coming'.on = coming.on
      /\ seen' \in SeenState /\ Grows /\ seen'.pushed = seen.pushed /\ seen'.handled = seen.handled
  <2>1. CASE coming' = coming /\ seen' = seen
      BY Zenon, <1>1, <2>1 DEF Typed, Grows
  <2>2. CASE coming.stops > 0 /\ coming' = [coming EXCEPT !.stops = @ - 1] /\ Note({"stopped"})
    <3>1. {"stopped"} \in SUBSET Events
        BY Zenon DEF Events
    <3>2. /\ seen' \in SeenState /\ seen'.events = seen.events \cup {"stopped"}
          /\ seen'.pushed = seen.pushed /\ seen'.handled = seen.handled
        BY Zenon, <1>1, <2>2, <3>1, NoteFacts
    <3> QED BY Zenon, <1>1, <2>2, <3>2, StopFacts DEF Grows
  <2> QED BY Zenon, <2>1, <2>2 DEF EndBatch
<1>9. Typed'
    BY Zenon, <1>1, <1>2, <1>4, <1>6, <1>7, <1>8 DEF Typed
<1>10. Shown'
  <2>1. Dark' <=> Dark
      BY Zenon, <1>2, <1>6, DarkStays
  <2> QED BY Zenon, <2>1, <1>2, <1>5, ShownStays
<1>11. \A p \in Programs : Holds(p)' /\ Woken(p)'
    BY Zenon, <1>2, <1>5, <1>7, <1>8, IoStays
<1>12. Batch(i)'
    BY Zenon, <1>6, <1>7 DEF Batch, Inside, Resting
<1>13. Switches(i)'
    BY Zenon, <1>2, <1>6, <1>7, SwitchesStay
<1>14. InOrder(i) => InOrder(i)'
  <2> SUFFICES ASSUME InOrder(i) PROVE InOrder(i)'
      BY Zenon
  <2>1. input[i].last = Len(tty[i].raw) /\ input[i].at \in 1..(input[i].last + 1)
      BY Zenon, <1>1, <1>2 DEF InOrder, Batch, Resting
  <2>2. Done(i) = input[i].at - 1
      BY Zenon, <1>2 DEF Done, Resting
  <2>3. Done(i) + 1 = Len(tty[i].raw) + 1
      BY <1>1, <1>2, <2>1, <2>2
  <2>4. seen.handled[i] = seen.pushed[i]
    <3>1. SubSeq(tty[i].raw, Len(tty[i].raw) + 1, Len(tty[i].raw)) = <<>>
        BY <1>1
    <3>2. seen.handled[i] \o <<>> = seen.handled[i]
        BY <1>1
    <3> QED BY Zenon, <3>1, <3>2, <2>3 DEF InOrder
  <2>5. Done(i)' = 0
      BY Zenon, <1>6 DEF Done, Resting
  <2>6. seen.handled[i] \o SubSeq(<<>>, 0 + 1, Len(<<>>)) = seen.handled[i]
      BY <1>1
  <2> QED BY Zenon, <2>4, <2>5, <2>6, <1>4, <1>6, <1>8 DEF InOrder, Resting
<1> QED BY Zenon, <1>2, <1>4, <1>6, <1>7, <1>8, <1>9, <1>10, <1>11, <1>12, <1>13, <1>14, InputStepInv
        DEF TtyOthers

(* The thread that gave up its mutex waits again. *)
LEMMA ParkInv ==
    ASSUME IInv, NEW i \in Ttys, Park(i)
    PROVE  IInv'
<1>1. Typed /\ Batch(i) /\ input[i].pc = "park" /\ "wait" \in InputPcs
    BY Zenon DEF IInv, Park, InputAt, InputPcs, Resting
<1>2. /\ tty' = tty /\ mx' = mx /\ active' = active /\ screen' = screen /\ kb' = kb /\ io' = io
      /\ coming' = coming /\ seen' = seen
    BY Zenon DEF Park
<1>3. input' \in [Ttys -> InputState] /\ InputOthers(i) /\ input'[i].pc = "wait"
    BY Zenon, <1>1, GotoFacts DEF Park
<1>4. Typed' /\ Grows
    BY Zenon, <1>1, <1>2, <1>3 DEF Typed, Grows
<1>5. Shown'
  <2>1. Dark' <=> Dark
      BY Zenon, <1>1, <1>3, DarkStays
  <2> QED BY Zenon, <2>1, <1>2, ShownStays
<1>6. \A p \in Programs : Holds(p)' /\ Woken(p)'
    BY Zenon, <1>2, <1>4, IoStays
<1>7. Batch(i)'
    BY Zenon, <1>1, <1>2, <1>3 DEF Batch, Inside, Resting
<1>8. Switches(i)'
    BY Zenon, <1>1, <1>2, <1>3, SwitchesStay
<1>9. InOrder(i) => InOrder(i)'
    BY Zenon, <1>1, <1>2, <1>3 DEF InOrder, Done, Resting
<1> QED BY Zenon, <1>2, <1>3, <1>4, <1>5, <1>6, <1>7, <1>8, <1>9, InputStepInv

-----------------------------------------------------------------------------
(* The programs *)

(* A step of program p: what remains to be shown of it. *)
LEMMA IoStepInv ==
    ASSUME IInv, NEW p \in Programs, Typed', Shown', input' = input, kb' = kb, active' = active,
           mx'.raw = mx.raw, mx'.active = mx.active, Grows,
           seen'.pushed = seen.pushed, seen'.handled = seen.handled,
           \A j \in Ttys : tty'[j].raw = tty[j].raw,
           IoOthers(p), coming'.on = coming.on,
           \A j \in Ttys \ {coming.on[p]} : tty'[j].stdin = tty[j].stdin /\ mx'.file[j] = mx.file[j],
           tty'[coming.on[p]].stdin = tty[coming.on[p]].stdin \/ io[p].pc \in Holding,
           mx'.file[coming.on[p]] = mx.file[coming.on[p]] \/ mx.file[coming.on[p]] \in {Free, p},
           Holds(p)', Woken(p)'
    PROVE  IInv'
<1>1. KeyInHand'
    BY Zenon DEF IInv, KeyInHand
<1>2. Ordered' /\ \A j \in Ttys : Batch(j)' /\ Switches(j)'
    BY Zenon, InputStays
<1>3. \A q \in Programs : Holds(q)' /\ Woken(q)'
    BY Zenon, IoMoves
<1> QED BY Zenon, <1>1, <1>2, <1>3 DEF IInv

(* What program p works on *)
LEMMA IoTypes ==
    ASSUME IInv, NEW p \in Programs
    PROVE  /\ Typed /\ io[p] \in IoState /\ coming \in Script /\ coming.on[p] \in Ttys
           /\ StdinOf(p) \in Seq({"char", "enter"}) /\ Holds(p) /\ Woken(p)
<1>1. Typed /\ io[p] \in IoState /\ coming \in Script /\ coming.on[p] \in Ttys /\ Holds(p) /\ Woken(p)
    BY Zenon DEF IInv, Typed, Script
<1>2. StdinOf(p) \in Seq({"char", "enter"})
    BY Zenon, <1>1 DEF Typed, TtyState, StdinOf
<1> QED BY Zenon, <1>1, <1>2

(* The console, when no output is written and no terminal changes. *)
LEMMA ShownKept ==
    ASSUME IInv, input' = input, screen' = screen, active' = active,
           \A j \in Ttys : tty'[j].active = tty[j].active /\ tty'[j].stdout = tty[j].stdout
    PROVE  Shown'
<1>1. Dark' <=> Dark
    BY Zenon DEF Dark
<1> QED BY Zenon, <1>1, ShownStays

(* A program starts a call. *)
LEMMA BeginIoInv ==
    ASSUME IInv, NEW p \in Programs, BeginIo(p)
    PROVE  IInv'
<1> DEFINE r == [pc |-> "file", intr |-> FALSE, ret |-> "none"]
           n == coming.calls[p] - 1
           c == [coming.calls EXCEPT ![p] = n]
<1>1. Typed /\ coming \in Script /\ coming.calls \in [Programs -> Nat] /\ coming.calls[p] \in Nat
    BY Zenon, IoTypes DEF Script
<1>2. /\ coming.calls[p] > 0 /\ coming' = [coming EXCEPT !.calls = c] /\ io' = [io EXCEPT ![p] = r]
      /\ tty' = tty /\ mx' = mx /\ active' = active /\ screen' = screen /\ input' = input /\ kb' = kb /\ seen' = seen
    BY Zenon, <1>1 DEF BeginIo, Script
<1>3. n \in Nat
    BY <1>1, <1>2
<1> HIDE DEF n
<1>4. c \in [Programs -> Nat]
    BY Zenon, <1>1, <1>3
<1> HIDE DEF c
<1>5. coming' \in Script /\ coming'.on = coming.on
    BY Zenon, <1>1, <1>2, <1>4 DEF Script
<1>6. r \in IoState /\ r.pc = "file" /\ r.ret = "none"
    BY Zenon DEF IoState
<1> HIDE DEF r
<1>7. io' \in [Programs -> IoState] /\ io'[p] = r /\ IoOthers(p)
    BY Zenon, <1>1, <1>2, <1>6 DEF Typed, IoOthers
<1>8. Typed' /\ Grows
    BY Zenon, <1>1, <1>2, <1>5, <1>7 DEF Typed, Grows
<1>9. Shown'
    BY Zenon, <1>2, ShownKept
<1>10. Holds(p)' /\ Woken(p)'
    BY Zenon, <1>6, <1>7 DEF Holds, Woken, Holding
<1> QED BY Zenon, <1>2, <1>5, <1>7, <1>8, <1>9, <1>10, IoStepInv

(* A program takes the file_mutex of its terminal. *)
LEMMA LockTtyFileInv ==
    ASSUME IInv, NEW p \in Programs, LockTtyFile(p)
    PROVE  IInv'
<1> DEFINE pc == IF p \in Readers THEN "read" ELSE "write"
<1>1. Typed /\ coming.on[p] \in Ttys /\ Woken(p) /\ p \in Programs \cup {Free}
    BY Zenon, IoTypes
<1>2. /\ mx.file[coming.on[p]] = Free /\ mx' = [mx EXCEPT !.file[coming.on[p]] = p] /\ IoGoto(p, pc)
      /\ tty' = tty /\ active' = active /\ screen' = screen /\ input' = input /\ kb' = kb /\ coming' = coming
      /\ seen' = seen
    BY Zenon DEF LockTtyFile
<1>3. pc \in {"idle", "file"} \cup Holding /\ pc \in {"read", "write"} /\ (pc = "read" => p \in Readers)
    BY Zenon DEF Holding
<1> HIDE DEF pc
<1>4. /\ mx' \in MutexState /\ mx'.raw = mx.raw /\ mx'.active = mx.active
      /\ mx'.file[coming.on[p]] = p /\ \A j \in Ttys \ {coming.on[p]} : mx'.file[j] = mx.file[j]
    BY Zenon, <1>1, <1>2, FileMutexFacts
<1>5. /\ io' \in [Programs -> IoState] /\ IoOthers(p)
      /\ io'[p].pc = pc /\ io'[p].intr = io[p].intr /\ io'[p].ret = io[p].ret
    BY Zenon, <1>1, <1>2, <1>3, IoGotoFacts
<1>6. Typed' /\ Grows
    BY Zenon, <1>1, <1>2, <1>4, <1>5 DEF Typed, Grows
<1>7. Shown'
    BY Zenon, <1>2, ShownKept
<1>8. Holds(p)' /\ Woken(p)'
    BY Zenon, <1>1, <1>2, <1>3, <1>4, <1>5 DEF Holds, Woken, Explained
<1> QED BY Zenon, <1>2, <1>4, <1>5, <1>6, <1>7, <1>8, IoStepInv

(* The result of a read of nothing *)
LEMMA CheckInterruptedInv ==
    ASSUME IInv, NEW p \in Programs, CheckInterrupted(p)
    PROVE  IInv'
<1> DEFINE v == IF io[p].intr THEN "interrupted" ELSE "zero"
           r == [io[p] EXCEPT !.pc = "unlock", !.ret = v]
<1>1. Typed /\ io[p] \in IoState /\ Holds(p) /\ Woken(p) /\ io[p].pc = "check"
    BY Zenon, IoTypes DEF CheckInterrupted, IoAt
<1>2. /\ tty' = tty /\ mx' = mx /\ active' = active /\ screen' = screen /\ input' = input /\ kb' = kb
      /\ coming' = coming /\ seen' = seen /\ io' = [io EXCEPT ![p] = r]
    BY Zenon, <1>1 DEF CheckInterrupted, Typed
<1>3. v \in {"none", "line", "zero", "interrupted"} /\ (v = "zero" => ~io[p].intr)
    BY Zenon
<1> HIDE DEF v
<1>4. r \in IoState /\ r.pc = "unlock" /\ r.ret = v
    BY Zenon, <1>1, <1>3 DEF IoState, Holding
<1> HIDE DEF r
<1>5. io' \in [Programs -> IoState] /\ IoOthers(p) /\ io'[p] = r
    BY Zenon, <1>1, <1>2, <1>4 DEF Typed, IoOthers
<1>6. Typed' /\ Grows
    BY Zenon, <1>1, <1>2, <1>5 DEF Typed, Grows
<1>7. Shown'
    BY Zenon, <1>2, ShownKept
<1>8. Holds(p)' /\ Woken(p)'
    BY Zenon, <1>1, <1>2, <1>3, <1>4, <1>5 DEF Holds, Woken, Holding, Explained
<1> QED BY Zenon, <1>2, <1>5, <1>6, <1>7, <1>8, IoStepInv

(* A write to a terminal, shown if it is the active one. *)
LEMMA TtyWriteInv ==
    ASSUME IInv, NEW p \in Programs, TtyWrite(p)
    PROVE  IInv'
<1>1. /\ Typed /\ coming.on[p] \in Ttys /\ Holds(p) /\ Woken(p) /\ io[p].pc = "write"
      /\ "unlock" \in {"idle", "file"} \cup Holding /\ p \in Lines
      /\ Free \in Programs \cup {Free}
    BY Zenon, IoTypes DEF TtyWrite, IoAt, Holding, Lines
<1>2. /\ StdoutWrite(coming.on[p], p) /\ IoGoto(p, "unlock")
      /\ mx' = [mx EXCEPT !.stdout[coming.on[p]] = Free]
      /\ active' = active /\ input' = input /\ kb' = kb /\ coming' = coming /\ seen' = seen
    BY Zenon DEF TtyWrite
<1>8. mx' \in MutexState /\ mx'.raw = mx.raw /\ mx'.file = mx.file /\ mx'.active = mx.active
    BY Zenon, <1>1, <1>2, StdoutMutexFacts
<1>3. Dark' <=> Dark
    BY Zenon, <1>2 DEF Dark
<1>4. /\ Shown' /\ tty' \in [Ttys -> TtyState] /\ screen' \in Seq(Lines)
      /\ \A j \in Ttys : tty'[j].raw = tty[j].raw /\ tty'[j].stdin = tty[j].stdin
    BY Zenon, <1>1, <1>2, <1>3, WriteFacts
<1>5. /\ io' \in [Programs -> IoState] /\ IoOthers(p)
      /\ io'[p].pc = "unlock" /\ io'[p].intr = io[p].intr /\ io'[p].ret = io[p].ret
    BY Zenon, <1>1, <1>2, IoGotoFacts
<1>6. Typed' /\ Grows
    BY Zenon, <1>1, <1>2, <1>4, <1>5, <1>8 DEF Typed, Grows
<1>7. Holds(p)' /\ Woken(p)'
    BY Zenon, <1>1, <1>2, <1>5, <1>8 DEF Holds, Woken, Holding, Explained
<1> QED BY Zenon, <1>1, <1>2, <1>4, <1>5, <1>6, <1>7, <1>8, IoStepInv

(* The call ends and gives up the file_mutex, which it holds. *)
LEMMA UnlockTtyFileInv ==
    ASSUME IInv, NEW p \in Programs, UnlockTtyFile(p)
    PROVE  IInv'
<1>1. /\ Typed /\ coming.on[p] \in Ttys /\ Holds(p) /\ Woken(p) /\ io[p].pc = "unlock"
      /\ "idle" \in {"idle", "file"} \cup Holding /\ Free \in Programs \cup {Free}
    BY Zenon, IoTypes DEF UnlockTtyFile, IoAt
<1>2. /\ mx' = [mx EXCEPT !.file[coming.on[p]] = Free] /\ IoGoto(p, "idle")
      /\ tty' = tty /\ active' = active /\ screen' = screen /\ input' = input /\ kb' = kb /\ coming' = coming
      /\ seen' = seen
    BY Zenon DEF UnlockTtyFile
<1>3. /\ mx' \in MutexState /\ mx'.raw = mx.raw /\ mx'.active = mx.active
      /\ \A j \in Ttys \ {coming.on[p]} : mx'.file[j] = mx.file[j]
    BY Zenon, <1>1, <1>2, FileMutexFacts
<1>4. /\ io' \in [Programs -> IoState] /\ IoOthers(p)
      /\ io'[p].pc = "idle" /\ io'[p].intr = io[p].intr /\ io'[p].ret = io[p].ret
    BY Zenon, <1>1, <1>2, IoGotoFacts
<1>5. Typed' /\ Grows
    BY Zenon, <1>1, <1>2, <1>3, <1>4 DEF Typed, Grows
<1>6. Shown'
    BY Zenon, <1>2, ShownKept
<1>7. Holds(p)' /\ Woken(p)'
    BY Zenon, <1>1, <1>2, <1>4 DEF Holds, Woken, Holding, Explained
<1>8. mx.file[coming.on[p]] = p
    BY Zenon, <1>1 DEF Holds, Holding
<1> QED BY Zenon, <1>2, <1>3, <1>4, <1>5, <1>6, <1>7, <1>8, IoStepInv

-----------------------------------------------------------------------------
(* The invariant *)

(* The terminals are empty at boot, and the active one is shown. *)
LEMMA InitInv ==
    ASSUME TtyInit
    PROVE  IInv
<1>1. PICK s \in TtyScripts :
       /\ coming = s
       /\ active = s.active
       /\ tty = [i \in Ttys |-> [active |-> i = s.active, stdin |-> <<>>, stdout |-> <<>>, raw |-> <<>>]]
       /\ mx = [raw |-> [i \in Ttys |-> Free], stdin |-> [i \in Ttys |-> Free],
                stdout |-> [i \in Ttys |-> Free], file |-> [i \in Ttys |-> Free], active |-> Free]
       /\ screen = <<>>
       /\ input = [i \in Ttys |-> [pc |-> "wait", at |-> 0, last |-> 0, own |-> FALSE]]
       /\ kb = [pc |-> "idle", key |-> Key("none", 0), to |-> 0]
       /\ io = [p \in Programs |-> [pc |-> "idle", intr |-> FALSE, ret |-> "none"]]
       /\ seen = [pushed |-> [i \in Ttys |-> <<>>], handled |-> [i \in Ttys |-> <<>>], events |-> {}]
    BY Zenon DEF TtyInit
<1>2. s \in Script /\ s.active \in Ttys
    BY Zenon, TtyAssumption DEF Script
<1>3. 0 \in Nat /\ <<>> \in Seq({"char", "enter"}) /\ <<>> \in Seq(Lines) /\ <<>> \in Seq(KeySet)
      /\ Len(<<>>) = 0 /\ 0 <= Rows /\ Suffix(<<>>, Rows) = <<>>
  <2>1. Rows \in Nat \ {0}
      BY Zenon, TtyAssumption
  <2>2. Suffix(<<>>, Rows) = <<>>
      BY <2>1 DEF Suffix
  <2>3. 0 \in Nat /\ Len(<<>>) = 0 /\ 0 <= Rows
      BY <2>1
  <2>4. <<>> \in Seq({"char", "enter"}) /\ <<>> \in Seq(Lines) /\ <<>> \in Seq(KeySet)
      OBVIOUS
  <2> QED BY Zenon, <2>2, <2>3, <2>4
<1>4. tty \in [Ttys -> TtyState]
  <2>1. ASSUME NEW i \in Ttys
        PROVE  [active |-> i = s.active, stdin |-> <<>>, stdout |-> <<>>, raw |-> <<>>] \in TtyState
    <3> DEFINE b == i = s.active
    <3>1. b \in BOOLEAN
        BY Zenon
    <3> HIDE DEF b
    <3>2. [active |-> b, stdin |-> <<>>, stdout |-> <<>>, raw |-> <<>>] \in TtyState
        BY Zenon, <1>3, <3>1 DEF TtyState
    <3> QED BY Zenon, <3>2 DEF b
  <2> QED BY Zenon, <1>1, <2>1
<1>5. mx \in MutexState
    BY Zenon, <1>1 DEF MutexState
<1>6. input \in [Ttys -> InputState] /\ io \in [Programs -> IoState]
    BY Zenon, <1>1, <1>3 DEF InputState, InputPcs, Resting, IoState
<1>7. kb \in [pc : {"idle", "push"}, key : KeySet \cup {Key("none", 0)}, to : Ttys \cup {0}]
    BY Zenon, <1>1
<1>8. seen \in SeenState
    BY Zenon, <1>1, <1>3 DEF SeenState
<1>9. Typed /\ KeyInHand
    BY Zenon, <1>1, <1>2, <1>3, <1>4, <1>5, <1>6, <1>7, <1>8 DEF Typed, KeyInHand
<1>10. /\ \A i \in Ttys : input[i].pc = "wait" /\ tty[i].raw = <<>> /\ tty[i].stdout = <<>>
                          /\ (tty[i].active <=> i = active)
                          /\ mx.raw[i] = Free /\ seen.handled[i] = <<>> /\ seen.pushed[i] = <<>>
       /\ \A p \in Programs : io[p].pc = "idle" /\ io[p].ret = "none"
       /\ mx.active = Free
  <2>1. \A i \in Ttys : input[i].pc = "wait"
      BY Zenon, <1>1
  <2>2. \A i \in Ttys : tty[i].raw = <<>> /\ tty[i].stdout = <<>> /\ (tty[i].active <=> i = active)
      BY Zenon, <1>1
  <2>3. \A i \in Ttys : mx.raw[i] = Free /\ seen.handled[i] = <<>> /\ seen.pushed[i] = <<>>
      BY Zenon, <1>1
  <2>4. \A p \in Programs : io[p].pc = "idle" /\ io[p].ret = "none"
      BY Zenon, <1>1
  <2>5. mx.active = Free
      BY Zenon, <1>1
  <2> QED BY Zenon, <2>1, <2>2, <2>3, <2>4, <2>5
<1>11. Shown
  <2>1. ~Dark
      BY Zenon, <1>10 DEF Dark
  <2>2. active \in Ttys /\ screen = <<>>
      BY Zenon, <1>1, <1>2
  <2>3. tty[active].stdout = <<>>
      BY Zenon, <1>10, <2>2
  <2>4. \A i \in Ttys : tty[i].active <=> i = active /\ ~Dark
      BY Zenon, <1>10, <2>1
  <2>5. Len(screen) <= Rows
      BY Zenon, <1>3, <2>2
  <2>6. screen = Suffix(tty[active].stdout, Rows)
      BY Zenon, <1>3, <2>2, <2>3
  <2> QED BY Zenon, <2>4, <2>5, <2>6 DEF Shown
<1>12. ASSUME NEW i \in Ttys PROVE InOrder(i)
  <2>1. seen.handled[i] \o SubSeq(tty[i].raw, Done(i) + 1, Len(tty[i].raw)) = seen.pushed[i]
    <3>1. Done(i) = 0
        BY Zenon, <1>10 DEF Done, Resting
    <3>2. <<>> \o SubSeq(<<>>, 0 + 1, Len(<<>>)) = <<>>
        OBVIOUS
    <3> QED BY Zenon, <1>10, <3>1, <3>2
  <2> QED BY Zenon, <1>10, <2>1 DEF InOrder, Resting
<1>13. ASSUME NEW i \in Ttys PROVE Batch(i) /\ Switches(i)
    BY Zenon, <1>10, TtyAssumption DEF Batch, Switches, Resting, Inside
<1>14. ASSUME NEW p \in Programs PROVE Holds(p) /\ Woken(p)
    BY Zenon, <1>10 DEF Holds, Woken, Holding
<1> QED BY Zenon, <1>9, <1>11, <1>12, <1>13, <1>14 DEF IInv, Ordered

(* A step that leaves everything alone *)
LEMMA StutterInv ==
    ASSUME IInv, UNCHANGED ttyVars
    PROVE  IInv'
<1>1. /\ tty' = tty /\ mx' = mx /\ active' = active /\ screen' = screen /\ input' = input /\ kb' = kb
      /\ io' = io /\ coming' = coming /\ seen' = seen
    BY Zenon DEF ttyVars
<1>2. Typed' /\ KeyInHand'
    BY Zenon, <1>1 DEF IInv, Typed, KeyInHand
<1>3. Shown'
    BY Zenon, <1>1, ShownKept
<1>4. Ordered'
    BY Zenon, <1>1 DEF IInv, Ordered, InOrder, Done
<1>5. ASSUME NEW i \in Ttys PROVE Batch(i)' /\ Switches(i)'
    BY Zenon, <1>1 DEF IInv, Batch, Switches, CurrentKey
<1>6. ASSUME NEW p \in Programs PROVE Holds(p)' /\ Woken(p)'
    BY Zenon, <1>1 DEF IInv, Holds, Woken, StdinOf, Explained
<1> QED BY Zenon, <1>2, <1>3, <1>4, <1>5, <1>6 DEF IInv

(* The batch is the whole buffer, and a read of nothing follows what took the line back: the
   invariant gives KeysArrive. *)
LEMMA InvKeys ==
    ASSUME IInv
    PROVE  KeysArrive
<1>1. Ordered
    BY Zenon DEF IInv
<1>2. KeysAreHandled
  <2>1. ASSUME "grown" \notin seen.events, NEW i \in Ttys
        PROVE  LET done == IF input[i].pc \in {"wait", "lock", "park"} THEN 0
                           ELSE IF input[i].pc = "key" THEN input[i].at - 1 ELSE input[i].at
               IN  seen.handled[i] \o SubSeq(tty[i].raw, done + 1, Len(tty[i].raw)) = seen.pushed[i]
    <3> DEFINE done == IF input[i].pc \in {"wait", "lock", "park"} THEN 0
                       ELSE IF input[i].pc = "key" THEN input[i].at - 1 ELSE input[i].at
    <3>1. Done(i) = done
        BY Zenon DEF Done, Resting
    <3>2. seen.handled[i] \o SubSeq(tty[i].raw, Done(i) + 1, Len(tty[i].raw)) = seen.pushed[i]
        BY Zenon, <1>1, <2>1 DEF Ordered, InOrder
    <3> HIDE DEF done
    <3>3. seen.handled[i] \o SubSeq(tty[i].raw, done + 1, Len(tty[i].raw)) = seen.pushed[i]
        BY Zenon, <3>1, <3>2
    <3> QED BY Zenon, <3>3 DEF done
  <2> QED BY Zenon, <2>1 DEF KeysAreHandled
<1>3. NoKeyIsLeft
    BY Zenon, <1>1 DEF NoKeyIsLeft, Ordered, InOrder
<1>4. ZeroReadExplained
    BY Zenon DEF IInv, Woken, Explained, ZeroReadExplained, Programs
<1> QED BY Zenon, <1>2, <1>3, <1>4 DEF KeysArrive

-----------------------------------------------------------------------------
(* The reads *)

LOCAL INSTANCE WellFoundedInduction

(* A whole line, and the first key of the buffer, end inside of it. *)
LEMMA LineEnds ==
    ASSUME NEW S, NEW q \in Seq(S), HasLine(q), NEW n \in {1, LineLength(q)}
    PROVE  n \in 1..Len(q) /\ SubSeq(q, n + 1, Len(q)) \in Seq(S)
<1> DEFINE T == {k \in DOMAIN q : q[k] = "enter"}
           R == {ss \in Nat \X Nat : ss[1] < ss[2]}
<1>1. T # {} /\ T \subseteq Nat /\ T \subseteq 1..Len(q)
    BY DEF HasLine
<1>2. IsWellFoundedOn(R, Nat)
    BY Zenon, NatLessThanWellFounded DEF OpToRel
<1>3. PICK x \in T : \A y \in T : ~ (<<y, x>> \in R)
  <2> HIDE DEF R, T
  <2> QED BY Zenon, <1>1, <1>2, WFMin
<1>4. ASSUME NEW y \in T, y < x PROVE FALSE
  <2>1. <<y, x>> \in Nat \X Nat /\ <<y, x>>[1] < <<y, x>>[2]
      BY Zenon, <1>1, <1>4
  <2> QED BY Zenon, <2>1, <1>3
<1>5. x \in DOMAIN q /\ q[x] = "enter" /\ \A j \in 1..(x - 1) : q[j] # "enter"
    BY <1>1, <1>4
<1>6. LineLength(q) \in DOMAIN q
    BY Zenon, <1>5 DEF LineLength
<1>7. n \in 1..Len(q)
    BY <1>1, <1>6
<1> QED BY <1>7

(***************************************************************************)
(* A line leaves stdin: no other task waits on that terminal, since the    *)
(* reader has its file_mutex.                                              *)
(***************************************************************************)
LEMMA TakeLineFacts ==
    ASSUME IInv, NEW p \in Programs, io[p].pc \in {"read", "woken"}, HasLine(StdinOf(p)), TakeLine(p),
           input' = input, screen' = screen, active' = active
    PROVE  /\ Shown' /\ tty' \in [Ttys -> TtyState] /\ io' \in [Programs -> IoState] /\ IoOthers(p)
           /\ (\A j \in Ttys : tty'[j].raw = tty[j].raw)
           /\ (\A j \in Ttys \ {coming.on[p]} : tty'[j].stdin = tty[j].stdin)
           /\ io'[p].pc = "unlock" /\ io'[p].ret = "line"
<1>1. /\ Typed /\ io[p] \in IoState /\ io \in [Programs -> IoState] /\ coming.on[p] \in Ttys
      /\ StdinOf(p) \in Seq({"char", "enter"}) /\ Holds(p)
    BY Zenon, IoTypes DEF Typed
<1>2. WakeReader(coming.on[p]) = io
  <2>1. ASSUME NEW q \in Programs, io[q].pc = "wait", coming.on[q] = coming.on[p] PROVE FALSE
    <3>1. mx.file[coming.on[q]] = q /\ mx.file[coming.on[p]] = p
        BY Zenon, <1>1, <2>1 DEF IInv, Holds, Holding
    <3>2. q # p
        BY Zenon, <2>1
    <3> QED BY Zenon, <2>1, <3>1, <3>2
  <2>2. WakeReader(coming.on[p]) = [q \in Programs |-> io[q]]
      BY Zenon, <2>1 DEF WakeReader
  <2> QED BY Zenon, <1>1, <2>2
<1>3. PICK n \in {1, LineLength(StdinOf(p))} :
          /\ tty' = [tty EXCEPT ![coming.on[p]].stdin = SubSeq(@, n + 1, Len(@))]
          /\ io' = [io EXCEPT ![p].pc = "unlock", ![p].ret = "line"]
    BY Zenon, <1>2 DEF TakeLine
<1> DEFINE q == SubSeq(StdinOf(p), n + 1, Len(StdinOf(p)))
           r == [io[p] EXCEPT !.pc = "unlock", !.ret = "line"]
<1>4. q \in Seq({"char", "enter"})
    BY Zenon, <1>1, LineEnds
<1>5. tty' = [tty EXCEPT ![coming.on[p]].stdin = q]
    BY Zenon, <1>1, <1>3 DEF Typed, StdinOf
<1> HIDE DEF q
<1>6. /\ tty' \in [Ttys -> TtyState] /\ TtyOthers(coming.on[p])
      /\ tty'[coming.on[p]].active = tty[coming.on[p]].active
      /\ tty'[coming.on[p]].stdout = tty[coming.on[p]].stdout
      /\ tty'[coming.on[p]].raw = tty[coming.on[p]].raw
    BY Zenon, <1>1, <1>4, <1>5, StdinFacts
<1>7. \A j \in Ttys : /\ tty'[j].active = tty[j].active /\ tty'[j].stdout = tty[j].stdout
                      /\ tty'[j].raw = tty[j].raw
    BY Zenon, <1>6 DEF TtyOthers
<1>8. Shown'
    BY Zenon, <1>7, ShownKept
<1>9. r \in IoState /\ r.pc = "unlock" /\ r.ret = "line"
    BY Zenon, <1>1 DEF IoState, Holding
<1>10. io' = [io EXCEPT ![p] = r]
    BY Zenon, <1>1, <1>3
<1> HIDE DEF r
<1>11. io' \in [Programs -> IoState] /\ IoOthers(p) /\ io'[p] = r
    BY Zenon, <1>1, <1>9, <1>10 DEF IoOthers
<1> QED BY Zenon, <1>6, <1>7, <1>8, <1>9, <1>11 DEF TtyOthers

(* A read takes a line, or waits for one. *)
LEMMA StdinReadInv ==
    ASSUME IInv, NEW p \in Programs, StdinRead(p)
    PROVE  IInv'
<1>1. /\ Typed /\ coming.on[p] \in Ttys /\ Holds(p) /\ Woken(p) /\ io[p].pc = "read" /\ "read" \in Holding
      /\ "wait" \in {"idle", "file"} \cup Holding /\ Free \in Readers \cup {Free}
    BY Zenon, IoTypes DEF StdinRead, IoAt, Holding
<1>2. active' = active /\ screen' = screen /\ input' = input /\ kb' = kb
    BY Zenon DEF StdinRead
<1> DEFINE up == mx' = [mx EXCEPT !.stdin[coming.on[p]] = Free]
<1>6. up => mx' \in MutexState /\ mx'.raw = mx.raw /\ mx'.file = mx.file /\ mx'.active = mx.active
    BY Zenon, <1>1, StdinMutexFacts
<1> HIDE DEF up
<1>3. CASE HasLine(StdinOf(p)) /\ TakeLine(p) /\ up /\ UNCHANGED <<coming, seen>>
  <2>1. /\ Shown' /\ tty' \in [Ttys -> TtyState] /\ io' \in [Programs -> IoState] /\ IoOthers(p)
        /\ (\A j \in Ttys : tty'[j].raw = tty[j].raw)
        /\ (\A j \in Ttys \ {coming.on[p]} : tty'[j].stdin = tty[j].stdin)
        /\ io'[p].pc = "unlock" /\ io'[p].ret = "line"
      BY Zenon, <1>1, <1>2, <1>3, TakeLineFacts
  <2>2. Typed' /\ Grows
      BY Zenon, <1>1, <1>2, <1>3, <1>6, <2>1 DEF Typed, Grows
  <2>3. Holds(p)' /\ Woken(p)'
      BY Zenon, <1>1, <1>3, <1>6, <2>1 DEF Holds, Woken
  <2> QED BY ZenonT(60), <1>1, <1>2, <1>3, <1>6, <2>1, <2>2, <2>3, IoStepInv
<1>4. CASE IoGoto(p, "wait") /\ tty' = tty /\ up /\ coming' = coming /\ seen' = seen
  <2>1. /\ io' \in [Programs -> IoState] /\ IoOthers(p)
        /\ io'[p].pc = "wait" /\ io'[p].intr = io[p].intr /\ io'[p].ret = io[p].ret
      BY Zenon, <1>1, <1>4, IoGotoFacts
  <2>2. Typed' /\ Grows /\ Shown'
      BY Zenon, <1>1, <1>2, <1>4, <1>6, <2>1, ShownKept DEF Typed, Grows
  <2>3. Holds(p)' /\ Woken(p)'
      BY Zenon, <1>1, <1>4, <1>6, <2>1 DEF Holds, Woken, Explained
  <2> QED BY ZenonT(60), <1>2, <1>4, <1>6, <2>1, <2>2, <2>3, IoStepInv
<1>5. CASE /\ coming.stops > 0 /\ IoGoto(p, "wait") /\ mx' = [mx EXCEPT !.stdin[coming.on[p]] = p]
           /\ coming' = [coming EXCEPT !.stops = @ - 1] /\ Note({"stopped"}) /\ tty' = tty
  <2>1. /\ io' \in [Programs -> IoState] /\ IoOthers(p)
        /\ io'[p].pc = "wait" /\ io'[p].intr = io[p].intr /\ io'[p].ret = io[p].ret
      BY Zenon, <1>1, <1>5, IoGotoFacts
  <2>2. p \in Readers \cup {Free} /\ p \in Readers
      BY Zenon, <1>1 DEF Holds
  <2>3. mx' \in MutexState /\ mx'.raw = mx.raw /\ mx'.file = mx.file /\ mx'.active = mx.active
      BY Zenon, <1>1, <1>5, <2>2, StdinMutexFacts
  <2>4. coming' \in Script /\ coming'.on = coming.on
      BY Zenon, <1>1, <1>5, StopFacts
  <2>5. /\ seen' \in SeenState /\ seen'.events = seen.events \cup {"stopped"}
        /\ seen'.pushed = seen.pushed /\ seen'.handled = seen.handled
    <3>1. {"stopped"} \in SUBSET Events
        BY Zenon DEF Events
    <3> QED BY Zenon, <1>1, <1>5, <3>1, NoteFacts
  <2>6. Typed' /\ Grows /\ Shown'
    <3>1. Shown'
        BY Zenon, <1>2, <1>5, ShownKept
    <3> QED BY ZenonT(60), <1>1, <1>2, <1>5, <2>1, <2>3, <2>4, <2>5, <3>1 DEF Typed, Grows
  <2>7. Holds(p)' /\ Woken(p)'
    <3>1. Explained => Explained'
        BY Zenon, <2>6, StillExplained
    <3> QED BY ZenonT(60), <1>1, <2>1, <2>2, <2>3, <2>4, <3>1 DEF Holds, Woken
  <2> QED BY ZenonT(60), <1>2, <1>5, <2>1, <2>3, <2>4, <2>5, <2>6, <2>7, IoStepInv
<1> QED BY Zenon, <1>3, <1>4, <1>5 DEF StdinRead, up

(* A program is stopped with the mutex of its buffer. *)
LEMMA StopInsideInv ==
    ASSUME IInv, NEW p \in Programs, StopInside(p)
    PROVE  IInv'
<1>1. /\ Typed /\ coming.on[p] \in Ttys /\ Holds(p) /\ Woken(p)
      /\ tty' = tty /\ active' = active /\ screen' = screen /\ input' = input /\ kb' = kb /\ io' = io
    BY Zenon, IoTypes DEF StopInside
<1>2. mx' \in MutexState /\ mx'.raw = mx.raw /\ mx'.file = mx.file /\ mx'.active = mx.active
  <2>1. CASE io[p].pc \in {"read", "woken"} /\ mx' = [mx EXCEPT !.stdin[coming.on[p]] = p]
    <3>1. p \in Readers \cup {Free}
        BY Zenon, <1>1, <2>1 DEF Holds
    <3> QED BY Zenon, <1>1, <2>1, <3>1, StdinMutexFacts
  <2>2. CASE mx' = [mx EXCEPT !.stdout[coming.on[p]] = p]
    <3>1. p \in Programs \cup {Free}
        BY Zenon
    <3> QED BY Zenon, <1>1, <2>2, <3>1, StdoutMutexFacts
  <2> QED BY Zenon, <2>1, <2>2 DEF StopInside
<1>3. coming' \in Script /\ coming'.on = coming.on
    BY Zenon, <1>1, StopFacts DEF StopInside
<1>4. /\ seen' \in SeenState /\ seen'.events = seen.events \cup {"stopped"}
      /\ seen'.pushed = seen.pushed /\ seen'.handled = seen.handled
  <2>1. {"stopped"} \in SUBSET Events
      BY Zenon DEF Events
  <2> QED BY Zenon, <1>1, <2>1, NoteFacts DEF StopInside
<1>5. Typed' /\ Grows /\ IoOthers(p)
    BY Zenon, <1>1, <1>2, <1>3, <1>4 DEF Typed, Grows, IoOthers
<1>6. Shown'
    BY Zenon, <1>1, ShownKept
<1>7. Holds(p)' /\ Woken(p)'
  <2>1. Explained => Explained'
      BY Zenon, <1>5, StillExplained
  <2> QED BY Zenon, <1>1, <1>2, <1>3, <2>1 DEF Holds, Woken, StdinOf
<1> QED BY ZenonT(60), <1>1, <1>2, <1>3, <1>4, <1>5, <1>6, <1>7, IoStepInv

(* A woken read takes the line, or ends with nothing for a reason. *)
LEMMA StdinReadOnInv ==
    ASSUME IInv, NEW p \in Programs, StdinReadOn(p)
    PROVE  IInv'
<1>1. /\ Typed /\ coming.on[p] \in Ttys /\ Holds(p) /\ Woken(p) /\ io[p].pc = "woken" /\ "woken" \in Holding
      /\ "check" \in {"idle", "file"} \cup Holding /\ Free \in Readers \cup {Free}
    BY Zenon, IoTypes DEF StdinReadOn, IoAt, Holding
<1>2. /\ active' = active /\ screen' = screen /\ input' = input /\ kb' = kb /\ coming' = coming /\ seen' = seen
      /\ mx' = [mx EXCEPT !.stdin[coming.on[p]] = Free]
    BY Zenon DEF StdinReadOn
<1>3. mx' \in MutexState /\ mx'.raw = mx.raw /\ mx'.file = mx.file /\ mx'.active = mx.active
    BY Zenon, <1>1, <1>2, StdinMutexFacts
<1>4. CASE HasLine(StdinOf(p)) /\ TakeLine(p)
  <2>1. /\ Shown' /\ tty' \in [Ttys -> TtyState] /\ io' \in [Programs -> IoState] /\ IoOthers(p)
        /\ (\A j \in Ttys : tty'[j].raw = tty[j].raw)
        /\ (\A j \in Ttys \ {coming.on[p]} : tty'[j].stdin = tty[j].stdin)
        /\ io'[p].pc = "unlock" /\ io'[p].ret = "line"
      BY Zenon, <1>1, <1>2, <1>4, TakeLineFacts
  <2>2. Typed' /\ Grows
      BY Zenon, <1>1, <1>2, <1>3, <2>1 DEF Typed, Grows
  <2>3. Holds(p)' /\ Woken(p)'
      BY Zenon, <1>1, <1>2, <1>3, <2>1 DEF Holds, Woken
  <2> QED BY ZenonT(60), <1>1, <1>2, <1>3, <2>1, <2>2, <2>3, IoStepInv
<1>5. CASE (io[p].intr \/ ~HasLine(StdinOf(p))) /\ IoGoto(p, "check") /\ tty' = tty
  <2>1. /\ io' \in [Programs -> IoState] /\ IoOthers(p)
        /\ io'[p].pc = "check" /\ io'[p].intr = io[p].intr /\ io'[p].ret = io[p].ret
      BY Zenon, <1>1, <1>5, IoGotoFacts
  <2>2. Typed' /\ Grows /\ Shown'
    <3>1. Shown'
        BY Zenon, <1>2, <1>5, ShownKept
    <3> QED BY Zenon, <1>1, <1>2, <1>3, <1>5, <2>1, <3>1 DEF Typed, Grows
  <2>3. Holds(p)' /\ Woken(p)'
      BY Zenon, <1>1, <1>2, <1>3, <1>5, <2>1 DEF Holds, Woken, Explained
  <2> QED BY ZenonT(60), <1>2, <1>3, <1>5, <2>1, <2>2, <2>3, IoStepInv
<1> QED BY Zenon, <1>4, <1>5 DEF StdinReadOn

-----------------------------------------------------------------------------
(* Results *)

(* Every step of the keyboard, of an input thread and of a program keeps the invariant. *)
LEMMA NextInv ==
    ASSUME IInv, [TtyNext]_ttyVars
    PROVE  IInv'
<1>1. CASE TakeKey
    BY Zenon, <1>1, TakeKeyInv
<1>2. CASE PushKey
  <2>1. kb.to \in Ttys
      BY Zenon, <1>2 DEF IInv, KeyInHand, PushKey
  <2>2. PICK i \in Ttys : kb.to = i
      BY Zenon, <2>1
  <2> QED BY Zenon, <1>2, <2>2, PushKeyInv
<1>3. ASSUME NEW i \in Ttys, InputStep(i) PROVE IInv'
  <2>1. CASE Activate(i)
    <3>1. input[i].pc \in {"deactivate", "activate"}
        BY Zenon, <2>1 DEF Activate, InputAt
    <3>2. CurrentKey(i).to \in Ttys
        BY Zenon, <3>1, OnlySwitch
    <3>3. PICK to \in Ttys : to = CurrentKey(i).to
        BY Zenon, <3>2
    <3> QED BY Zenon, <2>1, <3>3, ActivateInv
  <2>2. CASE InputLock(i) \/ HandleKey(i) \/ MissKey(i) \/ Echo(i)
      BY ZenonT(60), <2>2, InputLockInv, HandleKeyInv, MissKeyInv, EchoInv
  <2>3. CASE NotifyReader(i) \/ ClearLine(i) \/ SendSigint(i) \/ SetActiveTty(i)
      BY ZenonT(60), <2>3, NotifyReaderInv, ClearLineInv, SendSigintInv, SetActiveTtyInv
  <2>4. CASE Deactivate(i) \/ EndBatch(i) \/ Park(i)
      BY Zenon, <2>4, DeactivateInv, EndBatchInv, ParkInv
  <2> QED BY Zenon, <1>3, <2>1, <2>2, <2>3, <2>4 DEF InputStep
<1>4. ASSUME NEW p \in Programs, IoStep(p) PROVE IInv'
  <2>1. CASE BeginIo(p) \/ LockTtyFile(p) \/ StdinRead(p) \/ StdinReadOn(p)
      BY ZenonT(60), <2>1, BeginIoInv, LockTtyFileInv, StdinReadInv, StdinReadOnInv
  <2>2. CASE CheckInterrupted(p) \/ TtyWrite(p) \/ UnlockTtyFile(p) \/ StopInside(p)
      BY Zenon, <2>2, CheckInterruptedInv, TtyWriteInv, UnlockTtyFileInv, StopInsideInv
  <2> QED BY Zenon, <1>4, <2>1, <2>2 DEF IoStep
<1>5. CASE UNCHANGED ttyVars
    BY Zenon, <1>5, StutterInv
<1> QED BY Zenon, <1>1, <1>2, <1>3, <1>4, <1>5 DEF TtyNext

(* In every state: the keys pushed to a terminal are handled once and in order, none is left
   behind by an input thread that waits, and a read ends with nothing only after its line was
   taken back (raw_input_thread, input_thread, stdin_read). *)
THEOREM KeysArriveInOrder == TtySpec => []KeysArrive
<1>1. TtyInit => IInv
    BY Zenon, InitInv
<1>2. IInv /\ [TtyNext]_ttyVars => IInv'
    BY Zenon, NextInv
<1>3. IInv => KeysArrive
    BY Zenon, InvKeys
<1> QED BY <1>1, <1>2, <1>3, PTL DEF TtySpec

(* Only the holder of _active_tty_mutex changes the active terminal, and otherwise the console
   shows the active one. *)
LEMMA InvSwitches ==
    ASSUME IInv
    PROVE  TtyTypeOK /\ ScreenShowsActive /\ Switching \in SUBSET {mx.active}
<1>1. Typed /\ Shown
    BY Zenon DEF IInv
<1>2. TtyTypeOK
  <2>1. active \in Ttys /\ Len(screen) <= Rows /\ mx.active \in {Free} \cup Ttys
      BY Zenon, <1>1 DEF Typed, Shown, MutexState
  <2>2. ASSUME NEW i \in Ttys
        PROVE  /\ tty[i].active \in BOOLEAN
               /\ mx.raw[i] \in {Free, i} /\ mx.stdin[i] \in {Free} \cup Readers
               /\ mx.stdout[i] \in {Free} \cup Programs /\ mx.file[i] \in {Free} \cup Programs
    <3>1. tty[i].active \in BOOLEAN
        BY Zenon, <1>1 DEF Typed, TtyState
    <3>2. /\ mx.stdin[i] \in {Free} \cup Readers /\ mx.stdout[i] \in {Free} \cup Programs
          /\ mx.file[i] \in {Free} \cup Programs
        BY Zenon, <1>1 DEF Typed, MutexState
    <3>3. mx.raw[i] \in {Free, i}
        BY Zenon DEF IInv, Batch
    <3> QED BY Zenon, <3>1, <3>2, <3>3
  <2>3. ASSUME NEW i \in Ttys
        PROVE  /\ input[i].pc = "key" => input[i].at \in 1..(input[i].last + 1)
               /\ input[i].pc \in Inside => input[i].at \in 1..input[i].last
    <3>1. input[i].at \in Nat /\ input[i].last \in Nat /\ Batch(i)
        BY Zenon, <1>1, InputTypes DEF IInv
    <3>2. input[i].pc = "key" \/ input[i].pc \in Inside => input[i].at \in 1..(input[i].last + 1)
        BY Zenon, <3>1 DEF Batch, Resting, Inside
    <3>3. input[i].pc \in Inside => input[i].at <= input[i].last
        BY Zenon, <3>1 DEF Batch
    <3>4. ASSUME NEW a \in Nat, NEW n \in Nat, a \in 1..(n + 1), a <= n PROVE a \in 1..n
        BY <3>4
    <3> QED BY Zenon, <3>1, <3>2, <3>3, <3>4
  <2>4. ASSUME NEW p \in Programs PROVE io[p].ret \in {"none", "line", "zero", "interrupted"}
      BY Zenon, <1>1 DEF Typed, IoState
  <2> QED BY Zenon, <2>1, <2>2, <2>3, <2>4 DEF TtyTypeOK, Inside
<1>3. ScreenShowsActive
  <2>1. Switching = {} => ~Dark
      BY Zenon DEF Switching, Dark
  <2> QED BY Zenon, <1>1, <2>1 DEF Shown, ScreenShowsActive
<1>4. \A i \in Ttys : i \in Switching => i = mx.active
    BY Zenon, OnlySwitch DEF Switching
<1>5. Switching \in SUBSET {mx.active}
    BY Zenon, <1>4 DEF Switching
<1> QED BY Zenon, <1>2, <1>3, <1>5

LOCAL F == INSTANCE FiniteSetTheorems

(* A set with no other element than x has one element at most. *)
LEMMA AtMostOne ==
    ASSUME NEW x, NEW S \in SUBSET {x}
    PROVE  Cardinality(S) <= 1
<1>1. \A T : Cardinality(T) = F!Cardinality(T)
    BY Zenon DEF Cardinality, F!Cardinality
<1>2. S = {} \/ S = {x}
    BY Zenon
<1>3. F!Cardinality({}) = 0 /\ F!Cardinality({x}) = 1
    BY ZenonT(60), F!FS_EmptySet, F!FS_Singleton
<1>4. Cardinality(S) = 0 \/ Cardinality(S) = 1
    BY ZenonT(60), <1>1, <1>2, <1>3
<1> QED BY <1>4

(* In every state, whatever the terminals, programs and keys: one task at a time changes the
   active terminal, and between two changes the console shows the end of the output of the
   active one, which alone prints (set_active_tty, activate, deactivate, stdout_write). *)
THEOREM SwitchesSound == TtySpec => []SwitchesAreSound
<1>1. TtyInit => IInv
    BY Zenon, InitInv
<1>2. IInv /\ [TtyNext]_ttyVars => IInv'
    BY Zenon, NextInv
<1>3. IInv => SwitchesAreSound
  <2> SUFFICES ASSUME IInv PROVE SwitchesAreSound
      BY Zenon
  <2>1. TtyTypeOK /\ ScreenShowsActive /\ Switching \in SUBSET {mx.active}
      BY Zenon, InvSwitches
  <2>2. Cardinality(Switching) <= 1
      BY Zenon, <2>1, AtMostOne
  <2> QED BY ZenonT(60), <2>1, <2>2 DEF SwitchesAreSound, OneSwitch
<1> QED BY <1>1, <1>2, <1>3, PTL DEF TtySpec
=============================================================================
