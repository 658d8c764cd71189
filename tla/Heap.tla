-------------------------------- MODULE Heap --------------------------------
(***************************************************************************)
(* The kernel heap (kernel/memory/liballoc.c and its hooks) over the       *)
(* virtual allocator: a list of major blocks, each with the sorted list of *)
(* its minor blocks, and the cached "best bet" major.                      *)
(*                                                                         *)
(* A call runs under liballoc_lock from its first access to the lists to   *)
(* its last, so malloc, calloc and free are one step each.  realloc        *)
(* releases the lock before it calls malloc, and again before free, so it  *)
(* takes three.  Sizes inside a block are in words of eight bytes.         *)
(***************************************************************************)
EXTENDS VirtualAllocator

CONSTANTS PageWords,            \* l_pageSize
          MinPages,             \* l_pageCount
          MajorHdr, MinorHdr,   \* sizeof of the two headers
          Alignment, AlignInfo, \* ALIGNMENT, ALIGN_INFO
          HeapThreads, HeapSizes

ASSUME HeapAssumption == /\ {PageWords, MinPages, Alignment} \subseteq Nat \ {0}
                         /\ {MajorHdr, MinorHdr, AlignInfo} \subseteq Nat

VARIABLES majors,   \* the list from l_memRoot: [base, pages, usage, minors]
          best,     \* l_bestBet: the base of a major, or 0
          owner,    \* the blocks handed out: <<major, offset>> -> thread
          pc,       \* what each thread does between two calls of realloc
          mode      \* whether this behaviour exercises the heap

heapVars == <<majors, best, owner, pc, mode>>

Heap == [majors |-> majors, best |-> best]

Idle == [op |-> "idle"]

Room(j) == j.pages * PageWords - j.usage

\* Where free space can start in a major: after its header or after a minor.
Starts(j) == {MajorHdr} \cup {j.minors[i].at + MinorHdr + j.minors[i].size : i \in DOMAIN j.minors}

\* The words from `at' to the next minor or to the end of the block.
Gap(j, at) ==
  LET next == {j.minors[i].at : i \in DOMAIN j.minors}
  IN  Least({x \in next : x >= at} \cup {j.pages * PageWords}) - at

\* Cases 2 to 4: the first place in the major with room for a minor of size.
Places(j, size) == {at \in Starts(j) : Gap(j, at) >= size + MinorHdr}

AddMinor(j, at, size, req) ==
  LET before == Cardinality({i \in DOMAIN j.minors : j.minors[i].at < at})
  IN  [j EXCEPT !.usage = @ + size + MinorHdr,
                !.minors = InsertAfter(@, before, [at |-> at, size |-> size, req |-> req])]

\* allocate_new_page: the number of pages for a block that holds the request.
PagesFor(size) ==
  LET need == size + MajorHdr + MinorHdr
      st   == (need + PageWords - 1) \div PageWords
  IN  IF st < MinPages THEN MinPages ELSE st

\* ALIGN: the address handed out for a minor at this place of the block.
Payload(base, at) ==
  LET p == base * PageWords + at + MinorHdr + AlignInfo
  IN  p + (IF p % Alignment = 0 THEN 0 ELSE Alignment - (p % Alignment))

-----------------------------------------------------------------------------
(* malloc *)

\* The majors visited, as indices: from the best bet when it looks roomy, then
\* from the root again.
Tour(h, size) ==
  LET n == Len(h.majors)
      b == CHOOSE i \in 1 .. n : h.majors[i].base = h.best
      all == [i \in 1 .. n |-> i]
  IN  IF h.best # 0 /\ Room(h.majors[b]) > size + MinorHdr
      THEN SubSeq(all, b, n) \o all ELSE all

\* The best bet after these majors were visited: the first with most room, if
\* it has more than the best bet had.
BetAfter(h, visited) ==
  LET had  == IF h.best = 0 THEN 0
              ELSE Room(h.majors[CHOOSE i \in DOMAIN h.majors : h.majors[i].base = h.best])
      room(i) == Room(h.majors[visited[i]])
      more == {i \in DOMAIN visited : room(i) > had}
      most == {i \in more : \A k \in more : room(k) <= room(i)}
  IN  IF more = {} THEN h.best ELSE h.majors[visited[Least(most)]].base

\* A new major at the end of the list; its base and the memory behind it.
NewMajor(base, pages) ==
  [base |-> base, pages |-> pages, usage |-> MajorHdr, minors |-> <<>>]

(* The result of malloc(req) when liballoc_alloc would answer with page     *)
(* (NoIndex when it fails): [h, at, grew].  A block found full by case 5    *)
(* (room, but not contiguous) makes the new block a candidate for the bet;  *)
(* one skipped by case 1 does not.                                          *)
MallocIn(h, req, page) ==
  LET size  == req + Alignment + AlignInfo
      tour  == Tour(h, size)
      hits  == {i \in DOMAIN tour : Places(h.majors[tour[i]], size) # {}}
      seen  == IF hits = {} THEN tour ELSE SubSeq(tour, 1, Least(hits))
      bet   == BetAfter(h, seen)
      j     == tour[Least(hits)]
      at    == Least(Places(h.majors[j], size))
      fresh == NewMajor(page, PagesFor(size))
      last  == h.majors[Len(h.majors)]
      grown == [h EXCEPT !.majors = Append(@, fresh)]
      bet2  == IF h.majors = <<>> \/ Room(last) >= size + MinorHdr
               THEN BetAfter([grown EXCEPT !.best = bet], <<Len(grown.majors)>>) ELSE bet
  IN  IF hits # {}
      THEN [h |-> [h EXCEPT !.majors[j] = AddMinor(@, at, size, req), !.best = bet],
            p |-> <<h.majors[j].base, at>>, grew |-> FALSE]
      ELSE IF page = NoIndex
      THEN [h |-> [h EXCEPT !.best = bet], p |-> <<0, 0>>, grew |-> TRUE]
      ELSE [h |-> [majors |-> Append(h.majors, AddMinor(fresh, MajorHdr, size, req)),
                   best |-> bet2],
            p |-> <<page, MajorHdr>>, grew |-> TRUE]

Null == <<0, 0>>

\* malloc with liballoc_alloc: pages of the virtual allocator, read and write.
Outcome(r, mem, pages) == [h |-> r.h, p |-> r.p, mem |-> mem, pages |-> pages]

MallocWith(h, req, a, pages) == Outcome(MallocIn(h, req, a.at), a.m, pages)

MallocOrGrow(h, req, dry, pages) ==
  IF dry.grew THEN MallocWith(h, req, AllocateRegion(m, pages, RW, NoIndex), pages)
  ELSE Outcome(dry, m, 0)

Malloc(h, req) ==
  MallocOrGrow(h, req, MallocIn(h, req, NoIndex), PagesFor(req + Alignment + AlignInfo))

-----------------------------------------------------------------------------
(* free *)

MajorOf(h, p) == CHOOSE i \in DOMAIN h.majors : h.majors[i].base = p[1]

MinorOf(h, p) ==
  LET mi == h.majors[MajorOf(h, p)].minors IN mi[CHOOSE i \in DOMAIN mi : mi[i].at = p[2]]

Without(s, i) == SubSeq(s, 1, i - 1) \o SubSeq(s, i + 1, Len(s))

RemoveMinor(j, at) ==
  LET i == CHOOSE k \in DOMAIN j.minors : j.minors[k].at = at
  IN  [j EXCEPT !.usage = @ - (j.minors[i].size + MinorHdr), !.minors = Without(@, i)]

(* An emptied major leaves the list, and the bet if it was the bet; another *)
(* becomes the bet when it now has more room than the bet.                  *)
FreeIn(h, p) ==
  LET i == MajorOf(h, p)
      j == RemoveMinor(h.majors[i], p[2])
      k == CHOOSE x \in DOMAIN h.majors : h.majors[x].base = h.best
      betRoom == IF k = i THEN Room(j) ELSE Room(h.majors[k])
  IN  IF j.minors = <<>>
      THEN [majors |-> Without(h.majors, i), best |-> IF h.best = j.base THEN 0 ELSE h.best]
      ELSE [majors |-> [h.majors EXCEPT ![i] = j],
            best |-> IF h.best # 0 /\ Room(j) > betRoom THEN j.base ELSE h.best]

\* free(p): the lists, and liballoc_free of a major that became empty.
FreeBlock(p) ==
  LET j == majors[MajorOf(Heap, p)]
      region == {r \in live : r.base = j.base}
  IN  /\ majors' = FreeIn(Heap, p).majors
      /\ best' = FreeIn(Heap, p).best
      /\ IF \E i \in DOMAIN majors' : majors'[i].base = j.base
         THEN UNCHANGED <<m, live, odd>>
         ELSE /\ m' = FreePages(m, j.base, j.pages)
              /\ live' = live \ region
              /\ odd' = IF FreesInside(m.vma, Region(j.base, j.pages, {}, TRUE))
                        THEN odd \cup {"inside"} ELSE odd
      /\ UNCHANGED <<mmap, early, mode>>

TakeBlock(r) ==
  /\ majors' = r.h.majors /\ best' = r.h.best /\ m' = r.mem
  /\ live' = IF r.pages = 0 \/ r.p = Null THEN live
             ELSE live \cup {[base |-> r.p[1], size |-> r.pages, flags |-> RW, use |-> "kernel"]}
  /\ UNCHANGED <<mmap, odd, early, mode>>

-----------------------------------------------------------------------------
(* The calls of a thread *)

HeapRunning == mode = "heap" /\ Running

\* kmalloc: NULL when the page allocator has nothing left.
MallocCall(t, n) ==
  /\ HeapRunning /\ pc[t] = Idle
  /\ \E r \in {Malloc(Heap, n)} :
       /\ TakeBlock(r)
       /\ owner' = IF r.p = Null THEN owner ELSE Put(owner, r.p, t)
  /\ UNCHANGED pc

\* calloc clears what malloc returned without looking: a fault when it is NULL.
CallocCall(t, n) ==
  /\ HeapRunning /\ pc[t] = Idle
  /\ \E r \in {Malloc(Heap, n)} :
       /\ TakeBlock([r EXCEPT !.mem = IF r.p = Null THEN Fault(@, r.pages) ELSE @])
       /\ owner' = IF r.p = Null THEN owner ELSE Put(owner, r.p, t)
  /\ UNCHANGED pc

FreeCall(t, p) ==
  /\ HeapRunning /\ pc[t] = Idle /\ owner[p] = t
  /\ FreeBlock(p)
  /\ owner' = Drop(owner, {p})
  /\ UNCHANGED pc

\* realloc: a smaller size is noted in place; for a larger one the lock is
\* released and the thread goes on to malloc.
ReallocCall(t, p, n) ==
  /\ HeapRunning /\ pc[t] = Idle /\ owner[p] = t
  /\ IF MinorOf(Heap, p).req >= n
     THEN LET i == MajorOf(Heap, p)
              k == CHOOSE x \in DOMAIN majors[i].minors : majors[i].minors[x].at = p[2]
          IN  majors' = [majors EXCEPT ![i].minors[k].req = n] /\ UNCHANGED pc
     ELSE pc' = [pc EXCEPT ![t] = [op |-> "grow", p |-> p, n |-> n,
                                   real |-> MinorOf(Heap, p).req]] /\ UNCHANGED majors
  /\ UNCHANGED <<m, live, mmap, odd, early, best, owner, mode>>

\* The copy into NULL faults; otherwise the old block is still to be freed.
ReallocMalloc(t) ==
  /\ HeapRunning /\ pc[t].op = "grow"
  /\ \E r \in {Malloc(Heap, pc[t].n)} :
       /\ TakeBlock([r EXCEPT !.mem = IF r.p = Null /\ pc[t].real > 0 THEN Fault(@, r.pages) ELSE @])
       /\ owner' = IF r.p = Null THEN owner ELSE Put(owner, r.p, t)
       /\ pc' = [pc EXCEPT ![t] = [op |-> "drop", p |-> pc[t].p]]

\* The old block is not freed (a mutant of realloc).
ReallocForgets(t) ==
  /\ HeapRunning /\ pc[t].op = "drop"
  /\ owner' = Drop(owner, {pc[t].p})
  /\ pc' = [pc EXCEPT ![t] = Idle]
  /\ UNCHANGED <<m, live, mmap, odd, early, majors, best, mode>>

\* The old block is freed last.
ReallocFree(t) ==
  /\ HeapRunning /\ pc[t].op = "drop"
  /\ FreeBlock(pc[t].p)
  /\ owner' = Drop(owner, {pc[t].p})
  /\ pc' = [pc EXCEPT ![t] = Idle]

HeapInit ==
  /\ Init
  /\ mode \in IF mmap = RunMap THEN {"heap", "pages"} ELSE {"pages"}
  /\ majors = <<>> /\ best = 0 /\ owner = <<>>
  /\ pc = [t \in HeapThreads |-> Idle]

HeapNext ==
  \/ mode = "pages" /\ Next /\ UNCHANGED heapVars
  \/ \E t \in HeapThreads :
       \/ \E n \in HeapSizes : MallocCall(t, n) \/ CallocCall(t, n)
       \/ \E p \in DOMAIN owner : \/ FreeCall(t, p)
                                  \/ \E n \in HeapSizes : ReallocCall(t, p, n)
       \/ ReallocMalloc(t)
       \/ ReallocFree(t)

HeapSpec == HeapInit /\ [][HeapNext]_<<vars, heapVars>>

-----------------------------------------------------------------------------
(* Properties *)

\* Types of the heap's variables.
HeapTypeOK ==
  /\ best \in Nat /\ DOMAIN pc = HeapThreads
  /\ \A i \in DOMAIN majors : majors[i].pages >= MinPages /\ majors[i].usage >= MajorHdr

\* The minors of a major are in order, do not overlap each other or the
\* header, and end inside the block; the aligned payload of the size asked for
\* lies inside its minor.
BlocksDisjoint ==
  \A i \in DOMAIN majors :
    LET j == majors[i]
    IN  \A k \in DOMAIN j.minors :
          LET b == j.minors[k]
          IN  /\ b.at >= MajorHdr
              /\ b.at + MinorHdr + b.size <=
                   IF k = Len(j.minors) THEN j.pages * PageWords ELSE j.minors[k + 1].at
              /\ Payload(j.base, b.at) + b.req <= j.base * PageWords + b.at + MinorHdr + b.size

\* The usage counter of a major, from which malloc decides whether to look
\* into it, is the sum of its headers and blocks: it never drifts.
UsageIsExact ==
  \A i \in DOMAIN majors :
    LET j == majors[i]
        sum[k \in 0 .. Len(j.minors)] ==
          IF k = 0 THEN MajorHdr ELSE sum[k - 1] + MinorHdr + j.minors[k].size
    IN  j.usage = sum[Len(j.minors)]

\* l_bestBet never points to a major that was given back.
BestBetIsLinked == best # 0 => \E i \in DOMAIN majors : majors[i].base = best

\* A major without a block is given back at once, so a heap whose blocks were
\* all freed holds no page, and every major is memory the allocator granted.
MajorsAreHeld ==
  \A i \in DOMAIN majors :
    /\ majors[i].minors # <<>>
    /\ \E r \in live : r.base = majors[i].base /\ r.size = majors[i].pages

\* The blocks handed out are exactly the minors; in particular the block that
\* realloc is about to copy from is still there, whatever ran since it looked.
BlocksAreOwned ==
  DOMAIN owner = UNION {{<<majors[i].base, majors[i].minors[k].at>> :
                           k \in DOMAIN majors[i].minors} : i \in DOMAIN majors}

(***************************************************************************)
(* The lists of liballoc: blocks do not overlap, are counted, and belong   *)
(* to the callers that have them, realloc's included; empty majors are     *)
(* gone.                                                                   *)
(***************************************************************************)
HeapIsSound ==
    /\ HeapTypeOK
    /\ BlocksDisjoint
    /\ UsageIsExact
    /\ BestBetIsLinked
    /\ MajorsAreHeld
    /\ BlocksAreOwned
=============================================================================
