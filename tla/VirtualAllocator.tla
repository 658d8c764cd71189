-------------------------- MODULE VirtualAllocator --------------------------
(***************************************************************************)
(* The kernel's virtual memory allocator                                   *)
(* (kernel/memory/virtual_allocator.cpp) over the paging manager and the   *)
(* physical allocator: the list of VMA regions, the pages the list's own   *)
(* nodes live in, and the user pages that are mapped beside it.            *)
(*                                                                         *)
(* Further fields of m:                                                    *)
(*   m.vma      the list, in order: [base, size, flags, alloc] each;       *)
(*   m.room     nodes that still fit the current list page;                *)
(*   m.pending  the list page that is mapped and not in the list yet;      *)
(*   m.brk      the program break of the user process, in half pages;      *)
(*   m.status   "ok", "halt" (no memory at boot), "fault" (a null node was *)
(*              dereferenced), "hung" (the loop that reverts page maps     *)
(*              never ends) or "trap" (a bit with a null node was set);    *)
(*   m.need     the pages of addresses that a call which faulted needed.   *)
(* Addresses and sizes are in pages; an unaligned region only occurs at    *)
(* boot and is left out.  No operation takes a lock; the model serialises  *)
(* the calls.                                                              *)
(***************************************************************************)
EXTENDS Paging

CONSTANTS KernelBase, KernelSize,   \* KERNEL_VMA_START, KERNEL_VMA_SIZE
          BootRegions,              \* the regions init inserts, in order
          BootTables,               \* the kernel tables present at boot
          NodesPerPage,             \* list nodes that fit a page
          MemoryMaps,               \* boot memory maps to parse
          RunMap,                   \* the map the system is run with
          TailBits,                 \* values of the bits past the last page
          Sizes, Prots,             \* arguments of allocate
          DevicePages,              \* physical pages of devices
          UserChoices,              \* pages a process image occupies
          UserStack,                \* DEFAULT_USER_STACK_ADDRESS: a stack of one page
          BrkStart, BrkTop, Incs,   \* the program break, in half pages
          MaxCalls                  \* bound on the number of calls

ASSUME VmaAssumption == /\ KernelBase \in Nat /\ KernelBase >= UserTop
                        /\ KernelBase + KernelSize < Word
                        /\ NodesPerPage \in Nat /\ NodesPerPage >= 4

VARIABLES m,        \* the memory system
          mmap,     \* the boot memory map
          live,     \* the regions allocate returned and nobody freed: [base, size, flags, use]
          odd,      \* history: which of the four unusual events happened so far
          early,    \* history: pages given back while something used them
          calls     \* calls made so far, at most MaxCalls

vars == <<m, mmap, live, odd, early, calls>>

RW == {"r", "w"}

NoRegion == [base |-> 0, size |-> 0, flags |-> {}, alloc |-> FALSE]

Region(base, size, flags, alloc) ==
  [base |-> base, size |-> size, flags |-> flags, alloc |-> alloc]

\* address_in_vma_region, in uint64_t.
AddressIn(n, a) == a >= n.base /\ a < (n.base + n.size) % Word

\* node::find_node: the first node of the list that contains the address.
Containers(l, a) == {i \in DOMAIN l : AddressIn(l[i], a)}

InsertAfter(l, i, n) == SubSeq(l, 1, i) \o <<n>> \o SubSeq(l, i + 1, Len(l))

\* node::insert: before the first node with a larger base.
InsertSorted(l, n) ==
  InsertAfter(l, Cardinality({i \in DOMAIN l : l[i].base < n.base}), n)

-----------------------------------------------------------------------------

(* find_free_region: the first free node that is large enough, and that     *)
(* still is once the region being inserted (ignored) is cut off its front.  *)
FindFreeRegion(mem, size, flags, ignored) ==
  LET starts(i) == mem.vma[i].base = ignored.base
      fits == {i \in DOMAIN mem.vma :
                 /\ ~mem.vma[i].alloc
                 /\ mem.vma[i].size >= size
                 /\ starts(i) => (mem.vma[i].size - ignored.size) % Word >= size}
      i == Least(fits)
  IN  IF fits = {} THEN NoRegion
      ELSE Region(IF starts(i) THEN ignored.base + ignored.size ELSE mem.vma[i].base,
                  size, flags, TRUE)

PageMapped(mapped, page) ==
  IF ~mapped.ok THEN mapped
  ELSE [m |-> [SetPtePermissions(mapped.m, page.base, RW)
                 EXCEPT !.room = NodesPerPage - 1, !.pending = page],
        ok |-> TRUE]

NewListPage(mem, page) ==
  IF page = NoRegion THEN [m |-> mem, ok |-> FALSE]
  ELSE PageMapped(MapPage(mem, page.base, NoIndex), page)

\* A full list page is not replaced (a mutant of alloc_vma_node).
AllocFromFirstPage(mem, region) ==
  [m |-> [mem EXCEPT !.room = IF @ > 0 THEN @ - 1 ELSE 0], ok |-> mem.room > 0]

(* alloc_vma_node: room for one more node.  When the list page is full a    *)
(* new one is found, mapped and remembered as pending.                      *)
AllocVmaNode(mem, region) ==
  IF mem.room > 0 THEN [m |-> [mem EXCEPT !.room = @ - 1], ok |-> TRUE]
  ELSE NewListPage(mem, FindFreeRegion(mem, 1, RW, region))

\* A second node, if there was one.
AndNode(a, region) == IF a.ok THEN AllocVmaNode(a.m, region) ELSE a


(* check_for_vma_node_combination: node i is merged with its neighbours in  *)
(* the list that have its status and flags.                                 *)
Combine(l, i) ==
  LET same(j) == /\ j \in 1 .. Len(l) - 1
                 /\ l[j].alloc = l[j + 1].alloc /\ l[j].flags = l[j + 1].flags
      joined(s, j) == SubSeq(s, 1, j - 1)
                      \o <<[s[j] EXCEPT !.size = (@ + s[j + 1].size) % Word]>>
                      \o SubSeq(s, j + 2, Len(s))
  IN  IF same(i - 1) THEN joined(IF same(i) THEN joined(l, i) ELSE l, i - 1)
      ELSE IF same(i) THEN joined(l, i) ELSE l

Fault(mem, need) == IF mem.status = "ok" THEN [mem EXCEPT !.status = "fault", !.need = need] ELSE mem

\* The list of an allocation that succeeded, or the fault of a null node.
WithList(a, l, need) == IF a.ok THEN [a.m EXCEPT !.vma = l] ELSE Fault(a.m, need)

-----------------------------------------------------------------------------
(* insert_vma_region, without the pending list page. *)
InsertRegion(mem, r) ==
  LET l == mem.vma
      c == Least(Containers(l, r.base))
      n == l[c]
      rest == Region(r.base + r.size, (n.base + n.size - r.base - r.size) % Word,
                     n.flags, n.alloc)
      found == Containers(l, r.base) # {}
      sorted == InsertSorted(l, r)
      atFront == found /\ n.base = r.base
      atEnd   == found /\ (n.base + n.size) % Word = r.base + r.size
      node == AllocVmaNode(mem, r)
  IN  IF atFront /\ n.size = r.size THEN [mem EXCEPT !.vma[c] = r]
      ELSE WithList(IF found /\ ~atFront /\ ~atEnd THEN AndNode(node, rest) ELSE node,
             CASE ~found -> Combine(sorted, Least({i \in DOMAIN sorted : sorted[i] = r}))
               [] atFront -> Combine(InsertAfter([l EXCEPT ![c].base = @ + r.size,
                                                           ![c].size = (@ - r.size) % Word],
                                                 c - 1, r), c)
               [] ~atFront /\ atEnd ->
                    Combine(InsertAfter([l EXCEPT ![c].size = (@ - r.size) % Word], c, r), c + 1)
               [] OTHER ->
                    Combine(InsertAfter(InsertAfter([l EXCEPT ![c].size = r.base - n.base], c, r),
                                        c + 1, rest), c + 1), r.size + 1)

InsertPending(mem) ==
  IF mem.status # "ok" \/ mem.pending = NoRegion THEN mem
  ELSE InsertRegion([mem EXCEPT !.pending = NoRegion], mem.pending)

\* The pending list page is inserted last, and needs no further list page.
InsertVmaRegion(mem, r) == InsertPending(InsertRegion(mem, r))

-----------------------------------------------------------------------------
(* free_vma_region.  In the last case the region lies strictly inside its   *)
(* container: the container's new size is computed as base - region.base,   *)
(* which wraps, and the remainder from that size.                           *)
FreesInside(l, r) ==
  /\ Containers(l, r.base) # {}
  /\ LET n == l[Least(Containers(l, r.base))]
     IN  n.alloc /\ n.base # r.base /\ (n.base + n.size) % Word # r.base + r.size

\* Merge the container first, then the node after it, then the one after that.
CombineFreed(l, c, nodes) ==
  LET combined[k \in 0 .. nodes] ==
        IF k = 0 THEN Combine(l, c)
        ELSE LET s == combined[k - 1] IN Combine(s, c + k - (Len(l) - Len(s)))
  IN  combined[nodes]

FreeVmaRegion(mem, r) ==
  LET l == mem.vma
      c == Least(Containers(l, r.base))
      n == l[c]
      freed == Region(r.base, r.size, {}, FALSE)
      short == (n.base - r.base) % Word
      after == Region(r.base + r.size, (n.size - r.size) % Word, n.flags, TRUE)
      rest  == Region(r.base + r.size, (n.base + short - r.base - r.size) % Word, n.flags, TRUE)
  IN  IF Containers(l, r.base) = {} \/ ~n.alloc THEN mem
      ELSE IF n.base = r.base /\ n.size = r.size
      THEN [mem EXCEPT !.vma = Combine([l EXCEPT ![c] = freed], c)]
      ELSE IF n.base = r.base
      THEN WithList(AllocVmaNode(mem, after),
                    CombineFreed(InsertAfter([l EXCEPT ![c] = freed], c, after), c, 1), 1)
      ELSE IF ~FreesInside(l, r)
      THEN WithList(AllocVmaNode(mem, freed),
                    CombineFreed(InsertAfter([l EXCEPT ![c].size = (@ - r.size) % Word], c, freed),
                                 c, 1), 1)
      ELSE WithList(AndNode(AllocVmaNode(mem, rest), freed),
                    CombineFreed(InsertAfter(InsertAfter([l EXCEPT ![c].size = short], c, freed),
                                             c + 1, rest), c, 2), 1)

(* free: the region leaves the list, found or not, then every page is freed *)
(* and unmapped.                                                            *)
UnmapRange(f, base, size) ==
  LET done[i \in 0 .. size] ==
        IF i = 0 THEN f
        ELSE LET g == done[i - 1]
                 p == PhysicalPage(g, base + i - 1)
             IN  UnmapPage(IF p = 0 THEN g ELSE [g EXCEPT !.phys = FreePage(@, p)],
                           base + i - 1)
  IN  IF f.status # "ok" THEN f ELSE done[size]

FreePages(mem, base, size) ==
  UnmapRange(InsertPending(FreeVmaRegion(mem, Region(base, size, {}, TRUE))), base, size)

\* map_page, then set_pte_permissions.
Permitted(p, v, flags) == IF p.ok THEN [p EXCEPT !.m = SetPtePermissions(@, v, flags)] ELSE p

MapWith(mem, v, existing, flags) == Permitted(MapPage(mem, v, existing), v, flags)

(* allocate(region): the pages one by one, then the list.  When a page      *)
(* after the first cannot be mapped, the loop that reverts the others       *)
(* counts the wrong variable and never ends.                                *)
MapRegion(mem, r, existing) ==
  LET done[i \in 0 .. r.size] ==
        IF i = 0 THEN [m |-> mem, ok |-> TRUE]
        ELSE LET g == done[i - 1]
                 p == MapWith(g.m, r.base + i - 1,
                              IF existing = NoIndex THEN NoIndex ELSE existing + i - 1, r.flags)
             IN  IF ~g.ok THEN g
                 ELSE IF p.ok \/ i = 1 THEN p ELSE [p EXCEPT !.m.status = "hung"]
  IN  done[r.size]

\* allocate(size, flags, physical page): [m, the address or NoIndex].
Handed(mem, r) == [m |-> mem, at |-> IF mem.status = "ok" THEN r.base ELSE NoIndex]

EnterRegion(p, r) ==
  IF p.ok THEN Handed(InsertVmaRegion(p.m, r), r) ELSE [m |-> p.m, at |-> NoIndex]

AllocateIn(mem, r, existing) ==
  IF r = NoRegion THEN [m |-> mem, at |-> NoIndex]
  ELSE EnterRegion(MapRegion(mem, r, existing), r)

AllocateRegion(mem, size, flags, existing) ==
  AllocateIn(mem, FindFreeRegion(mem, size, flags, NoRegion), existing)

-----------------------------------------------------------------------------
(* Boot: physical_allocator::init parses the map, then virtual_allocator    *)
(* init builds the list from one free region, its first page being the      *)
(* first of BootRegions.                                                    *)
BootMemory(map, tail) ==
  LET p == PhysicalInit([bit |-> [i \in Bits |-> tail], next |-> 0], map, tail)
  IN  [phys |-> p.b, pte |-> <<>>, tab |-> BootTables, buf |-> <<>>,
       vma |-> <<Region(KernelBase, KernelSize, {}, FALSE)>>, room |-> NodesPerPage - 1,
       pending |-> NoRegion, brk |-> BrkStart, need |-> 0,
       status |-> IF p.at = NoIndex THEN "halt" ELSE "ok"]

VirtualInit(mem) ==
  LET first == MapPage(mem, BootRegions[1].base, NoIndex).m
      done[i \in 0 .. Len(BootRegions)] ==
        IF i = 0 THEN SetPtePermissions(first, BootRegions[1].base, RW)
        ELSE InsertVmaRegion(done[i - 1], BootRegions[i])
  IN  done[Len(BootRegions)]

Init ==
  /\ mmap \in MemoryMaps
  /\ \E tail \in TailBits :
       m = IF mmap = RunMap THEN VirtualInit(BootMemory(mmap, tail))
           ELSE [BootMemory(mmap, tail) EXCEPT !.tab = <<>>]
  /\ live = {} /\ odd = {} /\ early = {} /\ calls = 0

Running == /\ mmap = RunMap /\ m.status = "ok"
           /\ calls < MaxCalls /\ calls' = calls + 1

Allocate(size, flags, existing) ==
  /\ Running
  /\ \E a \in {AllocateRegion(m, size, flags, existing)} :
       /\ m' = a.m
       /\ live' = IF a.at = NoIndex THEN live
                  ELSE live \cup {[base |-> a.at, size |-> size, flags |-> flags,
                                   use |-> IF existing = NoIndex THEN "kernel" ELSE "device"]}
  /\ UNCHANGED <<mmap, odd, early>>

(* A driver maps the memory of its device, at boot.  The store through the  *)
(* null node of a page past the bitmap may also be compiled into a trap.    *)
MapDevice(page) ==
  \/ Allocate(1, RW, page)
  \/ /\ Running /\ page >= NPages
     /\ m' = [m EXCEPT !.status = "trap"]
     /\ odd' = odd \cup {"null"}
     /\ UNCHANGED <<mmap, live, early>>

(* A region is freed by its owner, and the user stack of a dead process by  *)
(* tasks_clean_task; device memory is never given back.                     *)
Free(r) ==
  /\ Running /\ r.use \in {"kernel", "dead"}
  /\ m' = FreePages(m, r.base, r.size)
  /\ live' = live \ {r}
  /\ odd' = IF FreesInside(m.vma, Region(r.base, r.size, {}, TRUE)) THEN odd \cup {"inside"} ELSE odd
  /\ UNCHANGED <<mmap, early>>

\* A page of a segment of a process image.
MapUserPage(v) ==
  /\ Running /\ v \notin DOMAIN m.pte
  /\ m' = MapWith(m, v, NoIndex, RW).m
  /\ UNCHANGED <<mmap, live, odd, early>>

(* The user stack: the wrapper of a new process maps the physical page of a *)
(* region that the kernel allocated for it, and keeps, a second time.       *)
MapUserStack(r) ==
  /\ Running /\ UserStack \notin DOMAIN m.pte
  /\ r.use = "kernel" /\ r.size = 1 /\ r.flags = RW
  /\ m' = MapWith(m, UserStack, PhysicalPage(m, r.base), RW).m
  /\ live' = (live \ {r}) \cup {[r EXCEPT !.use = "stack"]}
  /\ UNCHANGED <<mmap, odd, early>>

\* The walk looks at a stale entry after a gap (see FreedByWalk).
StaleEntry(mem) == 0 \in FreedByWalk(mem)

\* The physical pages that something uses: mappings, tables and the buffer.
UsedPages(mem) ==
  {mem.pte[v].page : v \in DOMAIN mem.pte}
  \cup {mem.tab[t] : t \in DOMAIN mem.tab} \cup {mem.buf[i] : i \in DOMAIN mem.buf}

(* kill_current_task frees the memory of the process, the page of its stack *)
(* included, which the kernel's region maps until the cleaner frees it too. *)
FreeUserMemory ==
  /\ Running /\ UserTables(m) # {}
  /\ m' = [FreeUserProcessPaging(m) EXCEPT !.brk = BrkStart]
  /\ live' = {IF r.use = "stack" THEN [r EXCEPT !.use = "dead"] ELSE r : r \in live}
  /\ odd' = IF StaleEntry(m) THEN odd \cup {"stale"} ELSE odd
  /\ early' = early \cup (FreedByWalk(m) \cap (UsedPages(m') \cup {0}))
  /\ UNCHANGED mmap

-----------------------------------------------------------------------------

(* scheduler::sbrk: pages are mapped when the break leaves its page (or     *)
(* starts), from the first page boundary at or after the old break, and     *)
(* unmapped, their physical pages kept, when it moves down.                 *)
GrowPages(brk, inc) ==
  IF brk \div 2 # (brk + inc) \div 2 \/ brk = BrkStart
  THEN {v \in 0 .. UserTop : 2 * v >= brk /\ 2 * v < brk + inc} ELSE {}

ShrinkPages(brk, inc) ==
  {v \in 0 .. UserTop : 2 * v >= brk + inc /\ 2 * v < brk}

MapPages(mem, S) ==
  LET low == Least(S)
      done[k \in 0 .. Cardinality(S)] ==
        IF k = 0 THEN [m |-> mem, ok |-> TRUE]
        ELSE LET g == done[k - 1]
             IN  IF g.ok THEN MapWith(g.m, low + k - 1, NoIndex, RW) ELSE g
  IN  done[Cardinality(S)]

Sbrk(inc) ==
  /\ Running /\ inc # 0
  /\ m.brk + inc >= BrkStart /\ m.brk + inc < BrkTop
  /\ IF inc > 0
     THEN \E p \in {MapPages(m, GrowPages(m.brk, inc))} :
            /\ m' = IF p.ok THEN [p.m EXCEPT !.brk = @ + inc] ELSE p.m
            /\ odd' = IF p.ok /\ m.brk # BrkStart /\ m.brk % 2 = 0 /\ inc < 2
                      THEN odd \cup {"hole"} ELSE odd
     ELSE /\ m' = [m EXCEPT !.pte = Drop(@, ShrinkPages(m.brk, inc)), !.brk = @ + inc]
          /\ UNCHANGED odd
  /\ UNCHANGED <<mmap, live, early>>

Next ==
  \/ \E size \in Sizes, flags \in Prots : Allocate(size, flags, NoIndex)
  \/ \E page \in DevicePages : MapDevice(page)
  \/ \E r \in live : Free(r)
  \/ \E v \in UserChoices : MapUserPage(v)
  \/ \E r \in live : MapUserStack(r)
  \/ FreeUserMemory
  \/ \E inc \in Incs : Sbrk(inc)

Spec == Init /\ [][Next]_vars

-----------------------------------------------------------------------------
(* Properties *)

\* Everything has its type; the bits past the last page are part of the nodes.
TypeOK ==
  /\ m.phys.bit \in [Bits -> BOOLEAN] /\ m.phys.next \in 0 .. NPages \div NodeBits
  /\ \A v \in DOMAIN m.pte : m.pte[v] \in [page : Nat, rw : BOOLEAN, nx : BOOLEAN]
  /\ \A i \in DOMAIN m.vma : m.vma[i].base \in Nat /\ m.vma[i].size \in 0 .. Word - 1
  /\ m.room \in 0 .. NodesPerPage /\ m.pending = NoRegion
  /\ m.status \in {"ok", "halt", "fault", "hung", "trap"} /\ m.need \in Nat
  /\ \A r \in live : r.use \in {"kernel", "device", "stack", "dead"}
  /\ odd \subseteq {"inside", "stale", "hole", "null"} /\ calls \in 0 .. MaxCalls

\* What uses a physical page: <<kind, where, page>>.
Uses ==
  {<<"page", v, m.pte[v].page>> : v \in DOMAIN m.pte}
  \cup {<<"table", t, m.tab[t]>> : t \in DOMAIN m.tab}
  \cup {<<"buffer", i, m.buf[i]>> : i \in DOMAIN m.buf}

\* The user stack and the kernel's mapping of the same page.
StackAlias(u, w) ==
  \E r \in live : r.use = "stack" /\ {<<u[1], u[2]>>, <<w[1], w[2]>>} =
                                     {<<"page", UserStack>>, <<"page", r.base>>}

\* A physical page of memory has one use at a time, a mapping, a page table or
\* the structures buffer, and its bit is set while it has one: alloc_page,
\* alloc_consecutive_pages and free_page hand no page out twice.  A user stack
\* is one page with two mappings.  Two kinds of pages can get a second owner,
\* and no others: the user stack of a dead process between the walk that frees
\* it and the cleaner that frees it again, and page 0, which the walk frees
\* for a process with a gap in its tables (free_user_process_paging).
PagesHaveOneUse ==
  LET sure == {u \in Uses : u[3] \notin early \cup DevicePages}
  IN  \A u \in sure : /\ m.phys.bit[u[3]]
                      /\ \A w \in sure : u[3] = w[3] => u = w \/ StackAlias(u, w)

\* Only the walk over a dead process gives back what is in use, and of it only
\* page 0 and user stacks that the cleaner has not freed yet.
GivenBackEarly ==
  [][\A p \in early' \ early :
       p = 0 \/ \E r \in live : r.use = "stack" /\ m.pte[r.base].page = p]_vars

\* Regions that allocate returned do not overlap, not even after a region
\* strictly inside a merged one was freed, as long as the list is intact (the
\* model keeps the list apart from the pages that hold it).
LiveRegionsDisjoint ==
    \A r, q \in live : r # q => r.base + r.size <= q.base \/ q.base + q.size <= r.base

\* A region that allocate returned is mapped, executable exactly when that was
\* asked for, and writable when that was.  (It can be written to as well when
\* only reading was asked for: see SetPtePermissions.)
LiveRegionsMapped ==
    \A r \in live : \A v \in r.base .. r.base + r.size - 1 :
      /\ v \in DOMAIN m.pte /\ m.pte[v].nx = ("x" \notin r.flags)
      /\ "w" \in r.flags => m.pte[v].rw

\* The list tiles the kernel's address range in order, and no free region
\* holds a mapped page, until a region strictly inside a merged one is freed:
\* the size of its container then wraps (free_vma_region), and after some more
\* calls a free region can hold a page that the list itself is stored in.
ListTilesKernelRange ==
  (m.status = "ok" /\ mmap = RunMap /\ "inside" \notin odd) =>
    /\ m.vma[1].base = KernelBase
    /\ \A i \in DOMAIN m.vma :
         m.vma[i].base + m.vma[i].size =
           IF i = Len(m.vma) THEN KernelBase + KernelSize ELSE m.vma[i + 1].base
    /\ \A i \in DOMAIN m.vma : ~m.vma[i].alloc =>
         (m.vma[i].base .. m.vma[i].base + m.vma[i].size - 1) \cap DOMAIN m.pte = {}

\* The allocator hangs or dereferences a null node only when it is out of
\* free pages, of consecutive ones for page tables, or of kernel addresses for
\* what was asked; with memory left it stops only at the null bit of device
\* memory past the last page (alloc_page).
StopsOnlyWhenFull ==
  m.status \in {"fault", "hung", "trap"} =>
    \/ SearchBit(m.phys, FALSE).at = NoIndex
    \/ Search(m.phys, BufPages, FALSE).at = NoIndex
    \/ \A i \in DOMAIN m.vma : m.vma[i].alloc \/ m.vma[i].size < m.need
    \/ m.status = "trap" /\ "null" \in odd

\* Every page of the heap below the program break is mapped (sbrk), unless a
\* break on a page boundary was moved by less than a page.
BreakIsMapped ==
  "hole" \notin odd =>
    \A v \in 0 .. UserTop : 2 * v >= BrkStart /\ 2 * v < m.brk => v \in DOMAIN m.pte

\* Pages that are marked used and that nothing uses.
Leaked(mem) ==
  LET boot == BootMemory(mmap, FALSE).phys.bit
      used == {mem.pte[v].page : v \in DOMAIN mem.pte}
              \cup {mem.tab[t] : t \in DOMAIN mem.tab}
              \cup {mem.buf[i] : i \in DOMAIN mem.buf}
  IN  {p \in (0 .. NPages - 1) \ used : mem.phys.bit[p] /\ ~boot[p]}

\* free gives back the physical page of every page it unmaps.
FreeLeaksNothing ==
  [][(live' # live /\ live' \subseteq live /\ m'.status = "ok") =>
       Leaked(m') \subseteq Leaked(m)]_vars

\* A dead process gives back all its pages; of its tables, only the last one
\* of each level can stay behind (free_user_process_paging frees a table when
\* it reaches the next entry), unless it had a gap.  A table page past the last
\* page of memory, which bitmap::search can hand out, is never freed.
DeadProcessPagesFreed ==
  [][(UserTables(m) # {} /\ UserTables(m') = {} /\ "stale" \notin odd') =>
       /\ \A v \in UserPages(m) : ~m'.phys.bit[m.pte[v].page]
       /\ \A k \in 1 .. 3 :
            Cardinality({t \in UserTables(m) :
                           t[1] = k /\ m.tab[t] < NPages /\ m'.phys.bit[m.tab[t]]}) <= 1]_vars

\* A range that starts in the second half of a node and ends inside the next:
\* bitmap::set then marks the whole next node.
OverFills(e) ==
  LET start == (e.base + 1) \div 2
      size  == IF e.base % 2 # 0 /\ e.size \div 2 # 0 THEN e.size \div 2 - 1 ELSE e.size \div 2
      s     == start % NodeBits
  IN  s > NodeBits \div 2 /\ size > NodeBits - s /\ size < 2 * NodeBits - s

\* After boot a free page of the early memory lies inside an available entry
\* of the memory map and in no other entry that follows it
\* (parse_memory_map_to_bitmap), unless an entry over-fills a node.
FreePagesAreAvailable ==
  (mmap # RunMap /\ \A i \in DOMAIN mmap : ~OverFills(mmap[i])) =>
    \A p \in 0 .. EarlyPages - 1 : ~m.phys.bit[p] =>
      \E i \in DOMAIN mmap :
        /\ mmap[i].type = "available"
        /\ mmap[i].base <= 2 * p /\ 2 * p + 2 <= mmap[i].base + mmap[i].size
        /\ \A j \in DOMAIN mmap : j > i /\ mmap[j].type # "available" =>
             2 * p >= mmap[j].base + mmap[j].size \/ 2 * p + 2 <= mmap[j].base

(***************************************************************************)
(* A physical page has one use, and among the pages of the early bitmap    *)
(* only those that the boot's memory map offers are free (physical_        *)
(* allocator).  The bits past the early bitmap start as junk.              *)
(***************************************************************************)
PagesAreSound ==
    /\ PagesHaveOneUse
    /\ FreePagesAreAvailable


(***************************************************************************)
(* free and free_user_process_paging give back the physical pages of what  *)
(* they unmap, and nothing that is still in use but user stacks and page 0.*)
(***************************************************************************)
MemoryIsGivenBack ==
    /\ FreeLeaksNothing
    /\ DeadProcessPagesFreed
    /\ GivenBackEarly
=============================================================================
