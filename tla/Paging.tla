------------------------------- MODULE Paging -------------------------------
(***************************************************************************)
(* The paging manager (kernel/memory/paging_manager.cpp) over the physical *)
(* allocator: page tables of three levels below the PML4, the buffer new   *)
(* tables are taken from, and the walk that gives a dead process' memory   *)
(* back.                                                                   *)
(*                                                                         *)
(* The state of the memory system is one record m.  Here:                  *)
(*   m.phys  the bitmap of the physical pages;                             *)
(*   m.pte   the present page table entries: virtual page -> entry;        *)
(*   m.tab   the present tables: <<level, index>> -> physical page, level  *)
(*           1 a PDP table, 2 a page directory, 3 a page table;            *)
(*   m.buf   the physical pages left in the structures buffer, in order.   *)
(* Addresses are counted in pages.                                         *)
(***************************************************************************)
EXTENDS PhysicalAllocator

CONSTANTS Span,         \* pages under one entry of the PML4, a PDP, a PD
          UserTop,      \* USERLAND_MEMORY_BARRIER
          BufPages      \* STRUCTURES_BUFFER_SIZE / PAGE_SIZE

ASSUME PagingAssumption == /\ Span \in [1 .. 3 -> Nat \ {0}]
                           /\ UserTop \in Nat \ {0}
                           /\ BufPages \in 1 .. NodeBits - 1

Table(level, v) == <<level, v \div Span[level]>>

HasTables(m, v) == \A k \in 1 .. 3 : Table(k, v) \in DOMAIN m.tab

\* get_physical_address, as a page: 0 where nothing is mapped.
PhysicalPage(m, v) == IF v \in DOMAIN m.pte THEN m.pte[v].page ELSE 0

Put(f, x, y) == [z \in DOMAIN f \cup {x} |-> IF z = x THEN y ELSE f[z]]

Drop(f, S) == [z \in DOMAIN f \ S |-> f[z]]

-----------------------------------------------------------------------------
(* Mapping *)

(* map_page with a buffer: each missing table takes the next page of the    *)
(* buffer; when the buffer runs out the tables made so far stay.  A new     *)
(* entry is read-only and not executable.                                   *)
MapInto(m, v, page) ==
  LET made[k \in 0 .. 3] ==
        IF k = 0 THEN [m |-> m, ok |-> TRUE]
        ELSE LET r == made[k - 1]
             IN  IF ~r.ok \/ Table(k, v) \in DOMAIN r.m.tab THEN r
                 ELSE IF r.m.buf = <<>> THEN [r EXCEPT !.ok = FALSE]
                 ELSE [r EXCEPT !.m.tab = Put(@, Table(k, v), Head(r.m.buf)),
                                !.m.buf = Tail(@)]
      t == made[3]
  IN  IF t.ok
      THEN [t EXCEPT !.m.pte = Put(@, v, [page |-> page, rw |-> FALSE, nx |-> TRUE])]
      ELSE t

(* allocate_structures_buffer: consecutive pages; on failure the (empty)    *)
(* buffer stays as it was.                                                  *)
BufferOf(m, a) ==
  IF a.at = NoIndex THEN m
  ELSE [m EXCEPT !.phys = a.b, !.buf = [i \in 1 .. BufPages |-> a.at + i - 1]]

AllocateStructuresBuffer(m) == BufferOf(m, AllocConsecutivePages(m.phys, BufPages))

(* free_structures_buffer: the buffer is unmapped and its pages keep their  *)
(* bits; the pages that became tables stay in use.                          *)
FreeStructuresBuffer(m) == [m EXCEPT !.buf = <<>>]

(* map_page: the page is taken first and is not given back when the tables  *)
(* cannot be made, not even after the buffer was renewed once.              *)
Retried(first, v, page) ==
  IF first.ok THEN first
  ELSE MapInto(AllocateStructuresBuffer(FreeStructuresBuffer(first.m)), v, page)

MapTaken(m, v, page) ==
  Retried(IF m.buf = <<>> THEN [m |-> m, ok |-> FALSE] ELSE MapInto(m, v, page), v, page)

MapFound(m, v, a) ==
  IF a.at = NoIndex THEN [m |-> m, ok |-> FALSE]
  ELSE MapTaken([m EXCEPT !.phys = a.b], v, a.at)

MapPage(m, v, existing) == MapFound(m, v, AllocPage(m.phys, existing))

UnmapPage(m, v) == IF HasTables(m, v) THEN [m EXCEPT !.pte = Drop(@, {v})] ELSE m

(* set_pte_permissions: without any flag the entry is no longer present;    *)
(* with read or write alone it becomes writable, since the first test       *)
(* matches either flag.                                                     *)
SetPtePermissions(m, v, flags) ==
  IF ~HasTables(m, v) \/ v \notin DOMAIN m.pte THEN m
  ELSE IF flags = {} THEN UnmapPage(m, v)
  ELSE [m EXCEPT !.pte[v].rw = IF flags \cap {"r", "w"} # {} THEN TRUE ELSE @,
                 !.pte[v].nx = "x" \notin flags]

-----------------------------------------------------------------------------
\* Only the tables are freed (a mutant of the walk).
WalkFreesTables(m) == {m.tab[t] : t \in {u \in DOMAIN m.tab : u[2] * Span[u[1]] < UserTop}}

(* free_user_process_paging: the physical pages the walk over the user      *)
(* addresses frees.  A table is freed on reaching the entry after it, and   *)
(* then only if the entry the walk last looked at was present (h1, h2, h3   *)
(* stand for the non-null pml4e, pdpe, pde).                                *)
FreedByWalk(m) ==
  LET present(k, a) == Table(k, a) \in DOMAIN m.tab
      before(k, a)  == {IF present(k, a - Span[k]) THEN m.tab[Table(k, a - Span[k])] ELSE 0}
      at(k, a)      == a % Span[k] = 0
      walk[a \in 0 .. UserTop, h1 \in BOOLEAN, h2 \in BOOLEAN, h3 \in BOOLEAN] ==
        LET f1 == IF at(1, a) /\ h1 THEN before(1, a) ELSE {}
            f2 == IF at(2, a) /\ h2 THEN before(2, a) ELSE {}
            f3 == IF at(3, a) /\ h3 THEN before(3, a) ELSE {}
        IN  IF a >= UserTop THEN {}
            ELSE IF ~present(1, a) THEN f1 \cup walk[a + Span[1], FALSE, h2, h3]
            ELSE IF ~present(2, a) THEN f1 \cup f2 \cup walk[a + Span[2], TRUE, FALSE, h3]
            ELSE IF ~present(3, a) THEN f1 \cup f2 \cup f3 \cup walk[a + Span[3], TRUE, TRUE, FALSE]
            ELSE f1 \cup f2 \cup f3 \cup (IF a \in DOMAIN m.pte THEN {m.pte[a].page} ELSE {})
                 \cup walk[a + 1, TRUE, TRUE, TRUE]
  IN  walk[0, FALSE, FALSE, FALSE]

UserPages(m) == {v \in DOMAIN m.pte : v < UserTop}

UserTables(m) == {t \in DOMAIN m.tab : t[2] * Span[t[1]] < UserTop}

\* The pages are freed in the bitmap and the address space is discarded.
FreeUserProcessPaging(m) ==
  LET freed == FreedByWalk(m)
  IN  [m EXCEPT !.phys.bit = [i \in DOMAIN @ |-> @[i] /\ ~(i \in freed /\ i < NPages)],
                !.pte = Drop(@, UserPages(m)),
                !.tab = Drop(@, UserTables(m))]

=============================================================================
