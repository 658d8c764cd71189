------------------------- MODULE PhysicalAllocator -------------------------
(***************************************************************************)
(* The bitmap (include/kernel/structures/bitmap.h) and the physical page   *)
(* allocator that keeps one bit per page in it                             *)
(* (kernel/memory/physical_allocator.cpp).                                 *)
(*                                                                         *)
(* A bitmap value is a record: bit, the bits of every node that the code   *)
(* can read, the node after the last full one included, and next, the      *)
(* cached node the next search starts from (_next_search_node).  The code  *)
(* takes no lock here: an operator is one call.                            *)
(***************************************************************************)
EXTENDS Integers, FiniteSets, Sequences

CONSTANTS NodeBits,     \* BITS_PER_NODE
          NPages,       \* _size: the number of bits the bitmap stands for
          EarlyPages,   \* EARLY_BITMAP_SIZE: the pages of the early bitmap
          BitmapPages   \* pages the bitmap itself occupies

ASSUME BitmapAssumption == /\ {NodeBits, NPages, BitmapPages} \subseteq Nat \ {0}
                           /\ EarlyPages \in 1 .. NPages

\* uint64_t arithmetic wraps at 2^64; a smaller word keeps it in TLC's range.
Word == 2^16

\* Every bit of the nodes 0 .. _size / BITS_PER_NODE, which search reads.
Bits == 0 .. (NPages \div NodeBits + 1) * NodeBits - 1

Least(S) == CHOOSE x \in S : \A y \in S : x <= y

\* No bit found.
NoIndex == -1

-----------------------------------------------------------------------------
(* bitmap::set of a range: the tail of the first node bit by bit, then the  *)
(* full nodes, then the rest bit by bit.  The number of full nodes is       *)
(* computed in uint64_t.                                                    *)
FullNodes(start, size) ==
  ((size - (start % NodeBits) - ((start + size) % NodeBits)) % Word) \div NodeBits

SetRange(b, start, size, v) ==
  LET inFirst == start % NodeBits
      head  == IF inFirst = 0 THEN 0
               ELSE IF size < NodeBits - inFirst THEN size ELSE NodeBits - inFirst
      node0 == start \div NodeBits + (IF inFirst = 0 THEN 0 ELSE 1)
      nodes == FullNodes(start, size)
      full  == Least({nodes, NPages \div NodeBits,
                      (size - head + NodeBits - 1) \div NodeBits})
      rest  == size - head - full * NodeBits
      set   == (start .. start + head - 1)
               \cup (node0 * NodeBits .. (node0 + full) * NodeBits - 1)
               \cup ((node0 + nodes) * NodeBits .. (node0 + nodes) * NodeBits + rest - 1)
  IN  IF start > NPages THEN b
      ELSE [b EXCEPT !.bit = [i \in DOMAIN @ |-> IF i \in set THEN v ELSE @[i]]]

SetBit(b, i, v) == IF i < NPages THEN [b EXCEPT !.bit[i] = v] ELSE b

(* The private search: the first node of from .. to at which size bits with *)
(* the value v begin; a batch starts at a node boundary, and node `to' is   *)
(* read although it may lie past the last bit.                              *)
Batches(b, from, to, size, v) ==
  {n \in from .. to : /\ (n * NodeBits + size - 1) \div NodeBits <= to
                      /\ \A i \in n * NodeBits .. n * NodeBits + size - 1 : b.bit[i] = v}

\* bitmap::search: from the cached node to the end, then from the beginning.
Search(b, size, v) ==
  LET late  == Batches(b, b.next, NPages \div NodeBits, size, v)
      early == IF b.next = 0 THEN {} ELSE Batches(b, 0, b.next, size, v)
      n     == Least(IF late # {} THEN late ELSE early)
  IN  IF late \cup early = {} THEN [b |-> b, at |-> NoIndex]
      ELSE [b |-> [b EXCEPT !.next = n + size \div NodeBits], at |-> n * NodeBits]

(* bitmap::search_bit: the same for one bit.  The second search ends where  *)
(* the cached node begins: not past the last page, as long as a batch is    *)
(* shorter than a node (see TypeOK of VirtualAllocator for b.next).         *)
SearchBit(b, v) ==
  LET late  == {i \in b.next * NodeBits .. NPages - 1 : b.bit[i] = v}
      early == {i \in 0 .. b.next * NodeBits - 1 : b.bit[i] = v}
      i     == Least(IF late # {} THEN late ELSE early)
  IN  IF late \cup early = {} THEN [b |-> b, at |-> NoIndex]
      ELSE [b |-> [b EXCEPT !.next = i \div NodeBits], at |-> i]

-----------------------------------------------------------------------------
(* physical_allocator *)

\* The bit that a search found is set.
MarkFound(s) == IF s.at = NoIndex THEN s ELSE [s EXCEPT !.b = SetBit(@, s.at, TRUE)]

\* A page is found free and not marked used (a mutant of alloc_page).
AllocPageUnmarked(b, existing) ==
  IF existing >= 0 THEN [b |-> SetBit(b, existing, TRUE), at |-> existing]
  ELSE SearchBit(b, FALSE)

(* alloc_page: the page asked for, whatever its bit says, or a free one.    *)
(* operator[] makes a bit with a null node for a page past the last one:    *)
(* the bit is then stored in the first word of memory, which the boot's     *)
(* tables map (see MapDevice for the other outcome).                        *)
AllocPage(b, existing) ==
  IF existing >= 0 THEN [b |-> SetBit(b, existing, TRUE), at |-> existing]
  ELSE MarkFound(SearchBit(b, FALSE))

MarkFoundRange(s, amount) ==
  IF s.at = NoIndex THEN s ELSE [s EXCEPT !.b = SetRange(@, s.at, amount, TRUE)]

AllocConsecutivePages(b, amount) == MarkFoundRange(Search(b, amount, FALSE), amount)

FreePage(b, page) == SetBit(b, page, FALSE)

(* parse_memory_map_to_bitmap: everything is used, then each entry of the   *)
(* boot memory map in turn.  base and size are in half pages, so that an    *)
(* entry may start or end inside a page.                                    *)
MarkEntry(b, e) ==
  LET unaligned == e.base % 2 # 0
  IN  IF e.type = "available"
      THEN SetRange(b, e.base \div 2 + (IF unaligned THEN 1 ELSE 0),
                    IF unaligned /\ e.size \div 2 # 0 THEN e.size \div 2 - 1 ELSE e.size \div 2,
                    FALSE)
      ELSE SetRange(b, e.base \div 2, (e.size + 1) \div 2, TRUE)

ParseMemoryMap(b, mmap) ==
  LET marked[k \in 0 .. Len(mmap)] ==
        IF k = 0 THEN SetRange(b, 0, NPages, TRUE) ELSE MarkEntry(marked[k - 1], mmap[k])
  IN  marked[Len(mmap)]

(* init: in the early bitmap, pages for the bitmap and then a page for the  *)
(* tables that map it; the machine halts (at is NoIndex) without them.      *)
(* Then the map is parsed into the bitmap itself and the early bitmap is    *)
(* copied over it: EARLY_BITMAP_SIZE is its number of bits but is taken for *)
(* the number of bytes, so that eight times as many bits are overwritten,   *)
(* with what the stack holds behind the early bitmap (junk).                *)
PhysicalInit(b, mmap, junk) ==
  LET parsed == ParseMemoryMap(b, mmap)
      chunks == Batches(parsed, 0, EarlyPages \div NodeBits, BitmapPages, FALSE)
      chunk  == Least(chunks) * NodeBits
      marked == SetRange(parsed, chunk, BitmapPages, TRUE)
      left   == {i \in 0 .. EarlyPages - 1 : ~marked.bit[i]}
      early  == SetBit(marked, Least(left), TRUE)
  IN  IF chunks = {} \/ left = {} THEN [b |-> parsed, at |-> NoIndex]
      ELSE [b  |-> [parsed EXCEPT !.bit = [i \in DOMAIN @ |->
                      IF i < EarlyPages THEN early.bit[i]
                      ELSE IF i < 8 * EarlyPages THEN junk ELSE @[i]]],
            at |-> chunk]

=============================================================================
