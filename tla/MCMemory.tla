------------------------------ MODULE MCMemory ------------------------------
(***************************************************************************)
(* A small machine: 30 pages in nodes of 4 bits, nine pages of kernel      *)
(* addresses, sixteen of user addresses under tables of two entries.       *)
(***************************************************************************)
EXTENDS Heap, TLC

MCSpan == <<8, 4, 2>>

MCBootRegions ==
  <<Region(KernelBase, 1, RW, TRUE), Region(KernelBase + 2, 1, {"r", "w", "x"}, TRUE),
    Region(KernelBase, 1, RW, TRUE)>>

\* The tables of the first kernel pages, in the kernel's own pages 2 to 5.
MCBootTables ==
  [t \in {<<1, 5>>, <<2, 10>>, <<3, 20>>, <<3, 21>>} |->
     CASE t = <<1, 5>> -> 2 [] t = <<2, 10>> -> 3 [] t = <<3, 20>> -> 4 [] OTHER -> 5]

Entry(base, size, type) == [base |-> base, size |-> size, type |-> type]

MCRunMap == <<Entry(0, 60, "available"), Entry(0, 4, "reserved"), Entry(4, 8, "kernel")>>

\* The run's map, and maps with one available range and one kernel range.
MCMemoryMaps ==
  {MCRunMap} \cup
  {<<Entry(b, s, "available"), Entry(kb, ks, "kernel")>> :
     b \in 0 .. 9, s \in {1, 4, 7, 10, 15}, kb \in {2, 6, 8}, ks \in {3, 6}}

MCProts == {RW, {"r", "x"}}

MCIncs == {-1, 1, 2}

HeapSymmetry == Permutations(HeapThreads)

=============================================================================
