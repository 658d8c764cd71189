----------------------------- MODULE MCHeapLock -----------------------------
(* Two threads that allocate. *)
EXTENDS HeapLock

CONSTANTS a, b

MCThreads == {a, b}
=============================================================================
