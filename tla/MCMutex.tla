------------------------------ MODULE MCMutex ------------------------------
(* Three threads that use one mutex: an owner, a waiter and a third one. *)
EXTENDS Mutex

CONSTANTS a, b, c

MCThreads == {a, b, c}
=============================================================================
