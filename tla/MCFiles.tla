------------------------------ MODULE MCFiles ------------------------------
(***************************************************************************)
(* The files of processes, and in other behaviours a hash_map on its own.  *)
(***************************************************************************)
EXTENDS Files, HashMap, TLC

VARIABLE part        \* which of the two runs

MCSymmetry == Permutations(Started)

\* Files that two processes open, write and unlink; dup and pipe; fork, exec and exit.
MCBudgets ==
    { [open |-> 3, close |-> 2, unlink |-> 1, io |-> 0, dup |-> 0, pipe |-> 0, life |-> 0],
      [open |-> 2, close |-> 1, unlink |-> 0, io |-> 2, dup |-> 0, pipe |-> 0, life |-> 0],
      [open |-> 1, close |-> 2, unlink |-> 0, io |-> 0, dup |-> 2, pipe |-> 1, life |-> 0],
      [open |-> 0, close |-> 1, unlink |-> 0, io |-> 0, dup |-> 1, pipe |-> 1, life |-> 2],
      [open |-> 0, close |-> 2, unlink |-> 0, io |-> 0, dup |-> 2, pipe |-> 0, life |-> 1],
      [open |-> 0, close |-> 2, unlink |-> 0, io |-> 0, dup |-> 0, pipe |-> 1, life |-> 2],
      [open |-> 1, close |-> 1, unlink |-> 1, io |-> 0, dup |-> 1, pipe |-> 0, life |-> 1],
      [open |-> 1, close |-> 0, unlink |-> 0, io |-> 2, dup |-> 0, pipe |-> 0, life |-> 3] }

NoCalls == [open |-> 0, close |-> 0, unlink |-> 0, io |-> 0, dup |-> 0, pipe |-> 0, life |-> 0]
MCCalls == MCBudgets \cup {NoCalls}

MCInit ==
    /\ Init /\ HashInit
    /\ part = IF left = NoCalls THEN "map" ELSE "files"

MCNext ==
    /\ UNCHANGED part
    /\ \/ part = "files" /\ Next /\ UNCHANGED hashVars
       \/ part = "map" /\ HashNext /\ UNCHANGED vars

MCSpec == MCInit /\ [][MCNext]_<<vars, hashVars, part>>
=============================================================================
