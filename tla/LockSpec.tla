------------------------------ MODULE LockSpec ------------------------------
(***************************************************************************)
(* What threading::mutex promises: at most one owner, and waiters that are *)
(* served in the order in which they queued.  unlock() hands the mutex to  *)
(* the first waiter without setting it free, so that nobody gets between.  *)
(***************************************************************************)
EXTENDS Sequences

CONSTANT Threads

VARIABLES owners, waiters

LockInit == owners = {} /\ waiters = <<>>

Acquire(t) == owners = {} /\ owners' = {t} /\ UNCHANGED waiters

Wait(t) == t \notin owners /\ waiters' = Append(waiters, t) /\ UNCHANGED owners

Release(t) == owners = {t} /\ owners' = {} /\ UNCHANGED waiters

HandOver(t) ==
    /\ waiters # <<>>
    /\ owners = {t} /\ owners' = {Head(waiters)}
    /\ waiters' = Tail(waiters)

LockNext == \E t \in Threads : Acquire(t) \/ Wait(t) \/ Release(t) \/ HandOver(t)

LockSafety == LockInit /\ [][LockNext]_<<owners, waiters>>
=============================================================================
