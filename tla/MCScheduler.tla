----------------------------- MODULE MCScheduler -----------------------------
(* An instance of Scheduler: the kernel's own tasks and two user tasks. *)
EXTENDS Scheduler

CONSTANTS idle, main, clean, init, user1, user2

MCKernelTasks == {idle, main, clean, init}
MCTasks == MCKernelTasks \cup {user1, user2}

MCPriority == [t \in MCTasks |-> IF t \in MCKernelTasks THEN 1 ELSE 0]
=============================================================================
