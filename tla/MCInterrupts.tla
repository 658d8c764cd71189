---------------------------- MODULE MCInterrupts ----------------------------
(* Instances of Interrupts: the kernel's tasks and one user task. *)
EXTENDS Interrupts

CONSTANTS idle, main, clean, init, irq, user

MCKernelTasks == {idle, main, clean, init, irq}
MCTasks == MCKernelTasks \cup {user}
MCPriority == [t \in MCTasks |-> IF t \in MCKernelTasks THEN 1 ELSE 0]
=============================================================================
