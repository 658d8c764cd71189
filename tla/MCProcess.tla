----------------------------- MODULE MCProcess -----------------------------
(***************************************************************************)
(* Process for TLC, with two forks and one event or one fork and three     *)
(* events; and Signals, with up to three signals and calls or with four    *)
(* signals, three of which can wait in a queue while a handler runs.       *)
(* In a behaviour one of the two takes steps.                              *)
(***************************************************************************)
EXTENDS Process, Signals

VARIABLE part

MCBudgets == {[births |-> 2, events |-> 1], [births |-> 1, events |-> 3]}

Action(handler, mask, reset, nodefer) ==
    [handler |-> handler, mask |-> mask, reset |-> reset, nodefer |-> nodefer]

MCActions == {Action("dfl", {}, FALSE, FALSE), Action("fn", {}, FALSE, FALSE),
              Action("ign", {}, FALSE, TRUE), Action("fn", {"b"}, TRUE, TRUE)}
MCSignals == {[sent |-> 2, calls |-> 1], [sent |-> 1, calls |-> 2], [sent |-> 4, calls |-> 0]}

MCInit ==
    /\ Init /\ SignalsInit
    /\ part \in {"process", "signals"}
    /\ part = "process" => budget = (CHOOSE b \in MCSignals : TRUE)
    /\ part = "process" => sp.disp = [s \in Sigs |-> CHOOSE a \in MCActions : TRUE]
    /\ part = "signals" => left = CHOOSE b \in MCBudgets : TRUE

MCNext ==
    /\ UNCHANGED part
    /\ \/ part = "process" /\ Next /\ UNCHANGED signalVars
       \/ part = "signals" /\ SignalsNext /\ UNCHANGED vars

MCSpec == MCInit /\ [][MCNext]_<<vars, signalVars, part>> /\ WF_vars(CleanerStep)
=============================================================================
