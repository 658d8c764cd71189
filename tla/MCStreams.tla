----------------------------- MODULE MCStreams -----------------------------
(***************************************************************************)
(* A pipe, the terminals and the drive: in each behaviour one of them      *)
(* works, and the others rest.                                             *)
(***************************************************************************)
EXTENDS Pipe, Tty, Ata

R(n) == [op |-> "read", count |-> n]
W(n) == [op |-> "write", count |-> n]
C == [op |-> "close", count |-> 0]

\* Task a reads, b and c write.
PipeRun(a, b, c, signals, preemptions) ==
    [end |-> [t \in Users |-> IF t = "a" THEN "r" ELSE "w"],
     calls |-> [t \in Users |-> IF t = "a" THEN a ELSE IF t = "b" THEN b ELSE c],
     signals |-> signals, preemptions |-> preemptions]

MCPipeScripts ==
    {PipeRun(<<R(2), R(1), C>>, <<W(2), W(1), C>>, <<W(1), C>>, s, 0) : s \in {0, 1}}
    \cup {PipeRun(<<R(2), R(2)>>, <<W(3), C>>, <<W(1)>>, s, 0) : s \in {1, 2}}
    \cup {PipeRun(<<R(1), C>>, <<W(3), C>>, <<C>>, s, p) : s, p \in {0, 1}}
    \cup {PipeRun(<<R(1), R(3), R(1)>>, <<W(1), W(2), C>>, <<C>>, 0, 0)}

\* Every program has its standard files on terminal 2.
TtyScript(keys, r, s, w, stops) ==
    [active |-> 2, on |-> [p \in Programs |-> 2], keys |-> keys,
     calls |-> [p \in Programs |-> IF p = "r" THEN r ELSE IF p = "s" THEN s ELSE w], stops |-> stops]

K(kind) == Key(kind, 0)
F(n) == Key("switch", n)

MCTtyScripts ==
    {TtyScript(<<K("char"), K("enter"), K("back")>>, 2, 0, 0, 0),
     TtyScript(<<K("enter"), K("enter")>>, 1, 1, 0, 0),
     TtyScript(<<K("enter"), K("intr")>>, 1, 1, 0, 1),
     TtyScript(<<F(1), K("char"), F(2), K("enter")>>, 1, 0, 0, 1),
     TtyScript(<<K("char"), F(3), F(1)>>, 0, 0, 1, 0),
     TtyScript(<<F(3), F(3), F(2)>>, 0, 0, 3, 0),
     TtyScript(<<F(3), F(1), F(2)>>, 0, 0, 1, 1),
     TtyScript(<<F(3), F(2), K("enter")>>, 1, 0, 0, 1)}

A(type, n, i) == [type |-> type, count |-> n, interruptible |-> i]

AtaRun(a, b, signals, faults, slow) ==
    [calls |-> [t \in AtaTasks |-> IF t = "a" THEN a ELSE b], signals |-> signals, faults |-> faults, slow |-> slow]

MCAtaScripts ==
    {AtaRun(<<A("write", 2, TRUE)>>, <<A("read", 2, TRUE)>>, 1, f, 0) : f \in {0, 1}}
    \cup {AtaRun(<<A("write", 1, FALSE)>>, <<A("read", 2, FALSE)>>, 1, 0, 1),
          AtaRun(<<A("write", 1, FALSE), A("write", 1, TRUE)>>, <<>>, 0, 1, 0)}

\* Scripts without a call, a key and an access
NoPipeCalls == PipeRun(<<>>, <<>>, <<>>, 0, 0)
NoKeys == TtyScript(<<>>, 0, 0, 0, 0)
NoAccesses == AtaRun(<<>>, <<>>, 0, 0, 0)

MCPipes == MCPipeScripts \cup {NoPipeCalls}
MCTtys == MCTtyScripts \cup {NoKeys}
MCAccesses == MCAtaScripts \cup {NoAccesses}

\* Exactly one of the three has something to do.
MCInit ==
    /\ PipeInit /\ TtyInit /\ AtaInit
    /\ Cardinality({x \in 1..3 : <<todo # NoPipeCalls, coming # NoKeys, still # NoAccesses>>[x]}) = 1

MCNext ==
    \/ PipeNext /\ UNCHANGED <<ttyVars, ataVars>>
    \/ TtyNext /\ UNCHANGED <<pipeVars, ataVars>>
    \/ AtaNext /\ UNCHANGED <<pipeVars, ttyVars>>

MCSpec ==
    /\ MCInit /\ [][MCNext]_<<pipeVars, ttyVars, ataVars>>
    /\ PipeFairness /\ TtyFairness /\ AtaFairness
=============================================================================
