----------------------------- MODULE ByteStream -----------------------------
(***************************************************************************)
(* What a pipe promises: a sequence of at most Capacity bytes, that writes *)
(* make longer at its end and reads shorter at its front.                  *)
(***************************************************************************)
EXTENDS Integers, Sequences

CONSTANT Capacity

VARIABLE stream

StreamInit == stream = <<>>

Put ==
    /\ Len(stream') \in Len(stream)..Capacity
    /\ SubSeq(stream', 1, Len(stream)) = stream

Get == \E n \in 0..Len(stream) : stream' = SubSeq(stream, n + 1, Len(stream))

StreamSpec == StreamInit /\ [][Put \/ Get]_stream
=============================================================================
