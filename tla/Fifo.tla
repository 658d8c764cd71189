-------------------------------- MODULE Fifo --------------------------------
(***************************************************************************)
(* structures::fifo, the ring buffer of a pipe: head and tail count bytes, *)
(* and are brought back into the buffer when tail is behind head in it.    *)
(***************************************************************************)
EXTENDS Integers, Sequences

CONSTANT BufSize        \* _max_size: PIPE_BUFFER_SIZE for a pipe

ASSUME BufSizeAssumption == BufSize \in Nat \ {0}

NewFifo == [buf |-> [i \in 0..(BufSize - 1) |-> <<>>], head |-> 0, tail |-> 0]

CurrentSize(f) == f.tail - f.head

\* The bytes in the buffer, the oldest first
Contents(f) == [k \in 1..CurrentSize(f) |-> f.buf[(f.head + k - 1) % BufSize]]

Normalised(f) ==
    IF f.tail % BufSize > f.head % BufSize
    THEN [f EXCEPT !.tail = @ % BufSize, !.head = @ % BufSize] ELSE f

\* Mutant of Push: the bytes go to the start of the buffer.
PushAtStart(f, data) ==
    IF CurrentSize(f) + Len(data) > BufSize THEN f
    ELSE Normalised([f EXCEPT !.tail = @ + Len(data),
                              !.buf = [c \in 0..(BufSize - 1) |-> IF c < Len(data) THEN data[c + 1] ELSE @[c]]])

\* push: nothing if there is no room for all of it
Push(f, data) ==
    IF CurrentSize(f) + Len(data) > BufSize THEN f
    ELSE Normalised([f EXCEPT !.tail = @ + Len(data),
                              !.buf = [c \in 0..(BufSize - 1) |->
                                 LET k == (c - f.tail) % BufSize
                                 IN  IF k < Len(data) THEN data[k + 1] ELSE @[c]]])

\* pop: the bytes are the first of Contents(f)
Pop(f, n) ==
    IF CurrentSize(f) < n THEN f ELSE Normalised([f EXCEPT !.head = @ + n])
=============================================================================
