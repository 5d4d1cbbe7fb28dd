------------------------------- MODULE Channel -------------------------------
(***************************************************************************)
(* What a pipe promises its readers and writers: a bounded queue of bytes. *)
(* Bytes come out in the order they went in, none is lost or repeated, the *)
(* end of file is seen only when the queue has been emptied, and after it  *)
(* has been closed an end stays closed.                                    *)
(***************************************************************************)
EXTENDS Naturals, Sequences

CONSTANTS
    Byte,          \* what a byte may be
    Capacity,      \* bytes a pipe holds
    MaxIO          \* bound: the longest buffer given to read() or write()

VARIABLES
    queue,         \* the bytes written and not yet read
    readable,      \* the read end is open
    writable,      \* the write end is open
    ret            \* what the last step returned to the caller, if it did

vars == <<queue, readable, writable, ret>>

Nothing == [call |-> "none", data |-> <<>>]
Buffers == UNION {[1..n -> Byte] : n \in 0..MaxIO}
Least(m, n) == IF m < n THEN m ELSE n

\* There is no pipe yet.
Init == queue = <<>> /\ ~readable /\ ~writable /\ ret = Nothing

\* As much of the buffer as fits is written.
Put ==
    /\ readable
    /\ \E buf \in Buffers :
          LET n == Least(Capacity - Len(queue), Len(buf)) IN
          /\ queue' = queue \o SubSeq(buf, 1, n)
          /\ ret' = [call |-> "write", data |-> SubSeq(buf, 1, n)]
    /\ UNCHANGED <<readable, writable>>

\* The oldest bytes are read.
Take ==
    /\ queue # <<>>
    /\ \E sz \in 0..MaxIO :
          LET n == Least(Len(queue), sz) IN
          /\ ret' = [call |-> "read", data |-> SubSeq(queue, 1, n)]
          /\ queue' = SubSeq(queue, n + 1, Len(queue))
    /\ UNCHANGED <<readable, writable>>

EndOfFile ==
    /\ queue = <<>> /\ ~writable
    /\ ret' = [call |-> "eof", data |-> <<>>]
    /\ UNCHANGED <<queue, readable, writable>>

BrokenPipe ==
    /\ ~readable
    /\ ret' = [call |-> "EPIPE", data |-> <<>>]
    /\ UNCHANGED <<queue, readable, writable>>

Close ==
    /\ readable' \in {readable, FALSE}
    /\ writable' \in {writable, FALSE}
    /\ ret' = Nothing
    /\ UNCHANGED queue

\* A new pipe takes the place of one that nobody can use any more.
Renew ==
    /\ ~readable /\ ~writable
    /\ queue' = <<>> /\ readable' /\ writable' /\ ret' = Nothing

Next == Put \/ Take \/ EndOfFile \/ BrokenPipe \/ Close \/ Renew

Spec == Init /\ [][Next]_vars
=============================================================================
