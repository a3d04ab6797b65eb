---------------------------- MODULE UpstreamRead ----------------------------
(***************************************************************************)
(* The read/write facade of an upstream connection (h2d_upstream.c,       *)
(* connection_read, connection_read_notfinish and connection_write) and   *)
(* the request that drives it.                                             *)
(*                                                                         *)
(* A byte is named by its position in the peer's answer, so a byte that is *)
(* lost, repeated or reordered on its way through preread_buf shows in the *)
(* sequences.  The socket (loop_stream_read/write, outside src/) behaves   *)
(* like recv/send on a non-blocking stream: a read takes what has arrived, *)
(* up to the buffer; with nothing arrived it would block, or fails once    *)
(* the peer has closed.                                                    *)
(*                                                                         *)
(* The caller (the proxy module, outside src/) is modelled from spec 4.4:  *)
(* it writes the request, then reads with a buffer of some size, consumes  *)
(* a prefix of what it got and hands the rest back with read_notfinish.   *)
(* On H2D_ERROR it destroys the connection (spec 7, IOError).              *)
(***************************************************************************)
EXTENDS Naturals, Sequences, SequencesExt

CONSTANTS
    StreamLen,  \* the number of bytes the peer answers with
    ReqLen,     \* the length of the request written on the connection
    BufLens     \* the buffer sizes the caller reads with

ASSUME BufLens \subseteq 1..StreamLen

VARIABLES
    wrote,      \* request bytes loop_stream_write has accepted
    arrived,    \* answer bytes the peer has sent into the socket
    eof,        \* the peer has closed its side
    sockPos,    \* answer bytes loop_stream_read has taken from the socket
    pre,        \* upc->preread_buf[0 .. preread_len-1]; <<>> when it is NULL
    held,       \* the caller's buffer: bytes the last read returned, not yet dealt with
    consumed,   \* the bytes the caller has consumed, in order
    phase       \* "open"; "closed" once destroyed on an error; "aborted" by an assert

vars == <<wrote, arrived, eof, sockPos, pre, held, consumed, phase>>

Bytes == 1..StreamLen

TypeOK ==
    /\ wrote \in 0..ReqLen
    /\ arrived \in 0..StreamLen
    /\ eof \in BOOLEAN
    /\ sockPos \in 0..arrived
    /\ pre \in BoundedSeq(Bytes, StreamLen)
    /\ held \in BoundedSeq(Bytes, StreamLen)
    /\ consumed \in BoundedSeq(Bytes, StreamLen)
    /\ phase \in {"open", "closed", "aborted"}

Init ==
    /\ wrote = 0
    /\ arrived = 0
    /\ eof = FALSE
    /\ sockPos = 0
    /\ pre = <<>>
    /\ held = <<>>
    /\ consumed = <<>>
    /\ phase = "open"

\* The bytes a loop_stream_read of up to k bytes returns: what has arrived,
\* up to k; none when nothing has (would block).
SockBytes(k) ==
    LET n == IF arrived - sockPos < k THEN arrived - sockPos ELSE k
    IN  [i \in 1..n |-> sockPos + i]

\* loop_stream_read fails: nothing is left and the peer has closed.
SockFails == arrived = sockPos /\ eof

(***************************************************************************)
(* connection_write: one loop_stream_write of the whole request.  It       *)
(* returns the bytes accepted, or a negative error; anything short of the  *)
(* whole request is H2D_ERROR, and the caller destroys the connection.     *)
(* The bytes a short write accepted are on the wire all the same.          *)
(***************************************************************************)
Write ==
    /\ phase = "open" /\ wrote = 0
    /\ \E w \in -1..ReqLen :
          /\ wrote' = IF w < 0 THEN 0 ELSE w
          /\ phase' = IF w = ReqLen THEN "open" ELSE "closed"
    /\ UNCHANGED <<arrived, eof, sockPos, pre, held, consumed>>

(***************************************************************************)
(* connection_read with a buffer of n bytes.  A preread buffer longer than *)
(* the caller's buffer fills it and is shifted down (memmove); otherwise   *)
(* it is copied whole and freed, and unless that filled the buffer the     *)
(* socket is read for the rest.  A failed socket read returns H2D_ERROR,  *)
(* dropping what was copied from preread_buf; an empty result H2D_AGAIN. *)
(***************************************************************************)
\* A shift that starts one byte early (memmove from buf_len - 1).
ReadPartialShift(n) ==
    /\ n < Len(pre)
    /\ held' = SubSeq(pre, 1, n)
    /\ pre' = SubSeq(pre, n, Len(pre))
    /\ UNCHANGED <<sockPos, phase>>

ReadPartial(n) ==
    /\ n < Len(pre)
    /\ held' = SubSeq(pre, 1, n)
    /\ pre' = SubSeq(pre, n + 1, Len(pre))
    /\ UNCHANGED <<sockPos, phase>>

ReadDrained(n) ==
    /\ pre # <<>> /\ n = Len(pre)
    /\ held' = pre
    /\ pre' = <<>>
    /\ UNCHANGED <<sockPos, phase>>

\* The socket read lands at the buffer's start, ahead of the drained bytes.
ReadSocketFreshFirst(n) ==
    /\ n > Len(pre)
    /\ ~SockFails
    /\ held' = SockBytes(n - Len(pre)) \o pre
    /\ sockPos' = sockPos + Len(SockBytes(n - Len(pre)))
    /\ pre' = <<>>
    /\ UNCHANGED phase

\* The socket position advanced by the length asked for, not the length read.
ReadSocketAsked(n) ==
    /\ n > Len(pre)
    /\ ~SockFails
    /\ held' = pre \o SockBytes(n - Len(pre))
    /\ sockPos' = sockPos + (n - Len(pre))
    /\ pre' = <<>>
    /\ UNCHANGED phase

ReadSocket(n) ==
    /\ n > Len(pre)
    /\ ~SockFails
    /\ held' = pre \o SockBytes(n - Len(pre))
    /\ sockPos' = sockPos + Len(SockBytes(n - Len(pre)))
    /\ pre' = <<>>
    /\ UNCHANGED phase

ReadFail(n) ==
    /\ n > Len(pre)
    /\ SockFails
    /\ pre' = <<>>
    /\ phase' = "closed"
    /\ UNCHANGED <<sockPos, held>>

Read(n) ==
    /\ phase = "open" /\ wrote = ReqLen
    /\ held = <<>>
    /\ \/ ReadPartial(n)
       \/ ReadDrained(n)
       \/ ReadSocket(n)
       \/ ReadFail(n)
    /\ UNCHANGED <<wrote, arrived, eof, consumed>>

\* The caller parses the first k bytes of its buffer.
Consume(k) ==
    /\ phase = "open"
    /\ k \in 1..Len(held)
    /\ consumed' = consumed \o SubSeq(held, 1, k)
    /\ held' = SubSeq(held, k + 1, Len(held))
    /\ UNCHANGED <<wrote, arrived, eof, sockPos, pre, phase>>

(***************************************************************************)
(* connection_read_notfinish with the bytes the caller could not consume.  *)
(* They become the preread buffer; assert(upc->preread_buf == NULL) aborts *)
(* the worker when a partial read left one.  (A call with no bytes returns *)
(* at once; the caller's empty buffer is not handed back.)                 *)
(***************************************************************************)
Unread ==
    /\ phase = "open"
    /\ held # <<>>
    /\ IF pre = <<>>
          THEN pre' = held /\ UNCHANGED phase
          ELSE phase' = "aborted" /\ UNCHANGED pre
    /\ held' = <<>>
    /\ UNCHANGED <<wrote, arrived, eof, sockPos, consumed>>

\* The peer answers once the request is complete, and may close at any time.
PeerSend ==
    /\ phase = "open" /\ wrote = ReqLen /\ ~eof
    /\ arrived < StreamLen
    /\ arrived' = arrived + 1
    /\ UNCHANGED <<wrote, eof, sockPos, pre, held, consumed, phase>>

PeerClose ==
    /\ phase = "open" /\ wrote = ReqLen /\ ~eof
    /\ eof' = TRUE
    /\ UNCHANGED <<wrote, arrived, sockPos, pre, held, consumed, phase>>

Next ==
    \/ Write
    \/ \E n \in BufLens : Read(n)
    \/ \E k \in 1..StreamLen : Consume(k)
    \/ Unread
    \/ PeerSend
    \/ PeerClose

Spec == Init /\ [][Next]_vars

-----------------------------------------------------------------------------
(* Properties *)

(* While the connection is open, what the caller consumed, what it holds   *)
(* and the preread buffer are, in that order, exactly the bytes taken from *)
(* the socket: connection_read's memcpy/memmove bookkeeping and the        *)
(* read_notfinish hand-back neither lose, repeat nor reorder a byte.       *)
StreamIntact ==
    phase = "open" =>
        consumed \o held \o pre = [i \in 1..sockPos |-> i]

(* The facade implements ByteStream: the caller takes the peer's bytes in  *)
(* order and only bytes that have arrived; an error or abort is a failure. *)
Abstract == INSTANCE ByteStream WITH
    sent <- wrote = ReqLen,
    taken <- consumed,
    live <- phase = "open"

RefinesByteStream == Abstract!Spec
=============================================================================
