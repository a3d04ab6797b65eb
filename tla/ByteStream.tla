----------------------------- MODULE ByteStream -----------------------------
(***************************************************************************)
(* What an upstream connection promises the request that holds it, with no *)
(* pre-read buffer and no socket: the request is written whole or the      *)
(* connection fails; the peer's answer is a stream of bytes, numbered 1,   *)
(* 2, ... in the order the peer sent them; the request takes them strictly *)
(* in that order, never one the peer has not sent; a failure ends the      *)
(* connection.  UpstreamRead implements it (UpstreamRead!RefinesByteStream)*)
(***************************************************************************)
EXTENDS Naturals, Sequences

CONSTANT StreamLen      \* the number of bytes the peer answers with

VARIABLES
    sent,       \* the whole request has been written
    arrived,    \* the number of bytes the peer has sent
    taken,      \* the bytes the request has taken, in the order it took them
    live        \* the connection has not failed

vars == <<sent, arrived, taken, live>>

\* The next n bytes of the stream after the first k.
Next_n(k, n) == [i \in 1..n |-> k + i]

Init ==
    /\ sent = FALSE
    /\ arrived = 0
    /\ taken = <<>>
    /\ live = TRUE

Send ==
    /\ live /\ ~sent
    /\ sent' = TRUE
    /\ UNCHANGED <<arrived, taken, live>>

Arrive ==
    /\ live /\ sent
    /\ arrived < StreamLen
    /\ arrived' = arrived + 1
    /\ UNCHANGED <<sent, taken, live>>

Take(n) ==
    /\ live
    /\ Len(taken) + n <= arrived
    /\ taken' = taken \o Next_n(Len(taken), n)
    /\ UNCHANGED <<sent, arrived, live>>

Fail ==
    /\ live
    /\ live' = FALSE
    /\ UNCHANGED <<sent, arrived, taken>>

Next == Send \/ Arrive \/ Fail \/ \E n \in 1..StreamLen : Take(n)

Spec == Init /\ [][Next]_vars
=============================================================================
