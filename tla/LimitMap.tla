------------------------------ MODULE LimitMap ------------------------------
(***************************************************************************)
(* What the rate limiter's shared table promises, with no lists, hash      *)
(* buckets or offsets: a map from lookup keys to meters, of at most Cap    *)
(* entries.  A key that is looked up again finds its meter; a new key gets *)
(* a fresh meter; a key loses its meter only when the meter has expired,   *)
(* or when the table is full and the key is the one entry evicted to make  *)
(* room.  LimitReq implements it (LimitReq!RefinesLimitMap).               *)
(***************************************************************************)
EXTENDS Naturals, FiniteSets

CONSTANTS
    Keys,       \* the lookup keys requests can present
    Cap         \* the number of meters the table can hold

VARIABLES
    tracked,    \* the keys that have a meter
    stale       \* [Keys -> BOOLEAN]: the key's meter has expired

vars == <<tracked, stale>>

Init ==
    /\ tracked = {}
    /\ stale = [k \in Keys |-> FALSE]

(* A request for a key that has a meter: the meter counts it.              *)
Hit(k) ==
    /\ k \in tracked
    /\ stale' = [stale EXCEPT ![k] = FALSE]
    /\ UNCHANGED tracked

(* A request for a key without a meter: some expired meters may be         *)
(* reclaimed, at most one entry is evicted and only from a full table, and *)
(* the key gets a fresh meter.                                             *)
Add(k) ==
    /\ k \notin tracked
    /\ \E gone \in SUBSET {d \in tracked : stale[d]} :
       \E evicted \in SUBSET (tracked \ gone) :
          /\ Cardinality(evicted) <= 1
          /\ evicted # {} => Cardinality(tracked \ gone) = Cap
          /\ tracked' = (tracked \ (gone \cup evicted)) \cup {k}
          /\ Cardinality(tracked') <= Cap
          /\ stale' = [d \in Keys |-> d \in tracked' /\ d # k /\ stale[d]]

(* Time passes until a meter has expired.                                  *)
Age(k) ==
    /\ k \in tracked
    /\ ~stale[k]
    /\ stale' = [stale EXCEPT ![k] = TRUE]
    /\ UNCHANGED tracked

Next == \E k \in Keys : Hit(k) \/ Add(k) \/ Age(k)

Spec == Init /\ [][Next]_vars
=============================================================================
