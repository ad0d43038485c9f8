------------------------------ MODULE EventLog ------------------------------
(***************************************************************************)
(* What the EventStore trait of crates/impetus-core/src/storage.rs promises *)
(* its callers: every session has an append-only log, an append adds one   *)
(* new event at the end or does nothing, a fork starts as a copy of the    *)
(* source's log up to and including a sequence the source has.             *)
(***************************************************************************)
EXTENDS Integers, Sequences, SequencesExt

CONSTANTS Sessions

VARIABLES
    live,   \* sessions that exist
    log     \* log[s]: the history list(s) returns; empty when s does not exist

vars == <<live, log>>

Init == live = {} /\ log = [s \in Sessions |-> <<>>]

Create(s) ==
    /\ s \notin live
    /\ live' = live \cup {s}
    /\ log' = [log EXCEPT ![s] = << <<s, 1>> >>]

Append_(s) ==
    /\ s \in live
    /\ log' = [log EXCEPT ![s] = Append(log[s], <<s, Len(log[s]) + 1>>)]
    /\ UNCHANGED live

Fork(s, src, n) ==
    /\ s \notin live
    /\ src \in live
    /\ n \in DOMAIN log[src]
    /\ live' = live \cup {s}
    /\ log' = [log EXCEPT ![s] = SubSeq(log[src], 1, n)]

Next ==
    \E s \in Sessions :
        \/ Create(s)
        \/ Append_(s)
        \/ \E src \in Sessions : \E n \in DOMAIN log[src] : Fork(s, src, n)

Spec == Init /\ [][Next]_vars
=============================================================================
