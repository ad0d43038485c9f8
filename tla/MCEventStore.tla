---------------------------- MODULE MCEventStore ----------------------------
(* Instances of EventStore for TLC. *)
EXTENDS EventStore, TLC

CONSTANTS s1, s2, s3, c1, c2, n1

MCSessions == {s1, s2, s3}
MCClients == {c1, c2}
MCNames == {n1}
NoNames == {}
Symmetry == Permutations(MCSessions) \cup Permutations(MCClients)

\* Checkpoints are tried on short logs; branches alone on logs up to MaxSeq.
ShortWithCheckpoints ==
    (checkpoints # {} \/ \E c \in Clients : calls[c].op = "checkpoint")
        => \A s \in Sessions : events[s] \subseteq 1..2
=============================================================================
