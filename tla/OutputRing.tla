----------------------------- MODULE OutputRing -----------------------------
(***************************************************************************)
(* What one PTY prints: the reader thread pushes chunks into a ring of     *)
(* bounded size, displaced bytes are collected and spilled to artifacts,   *)
(* and a client drains the ring with PtyOutput.  Bytes are numbered in the *)
(* order the process writes them.                                          *)
(***************************************************************************)
EXTENDS Integers, Sequences, SequencesExt

CONSTANTS
    Capacity,    \* ring capacity in bytes
    Coalesce,    \* PTY_SPILL_COALESCE_BYTES
    MaxSpills,   \* MAX_PTY_PENDING_SPILLS
    MaxChunk,    \* bound on the bytes of one read of the terminal
    MaxBytes     \* bound on the bytes the process writes

ASSUME RingConstants ==
    /\ Capacity \in Nat \ {0}
    /\ Coalesce \in Nat \ {0}
    /\ MaxSpills \in Nat \ {0}
    /\ MaxChunk \in Nat \ {0}
    /\ MaxBytes \in Nat

VARIABLES
    written,     \* number of bytes the process has written
    ring,        \* OutputRing.data
    droppedTotal,
    spillBuffer,
    pendingSpills,
    eof,         \* the reader thread has ended
    received,    \* bytes a client was handed by read_output
    fetched      \* bytes of the artifacts it was handed

ringVars == <<written, ring, droppedTotal, spillBuffer, pendingSpills, eof, received, fetched>>

RingInit ==
    /\ written = 0
    /\ ring = <<>>
    /\ droppedTotal = 0
    /\ spillBuffer = <<>>
    /\ pendingSpills = <<>>
    /\ eof = FALSE
    /\ received = <<>>
    /\ fetched = <<>>

\* Two ways to miscount the overflow: one byte stays too many, and the byte that
\* stays is spilled too.
PushedLate(chunk) ==
    LET all == ring \o chunk
        over == IF Len(all) > Capacity + 1 THEN Len(all) - Capacity - 1 ELSE 0
    IN  [ring |-> SubSeq(all, over + 1, Len(all)), spilled |-> SubSeq(all, 1, over)]
PushedTwice(chunk) ==
    LET all == ring \o chunk
        over == IF Len(all) > Capacity THEN Len(all) - Capacity ELSE 0
    IN  [ring |-> SubSeq(all, over + 1, Len(all)), spilled |-> SubSeq(all, 1, over + 1)]

\* The ring and the displaced bytes after push_slice.
Pushed(chunk) ==
    LET all == ring \o chunk
        over == IF Len(all) > Capacity THEN Len(all) - Capacity ELSE 0
    IN  [ring |-> SubSeq(all, over + 1, Len(all)), spilled |-> SubSeq(all, 1, over)]

Threshold == IF Coalesce < Capacity THEN Coalesce ELSE Capacity

\* record_spill keeps the newest references.
RecordSpill(spills, artifact) ==
    LET kept == IF Len(spills) >= MaxSpills
                THEN SubSeq(spills, Len(spills) - MaxSpills + 2, Len(spills)) ELSE spills
    IN  Append(kept, artifact)

\* The n whole batches note_overflow takes from the front of the buffer, each
\* stored or, when the artifact store refuses it, gone.
Batch(buffer, k) == SubSeq(buffer, (k - 1) * Threshold + 1, k * Threshold)
StoredBatches(buffer, n, refused) ==
    LET spill[k \in 0..n] ==
            IF k = 0 THEN pendingSpills
            ELSE IF k \in refused THEN spill[k - 1]
            ELSE RecordSpill(spill[k - 1], Batch(buffer, k))
    IN  spill[n]

\* The reader thread got n bytes: push_slice and note_overflow without force.
Push(n) ==
    /\ ~eof
    /\ written + n <= MaxBytes
    /\ LET after == Pushed([k \in 1..n |-> written + k])
           buffer == spillBuffer \o after.spilled
           batches == Len(buffer) \div Threshold
       IN  /\ ring' = after.ring
           /\ droppedTotal' = droppedTotal + Len(after.spilled)
           /\ spillBuffer' = SubSeq(buffer, batches * Threshold + 1, Len(buffer))
           /\ \E refused \in SUBSET (1..batches) :
                 pendingSpills' = StoredBatches(buffer, batches, refused)
    /\ written' = written + n
    /\ UNCHANGED <<eof, received, fetched>>

\* The terminal is closed: note_overflow with force, then eof.
ReaderEnds ==
    /\ ~eof
    /\ eof' = TRUE
    /\ spillBuffer' = <<>>
    /\ pendingSpills' \in IF spillBuffer = <<>> THEN {pendingSpills}
                          ELSE {pendingSpills, RecordSpill(pendingSpills, spillBuffer)}
    /\ UNCHANGED <<written, ring, droppedTotal, received, fetched>>

\* A read that drains the whole ring and hands out max bytes of it.
ReadForgets(max) ==
    /\ ring # <<>>
    /\ received' = received \o SubSeq(ring, 1, IF max < Len(ring) THEN max ELSE Len(ring))
    /\ ring' = <<>>
    /\ UNCHANGED <<written, droppedTotal, spillBuffer, pendingSpills, eof, fetched>>

\* read_output: drains up to max bytes and hands out the oldest spill.
ReadOutput(max) ==
    /\ LET n == IF max < Len(ring) THEN max ELSE Len(ring)
       IN  /\ received' = received \o SubSeq(ring, 1, n)
           /\ ring' = SubSeq(ring, n + 1, Len(ring))
    /\ IF pendingSpills = <<>>
       THEN UNCHANGED <<pendingSpills, fetched>>
       ELSE /\ fetched' = fetched \o Head(pendingSpills)
            /\ pendingSpills' = Tail(pendingSpills)
    /\ ring # <<>> \/ pendingSpills # <<>>
    /\ UNCHANGED <<written, droppedTotal, spillBuffer, eof>>

RingNext ==
    \/ \E n \in 1..MaxChunk : Push(n)
    \/ ReaderEnds
    \/ \E max \in 1..Capacity : ReadOutput(max)

RingSpec == RingInit /\ [][RingNext]_ringVars

-----------------------------------------------------------------------------

\* The limits of the module's header hold after every chunk: the ring, the
\* bytes waiting to be coalesced and the references waiting for a reader.
RingBounded ==
    /\ Len(ring) <= Capacity
    /\ Len(spillBuffer) < Threshold
    /\ Len(pendingSpills) <= MaxSpills

Increasing(s) == \A j, k \in 1..Len(s) : j < k => s[j] < s[k]

\* All bytes of x were written before those of y.
Before(x, y) == \A a \in ToSet(x), b \in ToSet(y) : a < b

\* Every byte is accounted for once: what was written is what a client received,
\* what is in the ring and what dropped_total reports; the stream and the overflow
\* (what was fetched, the artifacts waiting to be, the bytes waiting to become one)
\* are each in the order of writing, and no byte is delivered twice, neither by
\* two reads nor by a read and by an artifact.
BytesAccounted ==
    LET stream == received \o ring
        overflow == <<fetched>> \o pendingSpills \o <<spillBuffer>>
    IN  /\ written = Len(stream) + droppedTotal
        /\ Increasing(stream)
        /\ \A i \in 1..Len(overflow) :
              Increasing(overflow[i]) /\ ToSet(overflow[i]) \cap ToSet(stream) = {}
        /\ \A i, j \in 1..Len(overflow) : i < j => Before(overflow[i], overflow[j])

=============================================================================
