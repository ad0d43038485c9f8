----------------------------- MODULE EventStore -----------------------------
(***************************************************************************)
(* The SQLite event store of crates/impetus-core/src/storage.rs: the rows  *)
(* of its three tables and every operation that changes them, called by    *)
(* clients that run at the same time.                                      *)
(*                                                                         *)
(* One critical section of the connection mutex is one step.  append_next, *)
(* fork_session and create_checkpoint take the mutex twice: they read      *)
(* (logical head, or the history a sequence must belong to), release it,   *)
(* and take it again to write, so another client can run in between.       *)
(*                                                                         *)
(* An event is identified by its physical row <<session, sequence>>:       *)
(* session ids are fresh UUIDs and (session_id, sequence) is a unique key, *)
(* so no two events ever share it.  A fork copies nothing: its history is  *)
(* read through parent_session_id, segment by segment.                     *)
(***************************************************************************)
EXTENDS Integers, Sequences, FiniteSets, FiniteSetsExt, SequencesExt

CONSTANTS
    Sessions,   \* session UUIDs that may be drawn
    Clients,    \* callers of the store, one call in flight each
    Names,      \* checkpoint names
    None,       \* SQL NULL in parent_session_id
    MaxSeq,     \* bound: highest sequence a call may write
    Deletes,    \* whether callers use delete_session
    ForkBelow   \* whether callers fork a fork below its own fork point

ASSUME SessionsAssumption == IsFiniteSet(Sessions)
ASSUME NoneAssumption == None \notin Sessions
ASSUME MaxSeqAssumption == MaxSeq \in Nat \ {0}
ASSUME FlagsAssumption == Deletes \in BOOLEAN /\ ForkBelow \in BOOLEAN

VARIABLES
    sessions,     \* ids with a row in table sessions
    used,         \* ids ever drawn: a UUID is not drawn twice
    parent,       \* sessions.parent_session_id
    forkSeq,      \* sessions.fork_sequence (0 for NULL)
    events,       \* events[s]: the sequences of the rows of s in table events
    checkpoints,  \* rows of table checkpoints
    calls         \* calls[c]: what client c read before it released the mutex

vars == <<sessions, used, parent, forkSeq, events, checkpoints, calls>>

Sequences_ == 1 .. MaxSeq
Idle == [op |-> "idle"]

Checkpoint == [sid : Sessions, name : Names, seq : Sequences_]

Call == [op : {"idle"}]
        \cup [op : {"append"}, sid : Sessions, next : Sequences_]
        \cup [op : {"restore", "fork"}, sid : Sessions, seq : Sequences_]
        \cup [op : {"checkpoint"}, sid : Sessions, name : Names, seq : Sequences_]

-----------------------------------------------------------------------------
(* Reading: sqlite_ancestry, logical_head_sequence, list_after              *)

\* A missing row and a NULL parent both end the walk of sqlite_ancestry.
ParentOf(s) == IF s \in sessions THEN parent[s] ELSE None

\* ORDER BY sequence: the k-th number of S is the one with k numbers up to it.
InOrder(S) ==
    [k \in 1 .. Cardinality(S) |->
        CHOOSE q \in S : Cardinality({p \in S : p <= q}) = k]

\* Mutant: the bound of an ancestor's segment is forgotten.
RowsUnbounded(s, b) ==
    LET nums == InOrder(events[s]) IN [k \in DOMAIN nums |-> <<s, nums[k]>>]

\* Own rows of s with sequence <= b, ORDER BY sequence.
Rows(s, b) ==
    LET nums == InOrder({q \in events[s] : q <= b})
    IN  [k \in DOMAIN nums |-> <<s, nums[k]>>]

\* The walk of sqlite_ancestry and the loop over its segments: an ancestor
\* contributes its rows up to the fork point of the session just below it on
\* the path, whatever a session further below was forked at.
Ancestry[s \in Sessions] ==
    IF ParentOf(s) = None
    THEN <<>>
    ELSE Ancestry[ParentOf(s)] \o Rows(ParentOf(s), forkSeq[s])

\* list(s): the own rows of s are all taken.  The position of an event is the
\* sequence list_after renumbers it to.
List(s) == Ancestry[s] \o Rows(s, MaxSeq)

\* Mutant: the ancestors' rows past the fork point are counted too.
InheritedUnbounded(s) ==
    IF ParentOf(s) = None THEN 0 ELSE Len(List(ParentOf(s)))

\* What logical_head_sequence counts for the ancestors of s ...
Inherited(s) == Len(Ancestry[s])

\* ... and in all.
LogicalHead(s) == Inherited(s) + Cardinality(events[s])

\* The sequence numbers list(s) shows: the physical ones on the root-only fast
\* path, the renumbered ones otherwise.
ListedSeqs(s) ==
    IF ParentOf(s) = None THEN events[s] ELSE 1 .. LogicalHead(s)

\* Mutant: the sequence after the head passes as well.
ValidSequenceOffByOne(s, n) == events[s] # {} /\ n <= LogicalHead(s) + 1

\* validate_fork_sequence, also used for checkpoints.
ValidSequence(s, n) == n \in ListedSeqs(s)

-----------------------------------------------------------------------------
(* Writing                                                                  *)

Init ==
    /\ sessions = {}
    /\ used = {}
    /\ parent = [s \in Sessions |-> None]
    /\ forkSeq = [s \in Sessions |-> 0]
    /\ events = [s \in Sessions |-> {}]
    /\ checkpoints = {}
    /\ calls = [c \in Clients |-> Idle]

\* create_session: the row and the Created event in one transaction.
CreateSession(c, s) ==
    /\ calls[c] = Idle
    /\ s \notin used
    /\ sessions' = sessions \cup {s}
    /\ used' = used \cup {s}
    /\ events' = [events EXCEPT ![s] = {1}]
    /\ UNCHANGED <<parent, forkSeq, checkpoints, calls>>

\* append_next, first critical section: next_sequence = logical head + 1.
\* The session need not exist: only the write finds out.
AppendRead(c, s) ==
    /\ calls[c] = Idle
    /\ s \in used
    /\ LogicalHead(s) + 1 \in Sequences_
    /\ calls' = [calls EXCEPT ![c] =
                    [op |-> "append", sid |-> s, next |-> LogicalHead(s) + 1]]
    /\ UNCHANGED <<sessions, used, parent, forkSeq, events, checkpoints>>

\* Mutant: the rows changed by the update of the session are not looked at.
CanInsertUnowned(s, n) == n \notin events[s]

\* The insert is refused by the unique key, or rolled back when no session row
\* is updated (MissingSession).
CanInsert(s, n) == n \notin events[s] /\ s \in sessions

\* Mutant: one is added to the sequence a second time.
AppendCommitSkips(c) ==
    /\ calls[c].op = "append"
    /\ LET s == calls[c].sid
           n == calls[c].next + 1
       IN  events' = IF CanInsert(s, n)
                     THEN [events EXCEPT ![s] = events[s] \cup {n}]
                     ELSE events
    /\ calls' = [calls EXCEPT ![c] = Idle]
    /\ UNCHANGED <<sessions, used, parent, forkSeq, checkpoints>>

\* append_next, second critical section: the immediate transaction.
AppendCommit(c) ==
    /\ calls[c].op = "append"
    /\ LET s == calls[c].sid
           n == calls[c].next
       IN  events' = IF CanInsert(s, n)
                     THEN [events EXCEPT ![s] = events[s] \cup {n}]
                     ELSE events
    /\ calls' = [calls EXCEPT ![c] = Idle]
    /\ UNCHANGED <<sessions, used, parent, forkSeq, checkpoints>>

\* Callers that keep to the restriction of ForkBelow = FALSE.
ForkAsked(s, n) == ForkBelow \/ ParentOf(s) = None \/ n >= forkSeq[s]

\* fork_session, first critical section: the source must list the sequence.
ForkValidate(c, s, n) ==
    /\ calls[c] = Idle
    /\ ForkAsked(s, n)
    /\ ValidSequence(s, n)
    /\ calls' = [calls EXCEPT ![c] = [op |-> "fork", sid |-> s, seq |-> n]]
    /\ UNCHANGED <<sessions, used, parent, forkSeq, events, checkpoints>>

\* restore_checkpoint: get_checkpoint is a critical section of its own.
RestoreRead(c, k) ==
    /\ calls[c] = Idle
    /\ ForkAsked(k.sid, k.seq)
    /\ calls' = [calls EXCEPT ![c] = [op |-> "restore", sid |-> k.sid, seq |-> k.seq]]
    /\ UNCHANGED <<sessions, used, parent, forkSeq, events, checkpoints>>

\* ... and then fork_session validates as for any fork.
RestoreValidate(c) ==
    /\ calls[c].op = "restore"
    /\ calls' = [calls EXCEPT ![c] =
                    IF ValidSequence(calls[c].sid, calls[c].seq)
                    THEN [op |-> "fork", sid |-> calls[c].sid, seq |-> calls[c].seq]
                    ELSE Idle]
    /\ UNCHANGED <<sessions, used, parent, forkSeq, events, checkpoints>>

\* fork_session, second critical section: only a session row, no event is copied.
ForkCommit(c, s) ==
    /\ calls[c].op = "fork"
    /\ s \notin used
    /\ sessions' = sessions \cup {s}
    /\ used' = used \cup {s}
    /\ parent' = [parent EXCEPT ![s] = calls[c].sid]
    /\ forkSeq' = [forkSeq EXCEPT ![s] = calls[c].seq]
    /\ calls' = [calls EXCEPT ![c] = Idle]
    /\ UNCHANGED <<events, checkpoints>>

\* create_checkpoint, first critical section.
CheckpointValidate(c, s, name, n) ==
    /\ calls[c] = Idle
    /\ ValidSequence(s, n)
    /\ calls' = [calls EXCEPT ![c] =
                    [op |-> "checkpoint", sid |-> s, name |-> name, seq |-> n]]
    /\ UNCHANGED <<sessions, used, parent, forkSeq, events, checkpoints>>

\* create_checkpoint, second critical section: UNIQUE(session_id, name) refuses
\* a second checkpoint of the same name.  No foreign key ties it to a session.
CheckpointCommit(c) ==
    /\ calls[c].op = "checkpoint"
    /\ LET row == [sid |-> calls[c].sid, name |-> calls[c].name, seq |-> calls[c].seq]
       IN  checkpoints' =
               IF \E k \in checkpoints : k.sid = row.sid /\ k.name = row.name
               THEN checkpoints
               ELSE checkpoints \cup {row}
    /\ calls' = [calls EXCEPT ![c] = Idle]
    /\ UNCHANGED <<sessions, used, parent, forkSeq, events>>

\* delete_session: the rows of this session only; forks keep their reference.
DeleteSession(c, s) ==
    /\ Deletes
    /\ calls[c] = Idle
    /\ s \in sessions
    /\ sessions' = sessions \ {s}
    /\ events' = [events EXCEPT ![s] = {}]
    /\ checkpoints' = {k \in checkpoints : k.sid # s}
    /\ parent' = [parent EXCEPT ![s] = None]
    /\ forkSeq' = [forkSeq EXCEPT ![s] = 0]
    /\ UNCHANGED <<used, calls>>

Next ==
    \E c \in Clients :
        \/ AppendCommit(c)
        \/ RestoreValidate(c)
        \/ CheckpointCommit(c)
        \/ \E k \in checkpoints : RestoreRead(c, k)
        \/ \E s \in Sessions :
            \/ CreateSession(c, s)
            \/ AppendRead(c, s)
            \/ ForkCommit(c, s)
            \/ DeleteSession(c, s)
            \/ \E n \in Sequences_ :
                \/ ForkValidate(c, s, n)
                \/ \E name \in Names : CheckpointValidate(c, s, name, n)

Spec == Init /\ [][Next]_vars

-----------------------------------------------------------------------------
(* Properties                                                               *)

\* Every row and every call in flight has the shape its table gives it.
TypeOK ==
    /\ sessions \subseteq used
    /\ used \subseteq Sessions
    /\ parent \in [Sessions -> Sessions \cup {None}]
    /\ forkSeq \in [Sessions -> 0 .. MaxSeq]
    /\ events \in [Sessions -> SUBSET Sequences_]
    /\ checkpoints \subseteq Checkpoint
    /\ calls \in [Clients -> Call]

\* No ancestor of s was deleted: the sessions on its path all have their rows.
Intact(s) ==
    \E path \in SUBSET sessions :
        s \in path /\ \A t \in path : parent[t] \in path \cup {None}

\* An append_next that read the head before delete_session and writes after it
\* leaves no event behind: rows only exist for sessions that have one.
NoOrphanEvents == \A s \in Sessions \ sessions : events[s] = {}

\* A root session's rows are numbered 1, 2, 3, ... without a gap, although each
\* append_next computes its number before it takes the write lock: reduce()
\* never meets NonContiguousSequence, and the head is the highest sequence.
RootContiguous ==
    \A s \in sessions : parent[s] = None => events[s] = 1 .. Cardinality(events[s])

\* The sequence append_next stored and returned is the position at which list
\* shows the event, in forks of any depth: stream cursors and approval
\* revisions, which hold such numbers, point at the event they mean.
NumberingIsLogical ==
    \A s \in sessions : Intact(s) =>
        LET listed == List(s)
        IN  \A n \in events[s] : n \in DOMAIN listed /\ listed[n] = <<s, n>>

\* A checkpoint of a surviving branch names an event that is still listed, so
\* RestoreCheckpoint finds its sequence.
CheckpointsResolve ==
    \A k \in checkpoints :
        (k.sid \in sessions /\ Intact(k.sid)) => k.seq \in DOMAIN List(k.sid)

\* Histories only grow at the end: no append, fork, checkpoint or deletion of
\* some other session rewrites or reorders what a branch listed before, as long
\* as no ancestor of the branch is deleted.
HistoryAppendOnly ==
    [][\A s \in sessions \cap sessions' :
            (Intact(s) /\ Intact(s)') => IsPrefix(List(s), List(s)')]_vars

\* reduce() accepts the history of s: list_after keeps each event's own
\* session_id, and reduce refuses a history of more than one (MixedSession).
Reducible(s) == \A e \in ToSet(List(s)) : e[1] = List(s)[1][1]

\* "Forked session can continue independently": a branch that got an event of
\* its own can still be attached to, which projects its history with reduce.
ForksContinue == \A s \in sessions : Reducible(s)

-----------------------------------------------------------------------------
(* What the store promises: EventLog, where an append is one step and a fork *)
(* is a copy of the source's prefix.                                         *)

\* The logs the store stands for: what list(s) returns.
Histories == [s \in Sessions |-> IF s \in sessions THEN List(s) ELSE <<>>]

Log == INSTANCE EventLog WITH log <- Histories, live <- sessions

\* append_next, fork_session and create_session, with their unlocked windows,
\* behave like atomic operations on copied logs, when nobody deletes sessions
\* or forks a fork below its own fork point.
RefinesEventLog == Log!Spec
=============================================================================
