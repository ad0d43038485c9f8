-------------------------- MODULE EventStoreProofs --------------------------
(***************************************************************************)
(* Machine-checked proofs about EventStore, for every number of sessions,  *)
(* clients and checkpoint names and every bound: the numbering and the     *)
(* growth of histories through forks of any depth, and that the store      *)
(* implements EventLog.                                                    *)
(*                                                                         *)
(* The inductive invariant has two layers.  TreeInv says what the tables   *)
(* are: no orphan rows, references only to ids once drawn, no cycle of     *)
(* parents, so that the walk of sqlite_ancestry ends and the recursive     *)
(* definition of Ancestry has the value its equation gives it.  HistoryInv *)
(* says what the numbers of a branch mean as long as no ancestor of it is  *)
(* deleted.                                                                *)
(***************************************************************************)
EXTENDS EventStore, SequenceTheorems, FiniteSetTheorems, WellFoundedInduction, TLAPS

\* No session is its own ancestor: every set of sessions has one whose parent
\* lies outside it.
Acyclic ==
    \A T \in SUBSET Sessions : T # {} => \E m \in T : ParentOf(m) \notin T

\* Every reference to a session is to an id that was drawn, a session without
\* row has no parent, and without deletions every id drawn keeps its row.
References ==
    /\ \A s \in Sessions : parent[s] \in used \cup {None}
    /\ \A s \in Sessions \ sessions : parent[s] = None
    /\ \A c \in Clients : calls[c].op # "idle" => calls[c].sid \in used
    /\ \A k \in checkpoints : k.sid \in used
    /\ Deletes \/ sessions = used

TreeInv == TypeOK /\ NoOrphanEvents /\ References /\ Acyclic

\* The own rows of a branch are numbered from its first own position to its head.
Numbered ==
    \A s \in sessions : Intact(s) => events[s] = (Inherited(s) + 1) .. LogicalHead(s)

\* A branch was forked at a position its source still has; and, when nobody
\* forks below a fork point, it inherits exactly the positions up to there.
ForkPoints ==
    \A s \in sessions : (parent[s] # None /\ Intact(s)) =>
        /\ forkSeq[s] \in 1 .. LogicalHead(parent[s])
        /\ ForkBelow \/ forkSeq[s] = Inherited(s)

\* What a client read before it released the mutex is not too far off when it
\* takes it again: an append holds at most the next free number, a validated
\* sequence is still listed.
CallsCurrent ==
    \A c \in Clients :
        /\ (calls[c].op = "append" /\ Intact(calls[c].sid)) =>
              calls[c].next \in (Inherited(calls[c].sid) + 1) .. (LogicalHead(calls[c].sid) + 1)
        /\ (calls[c].op \in {"fork", "checkpoint"} /\ Intact(calls[c].sid)) =>
              calls[c].seq \in 1 .. LogicalHead(calls[c].sid)
        /\ (calls[c].op \in {"fork", "restore"} /\ Intact(calls[c].sid)) =>
              ForkBelow \/ Inherited(calls[c].sid) <= calls[c].seq

CheckpointsCurrent ==
    \A k \in checkpoints : Intact(k.sid) => k.seq \in 1 .. LogicalHead(k.sid)

HistoryInv == Numbered /\ ForkPoints /\ CallsCurrent /\ CheckpointsCurrent

-----------------------------------------------------------------------------
(* Numbers and intervals *)

\* The rows of one session are finitely many: sequences are bounded.
LEMMA RowsFinite ==
    ASSUME NEW S \in SUBSET Sequences_
    PROVE  IsFiniteSet(S) /\ Cardinality(S) \in Nat
<1>1. IsFiniteSet(Sequences_)
  BY MaxSeqAssumption, FS_Interval DEF Sequences_
<1> QED
  BY <1>1, FS_Subset, FS_CardinalityType

\* A bounded set of naturals that is not empty has a greatest member.
LEMMA GreatestCount ==
    ASSUME NEW n \in Nat, NEW T \in SUBSET (0 .. n), T # {}
    PROVE  \E m \in T : \A k \in T : k <= m
<1> DEFINE gaps == {n - k : k \in T}
<1>1. gaps \in SUBSET Nat /\ gaps # {}
  <2>1. \A k \in T : n - k \in Nat
    OBVIOUS
  <2> QED
    BY <2>1
<1>2. PICK u \in gaps : \A v \in gaps : ~(<<v, u>> \in OpToRel(<, Nat))
  BY <1>1, NatLessThanWellFounded, WFMin
<1>3. \A v \in gaps : u <= v
  <2>0. \A v \in gaps : v \in Nat
    BY <1>1
  <2> SUFFICES ASSUME NEW v \in gaps, v < u PROVE FALSE
    BY <2>0
  <2>1. <<v, u>> \in OpToRel(<, Nat)
    BY <1>1 DEF OpToRel
  <2> QED
    BY <1>2, <2>1
<1>4. PICK m \in T : u = n - m
  BY <1>2
<1>5. \A k \in T : n - m <= n - k
  BY <1>3, <1>4
<1> QED
  BY <1>4, <1>5

\* Adding the number after the last one leaves no gap.
LEMMA IntervalGrows ==
    ASSUME NEW a \in Nat, NEW h \in Nat, a <= h
    PROVE  ((a + 1) .. h) \cup {h + 1} = (a + 1) .. (h + 1)
  OBVIOUS

\* ORDER BY sequence on a gap-free set of numbers lists them one by one.
LEMMA InOrderInterval ==
    ASSUME NEW a \in Nat, NEW m \in Nat
    PROVE  InOrder((a + 1) .. (a + m)) = [k \in 1 .. m |-> a + k]
<1> DEFINE S == (a + 1) .. (a + m)
<1>1. Cardinality(S) = m
  BY FS_Interval
<1>2. ASSUME NEW q \in S
      PROVE  Cardinality({p \in S : p <= q}) = q - a
  <2>1. {p \in S : p <= q} = (a + 1) .. q
    OBVIOUS
  <2>2. q \in Int /\ a + 1 \in Int /\ a + 1 <= q
    OBVIOUS
  <2>3. Cardinality((a + 1) .. q) = q - (a + 1) + 1
    BY <2>2, FS_Interval
  <2>4. q - (a + 1) + 1 = q - a
    BY <2>2
  <2> QED
    BY <2>1, <2>3, <2>4, Zenon
<1>3. ASSUME NEW k \in 1 .. m
      PROVE  (CHOOSE q \in S : Cardinality({p \in S : p <= q}) = k) = a + k
  <2> DEFINE P(q) == Cardinality({p \in S : p <= q}) = k
  <2>1. a + k \in S /\ P(a + k)
    <3>1. a + k \in S /\ (a + k) - a = k
      OBVIOUS
    <3> HIDE DEF S
    <3> QED
      BY <3>1, <1>2
  <2>2. \A q \in S : P(q) => q = a + k
    BY <1>2
  <2> HIDE DEF P, S
  <2>3. (CHOOSE q \in S : P(q)) = a + k
    BY <2>1, <2>2
  <2> QED
    BY <2>3 DEF P
<1> HIDE DEF S
<1>4. InOrder(S) = [k \in 1 .. m |-> CHOOSE q \in S : Cardinality({p \in S : p <= q}) = k]
  BY <1>1 DEF InOrder
<1>5. InOrder(S) = [k \in 1 .. m |-> a + k]
  BY <1>3, <1>4
<1> QED
  BY <1>5 DEF S

\* Sequences of rows, as histories are.
RowSeq == Seq(Sessions \X Nat)

LEMMA RowSeqProperties ==
    /\ <<>> \in RowSeq
    /\ \A x \in RowSeq : Len(x) \in Nat /\ DOMAIN x = 1 .. Len(x)
  BY DEF RowSeq

LEMMA RowSeqConcat ==
    ASSUME NEW x \in RowSeq, NEW y \in RowSeq
    PROVE  /\ x \o y \in RowSeq
           /\ Len(x \o y) = Len(x) + Len(y)
           /\ \A i \in 1 .. (Len(x) + Len(y)) :
                (x \o y)[i] = IF i <= Len(x) THEN x[i] ELSE y[i - Len(x)]
  BY ConcatProperties DEF RowSeq

LEMMA RowSeqEqual ==
    ASSUME NEW x \in RowSeq, NEW y \in RowSeq, Len(x) = Len(y),
           \A i \in 1 .. Len(x) : x[i] = y[i]
    PROVE  x = y
  BY SeqEqual DEF RowSeq

\* m rows of session s, numbered from a+1 on.
Run(s, a, m) == [k \in 1 .. m |-> <<s, a + k>>]

LEMMA RunProperties ==
    ASSUME NEW s \in Sessions, NEW a \in Nat, NEW m \in Nat
    PROVE  /\ Run(s, a, m) \in RowSeq
           /\ Len(Run(s, a, m)) = m
           /\ \A k \in 1 .. m : Run(s, a, m)[k] = <<s, a + k>>
  BY DEF Run, RowSeq

\* Gap-free rows up to a bound are listed one by one.
LEMMA RowsInterval ==
    ASSUME NEW s, NEW b, NEW a \in Nat, NEW m \in Nat,
           {q \in events[s] : q <= b} = (a + 1) .. (a + m)
    PROVE  Rows(s, b) = Run(s, a, m)
<1> DEFINE nums == InOrder((a + 1) .. (a + m))
<1>1. nums = [k \in 1 .. m |-> a + k]
  BY InOrderInterval
<1>2. Rows(s, b) = [k \in DOMAIN nums |-> <<s, nums[k]>>]
  BY Zenon DEF Rows
<1> HIDE DEF nums
<1> QED
  BY <1>1, <1>2 DEF Run

-----------------------------------------------------------------------------
(* The walk of sqlite_ancestry *)

\* The equation of Ancestry.
Unfolds ==
    Ancestry = [s \in Sessions |->
                  IF ParentOf(s) = None THEN <<>>
                  ELSE Ancestry[ParentOf(s)] \o Rows(ParentOf(s), forkSeq[s])]

\* Where parents form no cycle the equation has a solution, so Ancestry is one:
\* a largest closed set of sessions on which it can be solved is all of them.
LEMMA AncestryUnfolds == TreeInv => Unfolds
<1> SUFFICES ASSUME TreeInv PROVE Unfolds
  OBVIOUS
<1> DEFINE At(g, s) == IF ParentOf(s) = None THEN <<>>
                       ELSE g[ParentOf(s)] \o Rows(ParentOf(s), forkSeq[s])
           Solved(C) == /\ \A s \in C : ParentOf(s) \in C \cup {None}
                        /\ \E g : g = [s \in C |-> At(g, s)]
           N == {n \in 0 .. Cardinality(Sessions) :
                    \E C \in SUBSET Sessions : Cardinality(C) = n /\ Solved(C)}
<1>0. /\ \A s \in Sessions : ParentOf(s) \in Sessions \cup {None}
      /\ \A T \in SUBSET Sessions : T # {} => \E m \in T : ParentOf(m) \notin T
      /\ None \notin Sessions
  BY NoneAssumption DEF TreeInv, TypeOK, ParentOf, Acyclic
<1>1. Cardinality(Sessions) \in Nat
  BY SessionsAssumption, FS_CardinalityType
<1>2. 0 \in N
  <2>1. Cardinality({}) = 0
    BY FS_EmptySet
  <2>2. \E g : g = [s \in {} |-> At(g, s)]
    <3> DEFINE g0 == [s \in {} |-> <<>>]
    <3>1. g0 = [s \in {} |-> At(g0, s)]
      BY Zenon
    <3> QED
      BY <3>1
  <2>3. Solved({})
    BY <2>2
  <2> HIDE DEF Solved
  <2> QED
    BY <2>1, <2>3, <1>1
<1>3. PICK n \in N : \A k \in N : k <= n
  <2>1. N \in SUBSET (0 .. Cardinality(Sessions))
    BY Zenon
  <2> HIDE DEF N
  <2> QED
    BY <1>1, <1>2, <2>1, GreatestCount
<1>4. PICK C \in SUBSET Sessions : Cardinality(C) = n /\ Solved(C)
  BY <1>3, Zenon
<1>5. PICK g : g = [s \in C |-> At(g, s)]
  BY <1>4
<1>6. C = Sessions
  <2> SUFFICES ASSUME C # Sessions PROVE FALSE
    OBVIOUS
  <2>1. PICK m \in Sessions \ C : ParentOf(m) \in C \cup {None}
    BY <1>0
  <2> DEFINE D == C \cup {m}
             h == [s \in D |-> IF s = m THEN At(g, m) ELSE g[s]]
  <2>2. \A s \in D : ParentOf(s) \in C \cup {None}
    BY <1>4, <2>1
  <2>3. ASSUME NEW s \in D PROVE h[s] = At(h, s)
    <3>1. CASE ParentOf(s) = None
      <4>1. At(h, s) = <<>> /\ At(g, s) = <<>>
        BY <3>1
      <4> HIDE DEF At
      <4> QED
        BY <4>1, <1>5
    <3>2. CASE ParentOf(s) # None
      <4>1. ParentOf(s) \in C /\ ParentOf(s) # m
        BY <2>2, <2>1, <3>2
      <4>2. h[ParentOf(s)] = g[ParentOf(s)]
        BY <4>1
      <4>3. At(h, s) = At(g, s)
        BY <4>2
      <4> HIDE DEF At
      <4> QED
        BY <4>3, <1>5
    <3> QED
      BY <3>1, <3>2
  <2>4. h = [s \in D |-> At(h, s)]
    <3> DEFINE hh == [s \in D |-> At(h, s)]
    <3>1. \A s \in D : h[s] = hh[s]
      BY <2>3
    <3> HIDE DEF At
    <3> QED
      BY <3>1
  <2>5. Solved(D)
    <3> HIDE DEF h, At
    <3> QED
      BY <2>2, <2>4
  <2>6. IsFiniteSet(C) /\ Cardinality(D) = n + 1 /\ D \in SUBSET Sessions
    BY SessionsAssumption, FS_Subset, FS_AddElement, <1>4, <2>1
  <2>7. Cardinality(D) <= Cardinality(Sessions)
    BY SessionsAssumption, FS_Subset, <2>6
  <2> HIDE DEF D, Solved
  <2>8. n + 1 \in N
    BY <2>5, <2>6, <2>7, <1>1, <1>3
  <2> HIDE DEF N
  <2>9. n \in Nat
    <3>1. n \in 0 .. Cardinality(Sessions)
      BY <1>3 DEF N
    <3> QED
      BY <3>1, <1>1
  <2> QED
    BY <2>8, <2>9, <1>3
<1>7. \E f : f = [s \in Sessions |->
                    IF ParentOf(s) = None THEN <<>>
                    ELSE f[ParentOf(s)] \o Rows(ParentOf(s), forkSeq[s])]
  BY <1>5, <1>6
<1> QED
  BY <1>7, Zenon DEF Unfolds, Ancestry

\* The same in the next state.
LEMMA AncestryUnfoldsNext == TreeInv' => Unfolds'
  BY AncestryUnfolds, PTL

-----------------------------------------------------------------------------
(* The tables *)

\* In the initial state no table has a row.
LEMMA InitTree == Init => TreeInv
<1> SUFFICES ASSUME Init PROVE TreeInv
  OBVIOUS
<1>1. TypeOK
  BY MaxSeqAssumption DEF Init, TypeOK, Idle, Call
<1>2. NoOrphanEvents /\ References
  BY DEF Init, NoOrphanEvents, References, Idle
<1>3. Acyclic
  BY NoneAssumption DEF Init, Acyclic, ParentOf
<1> QED
  BY <1>1, <1>2, <1>3 DEF TreeInv

\* A sequence that passes validate_fork_sequence belongs to a session with a row.
LEMMA ValidOwned ==
    ASSUME TreeInv, NEW s \in Sessions, NEW n, ValidSequence(s, n)
    PROVE  s \in sessions
  BY DEF TreeInv, NoOrphanEvents, ValidSequence, ListedSeqs, ParentOf

\* A step that changes no session row leaves the walk as it is.
LEMMA AcyclicKept ==
    ASSUME TreeInv, UNCHANGED <<sessions, parent>>
    PROVE  Acyclic'
  BY DEF TreeInv, Acyclic, ParentOf

\* Every critical section of every operation keeps the tables in order.
LEMMA NextTree == TreeInv /\ [Next]_vars => TreeInv'
<1> SUFFICES ASSUME TreeInv, [Next]_vars PROVE TreeInv'
  OBVIOUS
<1>1. ASSUME NEW c \in Clients, NEW s \in Sessions, CreateSession(c, s)
      PROVE  TreeInv'
  <2> USE <1>1 DEF CreateSession
  <2>1. TypeOK'
    BY MaxSeqAssumption DEF TreeInv, TypeOK, Sequences_
  <2>2. NoOrphanEvents'
    BY DEF TreeInv, NoOrphanEvents, TypeOK
  <2>3. References'
    BY DEF TreeInv, References, TypeOK
  <2>4. \A t \in Sessions : ParentOf(t)' = ParentOf(t)
    BY DEF TreeInv, TypeOK, References, ParentOf
  <2>5. Acyclic'
    <3> SUFFICES ASSUME NEW T \in SUBSET Sessions, T # {}
                 PROVE  \E m \in T : ParentOf(m)' \notin T
      BY DEF Acyclic
    <3>1. PICK m \in T : ParentOf(m) \notin T
      BY DEF TreeInv, Acyclic
    <3> HIDE DEF CreateSession
    <3> QED
      BY <3>1, <2>4
  <2> QED
    BY <2>1, <2>2, <2>3, <2>5 DEF TreeInv
<1>2. ASSUME NEW c \in Clients, NEW s \in Sessions, AppendRead(c, s)
      PROVE  TreeInv'
  <2> USE <1>2 DEF AppendRead
  <2>1. TypeOK'
    BY DEF TreeInv, TypeOK, Call
  <2>2. NoOrphanEvents' /\ References' 
    BY DEF TreeInv, NoOrphanEvents, References, TypeOK
  <2> QED
    BY <2>1, <2>2, AcyclicKept DEF TreeInv
<1>3. ASSUME NEW c \in Clients, AppendCommit(c)
      PROVE  TreeInv'
  <2> DEFINE s == calls[c].sid
             n == calls[c].next
  <2>0. /\ calls[c].op = "append" /\ s \in Sessions /\ n \in Sequences_
        /\ events' = IF CanInsert(s, n)
                     THEN [events EXCEPT ![s] = events[s] \cup {n}] ELSE events
        /\ calls' = [calls EXCEPT ![c] = Idle]
        /\ UNCHANGED <<sessions, used, parent, forkSeq, checkpoints>>
    BY <1>3 DEF AppendCommit, TreeInv, TypeOK, Call
  <2> HIDE DEF s, n
  <2>1. TypeOK'
    BY <2>0 DEF TreeInv, TypeOK, Call, Idle
  <2>2. NoOrphanEvents'
    BY <2>0 DEF TreeInv, NoOrphanEvents, CanInsert, TypeOK
  <2>3. References'
    BY <2>0 DEF TreeInv, References, TypeOK, Idle
  <2> QED
    BY <2>0, <2>1, <2>2, <2>3, AcyclicKept DEF TreeInv
<1>4. ASSUME NEW c \in Clients, NEW s \in Sessions, ForkCommit(c, s)
      PROVE  TreeInv'
  <2> USE <1>4 DEF ForkCommit
  <2>0. /\ calls[c].sid \in Sessions /\ calls[c].seq \in 0 .. MaxSeq
        /\ calls[c].sid \in used
    BY DEF TreeInv, TypeOK, References, Call, Sequences_
  <2>1. TypeOK'
    BY <2>0 DEF TreeInv, TypeOK, Idle, Call
  <2>2. NoOrphanEvents'
    BY DEF TreeInv, NoOrphanEvents
  <2>3. References'
    BY <2>0 DEF TreeInv, References, TypeOK, Idle
  <2>4. /\ \A t \in Sessions \ {s} : ParentOf(t)' = ParentOf(t)
        /\ ParentOf(s)' = calls[c].sid /\ calls[c].sid # s
        /\ \A t \in Sessions : ParentOf(t) # s
    BY <2>0, NoneAssumption DEF TreeInv, TypeOK, References, ParentOf
  <2>5. Acyclic'
    <3> SUFFICES ASSUME NEW T \in SUBSET Sessions, T # {}
                 PROVE  \E m \in T : ParentOf(m)' \notin T
      BY DEF Acyclic
    <3> HIDE DEF ForkCommit
    <3>1. CASE T = {s}
      BY <3>1, <2>4
    <3>2. CASE T # {s}
      <4>1. PICK m \in T \ {s} : ParentOf(m) \notin T \ {s}
        BY <3>2 DEF TreeInv, Acyclic
      <4> QED
        BY <4>1, <2>4
    <3> QED
      BY <3>1, <3>2
  <2> QED
    BY <2>1, <2>2, <2>3, <2>5 DEF TreeInv
<1>5. ASSUME NEW c \in Clients, NEW s \in Sessions, DeleteSession(c, s)
      PROVE  TreeInv'
  <2> USE <1>5 DEF DeleteSession
  <2>1. TypeOK'
    BY MaxSeqAssumption DEF TreeInv, TypeOK
  <2>2. NoOrphanEvents'
    BY DEF TreeInv, NoOrphanEvents, TypeOK
  <2>3. References'
    BY DEF TreeInv, References, TypeOK
  <2>4. /\ \A t \in Sessions \ {s} : ParentOf(t)' = ParentOf(t)
        /\ ParentOf(s)' = None
    BY DEF TreeInv, TypeOK, ParentOf
  <2>5. Acyclic'
    <3> SUFFICES ASSUME NEW T \in SUBSET Sessions, T # {}
                 PROVE  \E m \in T : ParentOf(m)' \notin T
      BY DEF Acyclic
    <3>1. PICK m \in T : ParentOf(m) \notin T
      BY DEF TreeInv, Acyclic
    <3> HIDE DEF DeleteSession
    <3> QED
      BY <3>1, <2>4, NoneAssumption
  <2> QED
    BY <2>1, <2>2, <2>3, <2>5 DEF TreeInv
<1>6. ASSUME NEW c \in Clients,
             \/ RestoreValidate(c)
             \/ CheckpointCommit(c)
             \/ \E k \in checkpoints : RestoreRead(c, k)
             \/ \E s \in Sessions, n \in Sequences_ : ForkValidate(c, s, n)
             \/ \E s \in Sessions, n \in Sequences_, name \in Names :
                    CheckpointValidate(c, s, name, n)
      PROVE  TreeInv'
  <2> USE DEF TreeInv
  <2>1. /\ UNCHANGED <<sessions, used, parent, forkSeq, events>>
        /\ calls' \in [Clients -> Call]
        /\ calls'[c].op # "idle" => calls'[c].sid \in used
        /\ \A d \in Clients \ {c} : calls'[d] = calls[d]
        /\ checkpoints' \subseteq Checkpoint
        /\ \A k \in checkpoints' : k.sid \in used
    <3>1. CASE RestoreValidate(c)
      BY <3>1 DEF RestoreValidate, TypeOK, References, Call, Idle
    <3>2. CASE CheckpointCommit(c)
      BY <3>2 DEF CheckpointCommit, TypeOK, References, Call, Idle, Checkpoint
    <3>3. ASSUME NEW k \in checkpoints, RestoreRead(c, k)
          PROVE  <2>1
      BY <3>3 DEF RestoreRead, TypeOK, References, Call, Checkpoint
    <3>4. ASSUME NEW s \in Sessions, NEW n \in Sequences_, ForkValidate(c, s, n)
          PROVE  <2>1
      BY <3>4, ValidOwned DEF ForkValidate, TypeOK, References, Call
    <3>5. ASSUME NEW s \in Sessions, NEW n \in Sequences_, NEW name \in Names,
                 CheckpointValidate(c, s, name, n)
          PROVE  <2>1
      BY <3>5, ValidOwned DEF CheckpointValidate, TypeOK, References, Call
    <3> QED
      BY <1>6, <3>1, <3>2, <3>3, <3>4, <3>5
  <2> QED
    BY <2>1, AcyclicKept DEF TypeOK, NoOrphanEvents, References
<1>7. CASE UNCHANGED vars
  BY <1>7, AcyclicKept DEF vars, TreeInv, TypeOK, NoOrphanEvents, References
<1> QED
  BY <1>1, <1>2, <1>3, <1>4, <1>5, <1>6, <1>7 DEF Next

\* TreeInv is an invariant.
LEMMA Tree == Spec => []TreeInv
  BY InitTree, NextTree, PTL DEF Spec

-----------------------------------------------------------------------------
(* Branches whose ancestors are all there *)

\* A root starts with nothing, a fork with its source's prefix.
LEMMA AncestryAt ==
    ASSUME TreeInv, NEW s \in Sessions
    PROVE  /\ ParentOf(s) = None => Ancestry[s] = <<>>
           /\ ParentOf(s) # None =>
                Ancestry[s] = Ancestry[ParentOf(s)] \o Rows(ParentOf(s), forkSeq[s])
  BY AncestryUnfolds DEF Unfolds

LEMMA AncestryAtNext ==
    ASSUME TreeInv', NEW s \in Sessions
    PROVE  /\ ParentOf(s)' = None => Ancestry'[s] = <<>>
           /\ \A p, f : (ParentOf(s)' = p /\ forkSeq'[s] = f /\ p # None) =>
                Ancestry'[s] = Ancestry'[p] \o Rows(p, f)'
  BY AncestryUnfoldsNext DEF Unfolds, Rows

\* The source of an intact fork is intact.
LEMMA IntactSource ==
    ASSUME TreeInv, NEW s, Intact(s)
    PROVE  /\ s \in sessions /\ s \in Sessions /\ s \in used
           /\ ParentOf(s) = parent[s]
           /\ parent[s] # None => Intact(parent[s])
  BY DEF TreeInv, TypeOK, Intact, ParentOf

LEMMA IntactSourceNext ==
    ASSUME TreeInv', NEW s, Intact(s)'
    PROVE  /\ s \in sessions' /\ s \in Sessions /\ s \in used'
           /\ ParentOf(s)' = parent'[s]
           /\ parent'[s] # None => Intact(parent[s])'
  BY DEF TreeInv, TypeOK, Intact, ParentOf

\* How many of the numbers a+1 .. h are at most b.
Taken(a, h, b) == IF b <= a THEN 0 ELSE IF b <= h THEN b - a ELSE h - a

\* The segment that a session with gap-free rows contributes to a history.
LEMMA Segment ==
    ASSUME NEW s \in Sessions, NEW a \in Nat, NEW h \in Nat, a <= h,
           events[s] = (a + 1) .. h, NEW b \in Nat
    PROVE  /\ Taken(a, h, b) \in Nat
           /\ Rows(s, b) = Run(s, a, Taken(a, h, b))
           /\ Rows(s, b) \in RowSeq
           /\ Len(Rows(s, b)) = Taken(a, h, b)
<1> DEFINE m == Taken(a, h, b)
<1>1. m \in Nat
  BY DEF Taken
<1>2. {q \in events[s] : q <= b} = (a + 1) .. (a + m)
  BY DEF Taken
<1> HIDE DEF m
<1>3. Rows(s, b) = Run(s, a, m)
  BY <1>1, <1>2, RowsInterval
<1> QED
  BY <1>1, <1>3, RunProperties DEF m

\* What an intact branch inherits is a sequence of rows.
LEMMA Branches ==
    ASSUME TreeInv, HistoryInv, NEW s, Intact(s)
    PROVE  Ancestry[s] \in RowSeq
<1> DEFINE T == {t \in Sessions : Intact(t) /\ Ancestry[t] \notin RowSeq}
<1> SUFFICES T = {}
  BY IntactSource
<1> SUFFICES ASSUME T # {} PROVE FALSE
  OBVIOUS
<1>1. PICK m \in T : ParentOf(m) \notin T
  <2>1. T \in SUBSET Sessions
    OBVIOUS
  <2> QED
    BY <2>1 DEF TreeInv, Acyclic
<1>2. m \in Sessions /\ Intact(m) /\ m \in sessions /\ ParentOf(m) = parent[m]
  BY <1>1, IntactSource
<1>3. CASE ParentOf(m) = None
  <2>1. <<>> \in RowSeq
    BY RowSeqProperties
  <2> QED
    BY <1>1, <1>2, <1>3, <2>1, AncestryAt
<1>4. CASE ParentOf(m) # None
  <2> DEFINE p == ParentOf(m)
  <2>1. Intact(p) /\ p \in sessions /\ p \in Sessions
    BY <1>2, <1>4, IntactSource
  <2>2. Ancestry[p] \in RowSeq
    BY <1>1, <2>1
  <2>3. Inherited(p) \in Nat
    BY <2>2, RowSeqProperties DEF Inherited
  <2>4. Cardinality(events[p]) \in Nat
    BY <2>1, RowsFinite DEF TreeInv, TypeOK
  <2>5. LogicalHead(p) \in Nat /\ Inherited(p) <= LogicalHead(p)
    BY <2>3, <2>4 DEF LogicalHead
  <2>6. events[p] = (Inherited(p) + 1) .. LogicalHead(p)
    BY <2>1 DEF HistoryInv, Numbered
  <2>7. forkSeq[m] \in Nat
    BY <1>2, MaxSeqAssumption DEF TreeInv, TypeOK
  <2> HIDE DEF p
  <2>8. Rows(p, forkSeq[m]) \in RowSeq
    BY <2>1, <2>3, <2>5, <2>6, <2>7, Segment
  <2>9. Ancestry[p] \o Rows(p, forkSeq[m]) \in RowSeq
    BY <2>2, <2>8, RowSeqConcat
  <2> QED
    BY <2>9, <1>1, <1>2, <1>4, AncestryAt DEF p
<1> QED
  BY <1>3, <1>4

\* The own rows of an intact branch run from its first own position to its head.
LEMMA Heads ==
    ASSUME TreeInv, HistoryInv, NEW s, Intact(s)
    PROVE  /\ Inherited(s) \in Nat
           /\ Cardinality(events[s]) \in Nat
           /\ LogicalHead(s) \in Nat
           /\ LogicalHead(s) = Inherited(s) + Cardinality(events[s])
           /\ Inherited(s) <= LogicalHead(s)
           /\ events[s] = (Inherited(s) + 1) .. LogicalHead(s)
<1>1. s \in sessions /\ s \in Sessions
  BY IntactSource
<1>2. Inherited(s) \in Nat
  BY Branches, RowSeqProperties DEF Inherited
<1>3. Cardinality(events[s]) \in Nat
  BY <1>1, RowsFinite DEF TreeInv, TypeOK
<1>4. events[s] = (Inherited(s) + 1) .. LogicalHead(s)
  BY <1>1 DEF HistoryInv, Numbered
<1> QED
  BY <1>2, <1>3, <1>4 DEF LogicalHead

\* What a branch inherits from the source it was forked from.
LEMMA Prefixed ==
    ASSUME TreeInv, HistoryInv, NEW p, Intact(p), NEW n \in 1 .. LogicalHead(p)
    PROVE  /\ Rows(p, n) \in RowSeq
           /\ Rows(p, n) = Run(p, Inherited(p), Taken(Inherited(p), LogicalHead(p), n))
           /\ Ancestry[p] \o Rows(p, n) \in RowSeq
           /\ Len(Ancestry[p] \o Rows(p, n)) = IF n <= Inherited(p) THEN Inherited(p) ELSE n
<1>1. p \in Sessions
  BY IntactSource
<1>2. /\ Inherited(p) \in Nat /\ LogicalHead(p) \in Nat /\ Inherited(p) <= LogicalHead(p)
      /\ events[p] = (Inherited(p) + 1) .. LogicalHead(p)
  BY Heads
<1>3. n \in Nat
  BY <1>2
<1>4. /\ Rows(p, n) \in RowSeq
      /\ Rows(p, n) = Run(p, Inherited(p), Taken(Inherited(p), LogicalHead(p), n))
      /\ Len(Rows(p, n)) = Taken(Inherited(p), LogicalHead(p), n)
  BY <1>1, <1>2, <1>3, Segment
<1>5. Ancestry[p] \in RowSeq
  BY Branches
<1>6. /\ Ancestry[p] \o Rows(p, n) \in RowSeq
      /\ Len(Ancestry[p] \o Rows(p, n)) = Inherited(p) + Len(Rows(p, n))
  BY <1>4, <1>5, RowSeqConcat DEF Inherited
<1>7. Inherited(p) + Taken(Inherited(p), LogicalHead(p), n)
        = IF n <= Inherited(p) THEN Inherited(p) ELSE n
  BY <1>2, <1>3 DEF Taken
<1> QED
  BY <1>4, <1>6, <1>7

\* list(s) has one position per logical sequence; the own rows of s are at the
\* positions their numbers say.
LEMMA Listed ==
    ASSUME TreeInv, HistoryInv, NEW s, Intact(s)
    PROVE  /\ List(s) \in RowSeq
           /\ Len(List(s)) = LogicalHead(s)
           /\ DOMAIN List(s) = 1 .. LogicalHead(s)
           /\ \A n \in 1 .. LogicalHead(s) :
                List(s)[n] = IF n <= Inherited(s) THEN Ancestry[s][n] ELSE <<s, n>>
<1>1. s \in Sessions
  BY IntactSource
<1>2. /\ Inherited(s) \in Nat /\ LogicalHead(s) \in Nat /\ Inherited(s) <= LogicalHead(s)
      /\ events[s] = (Inherited(s) + 1) .. LogicalHead(s)
  BY Heads
<1>3. LogicalHead(s) = Inherited(s) \/ LogicalHead(s) <= MaxSeq
  <2>1. events[s] \subseteq 1 .. MaxSeq
    BY <1>1 DEF TreeInv, TypeOK, Sequences_
  <2> QED
    BY <1>2, <2>1, MaxSeqAssumption
<1>4. Taken(Inherited(s), LogicalHead(s), MaxSeq) = LogicalHead(s) - Inherited(s)
  BY <1>2, <1>3, MaxSeqAssumption DEF Taken
<1> DEFINE own == Rows(s, MaxSeq)
<1>5. /\ own \in RowSeq
      /\ Len(own) = LogicalHead(s) - Inherited(s)
      /\ \A k \in 1 .. (LogicalHead(s) - Inherited(s)) : own[k] = <<s, Inherited(s) + k>>
  <2>1. MaxSeq \in Nat
    BY MaxSeqAssumption
  <2>2. /\ own = Run(s, Inherited(s), Taken(Inherited(s), LogicalHead(s), MaxSeq))
        /\ LogicalHead(s) - Inherited(s) \in Nat
    <3>1. own = Run(s, Inherited(s), Taken(Inherited(s), LogicalHead(s), MaxSeq))
      BY <1>1, <1>2, <2>1, Segment
    <3>2. LogicalHead(s) - Inherited(s) \in Nat
      BY <1>2
    <3> QED
      BY <3>1, <3>2, Zenon
  <2>3. own = Run(s, Inherited(s), LogicalHead(s) - Inherited(s))
    BY <2>2, <1>4
  <2> DEFINE a == Inherited(s)
             d == LogicalHead(s) - Inherited(s)
             run == Run(s, a, d)
  <2>4. a \in Nat /\ d \in Nat /\ s \in Sessions
    BY <1>1, <1>2, <2>2
  <2> HIDE DEF own, a, d
  <2>5. run \in RowSeq /\ Len(run) = d /\ \A k \in 1 .. d : run[k] = <<s, a + k>>
    BY <2>4, RunProperties
  <2>6. own = run
    BY <2>3 DEF a, d
  <2> HIDE DEF run
  <2> QED
    BY <2>5, <2>6 DEF a, d
<1>6. Ancestry[s] \in RowSeq /\ Len(Ancestry[s]) = Inherited(s)
  BY Branches DEF Inherited
<1> HIDE DEF own
<1>7. /\ List(s) \in RowSeq
      /\ Len(List(s)) = Inherited(s) + Len(own)
      /\ \A i \in 1 .. (Inherited(s) + Len(own)) :
            List(s)[i] = IF i <= Inherited(s) THEN Ancestry[s][i] ELSE own[i - Inherited(s)]
  <2>1. List(s) = Ancestry[s] \o own
    BY DEF List, own
  <2>2. own \in RowSeq
    BY <1>5
  <2>3. /\ Ancestry[s] \o own \in RowSeq
        /\ Len(Ancestry[s] \o own) = Len(Ancestry[s]) + Len(own)
        /\ \A i \in 1 .. (Len(Ancestry[s]) + Len(own)) :
              (Ancestry[s] \o own)[i]
                = IF i <= Len(Ancestry[s]) THEN Ancestry[s][i] ELSE own[i - Len(Ancestry[s])]
    BY <2>2, <1>6, RowSeqConcat, Zenon
  <2> QED
    BY <2>1, <2>3, <1>6, Zenon
<1>8. Inherited(s) + Len(own) = LogicalHead(s)
  BY <1>2, <1>5
<1>9. ASSUME NEW n \in 1 .. LogicalHead(s), ~(n <= Inherited(s))
      PROVE  own[n - Inherited(s)] = <<s, n>>
  <2>1. /\ n - Inherited(s) \in 1 .. (LogicalHead(s) - Inherited(s))
        /\ Inherited(s) + (n - Inherited(s)) = n
    BY <1>2, <1>9
  <2> QED
    BY <2>1, <1>5
<1> QED
  BY <1>7, <1>8, <1>9, RowSeqProperties

-----------------------------------------------------------------------------
(* What a step does to a branch that is intact after it *)

\* A session row is only added under an id never drawn before; the row and the
\* events of a session stay, but for the event an append_next inserts.
RowsStay ==
    /\ \A s \in sessions' : s \notin sessions => s \notin used
    /\ \A s \in sessions \cap sessions' :
         /\ parent'[s] = parent[s] /\ forkSeq'[s] = forkSeq[s]
         /\ \/ events'[s] = events[s]
            \/ \E c \in Clients :
                 /\ calls[c].op = "append" /\ calls[c].sid = s
                 /\ calls[c].next \notin events[s]
                 /\ events'[s] = events[s] \cup {calls[c].next}

LEMMA TableStep ==
    ASSUME TreeInv, [Next]_vars
    PROVE  RowsStay
<1> USE DEF TreeInv, RowsStay
<1>1. ASSUME NEW c \in Clients, NEW s \in Sessions, CreateSession(c, s)
      PROVE  RowsStay
  BY <1>1 DEF CreateSession, TypeOK
<1>2. ASSUME NEW c \in Clients, AppendCommit(c)
      PROVE  RowsStay
  <2>1. /\ UNCHANGED <<sessions, used, parent, forkSeq>>
        /\ calls[c].op = "append"
        /\ events' = IF CanInsert(calls[c].sid, calls[c].next)
                     THEN [events EXCEPT ![calls[c].sid] = events[calls[c].sid] \cup {calls[c].next}]
                     ELSE events
    BY <1>2 DEF AppendCommit
  <2>2. \A s \in sessions :
           \/ events'[s] = events[s]
           \/ /\ calls[c].sid = s
              /\ calls[c].next \notin events[s]
              /\ events'[s] = events[s] \cup {calls[c].next}
    BY <2>1 DEF CanInsert, TypeOK
  <2> QED
    BY <2>1, <2>2
<1>3. ASSUME NEW c \in Clients, NEW s \in Sessions, ForkCommit(c, s)
      PROVE  RowsStay
  BY <1>3 DEF ForkCommit, TypeOK
<1>4. ASSUME NEW c \in Clients, NEW s \in Sessions, DeleteSession(c, s)
      PROVE  RowsStay
  BY <1>4 DEF DeleteSession, TypeOK
<1>5. CASE UNCHANGED <<sessions, used, parent, forkSeq, events>>
  BY <1>5
<1> QED
  BY <1>1, <1>2, <1>3, <1>4, <1>5
  DEF Next, vars, RestoreValidate, CheckpointCommit, RestoreRead, AppendRead,
      ForkValidate, CheckpointValidate

\* No step repairs a branch: one that is intact after it was intact before.
LEMMA IntactBefore ==
    ASSUME TreeInv, [Next]_vars, NEW s \in used, Intact(s)'
    PROVE  s \in sessions /\ s \in sessions' /\ Intact(s)
<1>1. PICK path \in SUBSET sessions' :
         s \in path /\ \A t \in path : parent'[t] \in path \cup {None}
  BY DEF Intact
<1> DEFINE old == path \cap sessions
<1>2. \A t \in path : t \notin sessions => t \notin used
  BY TableStep DEF RowsStay
<1>3. s \in old
  BY <1>1, <1>2
<1>4. ASSUME NEW t \in old PROVE parent[t] \in old \cup {None}
  <2>1. parent[t] = parent'[t]
    BY TableStep DEF RowsStay
  <2>2. t \in Sessions
    BY DEF TreeInv, TypeOK
  <2>3. parent[t] \in used \cup {None}
    BY <2>2 DEF TreeInv, References
  <2> QED
    BY <1>1, <1>2, <2>1, <2>3
<1>5. Intact(s)
  <2>1. old \in SUBSET sessions
    OBVIOUS
  <2> HIDE DEF old
  <2> QED
    BY <2>1, <1>3, <1>4 DEF Intact
<1> QED
  BY <1>1, <1>3, <1>5

\* The row of an intact branch stays, and an append to it takes the number after
\* its head: the numbers below are taken, and no pending append holds one above.
LEMMA Grows ==
    ASSUME TreeInv, HistoryInv, [Next]_vars, NEW s \in used, Intact(s)'
    PROVE  /\ parent'[s] = parent[s] /\ forkSeq'[s] = forkSeq[s]
           /\ events'[s] = events[s] \/ events'[s] = events[s] \cup {LogicalHead(s) + 1}
<1>1. s \in sessions \cap sessions' /\ Intact(s)
  BY IntactBefore
<1>2. parent'[s] = parent[s] /\ forkSeq'[s] = forkSeq[s]
  BY <1>1, TableStep DEF RowsStay
<1>3. ASSUME NEW c \in Clients, calls[c].op = "append", calls[c].sid = s,
             calls[c].next \notin events[s]
      PROVE  calls[c].next = LogicalHead(s) + 1
  <2>1. calls[c].next \in (Inherited(s) + 1) .. (LogicalHead(s) + 1)
    BY <1>1, <1>3 DEF HistoryInv, CallsCurrent
  <2>2. /\ Inherited(s) \in Nat /\ LogicalHead(s) \in Nat
        /\ events[s] = (Inherited(s) + 1) .. LogicalHead(s)
    BY <1>1, Heads
  <2> QED
    BY <1>3, <2>1, <2>2
<1> QED
  BY <1>1, <1>2, <1>3, TableStep DEF RowsStay

\* What an intact branch inherits does not change: what an ancestor appends comes
\* after the fork point.
LEMMA AncestryKept ==
    ASSUME TreeInv, HistoryInv, TreeInv', [Next]_vars, NEW s \in used, Intact(s)'
    PROVE  Ancestry'[s] = Ancestry[s]
<1> DEFINE T == {t \in used : Intact(t)' /\ Ancestry'[t] # Ancestry[t]}
<1> SUFFICES ASSUME T # {} PROVE FALSE
  OBVIOUS
<1>1. PICK m \in T : ParentOf(m) \notin T
  <2>1. T \in SUBSET Sessions
    BY DEF TreeInv, TypeOK
  <2> HIDE DEF T
  <2> QED
    BY <2>1 DEF TreeInv, Acyclic
<1>2. m \in used /\ Intact(m)' /\ Ancestry'[m] # Ancestry[m]
  BY <1>1
<1>3. m \in sessions /\ m \in Sessions /\ Intact(m) /\ ParentOf(m) = parent[m]
  BY <1>2, IntactBefore, IntactSource
<1>4. ParentOf(m)' = parent'[m] /\ parent'[m] = parent[m] /\ forkSeq'[m] = forkSeq[m]
  BY <1>2, IntactSourceNext, Grows
<1>5. CASE parent[m] = None
  BY <1>2, <1>3, <1>4, <1>5, AncestryAt, AncestryAtNext
<1>6. CASE parent[m] # None
  <2>0. PICK p, f : p = parent[m] /\ f = forkSeq[m]
    OBVIOUS
  <2>1. Intact(p)' /\ Intact(p) /\ p \in used
    <3>1. Intact(p)'
      BY <1>2, <1>4, <1>6, <2>0 DEF Intact
    <3> QED
      BY <3>1, <1>3, <1>6, <2>0, IntactSource
  <2>2. Ancestry'[p] = Ancestry[p]
    BY <1>1, <1>3, <2>0, <2>1
  <2>3. f \in 1 .. LogicalHead(p)
    BY <1>3, <1>6, <2>0 DEF HistoryInv, ForkPoints
  <2>4. LogicalHead(p) \in Nat
    BY <2>1, Heads
  <2>5. events'[p] = events[p] \/ events'[p] = events[p] \cup {LogicalHead(p) + 1}
    BY <2>1, Grows
  <2>6. {q \in events'[p] : q <= f} = {q \in events[p] : q <= f}
    BY <2>3, <2>4, <2>5
  <2>7. Rows(p, f)' = Rows(p, f)
    BY <2>6, Zenon DEF Rows
  <2>8. Ancestry[m] = Ancestry[p] \o Rows(p, f)
    BY <1>3, <1>6, <2>0, AncestryAt
  <2>9. Ancestry'[m] = Ancestry'[p] \o Rows(p, f)'
    BY <1>3, <1>4, <1>6, <2>0, AncestryAtNext
  <2> QED
    BY <1>2, <2>2, <2>7, <2>8, <2>9
<1> QED
  BY <1>5, <1>6

\* Everything a step leaves of a branch that is intact after it: the head only
\* moves when the branch itself gets an event.
LEMMA Kept ==
    ASSUME TreeInv, HistoryInv, TreeInv', [Next]_vars, NEW s \in used, Intact(s)'
    PROVE  /\ s \in sessions /\ s \in sessions' /\ Intact(s)
           /\ parent'[s] = parent[s] /\ forkSeq'[s] = forkSeq[s]
           /\ Ancestry'[s] = Ancestry[s]
           /\ Inherited(s)' = Inherited(s)
           /\ \/ events'[s] = events[s] /\ LogicalHead(s)' = LogicalHead(s)
              \/ /\ events'[s] = events[s] \cup {LogicalHead(s) + 1}
                 /\ LogicalHead(s)' = LogicalHead(s) + 1
<1>1. s \in sessions /\ s \in sessions' /\ Intact(s)
  BY IntactBefore
<1>2. Ancestry'[s] = Ancestry[s]
  BY AncestryKept
<1>3. Inherited(s)' = Inherited(s)
  BY <1>2 DEF Inherited
<1>4. /\ Inherited(s) \in Nat /\ LogicalHead(s) \in Nat /\ Cardinality(events[s]) \in Nat
      /\ LogicalHead(s) = Inherited(s) + Cardinality(events[s])
      /\ events[s] = (Inherited(s) + 1) .. LogicalHead(s)
  BY <1>1, Heads
<1>5. LogicalHead(s)' = Inherited(s) + Cardinality(events'[s])
  BY <1>3 DEF LogicalHead
<1>6. CASE events'[s] = events[s]
  BY <1>1, <1>2, <1>3, <1>4, <1>5, <1>6, Grows
<1>7. CASE events'[s] = events[s] \cup {LogicalHead(s) + 1}
  <2>1. LogicalHead(s) + 1 \notin events[s]
    <3>1. LogicalHead(s) \in Nat /\ events[s] = (Inherited(s) + 1) .. LogicalHead(s)
      BY <1>4
    <3> QED
      BY <3>1, <1>4
  <2>2. IsFiniteSet(events[s])
    BY <1>1, RowsFinite DEF TreeInv, TypeOK
  <2>3. Cardinality(events'[s]) = Cardinality(events[s]) + 1
    BY <1>7, <2>1, <2>2, FS_AddElement
  <2>4. LogicalHead(s)' = LogicalHead(s) + 1
    BY <1>4, <1>5, <2>3
  <2> QED
    BY <1>1, <1>2, <1>3, <1>7, <2>4, Grows
<1> QED
  BY <1>6, <1>7, Grows

-----------------------------------------------------------------------------
(* New sessions, new calls *)

\* A row under a new id is the work of create_session or of fork_session.
LEMMA FreshSession ==
    ASSUME TreeInv, [Next]_vars, NEW s \in sessions', s \notin used
    PROVE  \E c \in Clients : CreateSession(c, s) \/ ForkCommit(c, s)
<1>1. s \notin sessions
  BY DEF TreeInv, TypeOK
<1>2. CASE \E c \in Clients, t \in Sessions : CreateSession(c, t) \/ ForkCommit(c, t)
  <2>1. PICK c \in Clients, t \in Sessions : CreateSession(c, t) \/ ForkCommit(c, t)
    BY <1>2
  <2>2. sessions' = sessions \cup {t}
    BY <2>1 DEF CreateSession, ForkCommit
  <2>3. s = t
    BY <1>1, <2>2
  <2> QED
    BY <2>1, <2>3
<1>3. CASE sessions' \subseteq sessions
  BY <1>1, <1>3
<1> QED
  BY <1>2, <1>3
  DEF Next, vars, RestoreValidate, CheckpointCommit, RestoreRead, AppendRead, AppendCommit,
      ForkValidate, CheckpointValidate, DeleteSession

\* A session just created lists its Created event and no more.
LEMMA NewRoot ==
    ASSUME TreeInv, TreeInv', NEW c \in Clients, NEW s \in Sessions, CreateSession(c, s)
    PROVE  /\ parent'[s] = None
           /\ Ancestry'[s] = <<>> /\ Inherited(s)' = 0
           /\ events'[s] = {1} /\ LogicalHead(s)' = 1
<1>1. parent'[s] = None /\ ParentOf(s)' = None /\ events'[s] = {1}
  BY DEF CreateSession, TreeInv, TypeOK, References, ParentOf
<1>2. Ancestry'[s] = <<>>
  BY <1>1, AncestryAtNext
<1>3. Inherited(s)' = 0
  BY <1>2 DEF Inherited
<1>4. Cardinality({1}) = 1
  BY FS_EmptySet, FS_AddElement, {1} = {} \cup {1}
<1>5. LogicalHead(s)' = Inherited(s)' + Cardinality(events'[s])
  BY DEF LogicalHead
<1>6. LogicalHead(s)' = 1
  BY <1>1, <1>3, <1>4, <1>5
<1> QED
  BY <1>1, <1>2, <1>3, <1>6

\* What a fork of p at n starts with.
Prefix(p, n) == Ancestry[p] \o Rows(p, n)

\* A session just forked from a branch that is still intact lists the prefix
\* that was validated before, although the source may have grown since.
LEMMA NewFork ==
    ASSUME TreeInv, HistoryInv, TreeInv', NEW c \in Clients, NEW s \in Sessions,
           ForkCommit(c, s), Intact(s)', NEW p, NEW n, p = calls[c].sid, n = calls[c].seq
    PROVE  /\ s \notin used /\ s # p
           /\ p \in used /\ Intact(p) /\ Intact(p)'
           /\ parent'[s] = p /\ forkSeq'[s] = n
           /\ n \in 1 .. LogicalHead(p) /\ (ForkBelow \/ Inherited(p) <= n)
           /\ events'[s] = {} /\ UNCHANGED events
           /\ Ancestry'[s] = Prefix(p, n)
           /\ Inherited(s)' = IF n <= Inherited(p) THEN Inherited(p) ELSE n
           /\ LogicalHead(s)' = Inherited(s)'
<1>0. [Next]_vars
  BY DEF Next
<1>1. /\ calls[c].op = "fork" /\ p \in used /\ p \in Sessions /\ p # s /\ s \notin used
      /\ parent'[s] = p /\ forkSeq'[s] = n /\ UNCHANGED events
  BY DEF ForkCommit, TreeInv, TypeOK, References, Call
<1>2. events'[s] = {}
  BY <1>1 DEF TreeInv, TypeOK, NoOrphanEvents
<1>3. p # None
  BY <1>1, NoneAssumption
<1>4. Intact(p)' /\ ParentOf(s)' = p
  BY <1>1, <1>3 DEF Intact, ParentOf
<1>5. Intact(p) /\ Ancestry'[p] = Ancestry[p]
  BY <1>0, <1>1, <1>4, Kept
<1>6. n \in 1 .. LogicalHead(p) /\ (ForkBelow \/ Inherited(p) <= n)
  BY <1>1, <1>5 DEF HistoryInv, CallsCurrent
<1>7. Rows(p, n)' = Rows(p, n)
  BY <1>1, Zenon DEF Rows
<1>8. Ancestry'[s] = Ancestry[p] \o Rows(p, n)
  <2>1. Ancestry'[s] = Ancestry'[p] \o Rows(p, n)'
    BY <1>1, <1>3, <1>4, AncestryAtNext, Zenon
  <2> QED
    BY <2>1, <1>5, <1>7, Zenon
<1>9. Inherited(s)' = IF n <= Inherited(p) THEN Inherited(p) ELSE n
  <2>1. Len(Ancestry[p] \o Rows(p, n)) = IF n <= Inherited(p) THEN Inherited(p) ELSE n
    BY <1>5, <1>6, Prefixed
  <2>2. Inherited(s)' = Len(Ancestry'[s])
    BY DEF Inherited
  <2> QED
    BY <1>8, <2>1, <2>2
<1>10. LogicalHead(s)' = Inherited(s)'
  <2>1. LogicalHead(s)' = Inherited(s)' + 0
    BY <1>2, FS_EmptySet DEF LogicalHead
  <2>2. Inherited(p) \in Nat /\ LogicalHead(p) \in Nat
    BY <1>5, Heads
  <2>3. Inherited(s)' \in Nat
    BY <1>6, <1>9, <2>2
  <2> QED
    BY <2>1, <2>3
<1> QED
  <2>1. Ancestry'[s] = Prefix(p, n)
    BY <1>8, Zenon DEF Prefix
  <2> QED
    BY <1>1, <1>2, <1>4, <1>5, <1>6, <1>9, <1>10, <2>1

\* What a client newly holds after a critical section that only read.
NewCall(d) ==
    \/ \E s \in used :
          calls'[d] = [op |-> "append", sid |-> s, next |-> LogicalHead(s) + 1]
    \/ /\ calls'[d].op \in {"fork", "checkpoint"}
       /\ calls'[d].sid \in Sessions /\ calls'[d].seq \in Sequences_
       /\ ValidSequence(calls'[d].sid, calls'[d].seq)
       /\ calls'[d].op = "fork" =>
             \/ ForkAsked(calls'[d].sid, calls'[d].seq)
             \/ /\ calls[d].op = "restore"
                /\ calls'[d].sid = calls[d].sid /\ calls'[d].seq = calls[d].seq
    \/ /\ calls'[d].op = "restore"
       /\ calls'[d].sid \in Sessions /\ calls'[d].seq \in Sequences_
       /\ ForkAsked(calls'[d].sid, calls'[d].seq)

\* A call in flight is kept, ended, or begun by a step that changes no table.
CallMoves(d) ==
    \/ calls'[d] = calls[d]
    \/ calls'[d] = Idle
    \/ UNCHANGED <<sessions, used, parent, forkSeq, events>> /\ NewCall(d)

LEMMA CallStep ==
    ASSUME TreeInv, [Next]_vars, NEW d \in Clients
    PROVE  CallMoves(d)
<1> USE DEF TreeInv, CallMoves
<1>1. ASSUME NEW c \in Clients,
             \/ AppendCommit(c) \/ CheckpointCommit(c)
             \/ \E s \in Sessions : CreateSession(c, s) \/ ForkCommit(c, s) \/ DeleteSession(c, s)
      PROVE  calls'[d] = calls[d] \/ calls'[d] = Idle
  BY <1>1 DEF AppendCommit, CheckpointCommit, CreateSession, ForkCommit, DeleteSession, TypeOK
<1>2. ASSUME NEW c \in Clients, NEW s \in Sessions, AppendRead(c, s)
      PROVE  CallMoves(d)
  BY <1>2 DEF AppendRead, NewCall, TypeOK
<1>3. ASSUME NEW c \in Clients, RestoreValidate(c)
      PROVE  CallMoves(d)
  BY <1>3 DEF RestoreValidate, NewCall, TypeOK, Call
<1>4. ASSUME NEW c \in Clients, NEW k \in checkpoints, RestoreRead(c, k)
      PROVE  CallMoves(d)
  BY <1>4 DEF RestoreRead, NewCall, TypeOK, Checkpoint
<1>5. ASSUME NEW c \in Clients, NEW s \in Sessions, NEW n \in Sequences_, ForkValidate(c, s, n)
      PROVE  CallMoves(d)
  BY <1>5 DEF ForkValidate, NewCall, TypeOK
<1>6. ASSUME NEW c \in Clients, NEW s \in Sessions, NEW n \in Sequences_, NEW name \in Names,
             CheckpointValidate(c, s, name, n)
      PROVE  CallMoves(d)
  BY <1>6 DEF CheckpointValidate, NewCall, TypeOK
<1>7. CASE UNCHANGED vars
  BY <1>7 DEF vars
<1> QED
  BY <1>1, <1>2, <1>3, <1>4, <1>5, <1>6, <1>7 DEF Next

\* A validated sequence is a position of the branch, and a caller that does not
\* fork below fork points asks for one past what the branch inherits.
LEMMA ValidPosition ==
    ASSUME TreeInv, HistoryInv, NEW s, Intact(s), NEW n \in Sequences_
    PROVE  /\ ValidSequence(s, n) => n \in 1 .. LogicalHead(s)
           /\ ForkAsked(s, n) => ForkBelow \/ Inherited(s) <= n
<1>1. s \in sessions /\ s \in Sessions /\ ParentOf(s) = parent[s]
  BY IntactSource
<1>2. /\ Inherited(s) \in Nat /\ LogicalHead(s) \in Nat
      /\ events[s] = (Inherited(s) + 1) .. LogicalHead(s)
  BY Heads
<1>3. ParentOf(s) = None => Inherited(s) = 0
  <2>1. Len(<<>>) = 0
    OBVIOUS
  <2> QED
    BY <1>1, <2>1, AncestryAt, Zenon DEF Inherited
<1>4. n \in Nat \ {0}
  BY MaxSeqAssumption DEF Sequences_
<1>5. ValidSequence(s, n) => n \in 1 .. LogicalHead(s)
  BY <1>2, <1>3, <1>4 DEF ValidSequence, ListedSeqs
<1>6. ParentOf(s) # None => ForkBelow \/ forkSeq[s] = Inherited(s)
  BY <1>1 DEF HistoryInv, ForkPoints
<1>7. ForkAsked(s, n) => ForkBelow \/ Inherited(s) <= n
  BY <1>2, <1>3, <1>4, <1>6 DEF ForkAsked
<1> QED
  BY <1>5, <1>7

-----------------------------------------------------------------------------
(* The inductive invariant *)

LEMMA InitHistory == Init => HistoryInv
  BY DEF Init, HistoryInv, Numbered, ForkPoints, CallsCurrent, CheckpointsCurrent, Idle

\* Every critical section keeps what numbers mean on intact branches.
LEMMA NextHistory == TreeInv /\ HistoryInv /\ TreeInv' /\ [Next]_vars => HistoryInv'
<1> SUFFICES ASSUME TreeInv, HistoryInv, TreeInv', [Next]_vars
             PROVE  HistoryInv'
  OBVIOUS
<1>1. Numbered'
  <2> SUFFICES ASSUME NEW s \in sessions', Intact(s)'
               PROVE  events'[s] = (Inherited(s)' + 1) .. LogicalHead(s)'
    BY DEF Numbered
  <2>1. CASE s \in used
    <3>1. /\ Inherited(s) \in Nat /\ LogicalHead(s) \in Nat /\ Inherited(s) <= LogicalHead(s)
          /\ events[s] = (Inherited(s) + 1) .. LogicalHead(s)
      BY <2>1, Kept, Heads
    <3>2. /\ Inherited(s)' = Inherited(s)
          /\ \/ events'[s] = events[s] /\ LogicalHead(s)' = LogicalHead(s)
             \/ /\ events'[s] = events[s] \cup {LogicalHead(s) + 1}
                /\ LogicalHead(s)' = LogicalHead(s) + 1
      BY <2>1, Kept
    <3>3. ((Inherited(s) + 1) .. LogicalHead(s)) \cup {LogicalHead(s) + 1}
             = (Inherited(s) + 1) .. (LogicalHead(s) + 1)
      BY <3>1, IntervalGrows
    <3> QED
      BY <3>1, <3>2, <3>3, Zenon
  <2>2. CASE s \notin used
    <3>1. PICK c \in Clients : CreateSession(c, s) \/ ForkCommit(c, s)
      BY <2>2, FreshSession
    <3>2. s \in Sessions
      BY DEF TreeInv, TypeOK
    <3>3. CASE CreateSession(c, s)
      <4>1. Inherited(s)' = 0 /\ events'[s] = {1} /\ LogicalHead(s)' = 1
        BY <3>2, <3>3, NewRoot
      <4> QED
        BY <4>1
    <3>4. CASE ForkCommit(c, s)
      <4>1. PICK p, n : p = calls[c].sid /\ n = calls[c].seq
        OBVIOUS
      <4>2. /\ Intact(p) /\ n \in 1 .. LogicalHead(p) /\ events'[s] = {}
            /\ Inherited(s)' = IF n <= Inherited(p) THEN Inherited(p) ELSE n
            /\ LogicalHead(s)' = Inherited(s)'
        BY <3>2, <3>4, <4>1, NewFork
      <4>3. Inherited(p) \in Nat /\ LogicalHead(p) \in Nat
        BY <4>2, Heads
      <4>4. Inherited(s)' \in Nat
        BY <4>2, <4>3
      <4> QED
        BY <4>2, <4>4
    <3> QED
      BY <3>1, <3>3, <3>4
  <2> QED
    BY <2>1, <2>2
<1>2. ForkPoints'
  <2> SUFFICES ASSUME NEW s \in sessions', parent'[s] # None, Intact(s)', NEW p, p = parent'[s]
               PROVE  /\ forkSeq'[s] \in 1 .. LogicalHead(p)'
                      /\ ForkBelow \/ forkSeq'[s] = Inherited(s)'
    BY DEF ForkPoints
  <2>0. Intact(p)' /\ s \in Sessions
    BY DEF Intact, TreeInv, TypeOK
  <2>1. CASE s \in used
    <3>1. /\ s \in sessions /\ Intact(s) /\ parent[s] = p /\ forkSeq'[s] = forkSeq[s]
          /\ Inherited(s)' = Inherited(s)
      BY <2>1, Kept
    <3>2. /\ forkSeq[s] \in 1 .. LogicalHead(p)
          /\ ForkBelow \/ forkSeq[s] = Inherited(s)
      BY <3>1 DEF HistoryInv, ForkPoints
    <3>3. p \in used
      BY <2>0, <3>1 DEF TreeInv, References
    <3>4. /\ LogicalHead(p) \in Nat
          /\ LogicalHead(p)' = LogicalHead(p) \/ LogicalHead(p)' = LogicalHead(p) + 1
      BY <2>0, <3>3, Kept, Heads
    <3>5. forkSeq[s] \in 1 .. LogicalHead(p)'
      BY <3>2, <3>4
    <3> QED
      BY <3>1, <3>2, <3>5
  <2>2. CASE s \notin used
    <3>1. PICK c \in Clients : CreateSession(c, s) \/ ForkCommit(c, s)
      BY <2>2, FreshSession
    <3>2. ForkCommit(c, s)
      BY <2>0, <3>1, NewRoot
    <3>3. PICK q, n : q = calls[c].sid /\ n = calls[c].seq
      OBVIOUS
    <3>4. /\ q \in used /\ Intact(q) /\ parent'[s] = q /\ forkSeq'[s] = n
          /\ n \in 1 .. LogicalHead(q) /\ (ForkBelow \/ Inherited(q) <= n)
          /\ Inherited(s)' = IF n <= Inherited(q) THEN Inherited(q) ELSE n
      BY <2>0, <3>2, <3>3, NewFork
    <3>5. q = p
      BY <3>4
    <3>6. /\ Inherited(p) \in Nat /\ LogicalHead(p) \in Nat
          /\ LogicalHead(p)' = LogicalHead(p) \/ LogicalHead(p)' = LogicalHead(p) + 1
      BY <2>0, <3>4, <3>5, Kept, Heads
    <3> QED
      BY <3>4, <3>5, <3>6
  <2> QED
    BY <2>1, <2>2
<1>3. CallsCurrent'
  <2> SUFFICES ASSUME NEW d \in Clients, NEW s, NEW call, call = calls'[d], s = call.sid,
                      call.op # "idle", Intact(s)'
               PROVE  /\ call.op = "append" =>
                           call.next \in (Inherited(s)' + 1) .. (LogicalHead(s)' + 1)
                      /\ call.op \in {"fork", "checkpoint"} => call.seq \in 1 .. LogicalHead(s)'
                      /\ call.op \in {"fork", "restore"} => ForkBelow \/ Inherited(s)' <= call.seq
    BY Zenon DEF CallsCurrent
  <2>1. call \in Call
    BY DEF TreeInv, TypeOK
  <2>2. ASSUME s \in used
        PROVE  /\ Intact(s)
               /\ Inherited(s) \in Nat /\ LogicalHead(s) \in Nat
               /\ Inherited(s)' = Inherited(s)
               /\ LogicalHead(s)' = LogicalHead(s) \/ LogicalHead(s)' = LogicalHead(s) + 1
    BY <2>2, Kept, Heads
  <2>3. CASE calls'[d] = calls[d]
    <3>1. s \in used
      BY <2>3 DEF TreeInv, References
    <3>2. Intact(s)
      BY <2>2, <3>1
    <3>3. /\ call.op = "append" =>
                 call.next \in (Inherited(s) + 1) .. (LogicalHead(s) + 1)
          /\ call.op \in {"fork", "checkpoint"} => call.seq \in 1 .. LogicalHead(s)
          /\ call.op \in {"fork", "restore"} => ForkBelow \/ Inherited(s) <= call.seq
      BY <2>3, <3>2 DEF HistoryInv, CallsCurrent
    <3> QED
      BY <2>2, <3>1, <3>3
  <2>4. CASE calls'[d] = Idle
    BY <2>4 DEF Idle
  <2>5. CASE UNCHANGED <<sessions, used, parent, forkSeq, events>> /\ NewCall(d)
    <3>0. s \in used
      BY <2>5 DEF TreeInv, References
    <3>1. /\ Intact(s) /\ Inherited(s) \in Nat /\ LogicalHead(s) \in Nat
          /\ Inherited(s)' = Inherited(s)
          /\ LogicalHead(s)' = LogicalHead(s)
          /\ Inherited(s) <= LogicalHead(s)
      <4>1. LogicalHead(s)' = Inherited(s)' + Cardinality(events'[s])
        BY DEF LogicalHead
      <4> QED
        BY <2>2, <2>5, <3>0, <4>1, Heads
    <3>2. CASE \E t \in used : call = [op |-> "append", sid |-> t, next |-> LogicalHead(t) + 1]
      <4>1. call.op = "append" /\ call.next = LogicalHead(s) + 1
        BY <3>2
      <4> QED
        BY <4>1, <3>1
    <3>3. CASE /\ call.op \in {"fork", "checkpoint"}
               /\ s \in Sessions /\ call.seq \in Sequences_
               /\ ValidSequence(s, call.seq)
               /\ call.op = "fork" =>
                    \/ ForkAsked(s, call.seq)
                    \/ calls[d].op = "restore" /\ s = calls[d].sid /\ call.seq = calls[d].seq
      <4>1. call.seq \in 1 .. LogicalHead(s)
        BY <3>1, <3>3, ValidPosition
      <4>2. call.op = "fork" => ForkBelow \/ Inherited(s) <= call.seq
        BY <3>1, <3>3, ValidPosition DEF HistoryInv, CallsCurrent
      <4> QED
        BY <3>1, <3>3, <4>1, <4>2
    <3>4. CASE /\ call.op = "restore"
               /\ s \in Sessions /\ call.seq \in Sequences_
               /\ ForkAsked(s, call.seq)
      BY <3>1, <3>4, ValidPosition
    <3> QED
      BY <2>5, <3>2, <3>3, <3>4 DEF NewCall
  <2> QED
    BY <2>3, <2>4, <2>5, CallStep DEF CallMoves
<1>4. CheckpointsCurrent'
  <2> SUFFICES ASSUME NEW k \in checkpoints', Intact(k.sid)'
               PROVE  k.seq \in 1 .. LogicalHead(k.sid)'
    BY DEF CheckpointsCurrent
  <2>1. \/ k \in checkpoints
        \/ \E c \in Clients : /\ calls[c].op = "checkpoint"
                              /\ k = [sid |-> calls[c].sid, name |-> calls[c].name, seq |-> calls[c].seq]
    BY DEF Next, vars, RestoreValidate, CheckpointCommit, RestoreRead, AppendRead, AppendCommit,
      ForkValidate, CheckpointValidate, DeleteSession, CreateSession, ForkCommit
  <2>2. k.sid \in used
    BY <2>1 DEF TreeInv, References
  <2>3. /\ Intact(k.sid) /\ LogicalHead(k.sid) \in Nat
        /\ LogicalHead(k.sid)' = LogicalHead(k.sid) \/ LogicalHead(k.sid)' = LogicalHead(k.sid) + 1
    BY <2>2, Kept, Heads
  <2>4. k.seq \in 1 .. LogicalHead(k.sid)
    BY <2>1, <2>3 DEF HistoryInv, CallsCurrent, CheckpointsCurrent
  <2> QED
    BY <2>3, <2>4
<1> QED
  BY <1>1, <1>2, <1>3, <1>4 DEF HistoryInv

\* Both layers together are an invariant.
LEMMA History == Spec => [](TreeInv /\ HistoryInv)
<1>1. Init => TreeInv /\ HistoryInv
  BY InitTree, InitHistory
<1>2. (TreeInv /\ HistoryInv) /\ [Next]_vars => (TreeInv /\ HistoryInv)'
  BY NextTree, NextHistory
<1> QED
  BY <1>1, <1>2, PTL DEF Spec

-----------------------------------------------------------------------------
(* Histories from one state to the next *)

\* Lemma Listed, of the whole state.
ListsRight ==
    \A s \in Sessions : Intact(s) =>
        /\ List(s) \in RowSeq
        /\ Len(List(s)) = LogicalHead(s)
        /\ \A n \in 1 .. LogicalHead(s) :
              List(s)[n] = IF n <= Inherited(s) THEN Ancestry[s][n] ELSE <<s, n>>

LEMMA ListsRightNow == TreeInv /\ HistoryInv => ListsRight
  BY Listed DEF ListsRight

LEMMA ListsRightNext == TreeInv' /\ HistoryInv' => ListsRight'
  BY ListsRightNow, PTL

LEMMA RowSeqPrefix ==
    ASSUME NEW x \in RowSeq, NEW y \in RowSeq, Len(x) <= Len(y),
           \A i \in 1 .. Len(x) : x[i] = y[i]
    PROVE  IsPrefix(x, y)
  BY DEF RowSeq, IsPrefix

LEMMA RowSeqAppend ==
    ASSUME NEW x \in RowSeq, NEW e \in Sessions \X Nat
    PROVE  /\ Append(x, e) \in RowSeq
           /\ Len(Append(x, e)) = Len(x) + 1
           /\ \A i \in 1 .. Len(x) : Append(x, e)[i] = x[i]
           /\ Append(x, e)[Len(x) + 1] = e
  BY AppendProperties DEF RowSeq

LEMMA RowSeqSubSeq ==
    ASSUME NEW x \in RowSeq, NEW n \in 1 .. Len(x)
    PROVE  /\ SubSeq(x, 1, n) \in RowSeq
           /\ Len(SubSeq(x, 1, n)) = n
           /\ \A i \in 1 .. n : SubSeq(x, 1, n)[i] = x[i]
<1>1. Len(x) \in Nat /\ \A i \in 1 .. Len(x) : x[i] \in Sessions \X Nat
  BY DEF RowSeq
<1> QED
  BY <1>1, SubSeqProperties DEF RowSeq

\* The list of an intact branch stays as it is, or gets the next event.
LEMMA ListKept ==
    ASSUME TreeInv, HistoryInv, TreeInv', HistoryInv', [Next]_vars,
           NEW s \in used, Intact(s)'
    PROVE  /\ List(s) \in RowSeq /\ List(s)' \in RowSeq
           /\ IsPrefix(List(s), List(s)')
           /\ events'[s] = events[s] => List(s)' = List(s)
           /\ events'[s] # events[s] =>
                 List(s)' = Append(List(s), <<s, Len(List(s)) + 1>>)
<1> DEFINE x == List(s)
           y == List(s)'
<1>1. /\ Intact(s) /\ s \in Sessions
      /\ Ancestry'[s] = Ancestry[s] /\ Inherited(s)' = Inherited(s)
      /\ \/ events'[s] = events[s] /\ LogicalHead(s)' = LogicalHead(s)
         \/ /\ events'[s] = events[s] \cup {LogicalHead(s) + 1}
            /\ LogicalHead(s)' = LogicalHead(s) + 1
  BY Kept DEF TreeInv, TypeOK
<1>2. Inherited(s) \in Nat /\ LogicalHead(s) \in Nat /\ Inherited(s) <= LogicalHead(s)
  BY <1>1, Heads
<1>3. /\ x \in RowSeq /\ Len(x) = LogicalHead(s)
      /\ \A n \in 1 .. LogicalHead(s) :
            x[n] = IF n <= Inherited(s) THEN Ancestry[s][n] ELSE <<s, n>>
  BY <1>1, ListsRightNow DEF ListsRight
<1>4. /\ y \in RowSeq /\ Len(y) = LogicalHead(s)'
      /\ \A n \in 1 .. LogicalHead(s)' :
            y[n] = IF n <= Inherited(s)' THEN Ancestry'[s][n] ELSE <<s, n>>
  BY <1>1, ListsRightNext DEF ListsRight
<1> HIDE DEF x, y
<1>5. ASSUME NEW n \in 1 .. LogicalHead(s) PROVE y[n] = x[n]
  <2>1. n \in 1 .. LogicalHead(s)'
    BY <1>1, <1>2
  <2>2. /\ x[n] = IF n <= Inherited(s) THEN Ancestry[s][n] ELSE <<s, n>>
        /\ y[n] = IF n <= Inherited(s) THEN Ancestry[s][n] ELSE <<s, n>>
    BY <1>1, <1>3, <1>4, <2>1
  <2> QED
    BY <2>2
<1>6. IsPrefix(x, y)
  <2>1. Len(x) <= Len(y)
    BY <1>1, <1>2, <1>3, <1>4
  <2> QED
    BY <2>1, <1>3, <1>4, <1>5, RowSeqPrefix
<1>7. CASE events'[s] = events[s] /\ LogicalHead(s)' = LogicalHead(s)
  <2>1. y = x
    BY <1>3, <1>4, <1>5, <1>7, RowSeqEqual
  <2> QED
    BY <1>3, <1>4, <1>6, <1>7, <2>1 DEF x, y
<1>8. CASE /\ events'[s] = events[s] \cup {LogicalHead(s) + 1}
           /\ LogicalHead(s)' = LogicalHead(s) + 1
  <2> DEFINE h == LogicalHead(s)
             e == <<s, h + 1>>
             z == Append(x, e)
  <2>1. e \in Sessions \X Nat
    BY <1>1, <1>2
  <2>2. h \in Nat /\ h + 1 \in 1 .. (h + 1) /\ ~(h + 1 <= Inherited(s))
    BY <1>2
  <2>3. y[h + 1] = e
    <3>1. h + 1 \in 1 .. LogicalHead(s)'
      BY <1>8, <2>2
    <3>2. y[h + 1] = IF h + 1 <= Inherited(s) THEN Ancestry'[s][h + 1] ELSE <<s, h + 1>>
      BY <1>1, <1>4, <3>1
    <3> QED
      BY <3>2, <2>2
  <2>4. Len(y) = h + 1 /\ Len(x) = h
    BY <1>3, <1>4, <1>8
  <2> HIDE DEF e
  <2>5. /\ z \in RowSeq /\ Len(z) = Len(x) + 1
        /\ \A i \in 1 .. Len(x) : z[i] = x[i]
        /\ z[Len(x) + 1] = e
    BY <1>3, <2>1, RowSeqAppend
  <2> HIDE DEF z, h
  <2>6. ASSUME NEW i \in 1 .. Len(y) PROVE y[i] = z[i]
    <3>1. CASE i = h + 1
      BY <3>1, <2>3, <2>4, <2>5
    <3>2. CASE i # h + 1
      <4>1. i \in 1 .. h
        BY <2>2, <2>4, <3>2
      <4>2. y[i] = x[i]
        BY <1>5, <4>1 DEF h
      <4>3. z[i] = x[i]
        BY <2>4, <2>5, <4>1
      <4> QED
        BY <4>2, <4>3
    <3> QED
      BY <3>1, <3>2
  <2>7. y = z
    <3>1. Len(y) = Len(z)
      BY <2>4, <2>5
    <3> QED
      BY <1>4, <2>5, <2>6, <3>1, RowSeqEqual
  <2>8. events'[s] # events[s]
    <3>1. events[s] = (Inherited(s) + 1) .. LogicalHead(s)
      BY <1>1, Heads
    <3>2. LogicalHead(s) + 1 \notin events[s]
      BY <1>2, <3>1
    <3> QED
      BY <1>8, <3>2
  <2>9. y = Append(x, <<s, Len(x) + 1>>)
    BY <2>4, <2>7 DEF z, e
  <2> QED
    BY <1>3, <1>4, <1>6, <2>8, <2>9 DEF x, y
<1> QED
  BY <1>1, <1>7, <1>8

-----------------------------------------------------------------------------
(* Theorems *)

\* Whatever order the clients' critical sections take, the tables keep their
\* types (storage.rs, SqliteEventStore).
THEOREM TypeCorrect == Spec => []TypeOK
<1>1. TreeInv => TypeOK
  BY DEF TreeInv
<1> QED
  BY Tree, <1>1, PTL

\* An append that races delete_session leaves no event behind.
THEOREM OrphanFree == Spec => []NoOrphanEvents
<1>1. TreeInv => NoOrphanEvents
  BY DEF TreeInv
<1> QED
  BY Tree, <1>1, PTL

\* append_next computes its number outside the write transaction, and still the
\* events of a root session are numbered without a gap: the unique key refuses
\* the loser of a race.
THEOREM RootNumbering == Spec => []RootContiguous
<1>1. TreeInv /\ HistoryInv => RootContiguous
  <2> SUFFICES ASSUME TreeInv, HistoryInv, NEW s \in sessions, parent[s] = None
               PROVE  events[s] = 1 .. Cardinality(events[s])
    BY DEF RootContiguous
  <2>1. Intact(s)
    <3>1. {s} \in SUBSET sessions /\ s \in {s} /\ \A t \in {s} : parent[t] \in {s} \cup {None}
      OBVIOUS
    <3> QED
      BY <3>1 DEF Intact
  <2>2. s \in Sessions /\ ParentOf(s) = None
    BY <2>1, IntactSource
  <2>3. Inherited(s) = 0
    <3>1. Len(<<>>) = 0
      OBVIOUS
    <3> QED
      BY <2>2, <3>1, AncestryAt, Zenon DEF Inherited
  <2>4. /\ Cardinality(events[s]) \in Nat
        /\ LogicalHead(s) = Inherited(s) + Cardinality(events[s])
        /\ events[s] = (Inherited(s) + 1) .. LogicalHead(s)
    BY <2>1, Heads
  <2>5. LogicalHead(s) = Cardinality(events[s])
    BY <2>3, <2>4
  <2>6. Inherited(s) + 1 = 1
    BY <2>3
  <2> QED
    BY <2>4, <2>5, <2>6, Zenon
<1> QED
  BY History, <1>1, PTL

\* In forks of any depth the number append_next stored is the position at which
\* list_after shows the event.
THEOREM LogicalNumbering == Spec => []NumberingIsLogical
<1>1. TreeInv /\ HistoryInv => NumberingIsLogical
  <2> SUFFICES ASSUME TreeInv, HistoryInv, NEW s \in sessions, Intact(s), NEW n \in events[s]
               PROVE  n \in DOMAIN List(s) /\ List(s)[n] = <<s, n>>
    BY DEF NumberingIsLogical
  <2>1. /\ Inherited(s) \in Nat /\ LogicalHead(s) \in Nat
        /\ events[s] = (Inherited(s) + 1) .. LogicalHead(s)
    BY Heads
  <2>2. n \in 1 .. LogicalHead(s) /\ ~(n <= Inherited(s))
    BY <2>1
  <2>3. /\ DOMAIN List(s) = 1 .. LogicalHead(s)
        /\ \A i \in 1 .. LogicalHead(s) :
              List(s)[i] = IF i <= Inherited(s) THEN Ancestry[s][i] ELSE <<s, i>>
    BY Listed
  <2> QED
    BY <2>2, <2>3, Zenon
<1> QED
  BY History, <1>1, PTL

\* create_checkpoint validates in one critical section and inserts in another;
\* what it stores still names a position of the branch, at that time and as long
\* as the branch survives.
THEOREM CheckpointsNameEvents == Spec => []CheckpointsResolve
<1>1. TreeInv /\ HistoryInv => CheckpointsResolve
  <2> SUFFICES ASSUME TreeInv, HistoryInv, NEW k \in checkpoints, Intact(k.sid)
               PROVE  k.seq \in DOMAIN List(k.sid)
    BY DEF CheckpointsResolve
  <2>1. DOMAIN List(k.sid) = 1 .. LogicalHead(k.sid)
    BY Listed
  <2> QED
    BY <2>1 DEF HistoryInv, CheckpointsCurrent
<1> QED
  BY History, <1>1, PTL

\* No operation of any client rewrites what a branch listed before.
THEOREM AppendOnly == Spec => HistoryAppendOnly
<1> DEFINE grows == \A s \in sessions \cap sessions' :
                        (Intact(s) /\ Intact(s)') => IsPrefix(List(s), List(s)')
<1>1. (TreeInv /\ HistoryInv) /\ (TreeInv /\ HistoryInv)' /\ [Next]_vars => grows
  <2> SUFFICES ASSUME TreeInv, HistoryInv, TreeInv', HistoryInv', [Next]_vars,
                      NEW s \in sessions \cap sessions', Intact(s)'
               PROVE  IsPrefix(List(s), List(s)')
    OBVIOUS
  <2>1. s \in used
    BY DEF TreeInv, TypeOK
  <2> QED
    BY <2>1, ListKept
<1> QED
  BY History, <1>1, PTL DEF Spec, HistoryAppendOnly

-----------------------------------------------------------------------------
(* EventStore implements EventLog *)

\* Where nothing is deleted every branch is intact.
LEMMA AllIntact ==
    ASSUME TreeInv, ~Deletes, NEW s \in sessions
    PROVE  Intact(s) /\ s \in Sessions
<1>1. sessions = used /\ sessions \subseteq Sessions
  BY DEF TreeInv, References, TypeOK
<1>2. \A t \in sessions : parent[t] \in sessions \cup {None}
  BY <1>1 DEF TreeInv, References
<1> QED
  BY <1>1, <1>2 DEF Intact

LEMMA AllIntactNext ==
    ASSUME TreeInv', ~Deletes, NEW s \in sessions'
    PROVE  Intact(s)' /\ s \in Sessions
<1>1. sessions' = used' /\ sessions' \subseteq Sessions
  BY DEF TreeInv, References, TypeOK
<1>2. \A t \in sessions' : parent'[t] \in sessions' \cup {None}
  BY <1>1 DEF TreeInv, References
<1> QED
  BY <1>1, <1>2 DEF Intact

\* The log of a session that was there stays, or gets the next event.
LEMMA LogKept ==
    ASSUME TreeInv, HistoryInv, TreeInv', HistoryInv', [Next]_vars, ~Deletes,
           NEW s \in Sessions, s \in sessions <=> s \in sessions'
    PROVE  /\ (s \notin sessions \/ events'[s] = events[s]) => Histories'[s] = Histories[s]
           /\ (s \in sessions /\ events'[s] # events[s]) =>
                 Histories'[s] = Append(Histories[s], <<s, Len(Histories[s]) + 1>>)
<1>0. sessions = used
  BY DEF TreeInv, References
<1>1. CASE s \in sessions
  <2>1. Intact(s)' /\ s \in used /\ s \in sessions'
    BY <1>0, <1>1, AllIntactNext
  <2>2. Histories[s] = List(s) /\ Histories'[s] = List(s)'
    BY <1>1, <2>1 DEF Histories
  <2>3. /\ events'[s] = events[s] => List(s)' = List(s)
        /\ events'[s] # events[s] =>
              List(s)' = Append(List(s), <<s, Len(List(s)) + 1>>)
    BY <2>1, ListKept
  <2> QED
    BY <1>1, <2>2, <2>3, Zenon
<1>2. CASE s \notin sessions
  <2>1. s \notin sessions'
    BY <1>2
  <2> QED
    BY <1>2, <2>1 DEF Histories
<1> QED
  BY <1>1, <1>2

\* A session just created has the Created event as its log.
LEMMA CreateMaps ==
    ASSUME TreeInv, HistoryInv, TreeInv', HistoryInv', ~Deletes,
           NEW c \in Clients, NEW s \in Sessions, CreateSession(c, s)
    PROVE  List(s)' = << <<s, 1>> >>
<1>1. s \in sessions'
  BY DEF CreateSession
<1>2. Intact(s)'
  BY <1>1, AllIntactNext
<1>3. Inherited(s)' = 0 /\ LogicalHead(s)' = 1
  BY NewRoot
<1>4. /\ List(s)' \in RowSeq
      /\ Len(List(s)') = 1
      /\ \A n \in 1 .. 1 : List(s)'[n] = IF n <= 0 THEN Ancestry'[s][n] ELSE <<s, n>>
  BY <1>2, <1>3, ListsRightNext DEF ListsRight
<1> DEFINE x == List(s)'
           y == << <<s, 1>> >>
<1>5. y \in RowSeq /\ Len(y) = 1 /\ y[1] = <<s, 1>>
  BY DEF RowSeq
<1> HIDE DEF x, y
<1>6. x \in RowSeq /\ Len(x) = 1 /\ x[1] = <<s, 1>>
  BY <1>4 DEF x
<1>7. \A i \in 1 .. 1 : i = 1
  OBVIOUS
<1>8. x = y
  BY <1>5, <1>6, <1>7, RowSeqEqual
<1> QED
  BY <1>8 DEF x, y

\* A session just forked has the validated prefix of its source as its log.
LEMMA ForkMaps ==
    ASSUME TreeInv, HistoryInv, TreeInv', HistoryInv', ~Deletes, ~ForkBelow,
           NEW c \in Clients, NEW s \in Sessions, ForkCommit(c, s),
           NEW p, NEW n, p = calls[c].sid, n = calls[c].seq
    PROVE  /\ p \in sessions /\ p \in Sessions
           /\ n \in DOMAIN List(p)
           /\ List(s)' = SubSeq(List(p), 1, n)
<1>1. s \in sessions'
  BY DEF ForkCommit
<1>2. Intact(s)'
  BY <1>1, AllIntactNext
<1>3. /\ Intact(p) /\ n \in 1 .. LogicalHead(p) /\ Inherited(p) <= n
      /\ Ancestry'[s] = Ancestry[p] \o Rows(p, n)
      /\ Inherited(s)' = IF n <= Inherited(p) THEN Inherited(p) ELSE n
      /\ LogicalHead(s)' = Inherited(s)'
  <2>1. /\ Intact(p) /\ n \in 1 .. LogicalHead(p) /\ Inherited(p) <= n
        /\ Inherited(s)' = IF n <= Inherited(p) THEN Inherited(p) ELSE n
        /\ LogicalHead(s)' = Inherited(s)'
    BY <1>2, NewFork
  <2>2. Ancestry'[s] = Prefix(p, n)
    BY <1>2, NewFork
  <2> QED
    BY <2>1, <2>2, Zenon DEF Prefix
<1>4. p \in sessions /\ p \in Sessions
  BY <1>3, IntactSource
<1>5. Inherited(p) \in Nat /\ LogicalHead(p) \in Nat /\ Inherited(p) <= LogicalHead(p) /\ n \in Nat
  BY <1>3, Heads
<1>6. Inherited(s)' = n /\ LogicalHead(s)' = n
  BY <1>3, <1>5
<1> DEFINE x == List(s)'
           y == List(p)
           z == SubSeq(y, 1, n)
           a == Ancestry[p]
           r == Rows(p, n)
<1>7. /\ x \in RowSeq /\ Len(x) = n
      /\ \A i \in 1 .. n : x[i] = IF i <= n THEN Ancestry'[s][i] ELSE <<s, i>>
  BY <1>2, <1>6, ListsRightNext DEF ListsRight
<1>8. /\ y \in RowSeq /\ Len(y) = LogicalHead(p)
      /\ \A i \in 1 .. LogicalHead(p) :
            y[i] = IF i <= Inherited(p) THEN Ancestry[p][i] ELSE <<p, i>>
  BY <1>3, <1>4, ListsRightNow DEF ListsRight
<1>9. /\ a \in RowSeq /\ r \in RowSeq /\ Len(a) = Inherited(p)
      /\ r = Run(p, Inherited(p), Taken(Inherited(p), LogicalHead(p), n))
  BY <1>3, Branches, Prefixed DEF Inherited
<1>10. Taken(Inherited(p), LogicalHead(p), n) = n - Inherited(p) /\ n - Inherited(p) \in Nat
  BY <1>3, <1>5 DEF Taken
<1> HIDE DEF x, y, a, r
<1>11. Len(r) = n - Inherited(p) /\ \A k \in 1 .. (n - Inherited(p)) : r[k] = <<p, Inherited(p) + k>>
  <2> DEFINE q == Inherited(p)
             m == n - Inherited(p)
  <2>1. r = Run(p, q, m) /\ q \in Nat /\ m \in Nat
    BY <1>5, <1>9, <1>10
  <2> HIDE DEF q, m
  <2>2. Len(r) = m /\ \A k \in 1 .. m : r[k] = <<p, q + k>>
    BY <1>4, <2>1, RunProperties
  <2> QED
    BY <2>2 DEF q, m
<1>12. \A i \in 1 .. (Len(a) + Len(r)) :
          (a \o r)[i] = IF i <= Len(a) THEN a[i] ELSE r[i - Len(a)]
  BY <1>9, RowSeqConcat
<1>13. ASSUME NEW i \in 1 .. n PROVE x[i] = y[i]
  <2>1. x[i] = (a \o r)[i]
    <3>1. i <= n
      BY <1>5
    <3>2. x[i] = Ancestry'[s][i]
      BY <1>7, <3>1, Zenon
    <3> QED
      BY <3>2, <1>3, Zenon DEF a, r
  <2>2. i \in 1 .. (Len(a) + Len(r)) /\ i \in 1 .. LogicalHead(p)
    BY <1>3, <1>5, <1>9, <1>11
  <2>3. CASE i <= Inherited(p)
    <3>1. (a \o r)[i] = a[i]
      BY <1>9, <1>12, <2>2, <2>3
    <3>2. y[i] = a[i]
      BY <1>8, <2>2, <2>3 DEF a
    <3> QED
      BY <2>1, <3>1, <3>2
  <2>4. CASE ~(i <= Inherited(p))
    <3>1. (a \o r)[i] = r[i - Inherited(p)]
      BY <1>9, <1>12, <2>2, <2>4
    <3>2. i - Inherited(p) \in 1 .. (n - Inherited(p)) /\ Inherited(p) + (i - Inherited(p)) = i
      BY <1>5, <2>4
    <3>3. r[i - Inherited(p)] = <<p, i>>
      BY <1>11, <3>2
    <3>4. y[i] = <<p, i>>
      BY <1>8, <2>2, <2>4
    <3> QED
      BY <2>1, <3>1, <3>3, <3>4
  <2> QED
    BY <2>3, <2>4
<1>14. n \in 1 .. Len(y)
  BY <1>3, <1>8
<1>15. z \in RowSeq /\ Len(z) = n /\ \A i \in 1 .. n : z[i] = y[i]
  BY <1>8, <1>14, RowSeqSubSeq
<1> HIDE DEF z
<1>16. x = z
  BY <1>7, <1>13, <1>15, RowSeqEqual
<1>17. n \in DOMAIN y
  BY <1>8, <1>14, RowSeqProperties
<1> QED
  BY <1>4, <1>16, <1>17 DEF x, y, z

\* One step of the store is one step of the logs, or none.
LEMMA StepMaps ==
    ASSUME TreeInv, HistoryInv, TreeInv', HistoryInv', [Next]_vars, ~Deletes, ~ForkBelow
    PROVE  [Log!Next]_(Log!vars)
<1>0. /\ DOMAIN Histories = Sessions /\ DOMAIN Histories' = Sessions
      /\ Histories = [t \in Sessions |-> Histories[t]]
      /\ Histories' = [t \in Sessions |-> Histories'[t]]
  BY DEF Histories
<1>1. ASSUME NEW c \in Clients, NEW s \in Sessions, CreateSession(c, s)
      PROVE  Log!Create(s)
  <2>1. s \notin sessions /\ sessions' = sessions \cup {s}
    BY <1>1 DEF CreateSession, TreeInv, TypeOK
  <2>2. Histories'[s] = << <<s, 1>> >>
    <3>1. Histories'[s] = List(s)'
      BY <2>1 DEF Histories
    <3> QED
      BY <1>1, <3>1, CreateMaps
  <2>3. ASSUME NEW t \in Sessions \ {s} PROVE Histories'[t] = Histories[t]
    <3>1. events'[t] = events[t] /\ (t \in sessions <=> t \in sessions')
      BY <1>1 DEF CreateSession, TreeInv, TypeOK
    <3> QED
      BY <3>1, LogKept
  <2>4. Histories' = [Histories EXCEPT ![s] = << <<s, 1>> >>]
    BY <1>0, <2>2, <2>3
  <2> QED
    BY <2>1, <2>4 DEF Log!Create
<1>2. ASSUME NEW c \in Clients, AppendCommit(c)
      PROVE  (\E s \in Sessions : Log!Append_(s)) \/ UNCHANGED <<sessions, Histories>>
  <2> DEFINE s == calls[c].sid
             n == calls[c].next
  <2>0. /\ s \in Sessions /\ UNCHANGED sessions
        /\ events' = IF CanInsert(s, n)
                     THEN [events EXCEPT ![s] = events[s] \cup {n}] ELSE events
    BY <1>2 DEF AppendCommit, TreeInv, TypeOK, Call
  <2>1. PICK u, m : u = s /\ m = n
    OBVIOUS
  <2>2. /\ u \in Sessions /\ UNCHANGED sessions
        /\ events' = IF CanInsert(u, m)
                     THEN [events EXCEPT ![u] = events[u] \cup {m}] ELSE events
    BY <2>0, <2>1
  <2>3. CASE CanInsert(u, m)
    <3>1. /\ u \in sessions /\ events'[u] # events[u]
          /\ \A t \in Sessions \ {u} : events'[t] = events[t]
      BY <2>2, <2>3 DEF CanInsert, TreeInv, TypeOK
    <3>2. Histories'[u] = Append(Histories[u], <<u, Len(Histories[u]) + 1>>)
      BY <2>2, <3>1, LogKept
    <3>3. \A t \in Sessions \ {u} : Histories'[t] = Histories[t]
      BY <2>2, <3>1, LogKept
    <3>4. Histories' = [Histories EXCEPT ![u] = Append(Histories[u], <<u, Len(Histories[u]) + 1>>)]
      BY <1>0, <3>2, <3>3
    <3>5. Log!Append_(u)
      BY <2>2, <3>1, <3>4 DEF Log!Append_
    <3> QED
      BY <2>2, <3>5
  <2>4. CASE ~CanInsert(u, m)
    <3>1. \A t \in Sessions : Histories'[t] = Histories[t]
      BY <2>2, <2>4, LogKept
    <3>2. Histories' = Histories
      BY <1>0, <3>1
    <3> QED
      BY <2>2, <3>2
  <2> QED
    BY <2>3, <2>4
<1>3. ASSUME NEW c \in Clients, NEW s \in Sessions, ForkCommit(c, s)
      PROVE  \E src \in Sessions : \E n \in DOMAIN Histories[src] : Log!Fork(s, src, n)
  <2>1. PICK p, n : p = calls[c].sid /\ n = calls[c].seq
    OBVIOUS
  <2>2. /\ p \in sessions /\ p \in Sessions /\ n \in DOMAIN List(p)
        /\ List(s)' = SubSeq(List(p), 1, n)
    BY <1>3, <2>1, ForkMaps
  <2>3. s \notin sessions /\ sessions' = sessions \cup {s}
    BY <1>3 DEF ForkCommit, TreeInv, TypeOK
  <2>4. Histories[p] = List(p) /\ Histories'[s] = List(s)'
    BY <2>2, <2>3 DEF Histories
  <2>5. ASSUME NEW t \in Sessions \ {s} PROVE Histories'[t] = Histories[t]
    <3>1. events'[t] = events[t] /\ (t \in sessions <=> t \in sessions')
      BY <1>3 DEF ForkCommit, TreeInv, TypeOK
    <3> QED
      BY <3>1, LogKept
  <2>6. Histories'[s] = SubSeq(Histories[p], 1, n)
    BY <2>2, <2>4
  <2>7. Histories' = [Histories EXCEPT ![s] = SubSeq(Histories[p], 1, n)]
    BY <1>0, <2>5, <2>6
  <2>8. n \in DOMAIN Histories[p]
    BY <2>2, <2>4
  <2>9. Log!Fork(s, p, n)
    BY <2>2, <2>3, <2>7, <2>8 DEF Log!Fork
  <2> QED
    BY <2>2, <2>8, <2>9
<1>4. CASE UNCHANGED <<sessions, events>>
  <2>1. \A t \in Sessions : Histories'[t] = Histories[t]
    BY <1>4, LogKept
  <2>2. Histories' = Histories
    BY <1>0, <2>1
  <2> QED
    BY <1>4, <2>2 DEF Log!vars
<1>5. CASE \E c \in Clients, s \in Sessions : CreateSession(c, s)
  BY <1>1, <1>5 DEF Log!Next
<1>6. CASE \E c \in Clients : AppendCommit(c)
  BY <1>2, <1>6 DEF Log!Next, Log!vars
<1>7. CASE \E c \in Clients, s \in Sessions : ForkCommit(c, s)
  BY <1>3, <1>7 DEF Log!Next
<1> QED
  BY <1>4, <1>5, <1>6, <1>7
  DEF Next, vars, RestoreValidate, CheckpointCommit, RestoreRead, AppendRead,
      ForkValidate, CheckpointValidate, DeleteSession

\* The store, whose appends and forks read under one acquisition of the mutex and
\* write under another and whose forks copy nothing, implements EventLog, whose
\* appends are atomic and whose forks copy: as long as callers neither delete
\* sessions nor fork below a fork point.
THEOREM Refinement ==
    ASSUME ~Deletes, ~ForkBelow
    PROVE  Spec => RefinesEventLog
<1>1. Init => Log!Init
  BY DEF Init, Log!Init, Histories
<1>2. (TreeInv /\ HistoryInv) /\ (TreeInv /\ HistoryInv)' /\ [Next]_vars
        => [Log!Next]_(Log!vars)
  BY StepMaps
<1> QED
  BY <1>1, <1>2, History, PTL DEF Spec, RefinesEventLog, Log!Spec
=============================================================================
