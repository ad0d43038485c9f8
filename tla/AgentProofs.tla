---------------------------- MODULE AgentProofs ----------------------------
(***************************************************************************)
(* What an agent's effects and an agent's children may never do.  The      *)
(* fence is write-ahead and a settled digest is never run again, for any   *)
(* number of callers, digests, effects and crashes.  Writers exclude each  *)
(* other, children run one at a time, and the engine of a workflow keeps   *)
(* steps, attempts and schedules in step, for any recipe, any number of    *)
(* sessions and of connections.  What is proved of them, of worktrees and  *)
(* of extensions holds where they are put side by side.                    *)
(***************************************************************************)
EXTENDS MCAgents, FilesProofs

-----------------------------------------------------------------------------
(* the effect fence                                                        *)

Working == {"start", "execute", "observe", "fail", "unknown"}

\* A caller holds an effect only while it works on one, and a digest only while
\* it is not idle.
Holdings ==
    \A c \in Callers :
        /\ pc[c] \notin Working => effect[c] = 0
        /\ pc[c] = "idle" => digest[c] = None
        /\ pc[c] # "idle" => digest[c] \in Digests

\* The inductive invariant.  RanIsRecorded alone is not inductive: that Start moves
\* an effect past Prepared, and that nothing moves it back, needs the effect of a
\* working caller to be its own record in the state its step expects.
FenceInv == FenceTypeOK /\ RanIsRecorded /\ CallersOwnEffects /\ Holdings

-----------------------------------------------------------------------------
\* The inductive invariant holds initially.
LEMMA FenceInitInv == FenceInit => FenceInv
  BY FenceAssumption DEF FenceInit, FenceInv, FenceTypeOK, RanIsRecorded, CallersOwnEffects, Holdings,
     Points, Working, States, Record

\* What writing a fence event for the effect of a working caller leaves alone.
LEMMA WrittenFacts ==
  ASSUME FenceInv, NEW c \in Callers, pc[c] \in Working, NEW state \in States, Written(c, state)
  PROVE  /\ records' \in Seq(Record)
         /\ DOMAIN records' = DOMAIN records
         /\ effect[c] \in DOMAIN records
         /\ records'[effect[c]].state = state
         /\ \A e \in DOMAIN records : records'[e].digest = records[e].digest
         /\ \A e \in DOMAIN records : e # effect[c] => records'[e] = records[e]
  <1>1. records \in Seq(Record) /\ effect[c] \in DOMAIN records
    BY DEF FenceInv, FenceTypeOK, CallersOwnEffects, Working, RecordsOf, Effects
  <1>2. records' = [records EXCEPT ![effect[c]].state = state]
    BY DEF Written
  <1>3. records[effect[c]] \in Record
    BY <1>1
  <1>4. [records[effect[c]] EXCEPT !.state = state] \in Record
    BY <1>3 DEF Record
  <1>5. records' = [records EXCEPT ![effect[c]] = [records[effect[c]] EXCEPT !.state = state]]
    BY <1>1, <1>2
  <1>6. records' \in Seq(Record) /\ DOMAIN records' = DOMAIN records
    BY <1>1, <1>4, <1>5
  <1>7. records'[effect[c]] = [records[effect[c]] EXCEPT !.state = state]
    BY <1>1, <1>5
  <1>8. records'[effect[c]].state = state /\ records'[effect[c]].digest = records[effect[c]].digest
    BY <1>3, <1>7 DEF Record
  <1>9. \A e \in DOMAIN records : e # effect[c] => records'[e] = records[e]
    BY <1>1, <1>5
  <1> QED BY <1>1, <1>6, <1>8, <1>9

\* What appending a Prepared event leaves alone.
LEMMA AppendFacts ==
  ASSUME FenceInv, NEW d \in Digests,
         records' = Append(records, [digest |-> d, state |-> "prepared"])
  PROVE  /\ records' \in Seq(Record)
         /\ Len(records) \in Nat
         /\ DOMAIN records' = DOMAIN records \cup {Len(records) + 1}
         /\ Len(records) + 1 \notin DOMAIN records
         /\ \A e \in DOMAIN records : records'[e] = records[e]
         /\ records'[Len(records) + 1] = [digest |-> d, state |-> "prepared"]
  <1>1. records \in Seq(Record) /\ Len(records) \in Nat
    BY DEF FenceInv, FenceTypeOK
  <1>2. [digest |-> d, state |-> "prepared"] \in Record
    BY DEF Record, States
  <1> QED BY <1>1, <1>2

\* Two working callers work on different effects, and an effect is not 0.
LEMMA Distinct ==
  ASSUME FenceInv, NEW b \in Callers, NEW c \in Callers, b # c,
         pc[b] \in Working, pc[c] \in Working
  PROVE  effect[b] # effect[c] /\ effect[b] # 0
  <1>1. effect[b] \in DOMAIN records
    BY DEF FenceInv, CallersOwnEffects, Working, RecordsOf, Effects
  <1>2. effect[b] # 0
    BY <1>1 DEF FenceInv, FenceTypeOK
  <1> QED BY <1>2 DEF FenceInv, CallersOwnEffects

-----------------------------------------------------------------------------
\* A caller that is done holds nothing; the others are left alone.
LEMMA DoneKeeps ==
  ASSUME FenceInv, NEW c \in Callers, Done(c)
  PROVE  /\ pc' \in [Callers -> Points]
         /\ digest' \in [Callers -> Digests \cup {None}]
         /\ effect' \in [Callers -> Nat]
         /\ pc'[c] = "idle" /\ digest'[c] = None /\ effect'[c] = 0
         /\ \A b \in Callers : b # c =>
               pc'[b] = pc[b] /\ digest'[b] = digest[b] /\ effect'[b] = effect[b]
  BY DEF FenceInv, FenceTypeOK, Done, Points

\* A caller that goes on; the others are left alone.
LEMMA GotoKeeps ==
  ASSUME FenceInv, NEW c \in Callers, NEW point \in Points, Goto(c, point)
  PROVE  /\ pc' \in [Callers -> Points]
         /\ digest' = digest /\ effect' = effect
         /\ pc'[c] = point
         /\ \A b \in Callers : b # c => pc'[b] = pc[b]
  BY DEF FenceInv, FenceTypeOK, Goto, Points

\* The last fence event of an effect is written and its caller is done.
LEMMA WriteAndDone ==
  ASSUME FenceInv, NEW c \in Callers, pc[c] \in Working \ {"start"}, NEW state \in States,
         state # "prepared", Written(c, state), Done(c),
         UNCHANGED <<ran, crashes>>
  PROVE  FenceInv'
  <1> USE WrittenFacts, DoneKeeps DEF Effects, RecordsOf
  <1>1. FenceTypeOK'
    BY DEF FenceInv, FenceTypeOK
  <1>2. RanIsRecorded'
    BY DEF FenceInv, RanIsRecorded
  <1>3. CallersOwnEffects'
    <2>1. ASSUME NEW b \in Callers, pc'[b] \in Working
          PROVE  /\ effect'[b] \in RecordsOf(digest[b])'
                 /\ records'[effect'[b]].state =
                       IF pc'[b] = "start" THEN "prepared" ELSE "started"
      <3>1. b # c /\ pc'[b] = pc[b] /\ digest'[b] = digest[b] /\ effect'[b] = effect[b]
        BY <2>1 DEF Working
      <3>2. effect[b] # effect[c]
        BY <2>1, <3>1, Distinct
      <3>3. effect[b] \in DOMAIN records /\ records'[effect[b]] = records[effect[b]]
        BY <2>1, <3>1, <3>2 DEF FenceInv, CallersOwnEffects, Working
      <3> QED BY <2>1, <3>1, <3>3 DEF FenceInv, CallersOwnEffects, Working
    <2>2. \A a, b \in Callers : (effect'[a] = effect'[b] /\ effect'[a] # 0) => a = b
      BY DEF FenceInv, CallersOwnEffects
    <2> QED BY <2>1, <2>2 DEF CallersOwnEffects, Working
  <1>4. Holdings'
    BY DEF FenceInv, Holdings, Working, Points
  <1> QED BY <1>1, <1>2, <1>3, <1>4 DEF FenceInv

\* A caller that is done, with nothing written.
LEMMA JustDone ==
  ASSUME FenceInv, NEW c \in Callers, UNCHANGED records, Done(c),
         UNCHANGED <<ran, crashes>>
  PROVE  FenceInv'
  <1> USE DoneKeeps DEF Effects, RecordsOf
  <1>1. FenceTypeOK'
    BY DEF FenceInv, FenceTypeOK
  <1>2. RanIsRecorded'
    BY DEF FenceInv, RanIsRecorded
  <1>3. CallersOwnEffects'
    BY DEF FenceInv, CallersOwnEffects
  <1>4. Holdings'
    BY DEF FenceInv, Holdings, Working, Points
  <1> QED BY <1>1, <1>2, <1>3, <1>4 DEF FenceInv

\* Start moves the effect past Prepared before the caller may execute it.
LEMMA StartKeeps ==
  ASSUME FenceInv, NEW c \in Callers, pc[c] = "start", Written(c, "started"), Goto(c, "execute"),
         UNCHANGED <<ran, crashes>>
  PROVE  FenceInv'
  <1>0. "started" \in States /\ "execute" \in Points /\ pc[c] \in Working
    BY DEF States, Points, Working
  <1>1. FenceTypeOK'
    BY <1>0, WrittenFacts, GotoKeeps DEF FenceInv, FenceTypeOK
  <1>2. RanIsRecorded'
    BY <1>0, WrittenFacts DEF FenceInv, RanIsRecorded, Effects
  <1>3. CallersOwnEffects'
    <2>1. ASSUME NEW b \in Callers, pc'[b] \in Working
          PROVE  /\ effect'[b] \in RecordsOf(digest[b])'
                 /\ records'[effect'[b]].state =
                       IF pc'[b] = "start" THEN "prepared" ELSE "started"
      <3>1. CASE b = c
        BY <1>0, <3>1, WrittenFacts, GotoKeeps
           DEF FenceInv, CallersOwnEffects, Working, RecordsOf, Effects
      <3>2. CASE b # c
        <4>1. pc'[b] = pc[b] /\ digest' = digest /\ effect' = effect
          BY <1>0, <3>2, GotoKeeps
        <4>2. effect[b] # effect[c]
          BY <1>0, <2>1, <3>2, <4>1, Distinct
        <4>3. effect[b] \in RecordsOf(digest[b])
          BY <2>1, <4>1 DEF FenceInv, CallersOwnEffects, Working
        <4>4. records'[effect[b]] = records[effect[b]] /\ effect[b] \in DOMAIN records'
          BY <1>0, <4>2, <4>3, WrittenFacts DEF RecordsOf, Effects
        <4> QED BY <2>1, <4>1, <4>3, <4>4
             DEF FenceInv, CallersOwnEffects, Working, RecordsOf, Effects
      <3> QED BY <3>1, <3>2
    <2>2. \A a, b \in Callers : (effect'[a] = effect'[b] /\ effect'[a] # 0) => a = b
      BY <1>0, GotoKeeps DEF FenceInv, CallersOwnEffects
    <2> QED BY <2>1, <2>2 DEF CallersOwnEffects, Working
  <1>4. Holdings'
    BY <1>0, GotoKeeps DEF FenceInv, Holdings, Working
  <1> QED BY <1>1, <1>2, <1>3, <1>4 DEF FenceInv

\* A caller that goes on without writing to a point that expects Started as well.
LEMMA GoOnKeeps ==
  ASSUME FenceInv, NEW c \in Callers, pc[c] \in {"execute", "observe"},
         NEW point \in {"observe", "fail", "unknown"}, Goto(c, point),
         UNCHANGED <<records, crashes>>,
         ran' = ran \/ ran' = ran \cup {effect[c]}
  PROVE  FenceInv'
  <1>0. point \in Points /\ point \in Working /\ pc[c] \in Working
    BY DEF Points, Working
  <1>1. effect[c] \in Effects /\ records[effect[c]].state = "started" /\ effect[c] \in Nat
    BY DEF FenceInv, CallersOwnEffects, RecordsOf, FenceTypeOK
  <1>2. FenceTypeOK'
    BY <1>0, <1>1, GotoKeeps DEF FenceInv, FenceTypeOK
  <1>3. RanIsRecorded'
    BY <1>1 DEF FenceInv, RanIsRecorded, Effects
  <1>4. CallersOwnEffects'
    BY <1>0, GotoKeeps DEF FenceInv, CallersOwnEffects, RecordsOf, Effects
  <1>5. Holdings'
    BY <1>0, GotoKeeps DEF FenceInv, Holdings, Working
  <1> QED BY <1>2, <1>3, <1>4, <1>5 DEF FenceInv

\* The Prepared event of a caller that was let through.
LEMMA PrepareKeeps ==
  ASSUME FenceInv, NEW c \in Callers, pc[c] = "prepare",
         records' = Append(records, [digest |-> digest[c], state |-> "prepared"]),
         effect' = [effect EXCEPT ![c] = Len(records) + 1],
         pc' = [pc EXCEPT ![c] = "start"],
         UNCHANGED <<digest, ran, crashes>>
  PROVE  FenceInv'
  <1>0. digest[c] \in Digests
    BY DEF FenceInv, Holdings
  <1>1. FenceTypeOK'
    BY <1>0, AppendFacts DEF FenceInv, FenceTypeOK, Points
  <1>2. RanIsRecorded'
    BY <1>0, AppendFacts DEF FenceInv, RanIsRecorded, Effects
  <1>3. CallersOwnEffects'
    <2>1. ASSUME NEW b \in Callers, pc'[b] \in Working
          PROVE  /\ effect'[b] \in RecordsOf(digest[b])'
                 /\ records'[effect'[b]].state =
                       IF pc'[b] = "start" THEN "prepared" ELSE "started"
      <3>1. CASE b = c
        BY <1>0, <3>1, AppendFacts DEF FenceInv, FenceTypeOK, RecordsOf, Effects
      <3>2. CASE b # c
        <4>1. pc'[b] = pc[b] /\ effect'[b] = effect[b] /\ digest' = digest
          BY <3>2 DEF FenceInv, FenceTypeOK
        <4>2. effect[b] \in RecordsOf(digest[b])
          BY <2>1, <4>1 DEF FenceInv, CallersOwnEffects, Working
        <4>3. records'[effect[b]] = records[effect[b]] /\ effect[b] \in DOMAIN records'
          BY <1>0, <4>2, AppendFacts DEF RecordsOf, Effects
        <4> QED BY <2>1, <4>1, <4>2, <4>3
             DEF FenceInv, CallersOwnEffects, Working, RecordsOf, Effects
      <3> QED BY <3>1, <3>2
    <2>2. ASSUME NEW a \in Callers, NEW b \in Callers, effect'[a] = effect'[b], effect'[a] # 0
          PROVE  a = b
      <3>1. \A x \in Callers : effect[x] # Len(records) + 1
        <4>1. SUFFICES ASSUME NEW x \in Callers, effect[x] = Len(records) + 1 PROVE FALSE
          OBVIOUS
        <4>2. effect[x] # 0
          BY <1>0, <4>1, AppendFacts
        <4>3. effect[x] \in DOMAIN records
          BY <4>2 DEF FenceInv, Holdings, CallersOwnEffects, Working, RecordsOf, Effects
        <4> QED BY <1>0, <4>1, <4>3, AppendFacts
      <3> QED BY <2>2, <3>1 DEF FenceInv, FenceTypeOK, CallersOwnEffects
    <2> QED BY <2>1, <2>2 DEF CallersOwnEffects, Working
  <1>4. Holdings'
    BY <1>0 DEF FenceInv, FenceTypeOK, Holdings, Working
  <1> QED BY <1>1, <1>2, <1>3, <1>4 DEF FenceInv

\* Every step keeps the inductive invariant.
LEMMA FenceInvNext == FenceInv /\ [FenceNext]_fenceVars => FenceInv'
  <1> SUFFICES ASSUME FenceInv, [FenceNext]_fenceVars PROVE FenceInv'
    OBVIOUS
  <1>1. ASSUME NEW c \in Callers, NEW d \in Digests, Admit(c, d) PROVE FenceInv'
    <2> USE <1>1 DEF Admit
    <2>1. FenceTypeOK'
      BY DEF FenceInv, FenceTypeOK, Points
    <2>2. RanIsRecorded'
      BY DEF FenceInv, RanIsRecorded, Effects
    <2>3. CallersOwnEffects'
      BY DEF FenceInv, FenceTypeOK, CallersOwnEffects, RecordsOf, Effects
    <2>4. Holdings'
      BY DEF FenceInv, FenceTypeOK, Holdings, Working
    <2> QED BY <2>1, <2>2, <2>3, <2>4 DEF FenceInv
  <1>2. ASSUME NEW c \in Callers, NEW d \in Digests, Refuse(c, d) PROVE FenceInv'
    BY <1>2 DEF Refuse, fenceVars, caller, FenceInv, FenceTypeOK, RanIsRecorded, CallersOwnEffects, Holdings,
       RecordsOf, Effects
  <1>3. ASSUME NEW c \in Callers, Prepare(c) PROVE FenceInv'
    BY <1>3, PrepareKeeps, JustDone DEF Prepare, NotWritten
  <1>4. ASSUME NEW c \in Callers, Start(c) PROVE FenceInv'
    BY <1>4, StartKeeps, JustDone DEF Start, NotWritten
  <1>5. ASSUME NEW c \in Callers, Execute(c) PROVE FenceInv'
    BY <1>5, GoOnKeeps DEF Execute
  <1>6. ASSUME NEW c \in Callers, Observe(c) PROVE FenceInv'
    <2>1. CASE Written(c, "observed") /\ Done(c)
      BY <1>6, <2>1, WriteAndDone DEF Observe, Working, States
    <2>2. CASE NotWritten /\ Goto(c, "unknown")
      BY <1>6, <2>2, GoOnKeeps DEF Observe, NotWritten
    <2> QED BY <1>6, <2>1, <2>2 DEF Observe
  <1>7. ASSUME NEW c \in Callers, MarkFailed(c) PROVE FenceInv'
    BY <1>7, WriteAndDone, JustDone DEF MarkFailed, Working, States, NotWritten
  <1>8. ASSUME NEW c \in Callers, MarkUnknown(c) PROVE FenceInv'
    BY <1>8, WriteAndDone, JustDone DEF MarkUnknown, Working, States, NotWritten
  <1>9. CASE Crash
    <2> USE <1>9 DEF Crash
    <2>1. FenceTypeOK'
      BY DEF FenceInv, FenceTypeOK, Points
    <2>2. RanIsRecorded' /\ CallersOwnEffects' /\ Holdings'
      BY DEF FenceInv, RanIsRecorded, CallersOwnEffects, Holdings, RecordsOf, Effects, Working
    <2> QED BY <2>1, <2>2 DEF FenceInv
  <1>10. CASE UNCHANGED fenceVars
    BY <1>10 DEF fenceVars, caller, FenceInv, FenceTypeOK, RanIsRecorded, CallersOwnEffects, Holdings,
       RecordsOf, Effects
  <1> QED BY <1>1, <1>2, <1>3, <1>4, <1>5, <1>6, <1>7, <1>8, <1>9, <1>10 DEF FenceNext, Step

\* So it always holds.
LEMMA FenceInvAlways == FenceSpec => []FenceInv
  BY FenceInitInv, FenceInvNext, PTL DEF FenceSpec

\* The ledger and the callers keep their shape.
THEOREM FenceTypeCorrect == FenceSpec => []FenceTypeOK
  BY FenceInvAlways, PTL DEF FenceInv

\* fence_prepare and run_under_fence are write-ahead: a side effect that was started
\* is in the log as started, whichever append failed and whenever the daemon died.
THEOREM WriteAhead == FenceSpec => []RanIsRecorded
  BY FenceInvAlways, PTL DEF FenceInv

\* Every effect under way belongs to one caller and is in the state it expects.
THEOREM Ownership == FenceSpec => []CallersOwnEffects
  BY FenceInvAlways, PTL DEF FenceInv

-----------------------------------------------------------------------------
\* A step leaves a settled digest settled and runs nothing of it.
Stays(d) == Settled(d)' /\ ran' \cap RecordsOf(d)' = ran \cap RecordsOf(d)

\* When the records of a digest stay what they are, nobody takes the digest up and
\* nothing of it is run, it stays settled.
LEMMA StaysIf ==
  ASSUME NEW d \in Digests, Settled(d),
         \A e \in DOMAIN records : e \in DOMAIN records' /\ records'[e].digest = records[e].digest,
         \A e \in DOMAIN records : records[e].digest = d => records'[e] = records[e],
         \A e \in DOMAIN records' : e \in DOMAIN records \/ records'[e].digest # d,
         \A c \in Callers : digest'[c] # d,
         \A e \in ran' : e \in ran \/ e \notin RecordsOf(d),
         ran \subseteq ran'
  PROVE  Stays(d)
  <1>1. RecordsOf(d)' = RecordsOf(d)
    BY DEF RecordsOf, Effects
  <1> QED BY <1>1 DEF Stays, Settled, RecordsOf, Effects

\* A step of a caller that has another digest, or none, and writes at most the
\* record of its own effect leaves a settled digest alone.
LEMMA OthersStay ==
  ASSUME FenceInv, NEW d \in Digests, Settled(d), NEW c \in Callers, pc[c] \in Working,
         UNCHANGED records \/ \E state \in States : Written(c, state),
         Done(c) \/ (\E point \in Points : Goto(c, point)),
         ran' = ran \/ ran' = ran \cup {effect[c]}
  PROVE  Stays(d)
  <1>1. effect[c] \in DOMAIN records /\ records[effect[c]].digest # d
    BY DEF FenceInv, CallersOwnEffects, Working, Settled, RecordsOf, Effects
  <1>2. /\ \A e \in DOMAIN records : e \in DOMAIN records' /\ records'[e].digest = records[e].digest
        /\ \A e \in DOMAIN records : records[e].digest = d => records'[e] = records[e]
        /\ DOMAIN records' = DOMAIN records
    <2>1. CASE UNCHANGED records
      BY <2>1
    <2>2. CASE \E state \in States : Written(c, state)
      BY <1>1, <2>2, WrittenFacts
    <2> QED BY <2>1, <2>2
  <1>3. \A b \in Callers : digest'[b] # d
    <2>1. CASE Done(c)
      BY <2>1, DoneKeeps, FenceAssumption DEF Settled
    <2>2. CASE \E point \in Points : Goto(c, point)
      BY <2>2, GotoKeeps DEF Settled
    <2> QED BY <2>1, <2>2
  <1>4. (\A e \in ran' : e \in ran \/ e \notin RecordsOf(d)) /\ ran \subseteq ran'
    BY <1>1 DEF RecordsOf, Effects
  <1> QED BY <1>2, <1>3, <1>4, StaysIf

\* No step touches a settled digest.
LEMMA NextStays ==
  ASSUME FenceInv, [FenceNext]_fenceVars, NEW d \in Digests, Settled(d)
  PROVE  Stays(d)
  <1>0. \A c \in Callers : digest[c] # d
    BY DEF Settled
  <1>1. ASSUME NEW c \in Callers, NEW e \in Digests, Admit(c, e) PROVE Stays(d)
    <2>1. e # d
      BY <1>1 DEF Admit, Settled, ReplaySafe
    <2>2. \A b \in Callers : digest'[b] # d
      BY <1>0, <1>1, <2>1 DEF Admit, FenceInv, FenceTypeOK
    <2> QED BY <1>1, <2>2, StaysIf DEF Admit
  <1>2. ASSUME NEW c \in Callers, NEW e \in Digests, Refuse(c, e) PROVE Stays(d)
    BY <1>0, <1>2, StaysIf DEF Refuse, fenceVars, caller
  <1>3. ASSUME NEW c \in Callers, Prepare(c) PROVE Stays(d)
    <2>1. digest[c] \in Digests /\ digest[c] # d
      BY <1>0, <1>3 DEF Prepare, FenceInv, Holdings
    <2>2. CASE /\ records' = Append(records, [digest |-> digest[c], state |-> "prepared"])
               /\ UNCHANGED digest
      BY <1>0, <1>3, <2>1, <2>2, AppendFacts, StaysIf DEF Prepare
    <2>3. CASE NotWritten /\ Done(c)
      <3>1. \A b \in Callers : digest'[b] # d
        BY <1>0, <2>3, DoneKeeps, FenceAssumption
      <3> QED BY <1>3, <2>3, <3>1, StaysIf DEF Prepare, NotWritten
    <2> QED BY <1>3, <2>2, <2>3 DEF Prepare
  <1>4. ASSUME NEW c \in Callers, Start(c) PROVE Stays(d)
    BY <1>4, OthersStay DEF Start, NotWritten, Working, Points, States
  <1>5. ASSUME NEW c \in Callers, Execute(c) PROVE Stays(d)
    BY <1>5, OthersStay DEF Execute, Working, Points
  <1>6. ASSUME NEW c \in Callers, Observe(c) PROVE Stays(d)
    BY <1>6, OthersStay DEF Observe, NotWritten, Working, Points, States
  <1>7. ASSUME NEW c \in Callers, MarkFailed(c) PROVE Stays(d)
    BY <1>7, OthersStay DEF MarkFailed, NotWritten, Working, States
  <1>8. ASSUME NEW c \in Callers, MarkUnknown(c) PROVE Stays(d)
    BY <1>8, OthersStay DEF MarkUnknown, NotWritten, Working, States
  <1>9. CASE Crash
    <2>1. \A c \in Callers : digest'[c] # d
      BY <1>9, FenceAssumption DEF Crash
    <2> QED BY <1>9, <2>1, StaysIf DEF Crash
  <1>10. CASE UNCHANGED fenceVars
    BY <1>0, <1>10, StaysIf DEF fenceVars, caller
  <1> QED BY <1>1, <1>2, <1>3, <1>4, <1>5, <1>6, <1>7, <1>8, <1>9, <1>10 DEF FenceNext, Step

\* check_replay_safe does its work once a digest is settled: whatever retries,
\* restarts and refused appends follow, no effect with that digest starts again.
THEOREM SettledForGood == FenceSpec => SettledStaysSettled
  <1>1. FenceInv /\ [FenceNext]_fenceVars =>
          [\A d \in Digests :
              Settled(d) => Settled(d)' /\ ran' \cap RecordsOf(d)' = ran \cap RecordsOf(d)]_fenceVars
    BY NextStays DEF Stays
  <1> QED BY <1>1, FenceInvAlways, PTL DEF FenceSpec, SettledStaysSettled

-----------------------------------------------------------------------------
(* the workflow engine and the child runtime                               *)

StepStates == Finished \cup {"pending", "running"}
ScheduleStates == {"none", "admitted", "completed", "cancelled"}
Engines == [status : Finished \cup {"none", "running"}, step : [Steps -> StepStates],
            attempts : [Steps -> 0..(MaxRetries + 1)], schedule : [Steps -> ScheduleStates]]
Outcomes == Finished \cup {"none", "error"}
WithChild == {"build", "spawn", "leased", "running", "ended", "back"}

\* A step that may still run has a try left.
TriesLeft(e) == \A k \in Steps : e.step[k] \in {"pending", "running"} => e.attempts[k] <= MaxRetries

\* The two properties of the engines, of one engine.
InOrder(e) ==
    \A k \in Steps : e.step[k] \in {"running", "completed"} =>
        \A j \in 1..(k - 1) : e.step[j] = "completed"
ScheduleRuns(e) ==
    \A k \in Steps : e.schedule[k] = "admitted" => e.step[k] = "running" /\ e.status \notin Finished

\* What every engine satisfies.  An engine is over when one step has failed; no other
\* step can be running then, since of two steps the later waits for the earlier.
EngineOK(e) == e \in Engines /\ TriesLeft(e) /\ InOrder(e) /\ ScheduleRuns(e)

EnginesOK == engine \in [Chats -> Engines] /\ \A s \in Chats : EngineOK(engine[s])

\* What the callers share has its type.
SharedTypeOK ==
    /\ token \in [Chats -> [Steps -> Drivers \cup {NoDriver}]]
    /\ lease \subseteq Children
    /\ gate \in Drivers \cup {NoDriver}
    /\ results \in [Children -> Finished \cup {"none"}]
    /\ worktree \in [Chats -> {"none", "active", "stopped"}]

\* So has a caller, whose child is a step of a session.
CallerTypeOK ==
    /\ doing \in [Drivers -> Stations \cup Chats]
    /\ child \in [Drivers -> [chat : Chats \cup {"none"}, step : Nat,
                              cancelled : BOOLEAN, outcome : Outcomes]]
ChildNamed ==
    \A c \in Drivers : doing[c] \in WithChild => child[c].chat \in Chats /\ child[c].step \in Steps

\* Whoever writes holds the lease of its child, alone.
LeaseHeld ==
    /\ \A c \in Drivers : doing[c] \in Writing => ChildId(c) \in lease
    /\ \A c, d \in Drivers :
         doing[c] \in Writing /\ doing[d] \in Writing /\ ChildId(c) = ChildId(d) => c = d

\* No two leases overlap.
LeasesApart == \A i, j \in lease : i # j => ~Overlaps(i, j)

\* Whoever runs a child holds the gate.
GateHeld == \A c \in Drivers : doing[c] = "running" => gate = c

\* The inductive invariant.  WritersExclusive speaks of callers, the lease table of
\* children: LeaseHeld ties the two, through the replacement of a workflow by one that
\* has the same children.
WfInv ==
    /\ EnginesOK
    /\ SharedTypeOK
    /\ CallerTypeOK
    /\ ChildNamed
    /\ LeaseHeld
    /\ LeasesApart
    /\ GateHeld

\* The gate lets one child run at a time.
OneChildRuns == \A c, d \in Drivers : doing[c] = "running" /\ doing[d] = "running" => c = d

-----------------------------------------------------------------------------
(* the engine                                                              *)

\* There is a try for every step at first, and one more is counted than is allowed.
LEMMA TryNumbers == 0 \in 0..(MaxRetries + 1) /\ 0 <= MaxRetries /\ Steps \subseteq Nat
  BY WorkflowConstants DEF Steps

\* A session without a workflow and one with a new workflow.
LEMMA NewEngineOK == EngineOK(NoEngine) /\ EngineOK(NewEngine)
  <1>1. NoEngine \in Engines
    BY TryNumbers DEF NoEngine, Engines, StepStates, ScheduleStates
  <1>2. NewEngine \in Engines
    BY <1>1 DEF NewEngine, Engines, Finished
  <1>3. /\ \A k \in Steps : NoEngine.step[k] = "pending" /\ NoEngine.attempts[k] = 0
        /\ \A k \in Steps : NoEngine.schedule[k] = "none"
    BY DEF NoEngine
  <1>4. /\ NewEngine.step = NoEngine.step /\ NewEngine.attempts = NoEngine.attempts
        /\ NewEngine.schedule = NoEngine.schedule
    BY DEF NewEngine, NoEngine
  <1> QED
    BY <1>1, <1>2, <1>3, <1>4, TryNumbers DEF EngineOK, TriesLeft, InOrder, ScheduleRuns

\* Beginning a ready step of a run that goes on.
LEMMA BegunOK ==
  ASSUME NEW e, EngineOK(e), NEW k \in Steps, Ready(e, k), e.status = "running"
  PROVE  EngineOK(Begun(e, k))
  <1> DEFINE f == Begun(e, k)
  <1>1. e \in Engines
    BY DEF EngineOK
  <1>2. /\ f.status = e.status /\ f.attempts = e.attempts
        /\ f.step = [e.step EXCEPT ![k] = "running"]
        /\ f.schedule = [e.schedule EXCEPT ![k] = "admitted"]
    BY <1>1 DEF Begun, Engines
  <1>3. f \in Engines
    BY <1>1 DEF Begun, Engines, StepStates, ScheduleStates
  <1>4. TriesLeft(f)
    BY <1>1, <1>2 DEF EngineOK, TriesLeft, Ready, Engines
  <1>5. InOrder(f)
    <2> SUFFICES ASSUME NEW m \in Steps, f.step[m] \in {"running", "completed"},
                        NEW j \in 1..(m - 1)
                 PROVE  f.step[j] = "completed"
      BY DEF InOrder
    <2>1. j \in Steps /\ j # m
      BY DEF Steps
    <2>2. CASE m = k
      BY <1>1, <1>2, <2>1, <2>2 DEF Ready, Engines
    <2>3. CASE m # k
      BY <1>1, <1>2, <2>1, <2>3 DEF EngineOK, InOrder, Ready, Engines
    <2> QED
      BY <2>2, <2>3
  <1>6. ScheduleRuns(f)
    BY <1>1, <1>2 DEF EngineOK, ScheduleRuns, Engines, Finished
  <1> QED
    BY <1>3, <1>4, <1>5, <1>6 DEF EngineOK

\* Completing a step, also one that is not running any more.
LEMMA CompletedOK ==
  ASSUME NEW e, EngineOK(e), NEW k \in Steps
  PROVE  EngineOK(CompletedStep(e, k))
  <1>1. CASE e.status \in Finished \/ e.step[k] # "running"
    BY <1>1 DEF CompletedStep
  <1>2. CASE e.status \notin Finished /\ e.step[k] = "running"
    <2> DEFINE done == [e EXCEPT !.step[k] = "completed", !.schedule[k] = "completed"]
               over == \A j \in Steps : done.step[j] = "completed"
               f == CompletedStep(e, k)
    <2>1. e \in Engines
      BY DEF EngineOK
    <2>2. f = IF over THEN [done EXCEPT !.status = "completed"] ELSE done
      BY <1>2 DEF CompletedStep
    <2>3. /\ done.status = e.status /\ done.attempts = e.attempts
          /\ done.step = [e.step EXCEPT ![k] = "completed"]
          /\ done.schedule = [e.schedule EXCEPT ![k] = "completed"]
          /\ done \in Engines
      BY <2>1 DEF Engines, StepStates, ScheduleStates, Finished
    <2> HIDE DEF done
    <2>4. /\ f.attempts = e.attempts
          /\ f.step = [e.step EXCEPT ![k] = "completed"]
          /\ f.schedule = [e.schedule EXCEPT ![k] = "completed"]
          /\ f.status = IF over THEN "completed" ELSE e.status
          /\ f \in Engines
      <3>1. CASE over
        <4>1. f = [done EXCEPT !.status = "completed"]
          BY <2>2, <3>1
        <4> QED
          BY <2>3, <3>1, <4>1 DEF Engines, Finished
      <3>2. CASE ~over
        BY <2>2, <2>3, <3>2
      <3> QED
        BY <3>1, <3>2
    <2> HIDE DEF f
    <2>5. TriesLeft(f)
      BY <2>1, <2>4 DEF EngineOK, TriesLeft, Engines
    <2>6. InOrder(f)
      <3> SUFFICES ASSUME NEW m \in Steps, f.step[m] \in {"running", "completed"},
                          NEW j \in 1..(m - 1)
                   PROVE  f.step[j] = "completed"
        BY DEF InOrder
      <3>1. j \in Steps
        BY DEF Steps
      <3>2. e.step[m] \in {"running", "completed"}
        BY <1>2, <2>1, <2>4 DEF Engines
      <3> QED
        BY <2>1, <2>4, <3>1, <3>2 DEF EngineOK, InOrder, Engines
    <2>7. ScheduleRuns(f)
      <3> SUFFICES ASSUME NEW m \in Steps, f.schedule[m] = "admitted"
                   PROVE  f.step[m] = "running" /\ f.status \notin Finished
        BY DEF ScheduleRuns
      <3>1. m # k /\ e.schedule[m] = "admitted"
        BY <2>1, <2>4 DEF Engines
      <3>2. f.step[m] = "running"
        BY <2>1, <2>4, <3>1 DEF EngineOK, ScheduleRuns, Engines
      <3>3. ~over
        BY <2>3, <2>4, <3>2
      <3> QED
        BY <1>2, <2>4, <3>2, <3>3
    <2> QED
      BY <2>4, <2>5, <2>6, <2>7 DEF EngineOK, f
  <1> QED
    BY <1>1, <1>2

\* Failing a step, which is tried again or ends the run.
LEMMA FailedOK ==
  ASSUME NEW e, EngineOK(e), NEW k \in Steps
  PROVE  EngineOK(FailedStep(e, k))
  <1>1. CASE e.status \in Finished \/ e.step[k] # "running"
    BY <1>1 DEF FailedStep
  <1>2. CASE e.status \notin Finished /\ e.step[k] = "running"
    <2> DEFINE failed == [e EXCEPT !.attempts[k] = @ + 1, !.schedule[k] = "cancelled"]
               again == failed.attempts[k] <= MaxRetries
               f == FailedStep(e, k)
    <2>1. e \in Engines /\ e.attempts[k] <= MaxRetries
      BY <1>2 DEF EngineOK, TriesLeft
    <2>2. f = IF again THEN [failed EXCEPT !.step[k] = "pending"]
              ELSE [failed EXCEPT !.step[k] = "failed", !.status = "failed"]
      BY <1>2 DEF FailedStep
    <2>3. /\ failed.status = e.status /\ failed.step = e.step
          /\ failed.attempts = [e.attempts EXCEPT ![k] = @ + 1]
          /\ failed.schedule = [e.schedule EXCEPT ![k] = "cancelled"]
      BY <2>1 DEF Engines
    <2>4. failed \in Engines
      <3>1. e.attempts[k] + 1 \in 0..(MaxRetries + 1)
        BY <2>1, WorkflowConstants DEF Engines
      <3> QED
        BY <2>1, <3>1 DEF Engines, ScheduleStates
    <2> HIDE DEF failed
    <2>5. /\ f.attempts = [e.attempts EXCEPT ![k] = @ + 1]
          /\ f.schedule = [e.schedule EXCEPT ![k] = "cancelled"]
          /\ f.step = [e.step EXCEPT ![k] = IF again THEN "pending" ELSE "failed"]
          /\ f.status = IF again THEN e.status ELSE "failed"
          /\ f \in Engines
      <3>1. CASE again
        <4>1. f = [failed EXCEPT !.step[k] = "pending"]
          BY <2>2, <3>1
        <4> QED
          BY <2>3, <2>4, <3>1, <4>1 DEF Engines, StepStates
      <3>2. CASE ~again
        <4>1. f = [failed EXCEPT !.step[k] = "failed", !.status = "failed"]
          BY <2>2, <3>2
        <4>2. f \in Engines
          <5>1. "failed" \in StepStates /\ "failed" \in Finished \cup {"none", "running"}
            BY DEF StepStates, Finished
          <5>2. [failed.step EXCEPT ![k] = "failed"] \in [Steps -> StepStates]
            BY <2>4, <5>1 DEF Engines
          <5>3. f = [failed EXCEPT !.step = [failed.step EXCEPT ![k] = "failed"],
                                   !.status = "failed"]
            BY <2>4, <4>1 DEF Engines
          <5> QED
            BY <2>4, <5>1, <5>2, <5>3 DEF Engines
        <4>3. f.attempts = failed.attempts /\ f.schedule = failed.schedule /\ f.status = "failed"
          BY <2>4, <4>1 DEF Engines
        <4>4. f.step = [failed.step EXCEPT ![k] = "failed"]
          BY <2>4, <4>1 DEF Engines
        <4> QED
          BY <2>3, <3>2, <4>2, <4>3, <4>4
      <3> QED
        BY <3>1, <3>2
    <2> HIDE DEF f
    <2>6. TriesLeft(f)
      BY <2>1, <2>3, <2>5 DEF EngineOK, TriesLeft, Engines
    <2>7. \A m \in Steps : e.step[m] = "running" => m = k
      BY <1>2, <2>1, WorkflowConstants DEF EngineOK, InOrder, Steps, Engines
    <2>8. InOrder(f)
      <3> SUFFICES ASSUME NEW m \in Steps, f.step[m] \in {"running", "completed"},
                          NEW j \in 1..(m - 1)
                   PROVE  f.step[j] = "completed"
        BY DEF InOrder
      <3>1. j \in Steps
        BY DEF Steps
      <3>2. m # k /\ e.step[m] \in {"running", "completed"}
        BY <2>1, <2>5 DEF Engines
      <3>3. e.step[j] = "completed"
        BY <3>2 DEF EngineOK, InOrder
      <3> QED
        BY <1>2, <2>1, <2>5, <3>1, <3>3 DEF Engines
    <2>9. ScheduleRuns(f)
      BY <2>1, <2>5, <2>7 DEF EngineOK, ScheduleRuns, Engines
    <2> QED
      BY <2>5, <2>6, <2>8, <2>9 DEF EngineOK, f
  <1> QED
    BY <1>1, <1>2

\* Cancelling a run drains its schedules.
LEMMA CancelledOK == ASSUME NEW e, EngineOK(e) PROVE EngineOK(CancelledEngine(e))
  <1> DEFINE drain == [k \in Steps |-> IF e.schedule[k] = "admitted" THEN "cancelled"
                                       ELSE e.schedule[k]]
             drained == [e EXCEPT !.schedule = drain]
             stop == [k \in Steps |-> IF e.step[k] \in {"pending", "running"} THEN "cancelled"
                                      ELSE e.step[k]]
             f == CancelledEngine(e)
  <1>1. e \in Engines
    BY DEF EngineOK
  <1>2. drain \in [Steps -> ScheduleStates \ {"admitted"}] /\ stop \in [Steps -> StepStates]
    BY <1>1 DEF Engines, ScheduleStates, StepStates, Finished
  <1> HIDE DEF drain, stop
  <1>3. /\ drained.status = e.status /\ drained.step = e.step /\ drained.attempts = e.attempts
        /\ drained.schedule = drain /\ drained \in Engines
    BY <1>1, <1>2 DEF Engines
  <1>4. CASE e.status \in Finished
    <2>1. f = drained
      BY <1>4 DEF CancelledEngine, drain
    <2> HIDE DEF f, drained
    <2> QED
      BY <1>2, <1>3, <2>1 DEF EngineOK, TriesLeft, InOrder, ScheduleRuns, f
  <1>5. CASE e.status \notin Finished
    <2>1. f = [drained EXCEPT !.status = "cancelled", !.step = stop]
      BY <1>3, <1>5 DEF CancelledEngine, drain, stop
    <2> HIDE DEF f, drained
    <2>2. /\ f.attempts = e.attempts /\ f.schedule = drain /\ f.step = stop
          /\ f \in Engines
      BY <1>2, <1>3, <2>1 DEF Engines, Finished
    <2>3. \A k \in Steps : stop[k] \notin {"pending", "running"}
      BY DEF stop
    <2>4. InOrder(f)
      <3> SUFFICES ASSUME NEW m \in Steps, f.step[m] \in {"running", "completed"},
                          NEW j \in 1..(m - 1)
                   PROVE  f.step[j] = "completed"
        BY DEF InOrder
      <3>1. j \in Steps
        BY DEF Steps
      <3>2. e.step[m] = "completed"
        BY <2>2, <2>3 DEF stop
      <3>3. e.step[j] = "completed"
        BY <3>2 DEF EngineOK, InOrder
      <3> QED
        BY <2>2, <3>1, <3>3 DEF stop
    <2>5. TriesLeft(f) /\ ScheduleRuns(f)
      BY <1>2, <2>2, <2>3 DEF TriesLeft, ScheduleRuns
    <2> QED
      BY <2>2, <2>4, <2>5 DEF EngineOK, f
  <1> QED
    BY <1>4, <1>5

-----------------------------------------------------------------------------
(* the runtime                                                             *)

\* The invariant holds initially.
LEMMA WfInitInv == WfInit => WfInv
  <1> SUFFICES ASSUME WfInit PROVE WfInv
    OBVIOUS
  <1>1. EnginesOK
    BY NewEngineOK DEF WfInit, EnginesOK, EngineOK
  <1>2. SharedTypeOK /\ CallerTypeOK /\ ChildNamed
    BY DEF WfInit, SharedTypeOK, CallerTypeOK, ChildNamed, NoTokens, NoChild, Stations, Outcomes, WithChild
  <1>3. LeaseHeld /\ LeasesApart /\ GateHeld
    BY DEF WfInit, LeaseHeld, LeasesApart, GateHeld, Writing
  <1> QED
    BY <1>1, <1>2, <1>3 DEF WfInv

\* A session's engine is only ever replaced by a good one.
LEMMA EngineSet ==
  ASSUME WfInv, NEW s \in Chats, NEW e, EngineOK(e), engine' = [engine EXCEPT ![s] = e]
  PROVE  EnginesOK'
  BY DEF WfInv, EnginesOK, EngineOK

\* Every step leaves good engines.
LEMMA EngineNext == WfInv /\ WfNext => EnginesOK'
  <1> SUFFICES ASSUME WfInv, WfNext PROVE EnginesOK'
    OBVIOUS
  <1>1. ASSUME NEW s \in Chats, CancelWorkflow(s) PROVE EnginesOK'
    BY <1>1, NewEngineOK, EngineSet DEF CancelWorkflow, CancelSession
  <1>2. ASSUME NEW c \in Drivers, NEW s \in Chats, StartWorkflow(c, s) PROVE EnginesOK'
    BY <1>2, NewEngineOK, EngineSet DEF StartWorkflow, CancelSession
  <1>3. ASSUME NEW c \in Drivers, NEW s \in Chats, InsertWorkflow(c, s) PROVE EnginesOK'
    BY <1>3, NewEngineOK, EngineSet DEF InsertWorkflow
  <1>4. ASSUME NEW c \in Drivers, NEW s \in Chats, AdvanceWorkflow(c, s) PROVE EnginesOK'
    <2>1. PICK k \in Steps : /\ Ready(engine[s], k)
                             /\ engine' = [engine EXCEPT ![s] = Begun(@, k)]
      BY <1>4 DEF AdvanceWorkflow
    <2>2. EngineOK(Begun(engine[s], k))
      BY <1>4, <2>1, BegunOK DEF AdvanceWorkflow, WfInv, EnginesOK
    <2> QED
      BY <2>1, <2>2, EngineSet
  <1>5. ASSUME NEW c \in Drivers, BuildRefused(c) PROVE EnginesOK'
    BY <1>5 DEF BuildRefused, Leave, Turn, EnginesOK, WfInv
  <1>6. ASSUME NEW c \in Drivers, AdmitLease(c) PROVE EnginesOK'
    BY <1>6 DEF AdmitLease, Turn, EnginesOK, WfInv
  <1>7. ASSUME NEW c \in Drivers, RefuseLease(c) PROVE EnginesOK'
    BY <1>7 DEF RefuseLease, Leave, Turn, EnginesOK, WfInv
  <1>8. ASSUME NEW c \in Drivers, TakeGate(c) PROVE EnginesOK'
    BY <1>8 DEF TakeGate, Turn, EnginesOK, WfInv
  <1>9. ASSUME NEW c \in Drivers, ChildEnds(c) PROVE EnginesOK'
    BY <1>9 DEF ChildEnds, Turn, EnginesOK, WfInv
  <1>10. ASSUME NEW c \in Drivers, ReleaseLease(c) PROVE EnginesOK'
    BY <1>10 DEF ReleaseLease, Leave, Turn, EnginesOK, WfInv
  <1>11. ASSUME NEW c \in Drivers, FinishStep(c) PROVE EnginesOK'
    <2> DEFINE s == child[c].chat
               k == child[c].step
               o == child[c].outcome
               f == IF engine[s] = NoEngine THEN engine[s]
                    ELSE IF o = "completed" THEN CompletedStep(engine[s], k)
                    ELSE IF o = "failed" THEN FailedStep(engine[s], k)
                    ELSE CancelledEngine(engine[s])
    <2>1. s \in Chats /\ k \in Steps
      BY <1>11 DEF FinishStep, WfInv, ChildNamed, WithChild
    <2>2. EngineOK(f)
      BY <2>1, CompletedOK, FailedOK, CancelledOK DEF WfInv, EnginesOK
    <2>3. engine' = [engine EXCEPT ![s] = f]
      BY <1>11 DEF FinishStep
    <2> HIDE DEF f
    <2> QED
      BY <2>1, <2>2, <2>3, EngineSet
  <1> QED
    BY <1>1, <1>2, <1>3, <1>4, <1>5, <1>6, <1>7, <1>8, <1>9, <1>10, <1>11 DEF WfNext,
       RunStep

\* Every step keeps the types of what the callers share.
LEMMA SharedTypeNext == WfInv /\ WfNext => SharedTypeOK'
  <1> SUFFICES ASSUME WfInv, WfNext PROVE SharedTypeOK'
    OBVIOUS
  <1>1. ASSUME NEW s \in Chats, CancelWorkflow(s) PROVE SharedTypeOK'
    BY <1>1 DEF CancelWorkflow, CancelSession, WfInv, SharedTypeOK, ChildNamed,
       WithChild, NoTokens, Children, ChildId, Finished
  <1>2. ASSUME NEW c \in Drivers, NEW s \in Chats, StartWorkflow(c, s) PROVE SharedTypeOK'
    BY <1>2 DEF StartWorkflow, CancelSession, Turn, WfInv, SharedTypeOK, ChildNamed,
       WithChild, NoTokens, Children, ChildId, Finished
  <1>3. ASSUME NEW c \in Drivers, NEW s \in Chats, InsertWorkflow(c, s) PROVE SharedTypeOK'
    BY <1>3 DEF InsertWorkflow, Turn, WfInv, SharedTypeOK, ChildNamed, WithChild,
       NoTokens, Children, ChildId, Finished
  <1>4. ASSUME NEW c \in Drivers, NEW s \in Chats, AdvanceWorkflow(c, s) PROVE SharedTypeOK'
    BY <1>4 DEF AdvanceWorkflow, Turn, WfInv, SharedTypeOK
  <1>5. ASSUME NEW c \in Drivers, BuildRefused(c) PROVE SharedTypeOK'
    BY <1>5 DEF BuildRefused, Leave, Turn, WfInv, SharedTypeOK
  <1>6. ASSUME NEW c \in Drivers, AdmitLease(c) PROVE SharedTypeOK'
    BY <1>6 DEF AdmitLease, Turn, WfInv, SharedTypeOK, ChildNamed, WithChild, NoTokens,
       Children, ChildId, Finished
  <1>7. ASSUME NEW c \in Drivers, RefuseLease(c) PROVE SharedTypeOK'
    BY <1>7 DEF RefuseLease, Leave, Turn, WfInv, SharedTypeOK
  <1>8. ASSUME NEW c \in Drivers, TakeGate(c) PROVE SharedTypeOK'
    BY <1>8 DEF TakeGate, Turn, WfInv, SharedTypeOK
  <1>9. ASSUME NEW c \in Drivers, ChildEnds(c) PROVE SharedTypeOK'
    BY <1>9 DEF ChildEnds, Turn, WfInv, SharedTypeOK, ChildNamed, WithChild, NoTokens,
       Children, ChildId, Finished
  <1>10. ASSUME NEW c \in Drivers, ReleaseLease(c) PROVE SharedTypeOK'
    BY <1>10 DEF ReleaseLease, Leave, Turn, WfInv, SharedTypeOK
  <1>11. ASSUME NEW c \in Drivers, FinishStep(c) PROVE SharedTypeOK'
    BY <1>11 DEF FinishStep, Leave, Turn, WfInv, SharedTypeOK
  <1> QED
    BY <1>1, <1>2, <1>3, <1>4, <1>5, <1>6, <1>7, <1>8, <1>9, <1>10, <1>11 DEF WfNext,
       RunStep

\* Every step keeps the types of the callers.
LEMMA CallerTypeNext == WfInv /\ WfNext => CallerTypeOK'
  <1> SUFFICES ASSUME WfInv, WfNext PROVE CallerTypeOK'
    OBVIOUS
  <1>1. ASSUME NEW s \in Chats, CancelWorkflow(s) PROVE CallerTypeOK'
    BY <1>1 DEF CancelWorkflow, CancelSession, WfInv, CallerTypeOK, Stations, NoChild
  <1>2. ASSUME NEW c \in Drivers, NEW s \in Chats, StartWorkflow(c, s) PROVE CallerTypeOK'
    BY <1>2 DEF StartWorkflow, CancelSession, Turn, WfInv, CallerTypeOK, Stations,
       NoChild
  <1>3. ASSUME NEW c \in Drivers, NEW s \in Chats, InsertWorkflow(c, s) PROVE CallerTypeOK'
    BY <1>3 DEF InsertWorkflow, Turn, WfInv, CallerTypeOK, Stations, NoChild
  <1>4. ASSUME NEW c \in Drivers, NEW s \in Chats, AdvanceWorkflow(c, s) PROVE CallerTypeOK'
    BY <1>4 DEF AdvanceWorkflow, Turn, WfInv, CallerTypeOK, Stations, NoChild, Outcomes,
       Finished, Steps
  <1>5. ASSUME NEW c \in Drivers, BuildRefused(c) PROVE CallerTypeOK'
    BY <1>5 DEF BuildRefused, Leave, Turn, WfInv, CallerTypeOK, Stations, NoChild,
       Outcomes, Finished, Steps
  <1>6. ASSUME NEW c \in Drivers, AdmitLease(c) PROVE CallerTypeOK'
    BY <1>6 DEF AdmitLease, Turn, WfInv, CallerTypeOK, Stations, NoChild
  <1>7. ASSUME NEW c \in Drivers, RefuseLease(c) PROVE CallerTypeOK'
    BY <1>7 DEF RefuseLease, Leave, Turn, WfInv, CallerTypeOK, Stations, NoChild,
       Outcomes, Finished, Steps
  <1>8. ASSUME NEW c \in Drivers, TakeGate(c) PROVE CallerTypeOK'
    BY <1>8 DEF TakeGate, Turn, WfInv, CallerTypeOK, Stations, NoChild
  <1>9. ASSUME NEW c \in Drivers, ChildEnds(c) PROVE CallerTypeOK'
    BY <1>9 DEF ChildEnds, Turn, WfInv, CallerTypeOK, Stations, NoChild, Outcomes,
       Finished, Steps
  <1>10. ASSUME NEW c \in Drivers, ReleaseLease(c) PROVE CallerTypeOK'
    <2>1. CASE Leave(c)
      BY <2>1 DEF Leave, Turn, NoChild, WfInv, CallerTypeOK, Stations, Outcomes
    <2>2. CASE Turn(c, "back") /\ UNCHANGED child
      BY <2>2 DEF Turn, WfInv, CallerTypeOK, Stations
    <2> QED
      BY <1>10, <2>1, <2>2 DEF ReleaseLease
  <1>11. ASSUME NEW c \in Drivers, FinishStep(c) PROVE CallerTypeOK'
    BY <1>11 DEF FinishStep, Leave, Turn, WfInv, CallerTypeOK, Stations, NoChild,
       Outcomes, Finished, Steps
  <1> QED
    BY <1>1, <1>2, <1>3, <1>4, <1>5, <1>6, <1>7, <1>8, <1>9, <1>10, <1>11 DEF WfNext,
       RunStep

\* A caller that leaves the idle place names a step of a session.
LEMMA ChildNamedNext == WfInv /\ WfNext => ChildNamed'
  <1> SUFFICES ASSUME WfInv, WfNext PROVE ChildNamed'
    OBVIOUS
  <1>1. ASSUME NEW s \in Chats, CancelWorkflow(s) PROVE ChildNamed'
    BY <1>1 DEF CancelWorkflow, CancelSession, WfInv, ChildNamed
  <1>2. ASSUME NEW c \in Drivers, NEW s \in Chats, StartWorkflow(c, s) PROVE ChildNamed'
    BY <1>2, WorkflowConstants DEF StartWorkflow, CancelSession, Turn, WfInv,
       CallerTypeOK, ChildNamed, WithChild, Stations
  <1>3. ASSUME NEW c \in Drivers, NEW s \in Chats, InsertWorkflow(c, s) PROVE ChildNamed'
    BY <1>3 DEF InsertWorkflow, Turn, WfInv, CallerTypeOK, ChildNamed, WithChild,
       Stations
  <1>4. ASSUME NEW c \in Drivers, NEW s \in Chats, AdvanceWorkflow(c, s) PROVE ChildNamed'
    BY <1>4 DEF AdvanceWorkflow, Turn, WfInv, CallerTypeOK, ChildNamed, WithChild,
       Stations
  <1>5. ASSUME NEW c \in Drivers, BuildRefused(c) PROVE ChildNamed'
    BY <1>5 DEF BuildRefused, Leave, Turn, WfInv, CallerTypeOK, ChildNamed, WithChild,
       Stations
  <1>6. ASSUME NEW c \in Drivers, AdmitLease(c) PROVE ChildNamed'
    BY <1>6 DEF AdmitLease, Turn, WfInv, CallerTypeOK, ChildNamed, WithChild, Stations
  <1>7. ASSUME NEW c \in Drivers, RefuseLease(c) PROVE ChildNamed'
    BY <1>7 DEF RefuseLease, Leave, Turn, WfInv, CallerTypeOK, ChildNamed, WithChild,
       Stations
  <1>8. ASSUME NEW c \in Drivers, TakeGate(c) PROVE ChildNamed'
    BY <1>8 DEF TakeGate, Turn, WfInv, CallerTypeOK, ChildNamed, WithChild, Stations
  <1>9. ASSUME NEW c \in Drivers, ChildEnds(c) PROVE ChildNamed'
    BY <1>9 DEF ChildEnds, Turn, WfInv, CallerTypeOK, ChildNamed, WithChild, Stations
  <1>10. ASSUME NEW c \in Drivers, ReleaseLease(c) PROVE ChildNamed'
    BY <1>10 DEF ReleaseLease, Leave, Turn, WfInv, CallerTypeOK, ChildNamed, WithChild,
       Stations
  <1>11. ASSUME NEW c \in Drivers, FinishStep(c) PROVE ChildNamed'
    BY <1>11 DEF FinishStep, Leave, Turn, WfInv, CallerTypeOK, ChildNamed, WithChild,
       Stations
  <1> QED
    BY <1>1, <1>2, <1>3, <1>4, <1>5, <1>6, <1>7, <1>8, <1>9, <1>10, <1>11 DEF WfNext,
       RunStep

\* A step makes a writer of a caller whose child has just got the lease, and ends a lease
\* with its writer.
LEMMA LeaseHeldNext == WfInv /\ WfNext => LeaseHeld'
  <1> SUFFICES ASSUME WfInv, WfNext PROVE LeaseHeld'
    OBVIOUS
  <1>1. ASSUME NEW s \in Chats, CancelWorkflow(s) PROVE LeaseHeld'
    BY <1>1 DEF CancelWorkflow, CancelSession, WfInv, CallerTypeOK, LeaseHeld, Writing,
       ChildId
  <1>2. ASSUME NEW c \in Drivers, NEW s \in Chats, StartWorkflow(c, s) PROVE LeaseHeld'
    BY <1>2, WorkflowConstants DEF StartWorkflow, CancelSession, Turn, WfInv,
       CallerTypeOK, LeaseHeld, Writing, Stations, ChildId, WithChild
  <1>3. ASSUME NEW c \in Drivers, NEW s \in Chats, InsertWorkflow(c, s) PROVE LeaseHeld'
    BY <1>3 DEF InsertWorkflow, Turn, WfInv, CallerTypeOK, LeaseHeld, Writing, ChildId
  <1>4. ASSUME NEW c \in Drivers, NEW s \in Chats, AdvanceWorkflow(c, s) PROVE LeaseHeld'
    BY <1>4 DEF AdvanceWorkflow, Turn, WfInv, CallerTypeOK, LeaseHeld, Writing, ChildId
  <1>5. ASSUME NEW c \in Drivers, BuildRefused(c) PROVE LeaseHeld'
    BY <1>5 DEF BuildRefused, Leave, Turn, WfInv, CallerTypeOK, LeaseHeld, Writing,
       ChildId
  <1>6. ASSUME NEW c \in Drivers, AdmitLease(c) PROVE LeaseHeld'
    BY <1>6 DEF AdmitLease, Turn, WfInv, CallerTypeOK, LeaseHeld, Writing, ChildId,
       MayAdmit
  <1>7. ASSUME NEW c \in Drivers, RefuseLease(c) PROVE LeaseHeld'
    BY <1>7 DEF RefuseLease, Leave, Turn, WfInv, CallerTypeOK, LeaseHeld, Writing,
       ChildId
  <1>8. ASSUME NEW c \in Drivers, TakeGate(c) PROVE LeaseHeld'
    BY <1>8 DEF TakeGate, Turn, WfInv, CallerTypeOK, LeaseHeld, Writing, ChildId
  <1>9. ASSUME NEW c \in Drivers, ChildEnds(c) PROVE LeaseHeld'
    BY <1>9 DEF ChildEnds, Turn, WfInv, CallerTypeOK, LeaseHeld, Writing, ChildId
  <1>10. ASSUME NEW c \in Drivers, ReleaseLease(c) PROVE LeaseHeld'
    BY <1>10 DEF ReleaseLease, Leave, Turn, WfInv, CallerTypeOK, LeaseHeld, Writing,
       ChildId
  <1>11. ASSUME NEW c \in Drivers, FinishStep(c) PROVE LeaseHeld'
    BY <1>11 DEF FinishStep, Leave, Turn, WfInv, CallerTypeOK, LeaseHeld, Writing,
       ChildId
  <1> QED
    BY <1>1, <1>2, <1>3, <1>4, <1>5, <1>6, <1>7, <1>8, <1>9, <1>10, <1>11 DEF WfNext,
       RunStep

\* A step adds a lease that overlaps no other.
LEMMA LeasesApartNext == WfInv /\ WfNext => LeasesApart'
  <1> SUFFICES ASSUME WfInv, WfNext PROVE LeasesApart'
    OBVIOUS
  <1>1. ASSUME NEW s \in Chats, CancelWorkflow(s) PROVE LeasesApart'
    BY <1>1 DEF CancelWorkflow, CancelSession, WfInv, LeasesApart
  <1>2. ASSUME NEW c \in Drivers, NEW s \in Chats, StartWorkflow(c, s) PROVE LeasesApart'
    BY <1>2 DEF StartWorkflow, CancelSession, Turn, WfInv, LeasesApart
  <1>3. ASSUME NEW c \in Drivers, NEW s \in Chats, InsertWorkflow(c, s) PROVE LeasesApart'
    BY <1>3 DEF InsertWorkflow, Turn, WfInv, LeasesApart
  <1>4. ASSUME NEW c \in Drivers, NEW s \in Chats, AdvanceWorkflow(c, s) PROVE LeasesApart'
    BY <1>4 DEF AdvanceWorkflow, Turn, WfInv, LeasesApart
  <1>5. ASSUME NEW c \in Drivers, BuildRefused(c) PROVE LeasesApart'
    BY <1>5 DEF BuildRefused, Leave, Turn, WfInv, LeasesApart
  <1>6. ASSUME NEW c \in Drivers, AdmitLease(c) PROVE LeasesApart'
    BY <1>6 DEF AdmitLease, Turn, WfInv, LeasesApart, MayAdmit, Overlaps
  <1>7. ASSUME NEW c \in Drivers, RefuseLease(c) PROVE LeasesApart'
    BY <1>7 DEF RefuseLease, Leave, Turn, WfInv, LeasesApart
  <1>8. ASSUME NEW c \in Drivers, TakeGate(c) PROVE LeasesApart'
    BY <1>8 DEF TakeGate, Turn, WfInv, LeasesApart
  <1>9. ASSUME NEW c \in Drivers, ChildEnds(c) PROVE LeasesApart'
    BY <1>9 DEF ChildEnds, Turn, WfInv, LeasesApart
  <1>10. ASSUME NEW c \in Drivers, ReleaseLease(c) PROVE LeasesApart'
    BY <1>10 DEF ReleaseLease, Leave, Turn, WfInv, LeasesApart
  <1>11. ASSUME NEW c \in Drivers, FinishStep(c) PROVE LeasesApart'
    BY <1>11 DEF FinishStep, Leave, Turn, WfInv, LeasesApart
  <1> QED
    BY <1>1, <1>2, <1>3, <1>4, <1>5, <1>6, <1>7, <1>8, <1>9, <1>10, <1>11 DEF WfNext,
       RunStep

\* A step lets a child run that has the gate.
LEMMA GateHeldNext == WfInv /\ WfNext => GateHeld'
  <1> SUFFICES ASSUME WfInv, WfNext PROVE GateHeld'
    OBVIOUS
  <1>1. ASSUME NEW s \in Chats, CancelWorkflow(s) PROVE GateHeld'
    BY <1>1 DEF CancelWorkflow, CancelSession, WfInv, CallerTypeOK, GateHeld
  <1>2. ASSUME NEW c \in Drivers, NEW s \in Chats, StartWorkflow(c, s) PROVE GateHeld'
    BY <1>2, WorkflowConstants DEF StartWorkflow, CancelSession, Turn, WfInv,
       CallerTypeOK, GateHeld, Stations
  <1>3. ASSUME NEW c \in Drivers, NEW s \in Chats, InsertWorkflow(c, s) PROVE GateHeld'
    BY <1>3 DEF InsertWorkflow, Turn, WfInv, CallerTypeOK, GateHeld
  <1>4. ASSUME NEW c \in Drivers, NEW s \in Chats, AdvanceWorkflow(c, s) PROVE GateHeld'
    BY <1>4 DEF AdvanceWorkflow, Turn, WfInv, CallerTypeOK, GateHeld
  <1>5. ASSUME NEW c \in Drivers, BuildRefused(c) PROVE GateHeld'
    BY <1>5 DEF BuildRefused, Leave, Turn, WfInv, CallerTypeOK, GateHeld
  <1>6. ASSUME NEW c \in Drivers, AdmitLease(c) PROVE GateHeld'
    BY <1>6 DEF AdmitLease, Turn, WfInv, CallerTypeOK, GateHeld
  <1>7. ASSUME NEW c \in Drivers, RefuseLease(c) PROVE GateHeld'
    BY <1>7 DEF RefuseLease, Leave, Turn, WfInv, CallerTypeOK, GateHeld
  <1>8. ASSUME NEW c \in Drivers, TakeGate(c) PROVE GateHeld'
    BY <1>8, WorkflowConstants DEF TakeGate, Turn, WfInv, CallerTypeOK, GateHeld
  <1>9. ASSUME NEW c \in Drivers, ChildEnds(c) PROVE GateHeld'
    BY <1>9 DEF ChildEnds, Turn, WfInv, CallerTypeOK, GateHeld
  <1>10. ASSUME NEW c \in Drivers, ReleaseLease(c) PROVE GateHeld'
    BY <1>10 DEF ReleaseLease, Leave, Turn, WfInv, CallerTypeOK, GateHeld
  <1>11. ASSUME NEW c \in Drivers, FinishStep(c) PROVE GateHeld'
    BY <1>11 DEF FinishStep, Leave, Turn, WfInv, CallerTypeOK, GateHeld
  <1> QED
    BY <1>1, <1>2, <1>3, <1>4, <1>5, <1>6, <1>7, <1>8, <1>9, <1>10, <1>11 DEF WfNext,
       RunStep

-----------------------------------------------------------------------------
\* Every step, also one that changes nothing, keeps the invariant.
LEMMA WfInvNext == WfInv /\ [WfNext]_wfVars => WfInv'
  <1> SUFFICES ASSUME WfInv, [WfNext]_wfVars PROVE WfInv'
    OBVIOUS
  <1>1. CASE WfNext
    BY <1>1, EngineNext, SharedTypeNext, CallerTypeNext, ChildNamedNext, LeaseHeldNext,
       LeasesApartNext, GateHeldNext DEF WfInv
  <1>2. CASE UNCHANGED wfVars
    <2>1. EnginesOK' /\ SharedTypeOK' /\ CallerTypeOK' /\ ChildNamed'
      BY <1>2 DEF wfVars, WfInv, EnginesOK, SharedTypeOK, CallerTypeOK, ChildNamed
    <2>2. LeaseHeld' /\ LeasesApart' /\ GateHeld'
      BY <1>2 DEF wfVars, WfInv, LeaseHeld, LeasesApart, GateHeld, ChildId
    <2> QED
      BY <2>1, <2>2 DEF WfInv
  <1> QED
    BY <1>1, <1>2

\* The invariant holds throughout.
LEMMA WfInvAlways == WfSpec => []WfInv
  BY WfInitInv, WfInvNext, PTL DEF WfSpec

\* Engines, tokens, leases and results keep their shape; a step is tried at most once
\* more than the budget allows.
THEOREM WfTypeCorrect == WfSpec => []WfTypeOK
  <1>1. WfInv => WfTypeOK
    BY DEF WfInv, EnginesOK, Engines, SharedTypeOK, WfTypeOK, StepStates, ScheduleStates
  <1> QED
    BY <1>1, WfInvAlways, PTL

\* A child that may write anywhere writes alone and no child runs twice at a time,
\* whatever workflows are cancelled and replaced while children run.
THEOREM WritersExclude == WfSpec => []WritersExclusive
  <1>1. WfInv => WritersExclusive
    BY DEF WfInv, LeaseHeld, LeasesApart, WritersExclusive
  <1> QED
    BY <1>1, WfInvAlways, PTL

\* The gate lets one child run at a time.
THEOREM ChildrenRunAlone == WfSpec => []OneChildRuns
  <1>1. WfInv => OneChildRuns
    BY DEF WfInv, GateHeld, OneChildRuns
  <1> QED
    BY <1>1, WfInvAlways, PTL

\* Steps run in the order of the recipe, also when an outcome reaches a workflow that
\* replaced the one its child was run for.
THEOREM StepsInOrder == WfSpec => []DependenciesFirst
  <1>1. WfInv => DependenciesFirst
    BY DEF WfInv, EnginesOK, EngineOK, InOrder, DependenciesFirst
  <1> QED
    BY <1>1, WfInvAlways, PTL

\* A schedule the scheduler holds is that of a running step of a run that goes on.
THEOREM SchedulesHaveSteps == WfSpec => []NoOrphanSchedule
  <1>1. WfInv => NoOrphanSchedule
    BY DEF WfInv, EnginesOK, EngineOK, ScheduleRuns, NoOrphanSchedule
  <1> QED
    BY <1>1, WfInvAlways, PTL

-----------------------------------------------------------------------------
(* the parts side by side                                                  *)

\* Every behaviour of the agents' side is one of each of its parts: a step of the
\* daemon is a step of one part or leaves it alone.
THEOREM AgentParts == AgentSpec => FenceSpec /\ WfSpec /\ WtSpec /\ ExtSpec
  <1>1. AgentInit => FenceInit /\ WfInit /\ WtInit /\ ExtInit
    BY DEF AgentInit
  <1>2. [AgentNext]_agentVars => [FenceNext]_fenceVars
    BY DEF AgentNext, agentVars, FenceMoves, WfMoves, WtMoves, ExtMoves
  <1>3. [AgentNext]_agentVars => [WfNext]_wfVars
    BY DEF AgentNext, agentVars, FenceMoves, WfMoves, WtMoves, ExtMoves
  <1>4. [AgentNext]_agentVars => [WtNext]_wtVars
    BY DEF AgentNext, agentVars, FenceMoves, WfMoves, WtMoves, ExtMoves
  <1>5. [AgentNext]_agentVars => [ExtNext]_extVars
    BY DEF AgentNext, agentVars, FenceMoves, WfMoves, WtMoves, ExtMoves
  <1> QED
    BY <1>1, <1>2, <1>3, <1>4, <1>5, PTL DEF AgentSpec, FenceSpec, WfSpec, WtSpec, ExtSpec

\* Ledger, workflows, worktrees and extensions keep their shape in every state of the
\* agents' side, whatever requests and commands run side by side.
THEOREM AgentTypeCorrect == AgentSpec => []AgentTypeOK
  <1>1. FenceTypeOK /\ WfTypeOK /\ WtTypeOK /\ ExtTypeOK => AgentTypeOK
    BY DEF AgentTypeOK
  <1> QED
    BY <1>1, AgentParts, FenceTypeCorrect, WfTypeCorrect, WtTypeCorrect, ExtTypeCorrect, PTL

=============================================================================
