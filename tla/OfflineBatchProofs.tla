------------------------- MODULE OfflineBatchProofs -------------------------
(***************************************************************************)
(* Every job of the provider has a journaled batch, a delivered batch is   *)
(* complete and its results have reached their files, for any number of    *)
(* batches, items, deaths and edits.                                       *)
(***************************************************************************)
EXTENDS OfflineBatch, WellFoundedInduction, TLAPS

OnBatch == {"journaled", "accepted", "ambiguous", "linked", "registered",
            "collect", "known", "status", "deliver", "wrote", "failing"}
OnRecord == {"known", "status", "deliver", "wrote"}

RecordStates == {"none", "submitted", "collecting", "delivered", "failed", "unknown"}

\* The parts of BatchTypeOK.
JournalTypeOK ==
    journal \in [BatchIds ->
        [state : RecordStates, digest : Digests \cup {"none"}, linked : BOOLEAN, items : SUBSET Items]]
OutsideTypeOK ==
    /\ job \in [BatchIds -> JobStates]
    /\ file \in [Digests \X Items -> Contents]
    /\ sidecar \subseteq BatchIds
TickTypeOK ==
    /\ registry \in Seq(BatchIds)
    /\ tick.exec \in 0..Len(registry)
    /\ tick.todo \subseteq BatchIds

Known == {b \in BatchIds : journal[b].state # "none"}

\* What each process works on has its type.
WorkTypeOK ==
    /\ at \in [Procs -> {"idle", "decided"} \cup OnBatch]
    /\ work \in [Procs -> [id : 0..MaxBatch, digest : Digests \cup {"none"}, left : SUBSET Items,
                           item : Items \cup {"none"}, clean : BOOLEAN]]
    /\ tick \in [exec : Nat, todo : SUBSET BatchIds]
    /\ \A p \in Procs : at[p] = "wrote" => work[p].item \in Items

\* Whatever has its plan saved or is on the list of a tick was found in the journal.
ListsJournaled == sidecar \subseteq Known /\ tick.todo \subseteq Known

\* A journaled batch has a configuration.
KnownHasDigest == \A b \in Known : journal[b].digest \in Digests

\* Whoever works on a batch found it in the journal, and delivers its configuration.
WorkIsJournaled ==
    \A p \in Procs :
        /\ at[p] = "decided" => work[p].digest \in Digests
        /\ at[p] \in OnBatch => work[p].id \in Known
        /\ at[p] \in OnRecord => work[p].digest = journal[work[p].id].digest

\* The result of the item that is about to be journaled is in its file.
WroteFile ==
    \A p \in Procs : at[p] = "wrote" => file[<<work[p].digest, work[p].item>>] \in {"result", "edited"}

\* What a collector without a conflict has left behind is journaled, but for the
\* item it is about to journal.
LeftBehind ==
    \A p \in Procs :
        /\ at[p] \in {"known", "status"} => work[p].left = Items
        /\ at[p] = "deliver" /\ work[p].clean => Items \ work[p].left \subseteq journal[work[p].id].items
        /\ at[p] = "wrote" /\ work[p].clean =>
               Items \ work[p].left \subseteq journal[work[p].id].items \cup {work[p].item}

\* The inductive invariant.  A collector decides on a record it read some steps ago;
\* what makes that safe is that a record's configuration never changes and its items
\* only grow, whoever else collects the batch.
BatchInv ==
    /\ BatchTypeOK
    /\ WorkTypeOK
    /\ ListsJournaled
    /\ KnownHasDigest
    /\ WorkIsJournaled
    /\ WroteFile
    /\ LeftBehind
    /\ JobIsJournaled
    /\ DeliveredIsComplete
    /\ DeliveredReachedFile

\* What a poll may do with batch b of its list.
PollOf(b) ==
    /\ UNCHANGED <<journal, job, file, registry, sidecar, conflict, deaths, edits>>
    /\ tick' \in {NoTick, [tick EXCEPT !.todo = @ \ {b}]}
    /\ \/ UNCHANGED <<at, work>>
       \/ /\ work' = [work EXCEPT !["tick"] = [NoWork EXCEPT !.id = b]]
          /\ \E there \in {"collect", "failing", "ambiguous"} : at' = [at EXCEPT !["tick"] = there]

\* A step on which a journaled batch keeps its configuration and its items.
Grown ==
    \A b \in Known :
        /\ journal'[b].state # "none"
        /\ journal'[b].digest = journal[b].digest
        /\ journal[b].items \subseteq journal'[b].items

-----------------------------------------------------------------------------
\* The invariant holds initially.
LEMMA BatchInitInv == BatchInit => BatchInv
  <1> SUFFICES ASSUME BatchInit PROVE BatchInv
    OBVIOUS
  <1>1. BatchTypeOK
    BY BatchConstants DEF BatchInit, BatchTypeOK, NoRecord, NoTick, JobStates, Contents
  <1>2. WorkTypeOK
    BY BatchConstants DEF BatchInit, WorkTypeOK, NoWork, NoTick
  <1>3. ListsJournaled /\ KnownHasDigest /\ WorkIsJournaled /\ WroteFile /\ LeftBehind
    BY DEF BatchInit, ListsJournaled, KnownHasDigest, WorkIsJournaled, WroteFile, LeftBehind, Known, NoRecord, NoTick, OnBatch, OnRecord
  <1>4. JobIsJournaled /\ DeliveredIsComplete /\ DeliveredReachedFile
    BY DEF BatchInit, JobIsJournaled, DeliveredIsComplete, DeliveredReachedFile, NoRecord
  <1> QED
    BY <1>1, <1>2, <1>3, <1>4 DEF BatchInv

\* Journaling a state changes that of one record and nothing else.
LEMMA JournalState ==
  ASSUME JournalTypeOK, NEW b \in BatchIds, NEW st \in RecordStates, Journal(b, st)
  PROVE  /\ JournalTypeOK'
         /\ journal'[b].state = st
         /\ \A x \in BatchIds : /\ x # b => journal'[x] = journal[x]
                                /\ journal'[x].digest = journal[x].digest
                                /\ journal'[x].items = journal[x].items
  BY DEF JournalTypeOK, Journal, RecordStates

\* A poll looks at one batch of its list, which leaves the list or ends the tick, and
\* begins to work on it or does not.
LEMMA PollsOne == ASSUME BatchInv, PollBatch PROVE \E b \in tick.todo : PollOf(b)
  <1> DEFINE b == CHOOSE x \in tick.todo : \A y \in tick.todo : x <= y
  <1>1. b \in tick.todo
    <2>1. tick.todo # {} /\ tick.todo \subseteq Nat
      BY BatchConstants DEF PollBatch, BatchInv, BatchTypeOK, BatchIds
    <2>2. PICK m \in tick.todo : \A n \in tick.todo : ~(<<n, m>> \in OpToRel(<, Nat))
      BY <2>1, NatLessThanWellFounded, WFMin
    <2>3. \A n \in tick.todo : m <= n
      <3>1. \A n \in tick.todo : ~(n < m)
        BY <2>1, <2>2 DEF OpToRel
      <3> QED
        BY <2>1, <3>1
    <2> QED
      BY <2>3
  <1>2. PollOf(b)
    BY <1>1 DEF PollBatch, PollOf, Go
  <1> QED
    BY <1>1, <1>2

\* Every step keeps the types of what the processes do.
LEMMA WorkTypeNext == BatchInv /\ BatchNext => WorkTypeOK'
  <1> SUFFICES ASSUME BatchInv, BatchNext PROVE WorkTypeOK'
    OBVIOUS
  <1>a. NoWork \in [id : 0..MaxBatch, digest : Digests \cup {"none"}, left : SUBSET Items,
                    item : Items \cup {"none"}, clean : BOOLEAN]
    BY BatchConstants DEF NoWork
  <1>b. NoTick \in [exec : Nat, todo : SUBSET BatchIds] /\ \A b \in BatchIds : b \in 0..MaxBatch
    BY BatchConstants DEF NoTick, BatchIds

  <1>1. ASSUME NEW p \in Procs, NEW d \in Digests, DecideResubmit(p, d) PROVE WorkTypeOK'
    BY <1>1, <1>a, <1>b DEF DecideResubmit, Go, BatchInv, WorkTypeOK
  <1>2. ASSUME NEW p \in Procs, NEW b \in BatchIds, JournalSubmitted(p, b) PROVE WorkTypeOK'
    BY <1>2, <1>a, <1>b DEF JournalSubmitted, Go, BatchInv, WorkTypeOK, OnBatch
  <1>3. ASSUME NEW p \in Procs, ProviderSubmit(p) PROVE WorkTypeOK'
    BY <1>3 DEF ProviderSubmit, Go, BatchInv, WorkTypeOK, OnBatch
  <1>4. ASSUME NEW p \in Procs, JournalUnknown(p) PROVE WorkTypeOK'
    BY <1>4, <1>a, <1>b DEF JournalUnknown, Journal, End, BatchInv, WorkTypeOK
  <1>5. ASSUME NEW p \in Procs, JournalLinked(p) PROVE WorkTypeOK'
    BY <1>5 DEF JournalLinked, Go, BatchInv, WorkTypeOK, OnBatch
  <1>6. ASSUME NEW p \in Procs, Register(p) PROVE WorkTypeOK'
    BY <1>6 DEF Register, Go, BatchInv, WorkTypeOK, OnBatch
  <1>7. ASSUME NEW p \in Procs, PersistPlan(p) PROVE WorkTypeOK'
    BY <1>7, <1>a, <1>b DEF PersistPlan, End, BatchInv, WorkTypeOK
  <1>8. ASSUME NEW b \in BatchIds, CliCollect(b) PROVE WorkTypeOK'
    <2>1. "cli" \in Procs /\ [NoWork EXCEPT !.id = b] = [NoWork EXCEPT !.id = b]
      BY DEF Procs, Submitters
    <2>2. [NoWork EXCEPT !.id = b] \in [id : 0..MaxBatch, digest : Digests \cup {"none"},
              left : SUBSET Items, item : Items \cup {"none"}, clean : BOOLEAN]
      BY <1>a, <1>b
    <2> QED
      BY <1>8, <2>1, <2>2 DEF CliCollect, Go, BatchInv, WorkTypeOK, OnBatch
  <1>9. ASSUME NEW p \in Procs, ReadRecord(p) PROVE WorkTypeOK'
    <2>1. tick' = tick /\ at[p] = "collect" /\ work[p].id \in BatchIds
      BY <1>9 DEF ReadRecord, BatchInv, WorkIsJournaled, Known, OnBatch
    <2>2. CASE End(p)
      BY <1>a, <2>1, <2>2 DEF End, BatchInv, WorkTypeOK
    <2>3. CASE /\ Go(p, "known")
               /\ work' = [work EXCEPT ![p] = [@ EXCEPT !.digest = journal[work[p].id].digest,
                                                     !.left = Items, !.clean = TRUE]]
      <3>1. journal[work[p].id].digest \in Digests \cup {"none"}
        BY <2>1 DEF BatchInv, BatchTypeOK
      <3>2. work' \in [Procs -> [id : 0..MaxBatch, digest : Digests \cup {"none"},
                left : SUBSET Items, item : Items \cup {"none"}, clean : BOOLEAN]]
        <4> DEFINE W == [id : 0..MaxBatch, digest : Digests \cup {"none"},
                         left : SUBSET Items, item : Items \cup {"none"}, clean : BOOLEAN]
                   w == [work[p] EXCEPT !.digest = journal[work[p].id].digest,
                                        !.left = Items, !.clean = TRUE]
        <4>1. work \in [Procs -> W]
          BY DEF BatchInv, WorkTypeOK
        <4>2. w \in W
          BY <3>1, <4>1
        <4>3. work' = [work EXCEPT ![p] = w]
          BY <2>3
        <4> HIDE DEF W, w
        <4>4. work' \in [Procs -> W]
          BY <4>1, <4>2, <4>3
        <4> QED
          BY <4>4 DEF W
      <3>3. at' \in [Procs -> {"idle", "decided"} \cup OnBatch]
        BY <2>3 DEF Go, BatchInv, WorkTypeOK, OnBatch
      <3>4. \A q \in Procs : at'[q] = "wrote" => work'[q].item \in Items
        BY <2>3 DEF Go, BatchInv, WorkTypeOK
      <3> QED
        BY <2>1, <3>2, <3>3, <3>4 DEF BatchInv, WorkTypeOK
    <2> QED
      BY <1>9, <2>2, <2>3 DEF ReadRecord
  <1>10. ASSUME NEW p \in Procs, JournalCollecting(p) PROVE WorkTypeOK'
    BY <1>10 DEF JournalCollecting, Go, Journal, BatchInv, WorkTypeOK, OnBatch
  <1>11. ASSUME NEW p \in Procs, AskStatus(p) PROVE WorkTypeOK'
    BY <1>11, <1>a, <1>b DEF AskStatus, Go, End, BatchInv, WorkTypeOK, OnBatch
  <1>12. ASSUME NEW p \in Procs, JournalFailed(p) PROVE WorkTypeOK'
    BY <1>12, <1>a, <1>b DEF JournalFailed, Journal, End, BatchInv, WorkTypeOK
  <1>13. ASSUME NEW p \in Procs, NEW i \in Items, DeliverItem(p, i) PROVE WorkTypeOK'
    BY <1>13, <1>a, <1>b DEF DeliverItem, Go, BatchInv, WorkTypeOK, OnBatch
  <1>14. ASSUME NEW p \in Procs, NEW i \in Items, ReportConflict(p, i) PROVE WorkTypeOK'
    BY <1>14, <1>a, <1>b DEF ReportConflict, BatchInv, WorkTypeOK
  <1>15. ASSUME NEW p \in Procs, JournalItem(p) PROVE WorkTypeOK'
    BY <1>15 DEF JournalItem, Go, BatchInv, WorkTypeOK, OnBatch
  <1>16. ASSUME NEW p \in Procs, FinishCollect(p) PROVE WorkTypeOK'
    BY <1>16, <1>a, <1>b DEF FinishCollect, Journal, End, BatchInv, WorkTypeOK
  <1>17. ASSUME NextExecutor PROVE WorkTypeOK'
    BY <1>17, <1>a, <1>b DEF NextExecutor, BatchInv, WorkTypeOK, Eligible
  <1>18. ASSUME PollBatch PROVE WorkTypeOK'
    <2>1. PICK b \in tick.todo : PollOf(b)
      BY <1>18, PollsOne
    <2>2. b \in BatchIds /\ "tick" \in Procs
      BY DEF Procs, Collectors, BatchInv, WorkTypeOK
    <2>3. [NoWork EXCEPT !.id = b] \in [id : 0..MaxBatch, digest : Digests \cup {"none"},
              left : SUBSET Items, item : Items \cup {"none"}, clean : BOOLEAN]
      BY <1>a, <1>b, <2>2
    <2>4. tick' \in [exec : Nat, todo : SUBSET BatchIds]
      BY <1>b, <2>1 DEF PollOf, BatchInv, WorkTypeOK
    <2>5. CASE UNCHANGED <<at, work>>
      BY <2>4, <2>5 DEF BatchInv, WorkTypeOK
    <2>6. CASE /\ work' = [work EXCEPT !["tick"] = [NoWork EXCEPT !.id = b]]
               /\ \E there \in {"collect", "failing", "ambiguous"} :
                      at' = [at EXCEPT !["tick"] = there]
      BY <2>2, <2>3, <2>4, <2>6 DEF BatchInv, WorkTypeOK, OnBatch
    <2> QED
      BY <2>1, <2>5, <2>6 DEF PollOf
  <1>19. ASSUME NEW b \in BatchIds, ProviderWorks(b) PROVE WorkTypeOK'
    BY <1>19 DEF ProviderWorks, BatchInv, WorkTypeOK
  <1>20. ASSUME NEW f \in Digests \X Items, UserEdits(f) PROVE WorkTypeOK'
    BY <1>20 DEF UserEdits, BatchInv, WorkTypeOK
  <1>21. ASSUME DaemonDies PROVE WorkTypeOK'
    BY <1>21, <1>a, <1>b DEF DaemonDies, BatchInv, WorkTypeOK
  <1>22. ASSUME CommandDies PROVE WorkTypeOK'
    BY <1>22, <1>a, <1>b DEF CommandDies, End, BatchInv, WorkTypeOK
  <1> QED
    BY <1>1, <1>2, <1>3, <1>4, <1>5, <1>6, <1>7, <1>8, <1>9, <1>10, <1>11, <1>12, <1>13,
       <1>14, <1>15, <1>16, <1>17, <1>18, <1>19, <1>20, <1>21, <1>22 DEF BatchNext,
       Submit, Collect, Tick, Procs, Submitters, Collectors

\* Every step keeps the type of the records.
LEMMA JournalTypeNext == BatchInv /\ BatchNext => JournalTypeOK'
  <1> SUFFICES ASSUME BatchInv, BatchNext PROVE JournalTypeOK'
    OBVIOUS
  <1>a. \A p \in Procs : at[p] \in OnBatch => work[p].id \in BatchIds
    BY DEF BatchInv, WorkIsJournaled, Known
  <1>b. JournalTypeOK /\ OutsideTypeOK /\ TickTypeOK
    BY DEF BatchInv, BatchTypeOK, JournalTypeOK, OutsideTypeOK, TickTypeOK, RecordStates
  <1>1. ASSUME NEW p \in Procs, NEW d \in Digests, DecideResubmit(p, d) PROVE JournalTypeOK'
    BY <1>1, <1>a, <1>b DEF DecideResubmit, Go, BatchInv, JournalTypeOK
  <1>2. ASSUME NEW p \in Procs, NEW b \in BatchIds, JournalSubmitted(p, b) PROVE JournalTypeOK'
    BY <1>2, <1>a, <1>b DEF JournalSubmitted, Go, BatchInv, WorkTypeOK, OnBatch,
       JournalTypeOK, RecordStates, NoRecord
  <1>3. ASSUME NEW p \in Procs, ProviderSubmit(p) PROVE JournalTypeOK'
    BY <1>3, <1>a, <1>b DEF ProviderSubmit, Go, BatchInv, JournalTypeOK
  <1>4. ASSUME NEW p \in Procs, JournalUnknown(p) PROVE JournalTypeOK'
    BY <1>4, <1>a, <1>b, JournalState DEF JournalUnknown, RecordStates, OnBatch
  <1>5. ASSUME NEW p \in Procs, JournalLinked(p) PROVE JournalTypeOK'
    <2>1. work[p].id \in BatchIds
      BY <1>5, <1>a DEF JournalLinked, OnBatch
    <2>2. journal' = [journal EXCEPT ![work[p].id].linked = TRUE]
      BY <1>5 DEF JournalLinked
    <2> DEFINE entry == [journal[work[p].id] EXCEPT !.linked = TRUE]
    <2>3. entry \in [state : RecordStates, digest : Digests \cup {"none"}, linked : BOOLEAN,
                     items : SUBSET Items]
      BY <1>b, <2>1 DEF JournalTypeOK
    <2>4. journal' = [journal EXCEPT ![work[p].id] = entry]
      BY <2>2
    <2> HIDE DEF entry
    <2> QED
      BY <1>b, <2>1, <2>3, <2>4 DEF JournalTypeOK
  <1>6. ASSUME NEW p \in Procs, Register(p) PROVE JournalTypeOK'
    BY <1>6, <1>a, <1>b DEF Register, Go, BatchInv, JournalTypeOK
  <1>7. ASSUME NEW p \in Procs, PersistPlan(p) PROVE JournalTypeOK'
    BY <1>7, <1>a, <1>b DEF PersistPlan, End, BatchInv, JournalTypeOK
  <1>8. ASSUME NEW b \in BatchIds, CliCollect(b) PROVE JournalTypeOK'
    BY <1>8, <1>a, <1>b DEF CliCollect, Go, BatchInv, JournalTypeOK
  <1>9. ASSUME NEW p \in Procs, ReadRecord(p) PROVE JournalTypeOK'
    BY <1>9, <1>a, <1>b DEF ReadRecord, Go, End, BatchInv, JournalTypeOK
  <1>10. ASSUME NEW p \in Procs, JournalCollecting(p) PROVE JournalTypeOK'
    BY <1>10, <1>a, <1>b, JournalState DEF JournalCollecting, RecordStates, OnBatch
  <1>11. ASSUME NEW p \in Procs, AskStatus(p) PROVE JournalTypeOK'
    BY <1>11, <1>a, <1>b DEF AskStatus, Go, End, BatchInv, JournalTypeOK
  <1>12. ASSUME NEW p \in Procs, JournalFailed(p) PROVE JournalTypeOK'
    BY <1>12, <1>a, <1>b, JournalState DEF JournalFailed, RecordStates, OnBatch
  <1>13. ASSUME NEW p \in Procs, NEW i \in Items, DeliverItem(p, i) PROVE JournalTypeOK'
    BY <1>13, <1>a, <1>b DEF DeliverItem, Go, BatchInv, JournalTypeOK
  <1>14. ASSUME NEW p \in Procs, NEW i \in Items, ReportConflict(p, i) PROVE JournalTypeOK'
    BY <1>14, <1>a, <1>b DEF ReportConflict, BatchInv, JournalTypeOK
  <1>15. ASSUME NEW p \in Procs, JournalItem(p) PROVE JournalTypeOK'
    <2>1. work[p].id \in BatchIds /\ work[p].item \in Items
      BY <1>15, <1>a DEF JournalItem, OnBatch, BatchInv, WorkTypeOK
    <2>2. journal' = [journal EXCEPT ![work[p].id].items = @ \cup {work[p].item}]
      BY <1>15 DEF JournalItem
    <2> QED
      BY <1>b, <2>1, <2>2 DEF JournalTypeOK
  <1>16. ASSUME NEW p \in Procs, FinishCollect(p) PROVE JournalTypeOK'
    <2>1. work[p].id \in BatchIds
      BY <1>16, <1>a DEF FinishCollect, OnBatch
    <2>2. CASE Journal(work[p].id, "delivered")
      BY <1>b, <2>1, <2>2, JournalState DEF RecordStates
    <2>3. CASE UNCHANGED journal
      BY <1>b, <2>3 DEF JournalTypeOK
    <2> QED
      BY <1>16, <2>2, <2>3 DEF FinishCollect
  <1>17. ASSUME NextExecutor PROVE JournalTypeOK'
    BY <1>17, <1>a, <1>b DEF NextExecutor, BatchInv, JournalTypeOK
  <1>18. ASSUME PollBatch PROVE JournalTypeOK'
    BY <1>18, <1>a, <1>b DEF PollBatch, Go, BatchInv, JournalTypeOK
  <1>19. ASSUME NEW b \in BatchIds, ProviderWorks(b) PROVE JournalTypeOK'
    BY <1>19, <1>a, <1>b DEF ProviderWorks, BatchInv, JournalTypeOK
  <1>20. ASSUME NEW f \in Digests \X Items, UserEdits(f) PROVE JournalTypeOK'
    BY <1>20, <1>a, <1>b DEF UserEdits, BatchInv, JournalTypeOK
  <1>21. ASSUME DaemonDies PROVE JournalTypeOK'
    BY <1>21, <1>a, <1>b DEF DaemonDies, BatchInv, JournalTypeOK
  <1>22. ASSUME CommandDies PROVE JournalTypeOK'
    BY <1>22, <1>a, <1>b DEF CommandDies, End, BatchInv, JournalTypeOK
  <1> QED
    BY <1>1, <1>2, <1>3, <1>4, <1>5, <1>6, <1>7, <1>8, <1>9, <1>10, <1>11, <1>12, <1>13,
       <1>14, <1>15, <1>16, <1>17, <1>18, <1>19, <1>20, <1>21, <1>22 DEF BatchNext,
       Submit, Collect, Tick, Procs, Submitters, Collectors

\* Every step keeps the types of jobs, files and plans.
LEMMA OutsideTypeNext == BatchInv /\ BatchNext => OutsideTypeOK'
  <1> SUFFICES ASSUME BatchInv, BatchNext PROVE OutsideTypeOK'
    OBVIOUS
  <1>a. \A p \in Procs : at[p] \in OnBatch => work[p].id \in BatchIds
    BY DEF BatchInv, WorkIsJournaled, Known
  <1>b. JournalTypeOK /\ OutsideTypeOK /\ TickTypeOK
    BY DEF BatchInv, BatchTypeOK, JournalTypeOK, OutsideTypeOK, TickTypeOK, RecordStates
  <1>1. ASSUME NEW p \in Procs, NEW d \in Digests, DecideResubmit(p, d) PROVE OutsideTypeOK'
    BY <1>1, <1>a, <1>b DEF DecideResubmit, Go, BatchInv, OutsideTypeOK
  <1>2. ASSUME NEW p \in Procs, NEW b \in BatchIds, JournalSubmitted(p, b) PROVE OutsideTypeOK'
    BY <1>2, <1>a, <1>b DEF JournalSubmitted, Go, BatchInv, OutsideTypeOK
  <1>3. ASSUME NEW p \in Procs, ProviderSubmit(p) PROVE OutsideTypeOK'
    BY <1>3, <1>a, <1>b DEF ProviderSubmit, Go, BatchInv, WorkTypeOK, OnBatch,
       OutsideTypeOK, JobStates, Contents
  <1>4. ASSUME NEW p \in Procs, JournalUnknown(p) PROVE OutsideTypeOK'
    BY <1>4, <1>a, <1>b DEF JournalUnknown, Journal, End, BatchInv, OutsideTypeOK
  <1>5. ASSUME NEW p \in Procs, JournalLinked(p) PROVE OutsideTypeOK'
    BY <1>5, <1>a, <1>b DEF JournalLinked, Go, BatchInv, OutsideTypeOK
  <1>6. ASSUME NEW p \in Procs, Register(p) PROVE OutsideTypeOK'
    BY <1>6, <1>a, <1>b DEF Register, Go, BatchInv, OutsideTypeOK
  <1>7. ASSUME NEW p \in Procs, PersistPlan(p) PROVE OutsideTypeOK'
    BY <1>7, <1>a, <1>b DEF PersistPlan, End, BatchInv, WorkTypeOK, OnBatch,
       OutsideTypeOK, JobStates, Contents
  <1>8. ASSUME NEW b \in BatchIds, CliCollect(b) PROVE OutsideTypeOK'
    BY <1>8, <1>a, <1>b DEF CliCollect, Go, BatchInv, OutsideTypeOK
  <1>9. ASSUME NEW p \in Procs, ReadRecord(p) PROVE OutsideTypeOK'
    BY <1>9, <1>a, <1>b DEF ReadRecord, Go, End, BatchInv, OutsideTypeOK
  <1>10. ASSUME NEW p \in Procs, JournalCollecting(p) PROVE OutsideTypeOK'
    BY <1>10, <1>a, <1>b DEF JournalCollecting, Go, Journal, BatchInv, OutsideTypeOK
  <1>11. ASSUME NEW p \in Procs, AskStatus(p) PROVE OutsideTypeOK'
    BY <1>11, <1>a, <1>b DEF AskStatus, Go, End, BatchInv, OutsideTypeOK
  <1>12. ASSUME NEW p \in Procs, JournalFailed(p) PROVE OutsideTypeOK'
    BY <1>12, <1>a, <1>b DEF JournalFailed, Journal, End, BatchInv, OutsideTypeOK
  <1>13. ASSUME NEW p \in Procs, NEW i \in Items, DeliverItem(p, i) PROVE OutsideTypeOK'
    BY <1>13, <1>a, <1>b DEF DeliverItem, Go, BatchInv, WorkTypeOK, OnBatch,
       OutsideTypeOK, JobStates, Contents
  <1>14. ASSUME NEW p \in Procs, NEW i \in Items, ReportConflict(p, i) PROVE OutsideTypeOK'
    BY <1>14, <1>a, <1>b DEF ReportConflict, BatchInv, OutsideTypeOK
  <1>15. ASSUME NEW p \in Procs, JournalItem(p) PROVE OutsideTypeOK'
    BY <1>15, <1>a, <1>b DEF JournalItem, Go, BatchInv, OutsideTypeOK
  <1>16. ASSUME NEW p \in Procs, FinishCollect(p) PROVE OutsideTypeOK'
    BY <1>16, <1>a, <1>b DEF FinishCollect, Journal, End, BatchInv, OutsideTypeOK
  <1>17. ASSUME NextExecutor PROVE OutsideTypeOK'
    BY <1>17, <1>a, <1>b DEF NextExecutor, BatchInv, OutsideTypeOK
  <1>18. ASSUME PollBatch PROVE OutsideTypeOK'
    BY <1>18, <1>a, <1>b DEF PollBatch, Go, BatchInv, OutsideTypeOK
  <1>19. ASSUME NEW b \in BatchIds, ProviderWorks(b) PROVE OutsideTypeOK'
    BY <1>19, <1>a, <1>b DEF ProviderWorks, BatchInv, WorkTypeOK, OnBatch,
       OutsideTypeOK, JobStates, Contents
  <1>20. ASSUME NEW f \in Digests \X Items, UserEdits(f) PROVE OutsideTypeOK'
    BY <1>20, <1>a, <1>b DEF UserEdits, BatchInv, WorkTypeOK, OnBatch, OutsideTypeOK,
       JobStates, Contents
  <1>21. ASSUME DaemonDies PROVE OutsideTypeOK'
    BY <1>21, <1>a, <1>b DEF DaemonDies, BatchInv, WorkTypeOK, OnBatch, OutsideTypeOK,
       JobStates, Contents
  <1>22. ASSUME CommandDies PROVE OutsideTypeOK'
    BY <1>22, <1>a, <1>b DEF CommandDies, End, BatchInv, OutsideTypeOK
  <1> QED
    BY <1>1, <1>2, <1>3, <1>4, <1>5, <1>6, <1>7, <1>8, <1>9, <1>10, <1>11, <1>12, <1>13,
       <1>14, <1>15, <1>16, <1>17, <1>18, <1>19, <1>20, <1>21, <1>22 DEF BatchNext,
       Submit, Collect, Tick, Procs, Submitters, Collectors

\* Every step keeps the types of registry and tick.
LEMMA TickTypeNext == BatchInv /\ BatchNext => TickTypeOK'
  <1> SUFFICES ASSUME BatchInv, BatchNext PROVE TickTypeOK'
    OBVIOUS
  <1>a. \A p \in Procs : at[p] \in OnBatch => work[p].id \in BatchIds
    BY DEF BatchInv, WorkIsJournaled, Known
  <1>b. JournalTypeOK /\ OutsideTypeOK /\ TickTypeOK
    BY DEF BatchInv, BatchTypeOK, JournalTypeOK, OutsideTypeOK, TickTypeOK, RecordStates
  <1>1. ASSUME NEW p \in Procs, NEW d \in Digests, DecideResubmit(p, d) PROVE TickTypeOK'
    BY <1>1, <1>a, <1>b DEF DecideResubmit, Go, BatchInv, TickTypeOK
  <1>2. ASSUME NEW p \in Procs, NEW b \in BatchIds, JournalSubmitted(p, b) PROVE TickTypeOK'
    BY <1>2, <1>a, <1>b DEF JournalSubmitted, Go, BatchInv, TickTypeOK
  <1>3. ASSUME NEW p \in Procs, ProviderSubmit(p) PROVE TickTypeOK'
    BY <1>3, <1>a, <1>b DEF ProviderSubmit, Go, BatchInv, TickTypeOK
  <1>4. ASSUME NEW p \in Procs, JournalUnknown(p) PROVE TickTypeOK'
    BY <1>4, <1>a, <1>b DEF JournalUnknown, Journal, End, BatchInv, TickTypeOK
  <1>5. ASSUME NEW p \in Procs, JournalLinked(p) PROVE TickTypeOK'
    BY <1>5, <1>a, <1>b DEF JournalLinked, Go, BatchInv, TickTypeOK
  <1>6. ASSUME NEW p \in Procs, Register(p) PROVE TickTypeOK'
    BY <1>6, <1>a, <1>b DEF Register, Go, BatchInv, WorkTypeOK, OnBatch, TickTypeOK,
       NoTick
  <1>7. ASSUME NEW p \in Procs, PersistPlan(p) PROVE TickTypeOK'
    BY <1>7, <1>a, <1>b DEF PersistPlan, End, BatchInv, TickTypeOK
  <1>8. ASSUME NEW b \in BatchIds, CliCollect(b) PROVE TickTypeOK'
    BY <1>8, <1>a, <1>b DEF CliCollect, Go, BatchInv, TickTypeOK
  <1>9. ASSUME NEW p \in Procs, ReadRecord(p) PROVE TickTypeOK'
    BY <1>9, <1>a, <1>b DEF ReadRecord, Go, End, BatchInv, TickTypeOK
  <1>10. ASSUME NEW p \in Procs, JournalCollecting(p) PROVE TickTypeOK'
    BY <1>10, <1>a, <1>b DEF JournalCollecting, Go, Journal, BatchInv, TickTypeOK
  <1>11. ASSUME NEW p \in Procs, AskStatus(p) PROVE TickTypeOK'
    BY <1>11, <1>a, <1>b DEF AskStatus, Go, End, BatchInv, TickTypeOK
  <1>12. ASSUME NEW p \in Procs, JournalFailed(p) PROVE TickTypeOK'
    BY <1>12, <1>a, <1>b DEF JournalFailed, Journal, End, BatchInv, TickTypeOK
  <1>13. ASSUME NEW p \in Procs, NEW i \in Items, DeliverItem(p, i) PROVE TickTypeOK'
    BY <1>13, <1>a, <1>b DEF DeliverItem, Go, BatchInv, TickTypeOK
  <1>14. ASSUME NEW p \in Procs, NEW i \in Items, ReportConflict(p, i) PROVE TickTypeOK'
    BY <1>14, <1>a, <1>b DEF ReportConflict, BatchInv, TickTypeOK
  <1>15. ASSUME NEW p \in Procs, JournalItem(p) PROVE TickTypeOK'
    BY <1>15, <1>a, <1>b DEF JournalItem, Go, BatchInv, TickTypeOK
  <1>16. ASSUME NEW p \in Procs, FinishCollect(p) PROVE TickTypeOK'
    BY <1>16, <1>a, <1>b DEF FinishCollect, Journal, End, BatchInv, TickTypeOK
  <1>17. ASSUME NextExecutor PROVE TickTypeOK'
    BY <1>17, <1>a, <1>b DEF NextExecutor, BatchInv, WorkTypeOK, OnBatch, TickTypeOK,
       NoTick, Eligible
  <1>18. ASSUME PollBatch PROVE TickTypeOK'
    <2>1. PICK b \in tick.todo : PollOf(b)
      BY <1>18, PollsOne
    <2> QED
      BY <1>b, <2>1 DEF PollOf, NoTick, BatchInv, WorkTypeOK, TickTypeOK
  <1>19. ASSUME NEW b \in BatchIds, ProviderWorks(b) PROVE TickTypeOK'
    BY <1>19, <1>a, <1>b DEF ProviderWorks, BatchInv, TickTypeOK
  <1>20. ASSUME NEW f \in Digests \X Items, UserEdits(f) PROVE TickTypeOK'
    BY <1>20, <1>a, <1>b DEF UserEdits, BatchInv, TickTypeOK
  <1>21. ASSUME DaemonDies PROVE TickTypeOK'
    BY <1>21 DEF DaemonDies, BatchInv, WorkTypeOK, OnBatch, TickTypeOK, NoTick
  <1>22. ASSUME CommandDies PROVE TickTypeOK'
    BY <1>22, <1>a, <1>b DEF CommandDies, End, BatchInv, TickTypeOK
  <1> QED
    BY <1>1, <1>2, <1>3, <1>4, <1>5, <1>6, <1>7, <1>8, <1>9, <1>10, <1>11, <1>12, <1>13,
       <1>14, <1>15, <1>16, <1>17, <1>18, <1>19, <1>20, <1>21, <1>22 DEF BatchNext,
       Submit, Collect, Tick, Procs, Submitters, Collectors

\* A journaled batch stays journaled, keeps its configuration and loses no item.
LEMMA RecordsGrow == BatchInv /\ BatchNext => Grown
  <1> SUFFICES ASSUME BatchInv, BatchNext PROVE Grown
    OBVIOUS
  <1>a. \A p \in Procs : at[p] \in OnBatch => work[p].id \in BatchIds
    BY DEF BatchInv, WorkIsJournaled, Known
  <1>b. JournalTypeOK /\ OutsideTypeOK /\ TickTypeOK
    BY DEF BatchInv, BatchTypeOK, JournalTypeOK, OutsideTypeOK, TickTypeOK, RecordStates
  <1>1. ASSUME NEW p \in Procs, NEW d \in Digests, DecideResubmit(p, d) PROVE Grown
    BY <1>1 DEF DecideResubmit, Go, JournalTypeOK, RecordStates, Known, Grown
  <1>2. ASSUME NEW p \in Procs, NEW b \in BatchIds, JournalSubmitted(p, b) PROVE Grown
    BY <1>2 DEF JournalSubmitted, Go, JournalTypeOK, RecordStates, Known, Grown
  <1>3. ASSUME NEW p \in Procs, ProviderSubmit(p) PROVE Grown
    BY <1>3 DEF ProviderSubmit, Go, JournalTypeOK, RecordStates, Known, Grown
  <1>4. ASSUME NEW p \in Procs, JournalUnknown(p) PROVE Grown
    BY <1>4, <1>a, <1>b, JournalState DEF JournalUnknown, RecordStates, OnBatch, Grown, Known
  <1>5. ASSUME NEW p \in Procs, JournalLinked(p) PROVE Grown
    <2>1. work[p].id \in BatchIds
      BY <1>5, <1>a DEF JournalLinked, OnBatch
    <2>2. journal' = [journal EXCEPT ![work[p].id].linked = TRUE]
      BY <1>5 DEF JournalLinked
    <2> QED
      BY <1>b, <2>1, <2>2 DEF JournalTypeOK, Grown, Known
  <1>6. ASSUME NEW p \in Procs, Register(p) PROVE Grown
    BY <1>6 DEF Register, Go, JournalTypeOK, RecordStates, Known, Grown
  <1>7. ASSUME NEW p \in Procs, PersistPlan(p) PROVE Grown
    BY <1>7 DEF PersistPlan, End, JournalTypeOK, RecordStates, Known, Grown
  <1>8. ASSUME NEW b \in BatchIds, CliCollect(b) PROVE Grown
    BY <1>8 DEF CliCollect, Go, JournalTypeOK, RecordStates, Known, Grown
  <1>9. ASSUME NEW p \in Procs, ReadRecord(p) PROVE Grown
    BY <1>9 DEF ReadRecord, Go, End, JournalTypeOK, RecordStates, Known, Grown
  <1>10. ASSUME NEW p \in Procs, JournalCollecting(p) PROVE Grown
    BY <1>10, <1>a, <1>b, JournalState DEF JournalCollecting, RecordStates, OnBatch, Grown, Known
  <1>11. ASSUME NEW p \in Procs, AskStatus(p) PROVE Grown
    BY <1>11 DEF AskStatus, Go, End, JournalTypeOK, RecordStates, Known, Grown
  <1>12. ASSUME NEW p \in Procs, JournalFailed(p) PROVE Grown
    BY <1>12, <1>a, <1>b, JournalState DEF JournalFailed, RecordStates, OnBatch, Grown, Known
  <1>13. ASSUME NEW p \in Procs, NEW i \in Items, DeliverItem(p, i) PROVE Grown
    BY <1>13 DEF DeliverItem, Go, JournalTypeOK, RecordStates, Known, Grown
  <1>14. ASSUME NEW p \in Procs, NEW i \in Items, ReportConflict(p, i) PROVE Grown
    BY <1>14 DEF ReportConflict, JournalTypeOK, RecordStates, Known, Grown
  <1>15. ASSUME NEW p \in Procs, JournalItem(p) PROVE Grown
    <2>1. work[p].id \in BatchIds /\ work[p].item \in Items
      BY <1>15, <1>a DEF JournalItem, OnBatch, BatchInv, WorkTypeOK
    <2>2. journal' = [journal EXCEPT ![work[p].id].items = @ \cup {work[p].item}]
      BY <1>15 DEF JournalItem
    <2> QED
      BY <1>b, <2>1, <2>2 DEF JournalTypeOK, Grown, Known
  <1>16. ASSUME NEW p \in Procs, FinishCollect(p) PROVE Grown
    <2>1. work[p].id \in BatchIds
      BY <1>16, <1>a DEF FinishCollect, OnBatch
    <2>2. CASE Journal(work[p].id, "delivered")
      BY <1>b, <2>1, <2>2, JournalState DEF RecordStates, Grown, Known
    <2>3. CASE UNCHANGED journal
      BY <2>3 DEF Grown, Known
    <2> QED
      BY <1>16, <2>2, <2>3 DEF FinishCollect
  <1>17. ASSUME NextExecutor PROVE Grown
    BY <1>17 DEF NextExecutor, JournalTypeOK, RecordStates, Known, Grown
  <1>18. ASSUME PollBatch PROVE Grown
    BY <1>18 DEF PollBatch, Go, JournalTypeOK, RecordStates, Known, Grown
  <1>19. ASSUME NEW b \in BatchIds, ProviderWorks(b) PROVE Grown
    BY <1>19 DEF ProviderWorks, JournalTypeOK, RecordStates, Known, Grown
  <1>20. ASSUME NEW f \in Digests \X Items, UserEdits(f) PROVE Grown
    BY <1>20 DEF UserEdits, JournalTypeOK, RecordStates, Known, Grown
  <1>21. ASSUME DaemonDies PROVE Grown
    BY <1>21 DEF DaemonDies, JournalTypeOK, RecordStates, Known, Grown
  <1>22. ASSUME CommandDies PROVE Grown
    BY <1>22 DEF CommandDies, End, JournalTypeOK, RecordStates, Known, Grown
  <1> QED
    BY <1>1, <1>2, <1>3, <1>4, <1>5, <1>6, <1>7, <1>8, <1>9, <1>10, <1>11, <1>12, <1>13,
       <1>14, <1>15, <1>16, <1>17, <1>18, <1>19, <1>20, <1>21, <1>22 DEF BatchNext,
       Submit, Collect, Tick, Procs, Submitters, Collectors

\* A collector that goes on after reading the record takes its configuration and all items.
LEMMA ReadWork ==
  ASSUME BatchInv, NEW p \in Procs, ReadRecord(p)
  PROVE  \/ at'[p] = "idle"
         \/ /\ at'[p] = "known" /\ work'[p].id = work[p].id
            /\ work'[p].digest = journal[work[p].id].digest /\ work'[p].left = Items
  <1>1. at \in [Procs -> {"idle", "decided"} \cup OnBatch]
    BY DEF BatchInv, WorkTypeOK
  <1>2. CASE End(p)
    BY <1>1, <1>2 DEF End
  <1>3. CASE /\ Go(p, "known")
             /\ work' = [work EXCEPT ![p] = [@ EXCEPT !.digest = journal[work[p].id].digest,
                                                     !.left = Items, !.clean = TRUE]]
    <2>1. at'[p] = "known"
      BY <1>1, <1>3 DEF Go
    <2>2. work \in [Procs -> [id : 0..MaxBatch, digest : Digests \cup {"none"},
              left : SUBSET Items, item : Items \cup {"none"}, clean : BOOLEAN]]
      BY DEF BatchInv, WorkTypeOK
    <2>3. work'[p] = [work[p] EXCEPT !.digest = journal[work[p].id].digest,
                                     !.left = Items, !.clean = TRUE]
      BY <1>3, <2>2
    <2>4. work'[p].id = work[p].id /\ work'[p].left = Items
      BY <2>2, <2>3
    <2>5. work'[p].digest = journal[work[p].id].digest
      BY <2>2, <2>3
    <2> QED
      BY <2>1, <2>4, <2>5
  <1> QED
    BY <1>2, <1>3 DEF ReadRecord

\* Submission enters a record without items under a fresh id.
LEMMA SubmittedRecord ==
  ASSUME JournalTypeOK, NEW p \in Procs, NEW b \in BatchIds, JournalSubmitted(p, b)
  PROVE  /\ journal'[b].state = "submitted" /\ journal'[b].items = {}
         /\ journal'[b].digest = work[p].digest
         /\ \A x \in BatchIds \ {b} : journal'[x] = journal[x]
  <1>1. journal' = [journal EXCEPT ![b] = [NoRecord EXCEPT !.state = "submitted",
                                                         !.digest = work[p].digest]]
    BY DEF JournalSubmitted
  <1> QED
    BY <1>1 DEF JournalTypeOK, NoRecord

\* Journaling an item adds it to one record and changes nothing else.
LEMMA ItemRecord ==
  ASSUME BatchInv, NEW p \in Procs, JournalItem(p)
  PROVE  /\ work[p].id \in BatchIds /\ work[p].item \in Items
         /\ journal'[work[p].id].items = journal[work[p].id].items \cup {work[p].item}
         /\ \A x \in BatchIds : /\ journal'[x].state = journal[x].state
                                /\ journal'[x].digest = journal[x].digest
         /\ \A x \in BatchIds \ {work[p].id} : journal'[x] = journal[x]
  <1>1. work[p].id \in BatchIds /\ work[p].item \in Items
    BY DEF JournalItem, OnBatch, BatchInv, WorkTypeOK, WorkIsJournaled, Known
  <1>2. journal' = [journal EXCEPT ![work[p].id].items = @ \cup {work[p].item}]
    BY DEF JournalItem
  <1>3. JournalTypeOK
    BY DEF BatchInv, BatchTypeOK, JournalTypeOK, RecordStates
  <1> QED
    BY <1>1, <1>2, <1>3 DEF JournalTypeOK

\* The end of a collection journals Delivered for a clean one, and nothing else.
LEMMA FinishRecord ==
  ASSUME BatchInv, NEW p \in Procs, FinishCollect(p)
  PROVE  /\ work[p].id \in BatchIds
         /\ \A x \in BatchIds : /\ journal'[x].digest = journal[x].digest
                                /\ journal'[x].items = journal[x].items
         /\ \A x \in BatchIds : x # work[p].id \/ ~work[p].clean => journal'[x] = journal[x]
  <1>1. work[p].id \in BatchIds
    BY DEF FinishCollect, OnBatch, BatchInv, WorkIsJournaled, Known
  <1>2. JournalTypeOK
    BY DEF BatchInv, BatchTypeOK, JournalTypeOK, RecordStates
  <1>3. CASE work[p].clean
    BY <1>1, <1>2, <1>3, JournalState DEF FinishCollect, RecordStates
  <1>4. CASE ~work[p].clean
    BY <1>1, <1>4 DEF FinishCollect
  <1> QED
    BY <1>3, <1>4

\* A step lists journaled batches only.
LEMMA ListsNext == BatchInv /\ BatchNext => ListsJournaled'
  <1> SUFFICES ASSUME BatchInv, BatchNext PROVE ListsJournaled'
    OBVIOUS
  <1>a. \A p \in Procs : at[p] \in OnBatch => work[p].id \in BatchIds
    BY DEF BatchInv, WorkIsJournaled, Known
  <1>b. JournalTypeOK /\ OutsideTypeOK /\ TickTypeOK
    BY DEF BatchInv, BatchTypeOK, JournalTypeOK, OutsideTypeOK, TickTypeOK, RecordStates
  <1>c. Grown
    BY RecordsGrow
  <1>d. Known \subseteq Known'
    BY <1>c DEF Grown, Known
  <1>1. ASSUME NEW p \in Procs, NEW d \in Digests, DecideResubmit(p, d) PROVE ListsJournaled'
    BY <1>1, <1>b, <1>d DEF DecideResubmit, Go, BatchInv, ListsJournaled
  <1>2. ASSUME NEW p \in Procs, NEW b \in BatchIds, JournalSubmitted(p, b) PROVE ListsJournaled'
    BY <1>2, <1>b, <1>d DEF JournalSubmitted, Go, BatchInv, ListsJournaled
  <1>3. ASSUME NEW p \in Procs, ProviderSubmit(p) PROVE ListsJournaled'
    BY <1>3, <1>b, <1>d DEF ProviderSubmit, Go, BatchInv, ListsJournaled
  <1>4. ASSUME NEW p \in Procs, JournalUnknown(p) PROVE ListsJournaled'
    BY <1>4, <1>b, <1>d DEF JournalUnknown, Journal, End, BatchInv, ListsJournaled
  <1>5. ASSUME NEW p \in Procs, JournalLinked(p) PROVE ListsJournaled'
    BY <1>5, <1>b, <1>d DEF JournalLinked, Go, BatchInv, ListsJournaled
  <1>6. ASSUME NEW p \in Procs, Register(p) PROVE ListsJournaled'
    BY <1>6, <1>b, <1>d DEF Register, Go, BatchInv, ListsJournaled
  <1>7. ASSUME NEW p \in Procs, PersistPlan(p) PROVE ListsJournaled'
    BY <1>7, <1>b, <1>d DEF PersistPlan, End, BatchInv, ListsJournaled, WorkIsJournaled,
       OnBatch
  <1>8. ASSUME NEW b \in BatchIds, CliCollect(b) PROVE ListsJournaled'
    BY <1>8, <1>b, <1>d DEF CliCollect, Go, BatchInv, ListsJournaled
  <1>9. ASSUME NEW p \in Procs, ReadRecord(p) PROVE ListsJournaled'
    BY <1>9, <1>b, <1>d DEF ReadRecord, Go, End, BatchInv, ListsJournaled
  <1>10. ASSUME NEW p \in Procs, JournalCollecting(p) PROVE ListsJournaled'
    BY <1>10, <1>b, <1>d DEF JournalCollecting, Go, Journal, BatchInv, ListsJournaled
  <1>11. ASSUME NEW p \in Procs, AskStatus(p) PROVE ListsJournaled'
    BY <1>11, <1>b, <1>d DEF AskStatus, Go, End, BatchInv, ListsJournaled
  <1>12. ASSUME NEW p \in Procs, JournalFailed(p) PROVE ListsJournaled'
    BY <1>12, <1>b, <1>d DEF JournalFailed, Journal, End, BatchInv, ListsJournaled
  <1>13. ASSUME NEW p \in Procs, NEW i \in Items, DeliverItem(p, i) PROVE ListsJournaled'
    BY <1>13, <1>b, <1>d DEF DeliverItem, Go, BatchInv, ListsJournaled
  <1>14. ASSUME NEW p \in Procs, NEW i \in Items, ReportConflict(p, i) PROVE ListsJournaled'
    BY <1>14, <1>b, <1>d DEF ReportConflict, BatchInv, ListsJournaled
  <1>15. ASSUME NEW p \in Procs, JournalItem(p) PROVE ListsJournaled'
    BY <1>15, <1>b, <1>d DEF JournalItem, Go, BatchInv, ListsJournaled
  <1>16. ASSUME NEW p \in Procs, FinishCollect(p) PROVE ListsJournaled'
    BY <1>16, <1>b, <1>d DEF FinishCollect, Journal, End, BatchInv, ListsJournaled
  <1>17. ASSUME NextExecutor PROVE ListsJournaled'
    BY <1>17 DEF NextExecutor, BatchInv, ListsJournaled, Eligible, Known, NoTick
  <1>18. ASSUME PollBatch PROVE ListsJournaled'
    <2>1. PICK b \in tick.todo : PollOf(b)
      BY <1>18, PollsOne
    <2> QED
      BY <1>d, <2>1 DEF PollOf, NoTick, BatchInv, WorkTypeOK, ListsJournaled
  <1>19. ASSUME NEW b \in BatchIds, ProviderWorks(b) PROVE ListsJournaled'
    BY <1>19, <1>b, <1>d DEF ProviderWorks, BatchInv, ListsJournaled
  <1>20. ASSUME NEW f \in Digests \X Items, UserEdits(f) PROVE ListsJournaled'
    BY <1>20, <1>b, <1>d DEF UserEdits, BatchInv, ListsJournaled
  <1>21. ASSUME DaemonDies PROVE ListsJournaled'
    BY <1>21, <1>b, <1>d DEF DaemonDies, BatchInv, ListsJournaled, NoTick
  <1>22. ASSUME CommandDies PROVE ListsJournaled'
    BY <1>22, <1>b, <1>d DEF CommandDies, End, BatchInv, ListsJournaled
  <1> QED
    BY <1>1, <1>2, <1>3, <1>4, <1>5, <1>6, <1>7, <1>8, <1>9, <1>10, <1>11, <1>12, <1>13,
       <1>14, <1>15, <1>16, <1>17, <1>18, <1>19, <1>20, <1>21, <1>22 DEF BatchNext,
       Submit, Collect, Tick, Procs, Submitters, Collectors

\* A step journals a batch with a configuration.
LEMMA DigestNext == BatchInv /\ BatchNext => KnownHasDigest'
  <1> SUFFICES ASSUME BatchInv, BatchNext PROVE KnownHasDigest'
    OBVIOUS
  <1>a. \A p \in Procs : at[p] \in OnBatch => work[p].id \in BatchIds
    BY DEF BatchInv, WorkIsJournaled, Known
  <1>b. JournalTypeOK /\ OutsideTypeOK /\ TickTypeOK
    BY DEF BatchInv, BatchTypeOK, JournalTypeOK, OutsideTypeOK, TickTypeOK, RecordStates
  <1>c. Grown
    BY RecordsGrow
  <1>d. Known \subseteq Known'
    BY <1>c DEF Grown, Known
  <1>1. ASSUME NEW p \in Procs, NEW d \in Digests, DecideResubmit(p, d) PROVE KnownHasDigest'
    BY <1>1 DEF DecideResubmit, Go, BatchInv, KnownHasDigest, Known
  <1>2. ASSUME NEW p \in Procs, NEW b \in BatchIds, JournalSubmitted(p, b) PROVE KnownHasDigest'
    BY <1>2 DEF JournalSubmitted, Go, BatchInv, KnownHasDigest, Known, JournalTypeOK,
       WorkIsJournaled, NoRecord
  <1>3. ASSUME NEW p \in Procs, ProviderSubmit(p) PROVE KnownHasDigest'
    BY <1>3 DEF ProviderSubmit, Go, BatchInv, KnownHasDigest, Known
  <1>4. ASSUME NEW p \in Procs, JournalUnknown(p) PROVE KnownHasDigest'
    BY <1>4, <1>a, <1>b, JournalState DEF JournalUnknown, RecordStates, OnBatch, BatchInv, WorkIsJournaled, KnownHasDigest, Known
  <1>5. ASSUME NEW p \in Procs, JournalLinked(p) PROVE KnownHasDigest'
    BY <1>5 DEF JournalLinked, Go, BatchInv, KnownHasDigest, Known
  <1>6. ASSUME NEW p \in Procs, Register(p) PROVE KnownHasDigest'
    BY <1>6 DEF Register, Go, BatchInv, KnownHasDigest, Known
  <1>7. ASSUME NEW p \in Procs, PersistPlan(p) PROVE KnownHasDigest'
    BY <1>7 DEF PersistPlan, End, BatchInv, KnownHasDigest, Known
  <1>8. ASSUME NEW b \in BatchIds, CliCollect(b) PROVE KnownHasDigest'
    BY <1>8 DEF CliCollect, Go, BatchInv, KnownHasDigest, Known
  <1>9. ASSUME NEW p \in Procs, ReadRecord(p) PROVE KnownHasDigest'
    BY <1>9 DEF ReadRecord, Go, End, BatchInv, KnownHasDigest, Known
  <1>10. ASSUME NEW p \in Procs, JournalCollecting(p) PROVE KnownHasDigest'
    BY <1>10, <1>a, <1>b, JournalState DEF JournalCollecting, RecordStates, OnBatch, BatchInv, WorkIsJournaled, KnownHasDigest, Known
  <1>11. ASSUME NEW p \in Procs, AskStatus(p) PROVE KnownHasDigest'
    BY <1>11 DEF AskStatus, Go, End, BatchInv, KnownHasDigest, Known
  <1>12. ASSUME NEW p \in Procs, JournalFailed(p) PROVE KnownHasDigest'
    BY <1>12, <1>a, <1>b, JournalState DEF JournalFailed, RecordStates, OnBatch, BatchInv, WorkIsJournaled, KnownHasDigest, Known
  <1>13. ASSUME NEW p \in Procs, NEW i \in Items, DeliverItem(p, i) PROVE KnownHasDigest'
    BY <1>13 DEF DeliverItem, Go, BatchInv, KnownHasDigest, Known
  <1>14. ASSUME NEW p \in Procs, NEW i \in Items, ReportConflict(p, i) PROVE KnownHasDigest'
    BY <1>14 DEF ReportConflict, BatchInv, KnownHasDigest, Known
  <1>15. ASSUME NEW p \in Procs, JournalItem(p) PROVE KnownHasDigest'
    BY <1>15 DEF JournalItem, Go, BatchInv, KnownHasDigest, Known
  <1>16. ASSUME NEW p \in Procs, FinishCollect(p) PROVE KnownHasDigest'
    BY <1>16, FinishRecord DEF FinishCollect, BatchInv, WorkIsJournaled, KnownHasDigest, Known, OnBatch
  <1>17. ASSUME NextExecutor PROVE KnownHasDigest'
    BY <1>17 DEF NextExecutor, BatchInv, KnownHasDigest, Known
  <1>18. ASSUME PollBatch PROVE KnownHasDigest'
    BY <1>18 DEF PollBatch, Go, BatchInv, KnownHasDigest, Known
  <1>19. ASSUME NEW b \in BatchIds, ProviderWorks(b) PROVE KnownHasDigest'
    BY <1>19 DEF ProviderWorks, BatchInv, KnownHasDigest, Known
  <1>20. ASSUME NEW f \in Digests \X Items, UserEdits(f) PROVE KnownHasDigest'
    BY <1>20 DEF UserEdits, BatchInv, KnownHasDigest, Known
  <1>21. ASSUME DaemonDies PROVE KnownHasDigest'
    BY <1>21 DEF DaemonDies, BatchInv, KnownHasDigest, Known
  <1>22. ASSUME CommandDies PROVE KnownHasDigest'
    BY <1>22 DEF CommandDies, End, BatchInv, KnownHasDigest, Known
  <1> QED
    BY <1>1, <1>2, <1>3, <1>4, <1>5, <1>6, <1>7, <1>8, <1>9, <1>10, <1>11, <1>12, <1>13,
       <1>14, <1>15, <1>16, <1>17, <1>18, <1>19, <1>20, <1>21, <1>22 DEF BatchNext,
       Submit, Collect, Tick, Procs, Submitters, Collectors

\* A step works on journaled batches only, with the configuration they have.
LEMMA WorkIsJournaledNext == BatchInv /\ BatchNext => WorkIsJournaled'
  <1> SUFFICES ASSUME BatchInv, BatchNext PROVE WorkIsJournaled'
    OBVIOUS
  <1>a. \A p \in Procs : at[p] \in OnBatch => work[p].id \in BatchIds
    BY DEF BatchInv, WorkIsJournaled, Known
  <1>b. JournalTypeOK /\ OutsideTypeOK /\ TickTypeOK
    BY DEF BatchInv, BatchTypeOK, JournalTypeOK, OutsideTypeOK, TickTypeOK, RecordStates
  <1>c. Grown
    BY RecordsGrow
  <1>d. Known \subseteq Known'
    BY <1>c DEF Grown, Known
  <1>1. ASSUME NEW p \in Procs, NEW d \in Digests, DecideResubmit(p, d) PROVE WorkIsJournaled'
    BY <1>1, <1>b, <1>c, <1>d DEF DecideResubmit, Go, BatchInv, WorkTypeOK,
       WorkIsJournaled, Grown, OnBatch, OnRecord
  <1>2. ASSUME NEW p \in Procs, NEW b \in BatchIds, JournalSubmitted(p, b) PROVE WorkIsJournaled'
    <2>1. /\ at'[p] = "journaled" /\ work'[p].id = b
          /\ b \in Known'
      <3>1. journal'[b].state = "submitted"
        BY <1>2, <1>b, SubmittedRecord
      <3> QED
        BY <1>2, <3>1 DEF JournalSubmitted, Go, BatchInv, WorkTypeOK, Known
    <2>2. \A q \in Procs \ {p} : at'[q] = at[q] /\ work'[q] = work[q]
      BY <1>2 DEF JournalSubmitted, Go, BatchInv, WorkTypeOK
    <2> QED
      BY <1>c, <1>d, <2>1, <2>2 DEF BatchInv, WorkIsJournaled, Grown, OnBatch, OnRecord
  <1>3. ASSUME NEW p \in Procs, ProviderSubmit(p) PROVE WorkIsJournaled'
    BY <1>3, <1>b, <1>c, <1>d DEF ProviderSubmit, Go, BatchInv, WorkTypeOK,
       WorkIsJournaled, Grown, OnBatch, OnRecord
  <1>4. ASSUME NEW p \in Procs, JournalUnknown(p) PROVE WorkIsJournaled'
    BY <1>4, <1>b, <1>c, <1>d DEF JournalUnknown, Journal, End, BatchInv, WorkTypeOK,
       WorkIsJournaled, Grown, OnBatch, OnRecord
  <1>5. ASSUME NEW p \in Procs, JournalLinked(p) PROVE WorkIsJournaled'
    BY <1>5, <1>b, <1>c, <1>d DEF JournalLinked, Go, BatchInv, WorkTypeOK,
       WorkIsJournaled, Grown, OnBatch, OnRecord
  <1>6. ASSUME NEW p \in Procs, Register(p) PROVE WorkIsJournaled'
    BY <1>6, <1>b, <1>c, <1>d DEF Register, Go, BatchInv, WorkTypeOK, WorkIsJournaled,
       Grown, OnBatch, OnRecord
  <1>7. ASSUME NEW p \in Procs, PersistPlan(p) PROVE WorkIsJournaled'
    BY <1>7, <1>b, <1>c, <1>d DEF PersistPlan, End, BatchInv, WorkTypeOK,
       WorkIsJournaled, Grown, OnBatch, OnRecord
  <1>8. ASSUME NEW b \in BatchIds, CliCollect(b) PROVE WorkIsJournaled'
    <2>1. "cli" \in Procs /\ [NoWork EXCEPT !.id = b].id = b
      BY DEF Procs, Submitters, NoWork
    <2>2. at'["cli"] = "collect" /\ work'["cli"].id = b /\ b \in Known'
      BY <1>8, <1>d, <2>1 DEF CliCollect, Go, BatchInv, WorkTypeOK, ListsJournaled
    <2>3. \A q \in Procs \ {"cli"} : at'[q] = at[q] /\ work'[q] = work[q]
      BY <1>8 DEF CliCollect, Go, BatchInv, WorkTypeOK
    <2> QED
      BY <1>c, <1>d, <2>2, <2>3 DEF BatchInv, WorkIsJournaled, Grown, OnBatch, OnRecord
  <1>9. ASSUME NEW p \in Procs, ReadRecord(p) PROVE WorkIsJournaled'
    <2>1. journal' = journal /\ at[p] = "collect" /\ work[p].id \in Known
      BY <1>9 DEF ReadRecord, BatchInv, WorkIsJournaled, OnBatch
    <2>2. \A q \in Procs \ {p} : at'[q] = at[q] /\ work'[q] = work[q]
      BY <1>9 DEF ReadRecord, Go, End, BatchInv, WorkTypeOK
    <2>3. \/ at'[p] = "idle"
          \/ /\ at'[p] = "known" /\ work'[p].id = work[p].id
             /\ work'[p].digest = journal[work[p].id].digest
      BY <1>9, ReadWork
    <2> QED
      BY <1>d, <2>1, <2>2, <2>3 DEF BatchInv, WorkIsJournaled, OnBatch, OnRecord
  <1>10. ASSUME NEW p \in Procs, JournalCollecting(p) PROVE WorkIsJournaled'
    BY <1>10, <1>b, <1>c, <1>d DEF JournalCollecting, Go, Journal, BatchInv, WorkTypeOK,
       WorkIsJournaled, Grown, OnBatch, OnRecord
  <1>11. ASSUME NEW p \in Procs, AskStatus(p) PROVE WorkIsJournaled'
    BY <1>11, <1>b, <1>c, <1>d DEF AskStatus, Go, End, BatchInv, WorkTypeOK,
       WorkIsJournaled, Grown, OnBatch, OnRecord
  <1>12. ASSUME NEW p \in Procs, JournalFailed(p) PROVE WorkIsJournaled'
    BY <1>12, <1>b, <1>c, <1>d DEF JournalFailed, Journal, End, BatchInv, WorkTypeOK,
       WorkIsJournaled, Grown, OnBatch, OnRecord
  <1>13. ASSUME NEW p \in Procs, NEW i \in Items, DeliverItem(p, i) PROVE WorkIsJournaled'
    BY <1>13, <1>b, <1>c, <1>d DEF DeliverItem, Go, BatchInv, WorkTypeOK,
       WorkIsJournaled, Grown, OnBatch, OnRecord
  <1>14. ASSUME NEW p \in Procs, NEW i \in Items, ReportConflict(p, i) PROVE WorkIsJournaled'
    BY <1>14, <1>b, <1>c, <1>d DEF ReportConflict, BatchInv, WorkTypeOK,
       WorkIsJournaled, Grown, OnBatch, OnRecord
  <1>15. ASSUME NEW p \in Procs, JournalItem(p) PROVE WorkIsJournaled'
    BY <1>15, <1>b, <1>c, <1>d DEF JournalItem, Go, BatchInv, WorkTypeOK,
       WorkIsJournaled, Grown, OnBatch, OnRecord
  <1>16. ASSUME NEW p \in Procs, FinishCollect(p) PROVE WorkIsJournaled'
    BY <1>16, <1>b, <1>c, <1>d DEF FinishCollect, Journal, End, BatchInv, WorkTypeOK,
       WorkIsJournaled, Grown, OnBatch, OnRecord
  <1>17. ASSUME NextExecutor PROVE WorkIsJournaled'
    BY <1>17, <1>b, <1>c, <1>d DEF NextExecutor, BatchInv, WorkIsJournaled
  <1>18. ASSUME PollBatch PROVE WorkIsJournaled'
    <2>1. PICK b \in tick.todo : PollOf(b)
      BY <1>18, PollsOne
    <2>2. b \in Known /\ journal' = journal
      BY <2>1 DEF PollOf, BatchInv, ListsJournaled
    <2>3. CASE UNCHANGED <<at, work>>
      BY <2>2, <2>3 DEF BatchInv, WorkIsJournaled, Known
    <2>4. CASE /\ work' = [work EXCEPT !["tick"] = [NoWork EXCEPT !.id = b]]
               /\ \E there \in {"collect", "failing", "ambiguous"} :
                      at' = [at EXCEPT !["tick"] = there]
      <3>1. "tick" \in Procs /\ [NoWork EXCEPT !.id = b].id = b
        BY DEF Procs, Collectors, NoWork
      <3>2. at'["tick"] \in {"collect", "failing", "ambiguous"} /\ work'["tick"].id = b
        BY <2>4, <3>1 DEF BatchInv, WorkTypeOK
      <3>3. \A q \in Procs \ {"tick"} : at'[q] = at[q] /\ work'[q] = work[q]
        BY <2>4 DEF BatchInv, WorkTypeOK
      <3> QED
        BY <1>d, <2>2, <3>2, <3>3 DEF BatchInv, WorkIsJournaled, OnBatch, OnRecord
    <2> QED
      BY <2>1, <2>3, <2>4 DEF PollOf
  <1>19. ASSUME NEW b \in BatchIds, ProviderWorks(b) PROVE WorkIsJournaled'
    BY <1>19, <1>b, <1>c, <1>d DEF ProviderWorks, BatchInv, WorkIsJournaled
  <1>20. ASSUME NEW f \in Digests \X Items, UserEdits(f) PROVE WorkIsJournaled'
    BY <1>20, <1>b, <1>c, <1>d DEF UserEdits, BatchInv, WorkIsJournaled
  <1>21. ASSUME DaemonDies PROVE WorkIsJournaled'
    BY <1>21, <1>b, <1>c, <1>d DEF DaemonDies, BatchInv, WorkTypeOK, WorkIsJournaled,
       Grown, OnBatch, OnRecord
  <1>22. ASSUME CommandDies PROVE WorkIsJournaled'
    BY <1>22, <1>b, <1>c, <1>d DEF CommandDies, End, BatchInv, WorkTypeOK,
       WorkIsJournaled, Grown, OnBatch, OnRecord
  <1> QED
    BY <1>1, <1>2, <1>3, <1>4, <1>5, <1>6, <1>7, <1>8, <1>9, <1>10, <1>11, <1>12, <1>13,
       <1>14, <1>15, <1>16, <1>17, <1>18, <1>19, <1>20, <1>21, <1>22 DEF BatchNext,
       Submit, Collect, Tick, Procs, Submitters, Collectors

\* A file that has a result keeps it until the user edits it.
LEMMA WroteFileNext == BatchInv /\ BatchNext => WroteFile'
  <1> SUFFICES ASSUME BatchInv, BatchNext PROVE WroteFile'
    OBVIOUS
  <1>a. \A p \in Procs : at[p] \in OnBatch => work[p].id \in BatchIds
    BY DEF BatchInv, WorkIsJournaled, Known
  <1>b. JournalTypeOK /\ OutsideTypeOK /\ TickTypeOK
    BY DEF BatchInv, BatchTypeOK, JournalTypeOK, OutsideTypeOK, TickTypeOK, RecordStates
  <1>c. Grown
    BY RecordsGrow
  <1>d. Known \subseteq Known'
    BY <1>c DEF Grown, Known
  <1>1. ASSUME NEW p \in Procs, NEW d \in Digests, DecideResubmit(p, d) PROVE WroteFile'
    BY <1>1 DEF DecideResubmit, Go, BatchInv, WroteFile
  <1>2. ASSUME NEW p \in Procs, NEW b \in BatchIds, JournalSubmitted(p, b) PROVE WroteFile'
    BY <1>2 DEF JournalSubmitted, Go, BatchInv, WroteFile
  <1>3. ASSUME NEW p \in Procs, ProviderSubmit(p) PROVE WroteFile'
    BY <1>3 DEF ProviderSubmit, Go, BatchInv, WorkTypeOK, WorkIsJournaled, WroteFile,
       DeliveredReachedFile, OutsideTypeOK, OnBatch, OnRecord
  <1>4. ASSUME NEW p \in Procs, JournalUnknown(p) PROVE WroteFile'
    BY <1>4 DEF JournalUnknown, Journal, End, BatchInv, WroteFile
  <1>5. ASSUME NEW p \in Procs, JournalLinked(p) PROVE WroteFile'
    BY <1>5 DEF JournalLinked, Go, BatchInv, WroteFile
  <1>6. ASSUME NEW p \in Procs, Register(p) PROVE WroteFile'
    BY <1>6 DEF Register, Go, BatchInv, WroteFile
  <1>7. ASSUME NEW p \in Procs, PersistPlan(p) PROVE WroteFile'
    BY <1>7 DEF PersistPlan, End, BatchInv, WroteFile
  <1>8. ASSUME NEW b \in BatchIds, CliCollect(b) PROVE WroteFile'
    BY <1>8 DEF CliCollect, Go, BatchInv, WroteFile
  <1>9. ASSUME NEW p \in Procs, ReadRecord(p) PROVE WroteFile'
    BY <1>9 DEF ReadRecord, Go, End, BatchInv, WorkTypeOK, WorkIsJournaled, WroteFile,
       DeliveredReachedFile, OutsideTypeOK, OnBatch, OnRecord
  <1>10. ASSUME NEW p \in Procs, JournalCollecting(p) PROVE WroteFile'
    BY <1>10 DEF JournalCollecting, Go, Journal, BatchInv, WroteFile
  <1>11. ASSUME NEW p \in Procs, AskStatus(p) PROVE WroteFile'
    <2>1. at'[p] # "wrote" /\ file' = file
      BY <1>11 DEF AskStatus, Go, End, BatchInv, WorkTypeOK
    <2>2. \A q \in Procs \ {p} : at'[q] = at[q] /\ work'[q] = work[q]
      BY <1>11 DEF AskStatus, Go, End, BatchInv, WorkTypeOK
    <2> QED
      BY <2>1, <2>2 DEF BatchInv, WroteFile
  <1>12. ASSUME NEW p \in Procs, JournalFailed(p) PROVE WroteFile'
    BY <1>12 DEF JournalFailed, Journal, End, BatchInv, WroteFile
  <1>13. ASSUME NEW p \in Procs, NEW i \in Items, DeliverItem(p, i) PROVE WroteFile'
    <2>1. /\ at[p] = "deliver" /\ work[p].id \in Known
          /\ work[p].digest = journal[work[p].id].digest
          /\ work[p].digest \in Digests
      BY <1>13 DEF DeliverItem, BatchInv, WorkIsJournaled, KnownHasDigest, OnBatch, OnRecord
    <2>2. work'[p].digest = work[p].digest /\ work'[p].item = i
      BY <1>13 DEF DeliverItem, BatchInv, WorkTypeOK
    <2>3. \A q \in Procs \ {p} : at'[q] = at[q] /\ work'[q] = work[q]
      BY <1>13 DEF DeliverItem, Go, BatchInv, WorkTypeOK
    <2>4. file'[<<work[p].digest, i>>] \in {"result", "edited"}
      <3>1. CASE i \in journal[work[p].id].items
        BY <1>13, <2>1, <3>1 DEF DeliverItem, BatchInv, DeliveredReachedFile, Known
      <3>2. CASE i \notin journal[work[p].id].items
        BY <1>13, <1>b, <2>1, <3>2 DEF DeliverItem, OutsideTypeOK
      <3> QED
        BY <3>1, <3>2
    <2>5. \A f \in Digests \X Items : file'[f] = file[f] \/ file'[f] = "result"
      BY <1>13, <1>b DEF DeliverItem, OutsideTypeOK
    <2>6. \A q \in Procs : at[q] = "wrote" => work[q].digest \in Digests /\ work[q].item \in Items
      BY DEF BatchInv, WorkTypeOK, WorkIsJournaled, KnownHasDigest, OnBatch, OnRecord
    <2> QED
      BY <2>2, <2>3, <2>4, <2>5, <2>6 DEF BatchInv, WroteFile
  <1>14. ASSUME NEW p \in Procs, NEW i \in Items, ReportConflict(p, i) PROVE WroteFile'
    BY <1>14 DEF ReportConflict, BatchInv, WorkTypeOK, WorkIsJournaled, WroteFile,
       DeliveredReachedFile, OutsideTypeOK, OnBatch, OnRecord
  <1>15. ASSUME NEW p \in Procs, JournalItem(p) PROVE WroteFile'
    BY <1>15 DEF JournalItem, Go, BatchInv, WroteFile
  <1>16. ASSUME NEW p \in Procs, FinishCollect(p) PROVE WroteFile'
    BY <1>16 DEF FinishCollect, Journal, End, BatchInv, WroteFile
  <1>17. ASSUME NextExecutor PROVE WroteFile'
    BY <1>17 DEF NextExecutor, BatchInv, WroteFile
  <1>18. ASSUME PollBatch PROVE WroteFile'
    BY <1>18 DEF PollBatch, Go, BatchInv, WorkTypeOK, WorkIsJournaled, WroteFile,
       DeliveredReachedFile, OutsideTypeOK, OnBatch, OnRecord
  <1>19. ASSUME NEW b \in BatchIds, ProviderWorks(b) PROVE WroteFile'
    BY <1>19 DEF ProviderWorks, BatchInv, WroteFile
  <1>20. ASSUME NEW f \in Digests \X Items, UserEdits(f) PROVE WroteFile'
    BY <1>20 DEF UserEdits, BatchInv, WroteFile
  <1>21. ASSUME DaemonDies PROVE WroteFile'
    BY <1>21 DEF DaemonDies, BatchInv, WorkTypeOK, WorkIsJournaled, WroteFile,
       DeliveredReachedFile, OutsideTypeOK, OnBatch, OnRecord
  <1>22. ASSUME CommandDies PROVE WroteFile'
    BY <1>22 DEF CommandDies, End, BatchInv, WorkTypeOK, WorkIsJournaled, WroteFile,
       DeliveredReachedFile, OutsideTypeOK, OnBatch, OnRecord
  <1> QED
    BY <1>1, <1>2, <1>3, <1>4, <1>5, <1>6, <1>7, <1>8, <1>9, <1>10, <1>11, <1>12, <1>13,
       <1>14, <1>15, <1>16, <1>17, <1>18, <1>19, <1>20, <1>21, <1>22 DEF BatchNext,
       Submit, Collect, Tick, Procs, Submitters, Collectors

\* A collector leaves no item behind that is not journaled.
LEMMA LeftBehindNext == BatchInv /\ BatchNext => LeftBehind'
  <1> SUFFICES ASSUME BatchInv, BatchNext PROVE LeftBehind'
    OBVIOUS
  <1>a. \A p \in Procs : at[p] \in OnBatch => work[p].id \in BatchIds
    BY DEF BatchInv, WorkIsJournaled, Known
  <1>b. JournalTypeOK /\ OutsideTypeOK /\ TickTypeOK
    BY DEF BatchInv, BatchTypeOK, JournalTypeOK, OutsideTypeOK, TickTypeOK, RecordStates
  <1>c. Grown
    BY RecordsGrow
  <1>d. Known \subseteq Known'
    BY <1>c DEF Grown, Known
  <1>1. ASSUME NEW p \in Procs, NEW d \in Digests, DecideResubmit(p, d) PROVE LeftBehind'
    BY <1>1 DEF DecideResubmit, Go, BatchInv, LeftBehind
  <1>2. ASSUME NEW p \in Procs, NEW b \in BatchIds, JournalSubmitted(p, b) PROVE LeftBehind'
    BY <1>2, <1>a, <1>b, <1>c, <1>d DEF JournalSubmitted, Go, BatchInv, WorkTypeOK,
       WorkIsJournaled, LeftBehind, Grown, OnBatch, OnRecord
  <1>3. ASSUME NEW p \in Procs, ProviderSubmit(p) PROVE LeftBehind'
    BY <1>3 DEF ProviderSubmit, Go, BatchInv, WorkTypeOK, WorkIsJournaled, LeftBehind,
       Grown, OnBatch, OnRecord
  <1>4. ASSUME NEW p \in Procs, JournalUnknown(p) PROVE LeftBehind'
    BY <1>4 DEF JournalUnknown, Journal, End, BatchInv, LeftBehind
  <1>5. ASSUME NEW p \in Procs, JournalLinked(p) PROVE LeftBehind'
    BY <1>5 DEF JournalLinked, Go, BatchInv, LeftBehind
  <1>6. ASSUME NEW p \in Procs, Register(p) PROVE LeftBehind'
    BY <1>6 DEF Register, Go, BatchInv, LeftBehind
  <1>7. ASSUME NEW p \in Procs, PersistPlan(p) PROVE LeftBehind'
    BY <1>7 DEF PersistPlan, End, BatchInv, LeftBehind
  <1>8. ASSUME NEW b \in BatchIds, CliCollect(b) PROVE LeftBehind'
    BY <1>8 DEF CliCollect, Go, BatchInv, LeftBehind
  <1>9. ASSUME NEW p \in Procs, ReadRecord(p) PROVE LeftBehind'
    <2>1. journal' = journal
      BY <1>9 DEF ReadRecord
    <2>2. \A q \in Procs \ {p} : at'[q] = at[q] /\ work'[q] = work[q]
      BY <1>9 DEF ReadRecord, Go, End, BatchInv, WorkTypeOK
    <2>3. at'[p] = "idle" \/ (at'[p] = "known" /\ work'[p].left = Items)
      BY <1>9, ReadWork
    <2> QED
      BY <2>1, <2>2, <2>3 DEF BatchInv, LeftBehind
  <1>10. ASSUME NEW p \in Procs, JournalCollecting(p) PROVE LeftBehind'
    BY <1>10 DEF JournalCollecting, Go, Journal, BatchInv, LeftBehind
  <1>11. ASSUME NEW p \in Procs, AskStatus(p) PROVE LeftBehind'
    BY <1>11 DEF AskStatus, Go, End, BatchInv, WorkTypeOK, WorkIsJournaled, LeftBehind,
       Grown, OnBatch, OnRecord
  <1>12. ASSUME NEW p \in Procs, JournalFailed(p) PROVE LeftBehind'
    BY <1>12 DEF JournalFailed, Journal, End, BatchInv, LeftBehind
  <1>13. ASSUME NEW p \in Procs, NEW i \in Items, DeliverItem(p, i) PROVE LeftBehind'
    BY <1>13 DEF DeliverItem, Go, BatchInv, WorkTypeOK, WorkIsJournaled, LeftBehind,
       Grown, OnBatch, OnRecord
  <1>14. ASSUME NEW p \in Procs, NEW i \in Items, ReportConflict(p, i) PROVE LeftBehind'
    BY <1>14 DEF ReportConflict, BatchInv, WorkTypeOK, WorkIsJournaled, LeftBehind,
       Grown, OnBatch, OnRecord
  <1>15. ASSUME NEW p \in Procs, JournalItem(p) PROVE LeftBehind'
    <2>1. at[p] = "wrote" /\ at'[p] = "deliver" /\ work' = work
      BY <1>15 DEF JournalItem, Go, BatchInv, WorkTypeOK
    <2>2. \A q \in Procs \ {p} : at'[q] = at[q]
      BY <1>15 DEF JournalItem, Go, BatchInv, WorkTypeOK
    <2>3. journal'[work[p].id].items = journal[work[p].id].items \cup {work[p].item}
      BY <1>15, ItemRecord
    <2>4. \A q \in Procs : at[q] \in {"deliver", "wrote"} =>
              journal[work[q].id].items \subseteq journal'[work[q].id].items
      BY <1>c DEF Grown, BatchInv, WorkIsJournaled, OnBatch
    <2> QED
      BY <2>1, <2>2, <2>3, <2>4 DEF BatchInv, LeftBehind
  <1>16. ASSUME NEW p \in Procs, FinishCollect(p) PROVE LeftBehind'
    BY <1>16, <1>a, <1>b, <1>c, <1>d DEF FinishCollect, Journal, End, BatchInv,
       WorkTypeOK, WorkIsJournaled, LeftBehind, Grown, OnBatch, OnRecord
  <1>17. ASSUME NextExecutor PROVE LeftBehind'
    BY <1>17 DEF NextExecutor, BatchInv, LeftBehind
  <1>18. ASSUME PollBatch PROVE LeftBehind'
    BY <1>18 DEF PollBatch, Go, BatchInv, WorkTypeOK, WorkIsJournaled, LeftBehind,
       Grown, OnBatch, OnRecord
  <1>19. ASSUME NEW b \in BatchIds, ProviderWorks(b) PROVE LeftBehind'
    BY <1>19 DEF ProviderWorks, BatchInv, LeftBehind
  <1>20. ASSUME NEW f \in Digests \X Items, UserEdits(f) PROVE LeftBehind'
    BY <1>20 DEF UserEdits, BatchInv, LeftBehind
  <1>21. ASSUME DaemonDies PROVE LeftBehind'
    BY <1>21 DEF DaemonDies, BatchInv, WorkTypeOK, WorkIsJournaled, LeftBehind, Grown,
       OnBatch, OnRecord
  <1>22. ASSUME CommandDies PROVE LeftBehind'
    BY <1>22 DEF CommandDies, End, BatchInv, WorkTypeOK, WorkIsJournaled, LeftBehind,
       Grown, OnBatch, OnRecord
  <1> QED
    BY <1>1, <1>2, <1>3, <1>4, <1>5, <1>6, <1>7, <1>8, <1>9, <1>10, <1>11, <1>12, <1>13,
       <1>14, <1>15, <1>16, <1>17, <1>18, <1>19, <1>20, <1>21, <1>22 DEF BatchNext,
       Submit, Collect, Tick, Procs, Submitters, Collectors

\* The provider gets jobs of journaled batches only.
LEMMA JobIsJournaledNext == BatchInv /\ BatchNext => JobIsJournaled'
  <1> SUFFICES ASSUME BatchInv, BatchNext PROVE JobIsJournaled'
    OBVIOUS
  <1>a. \A p \in Procs : at[p] \in OnBatch => work[p].id \in BatchIds
    BY DEF BatchInv, WorkIsJournaled, Known
  <1>b. JournalTypeOK /\ OutsideTypeOK /\ TickTypeOK
    BY DEF BatchInv, BatchTypeOK, JournalTypeOK, OutsideTypeOK, TickTypeOK, RecordStates
  <1>c. Grown
    BY RecordsGrow
  <1>d. Known \subseteq Known'
    BY <1>c DEF Grown, Known
  <1>1. ASSUME NEW p \in Procs, NEW d \in Digests, DecideResubmit(p, d) PROVE JobIsJournaled'
    BY <1>1 DEF DecideResubmit, Go, BatchInv, JobIsJournaled
  <1>2. ASSUME NEW p \in Procs, NEW b \in BatchIds, JournalSubmitted(p, b) PROVE JobIsJournaled'
    BY <1>2 DEF JournalSubmitted, Go, BatchInv, JobIsJournaled
  <1>3. ASSUME NEW p \in Procs, ProviderSubmit(p) PROVE JobIsJournaled'
    BY <1>3, <1>a, <1>b, <1>c, <1>d DEF ProviderSubmit, Go, BatchInv, WorkIsJournaled,
       JobIsJournaled, OutsideTypeOK, Known, OnBatch
  <1>4. ASSUME NEW p \in Procs, JournalUnknown(p) PROVE JobIsJournaled'
    BY <1>4 DEF JournalUnknown, Journal, End, BatchInv, JobIsJournaled
  <1>5. ASSUME NEW p \in Procs, JournalLinked(p) PROVE JobIsJournaled'
    BY <1>5 DEF JournalLinked, Go, BatchInv, JobIsJournaled
  <1>6. ASSUME NEW p \in Procs, Register(p) PROVE JobIsJournaled'
    BY <1>6 DEF Register, Go, BatchInv, JobIsJournaled
  <1>7. ASSUME NEW p \in Procs, PersistPlan(p) PROVE JobIsJournaled'
    BY <1>7 DEF PersistPlan, End, BatchInv, JobIsJournaled
  <1>8. ASSUME NEW b \in BatchIds, CliCollect(b) PROVE JobIsJournaled'
    BY <1>8 DEF CliCollect, Go, BatchInv, JobIsJournaled
  <1>9. ASSUME NEW p \in Procs, ReadRecord(p) PROVE JobIsJournaled'
    BY <1>9 DEF ReadRecord, Go, End, BatchInv, JobIsJournaled
  <1>10. ASSUME NEW p \in Procs, JournalCollecting(p) PROVE JobIsJournaled'
    BY <1>10 DEF JournalCollecting, Go, Journal, BatchInv, JobIsJournaled
  <1>11. ASSUME NEW p \in Procs, AskStatus(p) PROVE JobIsJournaled'
    BY <1>11 DEF AskStatus, Go, End, BatchInv, JobIsJournaled
  <1>12. ASSUME NEW p \in Procs, JournalFailed(p) PROVE JobIsJournaled'
    BY <1>12 DEF JournalFailed, Journal, End, BatchInv, JobIsJournaled
  <1>13. ASSUME NEW p \in Procs, NEW i \in Items, DeliverItem(p, i) PROVE JobIsJournaled'
    BY <1>13 DEF DeliverItem, Go, BatchInv, JobIsJournaled
  <1>14. ASSUME NEW p \in Procs, NEW i \in Items, ReportConflict(p, i) PROVE JobIsJournaled'
    BY <1>14 DEF ReportConflict, BatchInv, JobIsJournaled
  <1>15. ASSUME NEW p \in Procs, JournalItem(p) PROVE JobIsJournaled'
    BY <1>15 DEF JournalItem, Go, BatchInv, JobIsJournaled
  <1>16. ASSUME NEW p \in Procs, FinishCollect(p) PROVE JobIsJournaled'
    BY <1>16, <1>a, <1>b, <1>c, <1>d DEF FinishCollect, Journal, End, BatchInv,
       WorkIsJournaled, JobIsJournaled, OutsideTypeOK, Known, OnBatch
  <1>17. ASSUME NextExecutor PROVE JobIsJournaled'
    BY <1>17 DEF NextExecutor, BatchInv, JobIsJournaled
  <1>18. ASSUME PollBatch PROVE JobIsJournaled'
    BY <1>18 DEF PollBatch, Go, BatchInv, JobIsJournaled
  <1>19. ASSUME NEW b \in BatchIds, ProviderWorks(b) PROVE JobIsJournaled'
    BY <1>19 DEF ProviderWorks, BatchInv, JobIsJournaled
  <1>20. ASSUME NEW f \in Digests \X Items, UserEdits(f) PROVE JobIsJournaled'
    BY <1>20 DEF UserEdits, BatchInv, JobIsJournaled
  <1>21. ASSUME DaemonDies PROVE JobIsJournaled'
    BY <1>21 DEF DaemonDies, BatchInv, JobIsJournaled
  <1>22. ASSUME CommandDies PROVE JobIsJournaled'
    BY <1>22 DEF CommandDies, End, BatchInv, JobIsJournaled
  <1> QED
    BY <1>1, <1>2, <1>3, <1>4, <1>5, <1>6, <1>7, <1>8, <1>9, <1>10, <1>11, <1>12, <1>13,
       <1>14, <1>15, <1>16, <1>17, <1>18, <1>19, <1>20, <1>21, <1>22 DEF BatchNext,
       Submit, Collect, Tick, Procs, Submitters, Collectors

\* Delivered is journaled for a complete batch only.
LEMMA DeliveredIsCompleteNext == BatchInv /\ BatchNext => DeliveredIsComplete'
  <1> SUFFICES ASSUME BatchInv, BatchNext PROVE DeliveredIsComplete'
    OBVIOUS
  <1>a. \A p \in Procs : at[p] \in OnBatch => work[p].id \in BatchIds
    BY DEF BatchInv, WorkIsJournaled, Known
  <1>b. JournalTypeOK /\ OutsideTypeOK /\ TickTypeOK
    BY DEF BatchInv, BatchTypeOK, JournalTypeOK, OutsideTypeOK, TickTypeOK, RecordStates
  <1>c. Grown
    BY RecordsGrow
  <1>d. Known \subseteq Known'
    BY <1>c DEF Grown, Known
  <1>1. ASSUME NEW p \in Procs, NEW d \in Digests, DecideResubmit(p, d) PROVE DeliveredIsComplete'
    BY <1>1 DEF DecideResubmit, Go, BatchInv, DeliveredIsComplete
  <1>2. ASSUME NEW p \in Procs, NEW b \in BatchIds, JournalSubmitted(p, b) PROVE DeliveredIsComplete'
    BY <1>2 DEF JournalSubmitted, Go, BatchInv, DeliveredIsComplete
  <1>3. ASSUME NEW p \in Procs, ProviderSubmit(p) PROVE DeliveredIsComplete'
    BY <1>3 DEF ProviderSubmit, Go, BatchInv, DeliveredIsComplete
  <1>4. ASSUME NEW p \in Procs, JournalUnknown(p) PROVE DeliveredIsComplete'
    BY <1>4 DEF JournalUnknown, Journal, End, BatchInv, DeliveredIsComplete
  <1>5. ASSUME NEW p \in Procs, JournalLinked(p) PROVE DeliveredIsComplete'
    BY <1>5 DEF JournalLinked, Go, BatchInv, DeliveredIsComplete
  <1>6. ASSUME NEW p \in Procs, Register(p) PROVE DeliveredIsComplete'
    BY <1>6 DEF Register, Go, BatchInv, DeliveredIsComplete
  <1>7. ASSUME NEW p \in Procs, PersistPlan(p) PROVE DeliveredIsComplete'
    BY <1>7 DEF PersistPlan, End, BatchInv, DeliveredIsComplete
  <1>8. ASSUME NEW b \in BatchIds, CliCollect(b) PROVE DeliveredIsComplete'
    BY <1>8 DEF CliCollect, Go, BatchInv, DeliveredIsComplete
  <1>9. ASSUME NEW p \in Procs, ReadRecord(p) PROVE DeliveredIsComplete'
    BY <1>9 DEF ReadRecord, Go, End, BatchInv, DeliveredIsComplete
  <1>10. ASSUME NEW p \in Procs, JournalCollecting(p) PROVE DeliveredIsComplete'
    BY <1>10 DEF JournalCollecting, Go, Journal, BatchInv, DeliveredIsComplete
  <1>11. ASSUME NEW p \in Procs, AskStatus(p) PROVE DeliveredIsComplete'
    BY <1>11 DEF AskStatus, Go, End, BatchInv, DeliveredIsComplete
  <1>12. ASSUME NEW p \in Procs, JournalFailed(p) PROVE DeliveredIsComplete'
    BY <1>12 DEF JournalFailed, Journal, End, BatchInv, DeliveredIsComplete
  <1>13. ASSUME NEW p \in Procs, NEW i \in Items, DeliverItem(p, i) PROVE DeliveredIsComplete'
    BY <1>13 DEF DeliverItem, Go, BatchInv, DeliveredIsComplete
  <1>14. ASSUME NEW p \in Procs, NEW i \in Items, ReportConflict(p, i) PROVE DeliveredIsComplete'
    BY <1>14 DEF ReportConflict, BatchInv, DeliveredIsComplete
  <1>15. ASSUME NEW p \in Procs, JournalItem(p) PROVE DeliveredIsComplete'
    BY <1>15, ItemRecord DEF BatchInv, DeliveredIsComplete
  <1>16. ASSUME NEW p \in Procs, FinishCollect(p) PROVE DeliveredIsComplete'
    <2>1. CASE work[p].clean
      <3>1. journal[work[p].id].items = Items
        BY <1>16, <1>a, <1>b, <2>1 DEF FinishCollect, BatchInv, LeftBehind, JournalTypeOK, OnBatch
      <3> QED
        BY <1>16, <3>1, FinishRecord DEF BatchInv, DeliveredIsComplete
    <2>2. CASE ~work[p].clean
      BY <1>16, <2>2, FinishRecord DEF BatchInv, DeliveredIsComplete
    <2> QED
      BY <2>1, <2>2
  <1>17. ASSUME NextExecutor PROVE DeliveredIsComplete'
    BY <1>17 DEF NextExecutor, BatchInv, DeliveredIsComplete
  <1>18. ASSUME PollBatch PROVE DeliveredIsComplete'
    BY <1>18 DEF PollBatch, Go, BatchInv, DeliveredIsComplete
  <1>19. ASSUME NEW b \in BatchIds, ProviderWorks(b) PROVE DeliveredIsComplete'
    BY <1>19 DEF ProviderWorks, BatchInv, DeliveredIsComplete
  <1>20. ASSUME NEW f \in Digests \X Items, UserEdits(f) PROVE DeliveredIsComplete'
    BY <1>20 DEF UserEdits, BatchInv, DeliveredIsComplete
  <1>21. ASSUME DaemonDies PROVE DeliveredIsComplete'
    BY <1>21 DEF DaemonDies, BatchInv, DeliveredIsComplete
  <1>22. ASSUME CommandDies PROVE DeliveredIsComplete'
    BY <1>22 DEF CommandDies, End, BatchInv, DeliveredIsComplete
  <1> QED
    BY <1>1, <1>2, <1>3, <1>4, <1>5, <1>6, <1>7, <1>8, <1>9, <1>10, <1>11, <1>12, <1>13,
       <1>14, <1>15, <1>16, <1>17, <1>18, <1>19, <1>20, <1>21, <1>22 DEF BatchNext,
       Submit, Collect, Tick, Procs, Submitters, Collectors

\* An item is journaled after its result was written.
LEMMA DeliveredReachedFileNext == BatchInv /\ BatchNext => DeliveredReachedFile'
  <1> SUFFICES ASSUME BatchInv, BatchNext PROVE DeliveredReachedFile'
    OBVIOUS
  <1>a. \A p \in Procs : at[p] \in OnBatch => work[p].id \in BatchIds
    BY DEF BatchInv, WorkIsJournaled, Known
  <1>b. JournalTypeOK /\ OutsideTypeOK /\ TickTypeOK
    BY DEF BatchInv, BatchTypeOK, JournalTypeOK, OutsideTypeOK, TickTypeOK, RecordStates
  <1>c. Grown
    BY RecordsGrow
  <1>d. Known \subseteq Known'
    BY <1>c DEF Grown, Known
  <1>1. ASSUME NEW p \in Procs, NEW d \in Digests, DecideResubmit(p, d) PROVE DeliveredReachedFile'
    BY <1>1 DEF DecideResubmit, Go, BatchInv, DeliveredReachedFile
  <1>2. ASSUME NEW p \in Procs, NEW b \in BatchIds, JournalSubmitted(p, b) PROVE DeliveredReachedFile'
    <2>1. /\ journal'[b].items = {} /\ \A x \in BatchIds \ {b} : journal'[x] = journal[x]
          /\ file' = file
      BY <1>2, <1>b, SubmittedRecord DEF JournalSubmitted
    <2> QED
      BY <2>1 DEF BatchInv, DeliveredReachedFile
  <1>3. ASSUME NEW p \in Procs, ProviderSubmit(p) PROVE DeliveredReachedFile'
    BY <1>3 DEF ProviderSubmit, Go, BatchInv, DeliveredReachedFile
  <1>4. ASSUME NEW p \in Procs, JournalUnknown(p) PROVE DeliveredReachedFile'
    BY <1>4 DEF JournalUnknown, Journal, End, BatchInv, DeliveredReachedFile
  <1>5. ASSUME NEW p \in Procs, JournalLinked(p) PROVE DeliveredReachedFile'
    BY <1>5 DEF JournalLinked, Go, BatchInv, DeliveredReachedFile
  <1>6. ASSUME NEW p \in Procs, Register(p) PROVE DeliveredReachedFile'
    BY <1>6 DEF Register, Go, BatchInv, DeliveredReachedFile
  <1>7. ASSUME NEW p \in Procs, PersistPlan(p) PROVE DeliveredReachedFile'
    BY <1>7 DEF PersistPlan, End, BatchInv, DeliveredReachedFile
  <1>8. ASSUME NEW b \in BatchIds, CliCollect(b) PROVE DeliveredReachedFile'
    BY <1>8 DEF CliCollect, Go, BatchInv, DeliveredReachedFile
  <1>9. ASSUME NEW p \in Procs, ReadRecord(p) PROVE DeliveredReachedFile'
    BY <1>9 DEF ReadRecord, Go, End, BatchInv, DeliveredReachedFile
  <1>10. ASSUME NEW p \in Procs, JournalCollecting(p) PROVE DeliveredReachedFile'
    BY <1>10 DEF JournalCollecting, Go, Journal, BatchInv, DeliveredReachedFile
  <1>11. ASSUME NEW p \in Procs, AskStatus(p) PROVE DeliveredReachedFile'
    BY <1>11 DEF AskStatus, Go, End, BatchInv, DeliveredReachedFile
  <1>12. ASSUME NEW p \in Procs, JournalFailed(p) PROVE DeliveredReachedFile'
    BY <1>12 DEF JournalFailed, Journal, End, BatchInv, DeliveredReachedFile
  <1>13. ASSUME NEW p \in Procs, NEW i \in Items, DeliverItem(p, i) PROVE DeliveredReachedFile'
    BY <1>13 DEF DeliverItem, Go, BatchInv, DeliveredReachedFile
  <1>14. ASSUME NEW p \in Procs, NEW i \in Items, ReportConflict(p, i) PROVE DeliveredReachedFile'
    BY <1>14 DEF ReportConflict, BatchInv, DeliveredReachedFile
  <1>15. ASSUME NEW p \in Procs, JournalItem(p) PROVE DeliveredReachedFile'
    BY <1>15 DEF JournalItem, Go, BatchInv, WorkTypeOK, WorkIsJournaled, WroteFile,
       DeliveredReachedFile, OutsideTypeOK, Known, OnBatch, OnRecord
  <1>16. ASSUME NEW p \in Procs, FinishCollect(p) PROVE DeliveredReachedFile'
    BY <1>16, FinishRecord DEF FinishCollect, BatchInv, DeliveredReachedFile
  <1>17. ASSUME NextExecutor PROVE DeliveredReachedFile'
    BY <1>17 DEF NextExecutor, BatchInv, DeliveredReachedFile
  <1>18. ASSUME PollBatch PROVE DeliveredReachedFile'
    BY <1>18 DEF PollBatch, Go, BatchInv, DeliveredReachedFile
  <1>19. ASSUME NEW b \in BatchIds, ProviderWorks(b) PROVE DeliveredReachedFile'
    BY <1>19 DEF ProviderWorks, BatchInv, DeliveredReachedFile
  <1>20. ASSUME NEW f \in Digests \X Items, UserEdits(f) PROVE DeliveredReachedFile'
    BY <1>20 DEF UserEdits, BatchInv, DeliveredReachedFile
  <1>21. ASSUME DaemonDies PROVE DeliveredReachedFile'
    BY <1>21 DEF DaemonDies, BatchInv, DeliveredReachedFile
  <1>22. ASSUME CommandDies PROVE DeliveredReachedFile'
    BY <1>22 DEF CommandDies, End, BatchInv, DeliveredReachedFile
  <1> QED
    BY <1>1, <1>2, <1>3, <1>4, <1>5, <1>6, <1>7, <1>8, <1>9, <1>10, <1>11, <1>12, <1>13,
       <1>14, <1>15, <1>16, <1>17, <1>18, <1>19, <1>20, <1>21, <1>22 DEF BatchNext,
       Submit, Collect, Tick, Procs, Submitters, Collectors

-----------------------------------------------------------------------------
\* Every step, also one that changes nothing, keeps the invariant.
LEMMA BatchInvNext == BatchInv /\ [BatchNext]_batchVars => BatchInv'
  <1> SUFFICES ASSUME BatchInv, [BatchNext]_batchVars PROVE BatchInv'
    OBVIOUS
  <1>1. CASE BatchNext
    <2>1. BatchTypeOK'
      BY <1>1, JournalTypeNext, OutsideTypeNext, TickTypeNext
         DEF BatchTypeOK, JournalTypeOK, OutsideTypeOK, TickTypeOK, RecordStates
    <2> QED
      BY <1>1, <2>1, WorkTypeNext, ListsNext, DigestNext, WorkIsJournaledNext, WroteFileNext,
         LeftBehindNext, JobIsJournaledNext, DeliveredIsCompleteNext, DeliveredReachedFileNext
         DEF BatchInv
  <1>2. CASE UNCHANGED batchVars
    <2>1. BatchTypeOK' /\ WorkTypeOK'
      BY <1>2 DEF batchVars, BatchInv, BatchTypeOK, WorkTypeOK
    <2>2. ListsJournaled' /\ KnownHasDigest' /\ WorkIsJournaled'
      BY <1>2 DEF batchVars, BatchInv, ListsJournaled, KnownHasDigest, WorkIsJournaled, Known
    <2>3. WroteFile' /\ LeftBehind'
      BY <1>2 DEF batchVars, BatchInv, WroteFile, LeftBehind
    <2>4. JobIsJournaled' /\ DeliveredIsComplete' /\ DeliveredReachedFile'
      BY <1>2 DEF batchVars, BatchInv, JobIsJournaled, DeliveredIsComplete, DeliveredReachedFile
    <2> QED
      BY <2>1, <2>2, <2>3, <2>4 DEF BatchInv
  <1> QED
    BY <1>1, <1>2

\* The invariant holds throughout.
LEMMA BatchInvAlways == BatchSpec => []BatchInv
  BY BatchInitInv, BatchInvNext, PTL DEF BatchSpec

\* Journal, jobs, files and the registry keep their shape.
THEOREM BatchTypeCorrect == BatchSpec => []BatchTypeOK
  <1>1. BatchInv => BatchTypeOK
    BY DEF BatchInv
  <1> QED
    BY <1>1, BatchInvAlways, PTL

\* The provider has no job that the journal does not know, whoever died between the
\* journal and the provider.
THEOREM JobsAreJournaled == BatchSpec => []JobIsJournaled
  <1>1. BatchInv => JobIsJournaled
    BY DEF BatchInv
  <1> QED
    BY <1>1, BatchInvAlways, PTL

\* A batch that is delivered has all its items, whether the tick, a command or both at
\* once collected it, and however often they died.
THEOREM DeliveredAreComplete == BatchSpec => []DeliveredIsComplete
  <1>1. BatchInv => DeliveredIsComplete
    BY DEF BatchInv
  <1> QED
    BY <1>1, BatchInvAlways, PTL

\* An item that is journaled as delivered is in its file, or the user has changed it.
THEOREM DeliveredAreInFiles == BatchSpec => []DeliveredReachedFile
  <1>1. BatchInv => DeliveredReachedFile
    BY DEF BatchInv
  <1> QED
    BY <1>1, BatchInvAlways, PTL

\* No step takes an item out of a record or changes the configuration of a batch: what
\* a collector reads of a record stays true while it works.
THEOREM RecordsOnlyGrow == BatchSpec => [][Grown]_batchVars
  <1>1. BatchInv /\ [BatchNext]_batchVars => [Grown]_batchVars
    BY RecordsGrow
  <1> QED
    BY <1>1, BatchInvAlways, PTL DEF BatchSpec

=============================================================================
