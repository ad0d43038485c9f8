---------------------------- MODULE OfflineBatch ----------------------------
(***************************************************************************)
(* Offline batches of one session: admissions by the daemon and by the     *)
(* command line, the daemon's poll tick, `impetus batch collect`, the      *)
(* provider's jobs and the files the results are written to.  The journal  *)
(* is its fold (batch_records_from_events).  Batch ids are numbers in the  *)
(* order of the uuids, which is unrelated to the order of submission.      *)
(***************************************************************************)
EXTENDS Naturals, Sequences

CONSTANTS
    MaxBatch,        \* bound on batch ids
    Digests,         \* frozen configurations
    Items,           \* items of a plan
    SharedProvider,  \* TRUE: FsBatchProvider; FALSE: a MockBatchProvider each
    MaxDeaths,       \* bound on deaths of the daemon or of a command
    MaxEdits         \* bound on edits of output files by the user

ASSUME BatchConstants ==
    /\ MaxBatch \in Nat
    /\ SharedProvider \in BOOLEAN
    /\ MaxDeaths \in Nat
    /\ MaxEdits \in Nat

VARIABLES
    journal,     \* the record of each batch
    job,         \* the provider's job of each batch
    file,        \* the output file of an item of a configuration
    registry,    \* executors of the daemon, each named by its batch
    sidecar,     \* batches whose plan was saved for the command line
    at,          \* what each process does next
    work,        \* the batch and configuration it works on
    tick,        \* the poll tick: executor reached and batches left
    conflict,    \* batches a collector left with a source hash conflict
    deaths, edits

batchVars == <<journal, job, file, registry, sidecar, at, work, tick, conflict, deaths, edits>>

BatchIds == 1..MaxBatch
Submitters == {"admit", "cli"}    \* AdmitOfflineBatch, `batch submit`
Collectors == {"tick", "cli"}     \* poll_all, `batch collect`
Procs == Submitters \cup Collectors
JobStates == {"none", "pending", "ready", "failed", "odd"}
Contents == {"absent", "source", "edited", "result"}

NoRecord == [state |-> "none", digest |-> "none", linked |-> FALSE, items |-> {}]
NoWork == [id |-> 0, digest |-> "none", left |-> {}, item |-> "none", clean |-> TRUE]
NoTick == [exec |-> 0, todo |-> {}]

BatchInit ==
    /\ journal = [b \in BatchIds |-> NoRecord]
    /\ job = [b \in BatchIds |-> "none"]
    /\ file \in [Digests \X Items -> {"absent", "source"}]
    /\ registry = <<>>
    /\ sidecar = {}
    /\ at = [p \in Procs |-> "idle"]
    /\ work = [p \in Procs |-> NoWork]
    /\ tick = NoTick
    /\ conflict = {}
    /\ deaths = 0
    /\ edits = 0

Go(p, there) == at' = [at EXCEPT ![p] = there]
End(p) == at' = [at EXCEPT ![p] = "idle"] /\ work' = [work EXCEPT ![p] = NoWork]
Journal(b, st) == journal' = [journal EXCEPT ![b].state = st]

-----------------------------------------------------------------------------
(* submit_durable                                                          *)

\* reconcile_resubmit: the record with the greatest id of this configuration
\* decides.
Latest(d) ==
    LET same == {b \in BatchIds : journal[b].state # "none" /\ journal[b].digest = d}
    IN  IF same = {} THEN 0 ELSE CHOOSE b \in same : \A o \in same : o <= b
MayResubmit(d) == IF Latest(d) = 0 THEN TRUE ELSE journal[Latest(d)].state = "failed"

\* A refusal (or a delivered batch that is returned) changes no record.
DecideResubmit(p, d) ==
    /\ at[p] = "idle"
    /\ MayResubmit(d)
    /\ work' = [work EXCEPT ![p] = [NoWork EXCEPT !.digest = d]]
    /\ Go(p, "decided")
    /\ UNCHANGED <<journal, job, file, registry, sidecar, tick, conflict, deaths, edits>>

\* The intent is not journaled before the provider is called.
SubmittedLate(p, b) ==
    /\ at[p] = "decided"
    /\ journal[b].state = "none"
    /\ work' = [work EXCEPT ![p].id = b]
    /\ Go(p, "journaled")
    /\ UNCHANGED <<journal, job, file, registry, sidecar, tick, conflict, deaths, edits>>

\* The intent is journaled under a fresh uuid before the provider is called.
JournalSubmitted(p, b) ==
    /\ at[p] = "decided"
    /\ journal[b].state = "none"
    /\ journal' = [journal EXCEPT ![b] = [NoRecord EXCEPT !.state = "submitted",
                                                          !.digest = work[p].digest]]
    /\ work' = [work EXCEPT ![p].id = b]
    /\ Go(p, "journaled")
    /\ UNCHANGED <<job, file, registry, sidecar, tick, conflict, deaths, edits>>

\* The provider takes the job, or fails before or after it has.
ProviderSubmit(p) ==
    /\ at[p] = "journaled"
    /\ \/ /\ \E st \in {"pending", "ready"} : job' = [job EXCEPT ![work[p].id] = st]
          /\ Go(p, "accepted")
       \/ /\ job' \in {job, [job EXCEPT ![work[p].id] = "pending"]}
          /\ Go(p, "ambiguous")
    /\ UNCHANGED <<journal, file, registry, sidecar, work, tick, conflict, deaths, edits>>

JournalUnknown(p) ==
    /\ at[p] = "ambiguous"
    /\ Journal(work[p].id, "unknown")
    /\ End(p)
    /\ UNCHANGED <<job, file, registry, sidecar, tick, conflict, deaths, edits>>

JournalLinked(p) ==
    /\ at[p] = "accepted"
    /\ journal' = [journal EXCEPT ![work[p].id].linked = TRUE]
    /\ Go(p, "linked")
    /\ UNCHANGED <<job, file, registry, sidecar, work, tick, conflict, deaths, edits>>

\* The daemon registers plan and executor, which waits for a tick to end; the
\* command line does not.
Register(p) ==
    /\ at[p] = "linked"
    /\ p = "admit" => tick = NoTick
    /\ registry' = IF p = "admit" THEN Append(registry, work[p].id) ELSE registry
    /\ Go(p, "registered")
    /\ UNCHANGED <<journal, job, file, sidecar, work, tick, conflict, deaths, edits>>

PersistPlan(p) ==
    /\ at[p] = "registered"
    /\ sidecar' = sidecar \cup {work[p].id}
    /\ End(p)
    /\ UNCHANGED <<journal, job, file, registry, tick, conflict, deaths, edits>>

-----------------------------------------------------------------------------
(* collect_durable_with_plan                                               *)

CliCollect(b) ==
    /\ at["cli"] = "idle"
    /\ b \in sidecar
    /\ work' = [work EXCEPT !["cli"] = [NoWork EXCEPT !.id = b]]
    /\ Go("cli", "collect")
    /\ UNCHANGED <<journal, job, file, registry, sidecar, tick, conflict, deaths, edits>>

\* The record is read; Delivered returns, and without a link it is refused.
ReadRecord(p) ==
    /\ at[p] = "collect"
    /\ LET r == journal[work[p].id]
       IN  IF r.state = "delivered" \/ ~r.linked
           THEN End(p)
           ELSE /\ work' = [work EXCEPT ![p] = [@ EXCEPT !.digest = r.digest,
                                                            !.left = Items, !.clean = TRUE]]
                /\ Go(p, "known")
    /\ UNCHANGED <<journal, job, file, registry, sidecar, tick, conflict, deaths, edits>>

JournalCollecting(p) ==
    /\ at[p] = "known"
    /\ Journal(work[p].id, "collecting")
    /\ Go(p, "status")
    /\ UNCHANGED <<job, file, registry, sidecar, work, tick, conflict, deaths, edits>>

\* The mock provider of `batch collect` is rebuilt with a ready job.
Seen(p, b) == IF p = "cli" /\ ~SharedProvider THEN "ready" ELSE job[b]

\* provider.status and, when it is ready, collect_results.
AskStatus(p) ==
    /\ at[p] = "status"
    /\ LET st == Seen(p, work[p].id)
       IN  \/ st = "ready" /\ Go(p, "deliver") /\ UNCHANGED work
           \/ st = "failed" /\ Go(p, "failing") /\ UNCHANGED work
           \/ st = "odd" /\ Go(p, "ambiguous") /\ UNCHANGED work
           \/ st \in {"pending", "none"} /\ End(p)
    /\ UNCHANGED <<journal, job, file, registry, sidecar, tick, conflict, deaths, edits>>

JournalFailed(p) ==
    /\ at[p] = "failing"
    /\ Journal(work[p].id, "failed")
    /\ End(p)
    /\ UNCHANGED <<job, file, registry, sidecar, tick, conflict, deaths, edits>>

\* deliver_item: an item the journal has is left alone; a file that is not the
\* source any more is a conflict; otherwise the result is written.
ItemConflicts(b, d, i) == i \notin journal[b].items /\ file[<<d, i>>] \in {"edited", "result"}

\* An item whose file does not exist yet is journaled without a write.
DeliverExisting(p, i) ==
    /\ at[p] = "deliver"
    /\ i \in work[p].left
    /\ ~ItemConflicts(work[p].id, work[p].digest, i)
    /\ file' = IF i \in journal[work[p].id].items \/ file[<<work[p].digest, i>>] = "absent"
               THEN file ELSE [file EXCEPT ![<<work[p].digest, i>>] = "result"]
    /\ work' = [work EXCEPT ![p].left = @ \ {i}, ![p].item = i]
    /\ Go(p, "wrote")
    /\ UNCHANGED <<journal, job, registry, sidecar, tick, conflict, deaths, edits>>

DeliverItem(p, i) ==
    /\ at[p] = "deliver"
    /\ i \in work[p].left
    /\ ~ItemConflicts(work[p].id, work[p].digest, i)
    /\ file' = IF i \in journal[work[p].id].items THEN file
               ELSE [file EXCEPT ![<<work[p].digest, i>>] = "result"]
    /\ work' = [work EXCEPT ![p].left = @ \ {i}, ![p].item = i]
    /\ Go(p, "wrote")
    /\ UNCHANGED <<journal, job, registry, sidecar, tick, conflict, deaths, edits>>

ReportConflict(p, i) ==
    /\ at[p] = "deliver"
    /\ i \in work[p].left
    /\ ItemConflicts(work[p].id, work[p].digest, i)
    /\ work' = [work EXCEPT ![p].left = @ \ {i}, ![p].clean = FALSE]
    /\ conflict' = conflict \cup {<<work[p].id, i, file[<<work[p].digest, i>>]>>}
    /\ UNCHANGED <<journal, job, file, registry, sidecar, at, tick, deaths, edits>>

JournalItem(p) ==
    /\ at[p] = "wrote"
    /\ journal' = [journal EXCEPT ![work[p].id].items = @ \cup {work[p].item}]
    /\ Go(p, "deliver")
    /\ UNCHANGED <<job, file, registry, sidecar, work, tick, conflict, deaths, edits>>

\* Delivered is journaled after the first item.
FinishEarly(p) ==
    /\ at[p] = "deliver"
    /\ work[p].left # Items
    /\ IF work[p].clean THEN Journal(work[p].id, "delivered") ELSE UNCHANGED journal
    /\ End(p)
    /\ UNCHANGED <<job, file, registry, sidecar, tick, conflict, deaths, edits>>

\* Delivered is journaled when no item was in conflict.
FinishCollect(p) ==
    /\ at[p] = "deliver"
    /\ work[p].left = {}
    /\ IF work[p].clean THEN Journal(work[p].id, "delivered") ELSE UNCHANGED journal
    /\ End(p)
    /\ UNCHANGED <<job, file, registry, sidecar, tick, conflict, deaths, edits>>

-----------------------------------------------------------------------------
(* poll_all: every executor polls every batch of the session               *)

\* batch_record_poll_eligible
Eligible == {b \in BatchIds : \/ journal[b].state = "collecting"
                              \/ journal[b].state = "submitted" /\ journal[b].linked}
\* Every executor has a provider of its own.
ExecutorOwns(e, b) == registry[e] = b
ExecutorKnows(e, b) == SharedProvider \/ registry[e] = b
Plans == {registry[e] : e \in 1..Len(registry)}

\* The next executor reads the records, or the tick is over.
NextExecutor ==
    /\ at["tick"] = "idle"
    /\ tick.todo = {}
    /\ registry # <<>>
    /\ tick' = IF tick.exec < Len(registry)
               THEN [exec |-> tick.exec + 1, todo |-> Eligible] ELSE NoTick
    /\ UNCHANGED <<journal, job, file, registry, sidecar, at, work, conflict, deaths, edits>>

\* One batch of the list: without a plan it is skipped; a provider that does
\* not know the job ends the whole tick with an error.
PollBatch ==
    /\ at["tick"] = "idle"
    /\ tick.todo # {}
    /\ LET b == CHOOSE x \in tick.todo : \A y \in tick.todo : x <= y
           known == ExecutorKnows(tick.exec, b) /\ job[b] # "none"
           started == [work EXCEPT !["tick"] = [NoWork EXCEPT !.id = b]]
       IN  \/ /\ b \notin Plans \/ (known /\ job[b] = "pending")
              /\ tick' = [tick EXCEPT !.todo = @ \ {b}]
              /\ UNCHANGED <<at, work>>
           \/ /\ b \in Plans /\ ~known
              /\ tick' = NoTick
              /\ UNCHANGED <<at, work>>
           \/ /\ b \in Plans /\ known /\ job[b] # "pending"
              /\ tick' = [tick EXCEPT !.todo = @ \ {b}]
              /\ work' = started
              /\ Go("tick", CASE job[b] = "ready" -> "collect"
                              [] job[b] = "failed" -> "failing"
                              [] OTHER -> "ambiguous")
    /\ UNCHANGED <<journal, job, file, registry, sidecar, conflict, deaths, edits>>

-----------------------------------------------------------------------------
(* the world                                                               *)

ProviderWorks(b) ==
    /\ job[b] = "pending"
    /\ \E st \in {"ready", "failed", "odd"} : job' = [job EXCEPT ![b] = st]
    /\ UNCHANGED <<journal, file, registry, sidecar, at, work, tick, conflict, deaths, edits>>

UserEdits(f) ==
    /\ edits < MaxEdits
    /\ edits' = edits + 1
    /\ file' = [file EXCEPT ![f] = "edited"]
    /\ UNCHANGED <<journal, job, registry, sidecar, at, work, tick, conflict, deaths>>

\* A death after which the tick goes on with an executor that is gone.
DiesMidTick ==
    /\ deaths < MaxDeaths
    /\ deaths' = deaths + 1
    /\ at' = [at EXCEPT !["admit"] = "idle", !["tick"] = "idle"]
    /\ work' = [work EXCEPT !["admit"] = NoWork, !["tick"] = NoWork]
    /\ registry' = <<>>
    /\ UNCHANGED <<journal, job, file, sidecar, tick, conflict, edits>>

\* The daemon dies, or a journal append fails in it: requests and tick end.  The
\* registry, and a mock provider's jobs, are not restored at its next start.
DaemonDies ==
    /\ deaths < MaxDeaths
    /\ deaths' = deaths + 1
    /\ at' = [at EXCEPT !["admit"] = "idle", !["tick"] = "idle"]
    /\ work' = [work EXCEPT !["admit"] = NoWork, !["tick"] = NoWork]
    /\ tick' = NoTick
    /\ registry' = <<>>
    /\ job' = IF SharedProvider THEN job ELSE [b \in BatchIds |-> "none"]
    /\ UNCHANGED <<journal, file, sidecar, conflict, edits>>

CommandDies ==
    /\ deaths < MaxDeaths
    /\ at["cli"] # "idle"
    /\ deaths' = deaths + 1
    /\ End("cli")
    /\ UNCHANGED <<journal, job, file, registry, sidecar, tick, conflict, edits>>

Submit(p) ==
    \/ \E d \in Digests : DecideResubmit(p, d)
    \/ \E b \in BatchIds : JournalSubmitted(p, b)
    \/ ProviderSubmit(p) \/ JournalLinked(p) \/ Register(p) \/ PersistPlan(p)

Collect(p) ==
    \/ ReadRecord(p) \/ JournalCollecting(p) \/ AskStatus(p)
    \/ JournalFailed(p) \/ JournalUnknown(p)
    \/ \E i \in Items : DeliverItem(p, i) \/ ReportConflict(p, i)
    \/ JournalItem(p) \/ FinishCollect(p)

Tick == NextExecutor \/ PollBatch \/ Collect("tick")

BatchNext ==
    \/ \E p \in Submitters : Submit(p) \/ JournalUnknown(p)
    \/ \E b \in BatchIds : CliCollect(b) \/ ProviderWorks(b)
    \/ Collect("cli")
    \/ Tick
    \/ \E f \in Digests \X Items : UserEdits(f)
    \/ DaemonDies
    \/ CommandDies

BatchSpec == BatchInit /\ [][BatchNext]_batchVars

\* tokio's interval fires again and again, and a tick that has begun goes on.
BatchFairness == WF_batchVars(Tick) /\ WF_batchVars(Collect("cli"))
BatchFairSpec == BatchSpec /\ BatchFairness

-----------------------------------------------------------------------------

\* Journal, jobs, files and processes keep their shape.
BatchTypeOK ==
    /\ journal \in [BatchIds ->
            [state : {"none", "submitted", "collecting", "delivered", "failed", "unknown"},
             digest : Digests \cup {"none"}, linked : BOOLEAN, items : SUBSET Items]]
    /\ job \in [BatchIds -> JobStates]
    /\ file \in [Digests \X Items -> Contents]
    /\ registry \in Seq(BatchIds)
    /\ sidecar \subseteq BatchIds
    /\ tick.exec \in 0..Len(registry)
    /\ tick.todo \subseteq BatchIds

\* Nothing is paid for without a trace: a job the provider has belongs to a
\* batch that was journaled with the same configuration before, whoever dies
\* between the journal and the provider.
JobIsJournaled == \A b \in BatchIds : job[b] # "none" => journal[b].state # "none"

\* A delivered batch is complete: every item of its plan was journaled, although
\* the tick and a command may collect it at the same time, die half way and
\* start again from an older record.
DeliveredIsComplete ==
    \A b \in BatchIds : journal[b].state = "delivered" => journal[b].items = Items

\* An item is journaled as delivered only when its result reached the file; only
\* the user can have changed the file since.
DeliveredReachedFile ==
    \A b \in BatchIds, i \in Items :
        i \in journal[b].items => file[<<journal[b].digest, i>>] \in {"result", "edited"}

\* A batch that is registered with the daemon and whose job is ready is collected
\* by the poll loop: it is delivered, or an item is found in conflict.
ReadyIsCollected ==
    \A b \in BatchIds :
        (b \in Plans /\ b \in Eligible /\ job[b] = "ready")
            ~> (\/ journal[b].state \in {"delivered", "failed", "unknown"}
                \/ \E x \in conflict : x[1] = b
                \/ b \notin Plans)

=============================================================================
