------------------------------ MODULE Workflow ------------------------------
(***************************************************************************)
(* WorkflowRuntime with its WorkflowEngine, the scheduler, the lease table *)
(* of writers, the gate of child runs and the durable child results.  The  *)
(* runtime drops its lock while a child runs, so several connections       *)
(* advance, cancel and replace the workflow of a session while children    *)
(* of it are under way.  A recipe is a chain of steps, as all the recipes  *)
(* are that the daemon accepts.                                            *)
(***************************************************************************)
EXTENDS Naturals, FiniteSets, Sequences

CONSTANTS
    Chats,        \* sessions
    Drivers,      \* connections
    NoDriver,
    Recipe,       \* the role of each step; "none" for the approval step
    MaxRetries,   \* WorkflowBudget.max_retries (the runtime passes 0)
    MaxStarts     \* bound on the workflows started

\* The places of a caller, which are no session's id.
Stations == {"idle", "build", "spawn", "leased", "running", "ended", "back"}

ASSUME WorkflowConstants ==
    /\ NoDriver \notin Drivers
    /\ Chats \cap Stations = {}
    /\ Recipe \in Seq({"Explore", "Research", "Build", "Review", "none"})
    /\ MaxRetries \in Nat
    /\ MaxStarts \in Nat

VARIABLES
    engine,       \* per session: the engine bound to it, or NoEngine
    starts,       \* number of workflows started
    token,        \* step_cancels: the caller whose child a step's token reaches
    lease,        \* WriterLeaseTable: the children with a lease
    gate,         \* holder of the gate's mutex
    results,      \* ChildResultStore
    worktree,     \* binding of the session's worktree
    doing,        \* what each caller does next
    child         \* the child it runs

wfVars == <<engine, starts, token, lease, gate, results, worktree, doing, child>>

Steps == 1..Len(Recipe)
Children == Chats \X Steps
NoEngine == [status |-> "none", step |-> [k \in Steps |-> "pending"],
             attempts |-> [k \in Steps |-> 0], schedule |-> [k \in Steps |-> "none"]]
NewEngine == [NoEngine EXCEPT !.status = "running"]
NoChild == [chat |-> "none", step |-> 0, cancelled |-> FALSE, outcome |-> "none"]
Finished == {"completed", "cancelled", "failed"}
NoTokens == [k \in Steps |-> NoDriver]

WfInit ==
    /\ engine = [s \in Chats |-> NoEngine]
    /\ starts = 0
    /\ token = [s \in Chats |-> NoTokens]
    /\ lease = {}
    /\ gate = NoDriver
    /\ results = [i \in Children |-> "none"]
    /\ worktree = [s \in Chats |-> "none"]
    /\ doing = [c \in Drivers |-> "idle"]
    /\ child = [c \in Drivers |-> NoChild]

ChildId(c) == <<child[c].chat, child[c].step>>
Role(c) == Recipe[child[c].step]
Turn(c, there) == doing' = [doing EXCEPT ![c] = there]
Leave(c) == Turn(c, "idle") /\ child' = [child EXCEPT ![c] = NoChild]

-----------------------------------------------------------------------------
(* the engine                                                              *)

\* A step whose dependencies are only begun.
ReadyWhenBegun(e, k) == e.step[k] = "pending" /\ \A j \in 1..(k - 1) : e.step[j] # "pending"

\* is_ready and next_ready_step
Ready(e, k) == e.step[k] = "pending" /\ \A j \in 1..(k - 1) : e.step[j] = "completed"

\* begin_step_with_scheduler
Begun(e, k) == [e EXCEPT !.step[k] = "running", !.schedule[k] = "admitted"]

\* complete_step_with_scheduler: only a running step; the last one completes the run.
CompletedStep(e, k) ==
    IF e.status \in Finished \/ e.step[k] # "running" THEN e
    ELSE LET done == [e EXCEPT !.step[k] = "completed", !.schedule[k] = "completed"]
         IN  IF \A j \in Steps : done.step[j] = "completed"
             THEN [done EXCEPT !.status = "completed"] ELSE done

\* A step that is ready again while the run is over.
FailedStepLoose(e, k) ==
    IF e.status \in Finished \/ e.step[k] # "running" THEN e
    ELSE [e EXCEPT !.step[k] = "failed", !.attempts[k] = @ + 1, !.status = "failed"]

\* One retry too many.
FailedStepAgain(e, k) ==
    IF e.status \in Finished \/ e.step[k] # "running" THEN e
    ELSE LET failed == [e EXCEPT !.attempts[k] = @ + 1, !.schedule[k] = "cancelled"]
         IN  IF failed.attempts[k] <= MaxRetries + 1
             THEN [failed EXCEPT !.step[k] = "pending"]
             ELSE [failed EXCEPT !.step[k] = "failed", !.status = "failed"]

\* fail_step, then the schedule is cancelled; not when the step was not running.
FailedStep(e, k) ==
    IF e.status \in Finished \/ e.step[k] # "running" THEN e
    ELSE LET failed == [e EXCEPT !.attempts[k] = @ + 1, !.schedule[k] = "cancelled"]
         IN  IF failed.attempts[k] <= MaxRetries
             THEN [failed EXCEPT !.step[k] = "pending"]
             ELSE [failed EXCEPT !.step[k] = "failed", !.status = "failed"]

\* cancel_with_scheduler: schedules first, then the steps of a run that is not over.
CancelledEngine(e) ==
    LET drained == [e EXCEPT !.schedule =
                        [k \in Steps |-> IF @[k] = "admitted" THEN "cancelled" ELSE @[k]]]
    IN  IF e.status \in Finished THEN drained
        ELSE [drained EXCEPT !.status = "cancelled", !.step =
                 [k \in Steps |-> IF @[k] \in {"pending", "running"} THEN "cancelled" ELSE @[k]]]

-----------------------------------------------------------------------------
(* start, replace and cancel                                               *)

\* cancel_session: the tokens of the binding fire, the binding is dropped with
\* its engine, and an active worktree is stopped.
CancelSession(s) ==
    /\ child' = [c \in Drivers |->
                    IF \E k \in Steps : token[s][k] = c
                    THEN [child[c] EXCEPT !.cancelled = TRUE] ELSE child[c]]
    /\ engine' = [engine EXCEPT ![s] = NoEngine]
    /\ token' = [token EXCEPT ![s] = NoTokens]
    /\ worktree' = [worktree EXCEPT ![s] = IF @ = "active" THEN "stopped" ELSE @]

\* CancelWorkflow, Cancel and the end of the session's run.
CancelWorkflow(s) ==
    /\ engine[s] # NoEngine \/ worktree[s] = "active"
    /\ CancelSession(s)
    /\ UNCHANGED <<starts, lease, gate, results, doing>>

\* StartWorkflow cancels what there is and inserts the new binding in a second
\* critical section.
StartWorkflow(c, s) ==
    /\ doing[c] = "idle"
    /\ starts + Cardinality({d \in Drivers : doing[d] \in Chats}) < MaxStarts
    /\ CancelSession(s)
    /\ Turn(c, s)
    /\ UNCHANGED <<starts, lease, gate, results>>

InsertWorkflow(c, s) ==
    /\ doing[c] = s
    /\ starts' = starts + 1
    /\ engine' = [engine EXCEPT ![s] = NewEngine]
    /\ token' = [token EXCEPT ![s] = NoTokens]
    /\ Turn(c, "idle")
    /\ UNCHANGED <<lease, gate, results, worktree, child>>

-----------------------------------------------------------------------------
(* run_next_ready_step                                                     *)

\* First critical section: the next ready step begins and gets a token; then the
\* lock is dropped.  A step without a role is completed as it is.
AdvanceWorkflow(c, s) ==
    /\ doing[c] = "idle"
    /\ engine[s].status = "running"
    /\ \E k \in Steps :
         /\ Ready(engine[s], k)
         /\ engine' = [engine EXCEPT ![s] = Begun(@, k)]
         /\ token' = [token EXCEPT ![s][k] = c]
         /\ child' = [child EXCEPT ![c] =
                        [chat |-> s, step |-> k, cancelled |-> FALSE,
                         outcome |-> IF Recipe[k] = "none" THEN "completed" ELSE "none"]]
         /\ Turn(c, CASE Recipe[k] = "none" -> "back"
                      [] Recipe[k] = "Build" -> "build"
                      [] OTHER -> "spawn")
    /\ UNCHANGED <<starts, lease, gate, results, worktree>>

\* A Build child gets the session's worktree, created or resumed, as its working
\* directory and as its only write root.  write_set_from_roots finds nothing left
\* of the root relative to the directory and refuses the empty path; run_next_ready_step
\* returns the error and leaves the step as it is.
BuildRefused(c) ==
    /\ doing[c] = "build"
    /\ worktree' \in {worktree, [worktree EXCEPT ![child[c].chat] = "active"]}
    /\ Leave(c)
    /\ UNCHANGED <<engine, starts, token, lease, gate, results>>

\* Write sets: the path of an Explore child is its own, a child without write
\* roots overlaps everything.
Unknown(i) == Recipe[i[2]] # "Explore"
Overlaps(i, j) == Unknown(i) \/ Unknown(j)

\* A table that looks for the writer's own entry only.
MayAdmitOwn(i) == i \notin lease

MayAdmit(i) == i \notin lease /\ \A j \in lease : ~Overlaps(i, j)

AdmitLease(c) ==
    /\ doing[c] = "spawn"
    /\ MayAdmit(ChildId(c))
    /\ lease' = lease \cup {ChildId(c)}
    /\ Turn(c, "leased")
    /\ UNCHANGED <<engine, starts, token, gate, results, worktree, child>>

\* The lease is refused: the error ends the call, the step stays running.
RefuseLease(c) ==
    /\ doing[c] = "spawn"
    /\ ~MayAdmit(ChildId(c))
    /\ Leave(c)
    /\ UNCHANGED <<engine, starts, token, lease, gate, results, worktree>>

\* The runner holds the gate's mutex for as long as the child runs.
TakeGate(c) ==
    /\ doing[c] = "leased"
    /\ gate = NoDriver
    /\ gate' = c
    /\ Turn(c, "running")
    /\ UNCHANGED <<engine, starts, token, lease, results, worktree, child>>

\* The child ends; its result is recorded, the slot and the mutex are released.
\* A result that cannot be recorded is an error.
ChildEnds(c) ==
    /\ doing[c] = "running"
    /\ gate' = NoDriver
    /\ \E o \in {"completed", "failed", "cancelled"} :
         /\ o = "cancelled" => child[c].cancelled
         /\ \/ /\ results' = [results EXCEPT ![ChildId(c)] = o]
               /\ child' = [child EXCEPT ![c].outcome = o]
            \/ /\ child' = [child EXCEPT ![c].outcome = "error"]
               /\ UNCHANGED results
    /\ Turn(c, "ended")
    /\ UNCHANGED <<engine, starts, token, lease, worktree>>

\* The lease is released before an error is returned.
ReleaseLease(c) ==
    /\ doing[c] = "ended"
    /\ lease' = lease \ {ChildId(c)}
    /\ IF child[c].outcome = "error" THEN Leave(c) ELSE Turn(c, "back") /\ UNCHANGED child
    /\ UNCHANGED <<engine, starts, token, gate, results, worktree>>

\* Second critical section: whatever is bound to the session now gets the outcome.
FinishStep(c) ==
    /\ doing[c] = "back"
    /\ LET s == child[c].chat
           k == child[c].step
           o == child[c].outcome
       IN  /\ engine' = [engine EXCEPT ![s] =
                            IF @ = NoEngine THEN @
                            ELSE IF o = "completed" THEN CompletedStep(@, k)
                            ELSE IF o = "failed" THEN FailedStep(@, k)
                            ELSE CancelledEngine(@)]
           /\ token' = [token EXCEPT ![s][k] = NoDriver]
    /\ Leave(c)
    /\ UNCHANGED <<starts, lease, gate, results, worktree>>

RunStep(c) ==
    \/ BuildRefused(c) \/ AdmitLease(c) \/ RefuseLease(c) \/ TakeGate(c)
    \/ ChildEnds(c) \/ ReleaseLease(c) \/ FinishStep(c)

WfNext ==
    \/ \E s \in Chats : CancelWorkflow(s)
    \/ \E c \in Drivers, s \in Chats :
         StartWorkflow(c, s) \/ InsertWorkflow(c, s) \/ AdvanceWorkflow(c, s)
    \/ \E c \in Drivers : RunStep(c)

WfSpec == WfInit /\ [][WfNext]_wfVars

-----------------------------------------------------------------------------

\* Engines, tokens, leases, results and callers keep their shape.
WfTypeOK ==
    /\ \A s \in Chats :
         /\ engine[s].status \in Finished \cup {"none", "running"}
         /\ engine[s].step \in [Steps -> Finished \cup {"pending", "running"}]
         /\ engine[s].attempts \in [Steps -> 0..(MaxRetries + 1)]
         /\ engine[s].schedule \in [Steps -> {"none", "admitted", "completed", "cancelled"}]
         /\ token[s] \in [Steps -> Drivers \cup {NoDriver}]
    /\ lease \subseteq Children
    /\ gate \in Drivers \cup {NoDriver}
    /\ results \in [Children -> Finished \cup {"none"}]
    /\ worktree \in [Chats -> {"none", "active", "stopped"}]

Writing == {"leased", "running", "ended"}

\* Writers exclude each other: a child that may write anywhere runs alone, and no
\* child runs twice at a time, although a workflow is replaced by one with the
\* same child ids while a child of the first still runs.
WritersExclusive ==
    \A c, d \in Drivers :
        (c # d /\ doing[c] \in Writing /\ doing[d] \in Writing) =>
            /\ ChildId(c) # ChildId(d)
            /\ ~Overlaps(ChildId(c), ChildId(d))

\* No step runs or completes before the steps it depends on have completed, whose
\* outcome ever is applied to the engine that is bound now.
DependenciesFirst ==
    \A s \in Chats, k \in Steps :
        engine[s].step[k] \in {"running", "completed"} =>
            \A j \in 1..(k - 1) : engine[s].step[j] = "completed"

\* The scheduler's slots follow the steps: an admitted schedule belongs to a
\* running step, and a workflow that is over has none left.
NoOrphanSchedule ==
    \A s \in Chats, k \in Steps :
        engine[s].schedule[k] = "admitted" =>
            engine[s].step[k] = "running" /\ engine[s].status \notin Finished

=============================================================================
