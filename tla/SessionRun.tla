----------------------------- MODULE SessionRun -----------------------------
(***************************************************************************)
(* One session of the harness: the requests Prompt, Steer, FollowUp,       *)
(* Cancel and ResolveApproval (crates/impetus-core/src/harness_api.rs),    *)
(* the agent-loop tasks they spawn, and a crash of the daemon.             *)
(*                                                                         *)
(* Durable state is the projection of the session's event log: the active  *)
(* run and the outcome of every run, the revision of the latest intent,    *)
(* the approvals and the tool calls deferred on them.  Everything else     *)
(* (router, cancellation handle, steer queue, tasks, the session mutex)    *)
(* lives in the daemon's memory.                                           *)
(*                                                                         *)
(* A process is a client connection, which serves one request at a time,   *)
(* or an agent-loop task.  Prompt, Cancel and the drain of a follow-up     *)
(* hold the session mutex; ResolveApproval and the loops do not.  A step   *)
(* reads or appends the log once, or reads it before it appends where the  *)
(* mutex keeps everyone else from starting a run in between.               *)
(***************************************************************************)
EXTENDS Integers, Sequences, FiniteSets

CONSTANTS
    Clients,        \* client connections
    Loops,          \* slots for agent-loop tasks
    None,           \* nobody holds the mutex
    MaxIntents,     \* bound: Prompt, Steer and FollowUp requests
    MaxApprovals,   \* bound: approval requests
    MaxCrashes      \* bound: crashes of the daemon

ASSUME ProcsAssumption ==
    /\ Clients \cap Loops = {}
    /\ None \notin Clients \cup Loops
ASSUME BoundsAssumption ==
    MaxIntents \in Nat /\ MaxApprovals \in Nat /\ MaxCrashes \in Nat

VARIABLES
    \* durable: the projection of the event log
    activeRun,    \* active_run_id, 0 when there is none
    outcome,      \* outcome[r]: how run r ended, "open" while it has not
    intents,      \* Intent events so far; the last one is the latest revision
    approvals,    \* approvals[a]: the a-th approval requested, for tool call a
    \* the daemon's memory
    owner,        \* approval_owners: the connection bound to the session
    lock,         \* holder of the session mutex
    routerRun,    \* UserIntentRouter: active_run_id of the session
    followUps,    \* UserIntentRouter: queued follow-ups, by intent revision
    handle,       \* cancellations[session]: [run, loop] or NoHandle
    cancelled,    \* loops whose cancellation token is cancelled
    steerQueue,   \* SteerPendingQueue: the run each fragment was accepted for
    pc,           \* what each process does next
    run,          \* the run a process works for
    carry,        \* what a process took along: a follow-up, a revision or a tool call
    req,          \* the ResolveApproval request a client serves
    \* bookkeeping for the properties
    submitted,    \* requests submitted
    crashes,      \* crashes so far
    fired         \* follow-ups started as a turn, in order

durable == <<activeRun, outcome, intents, approvals>>
memory == <<owner, lock, routerRun, followUps, handle, cancelled, steerQueue, pc, run, carry, req>>
history == <<submitted, crashes, fired>>
vars == <<durable, memory, history>>

Procs == Clients \cup Loops
Runs == DOMAIN outcome
NoHandle == [run |-> 0, loop |-> None]
NoReq == [app |-> 0, accepted |-> FALSE, tool |-> 0, fresh |-> FALSE]

\* A mutating tool call nobody was asked about.
AllowedCall == MaxApprovals + 1

\* Agent-loop program points at which the loop still works for its run.
Executing == {"build", "top", "model", "tools", "request", "defer", "ok", "gate", "err", "interrupted"}

ClientPoints == {"idle", "steer", "start", "launch", "cancel", "take", "turn",
                 "resolve", "record", "execute", "resume"}
LoopPoints == Executing \cup {"off", "remove", "removeDrain", "take", "lock",
                              "turn", "start", "launch"}

-----------------------------------------------------------------------------
(* The projection                                                           *)

Pending == {a \in DOMAIN approvals : approvals[a].state = "pending"}

\* AgentRuntime::status() = Running.
Running == activeRun # 0 /\ Pending = {}

\* Mutant: see FinishRun; the active run is not checked.
FinishRunUnchecked(r, how) ==
    /\ activeRun' = 0
    /\ outcome' = [outcome EXCEPT ![r] = how]

\* finish_run(r): recorded only for the active run; reduce ignores the rest.
FinishRun(r, how) ==
    /\ activeRun' = IF activeRun = r THEN 0 ELSE activeRun
    /\ outcome' = IF activeRun = r THEN [outcome EXCEPT ![r] = how] ELSE outcome

-----------------------------------------------------------------------------
(* Steps shared by the processes                                            *)

Goto(p, point) == pc' = [pc EXCEPT ![p] = point]

\* Where a process is when its turn-starting work is over.
Finished(p) == IF p \in Clients THEN "idle" ELSE "off"

\* Mutant: whoever was at work is left where a request handler ends.
ReturnIdle(p) ==
    /\ lock' = None
    /\ Goto(p, "idle")
    /\ run' = [run EXCEPT ![p] = 0]

\* The guard of the session mutex goes out of scope and the work is over.
Return(p) ==
    /\ lock' = None
    /\ Goto(p, Finished(p))
    /\ run' = [run EXCEPT ![p] = 0]

\* launch_agent_run: a new cancellation handle and a new task for run r.
Spawn(l, r) ==
    /\ handle' = [run |-> r, loop |-> l]
    /\ cancelled' = cancelled \ {l}

\* Mutant: the follow-up is read and left in the queue.
TakeFollowUpPeeks(p) ==
    /\ pc[p] = "take"
    /\ carry' = [carry EXCEPT ![p] = IF followUps = <<>> THEN 0 ELSE Head(followUps)]
    /\ IF followUps = <<>>
       THEN /\ lock' = IF p \in Clients THEN None ELSE lock
            /\ Goto(p, Finished(p))
            /\ run' = [run EXCEPT ![p] = 0]
       ELSE /\ Goto(p, IF p \in Clients THEN "turn" ELSE "lock")
            /\ UNCHANGED <<lock, run>>
    /\ UNCHANGED <<owner, durable, routerRun, followUps, handle, cancelled, steerQueue, req, history>>

\* take_follow_up_on_run_terminal: only the first caller for a run gets one.
TakeFollowUp(p) ==
    /\ pc[p] = "take"
    /\ LET matches == routerRun = run[p]
           got == matches /\ followUps # <<>>
       IN  /\ routerRun' = IF matches THEN 0 ELSE routerRun
           /\ followUps' = IF got THEN Tail(followUps) ELSE followUps
           /\ carry' = [carry EXCEPT ![p] = IF got THEN Head(followUps) ELSE 0]
           /\ IF got
              THEN /\ Goto(p, IF p \in Clients THEN "turn" ELSE "lock")
                   /\ UNCHANGED <<lock, run>>
              ELSE /\ lock' = IF p \in Clients THEN None ELSE lock
                   /\ Goto(p, Finished(p))
                   /\ run' = [run EXCEPT ![p] = 0]
    /\ UNCHANGED <<owner, durable, handle, cancelled, steerQueue, req, history>>

\* Mutant: a follow-up is started without looking at the active run.
BeginTurnUnchecked(p) ==
    /\ pc[p] = "turn"
    /\ carry' = [carry EXCEPT ![p] = 0]
    /\ intents' = intents + 1
    /\ fired' = Append(fired, carry[p])
    /\ Goto(p, "start")
    /\ UNCHANGED <<owner, activeRun, outcome, approvals, lock, routerRun, followUps, run,
                   handle, cancelled, steerQueue, req, submitted, crashes>>

\* start_drained_follow_up_if_any, with the mutex held: the run guard of
\* submit_intent_and_start_run, then the Intent event and the second guard.
BeginTurn(p) ==
    /\ pc[p] = "turn"
    /\ carry' = [carry EXCEPT ![p] = 0]
    /\ IF activeRun = 0
       THEN /\ intents' = intents + 1
            /\ fired' = Append(fired, carry[p])
            /\ Goto(p, "start")
            /\ UNCHANGED <<lock, run>>
       ELSE Return(p) /\ UNCHANGED <<intents, fired>>
    /\ UNCHANGED <<owner, activeRun, outcome, approvals, routerRun, followUps,
                   handle, cancelled, steerQueue, req, submitted, crashes>>

\* start_run: the Started event, which makes the run active unconditionally,
\* and the router's active run.
StartRun(p) ==
    /\ pc[p] = "start"
    /\ LET r == Len(outcome) + 1
       IN  /\ outcome' = Append(outcome, "open")
           /\ activeRun' = r
           /\ routerRun' = r
           /\ run' = [run EXCEPT ![p] = r]
    /\ Goto(p, "launch")
    /\ UNCHANGED <<owner, intents, approvals, lock, followUps, handle, cancelled,
                   steerQueue, carry, req, history>>

\* get_or_default_session_model may refuse: the run stays active without a task.
ModelRefused(p) ==
    /\ pc[p] = "launch"
    /\ Return(p)
    /\ UNCHANGED <<owner, durable, routerRun, followUps, handle, cancelled, steerQueue,
                   carry, req, history>>

\* The task is spawned; the slot of a loop that ends here is free for it.
Launch(p, l) ==
    /\ pc[p] = "launch"
    /\ pc[l] = "off" \/ l = p
    /\ Spawn(l, run[p])
    /\ run' = [run EXCEPT ![p] = 0, ![l] = run[p]]
    /\ lock' = None
    /\ pc' = [pc EXCEPT ![p] = Finished(p), ![l] = "build"]
    /\ UNCHANGED <<owner, durable, routerRun, followUps, steerQueue, carry, req, history>>

-----------------------------------------------------------------------------
(* Prompt, Steer, FollowUp                                                  *)

\* A request takes the session mutex; the router is synchronised with the
\* projection before it accepts or refuses.
Submit(c) ==
    /\ pc[c] = "idle"
    /\ lock = None
    /\ submitted < MaxIntents
    /\ submitted' = submitted + 1
    /\ routerRun' = activeRun

Prompt(c) ==
    /\ Submit(c)
    /\ IF activeRun = 0
       THEN intents' = intents + 1 /\ lock' = c /\ Goto(c, "start")
       ELSE UNCHANGED <<intents, lock, pc>>
    /\ UNCHANGED <<owner, activeRun, outcome, approvals, followUps, handle,
                   cancelled, steerQueue, run, carry, req, crashes, fired>>

\* Steer is refused without an active run, else the rewriter is asked, which may
\* call a model while the mutex is held.
Steer(c) ==
    /\ Submit(c)
    /\ IF activeRun # 0
       THEN lock' = c /\ Goto(c, "steer") /\ run' = [run EXCEPT ![c] = activeRun]
       ELSE UNCHANGED <<lock, pc, run>>
    /\ UNCHANGED <<owner, durable, followUps, handle, cancelled, steerQueue, carry, req,
                   crashes, fired>>

\* The rewritten fragment is queued for the session, the original text recorded.
SteerAccepted(c) ==
    /\ pc[c] = "steer"
    /\ steerQueue' = steerQueue \cup {run[c]}
    /\ intents' = intents + 1
    /\ Return(c)
    /\ UNCHANGED <<owner, activeRun, outcome, approvals, routerRun, followUps,
                   handle, cancelled, carry, req, history>>

\* The rewriter refuses.
SteerRefused(c) ==
    /\ pc[c] = "steer"
    /\ Return(c)
    /\ UNCHANGED <<owner, durable, routerRun, followUps, handle, cancelled, steerQueue, carry,
                   req, history>>

\* Queued and recorded as an Intent, whether a run is active or not.
FollowUp(c) ==
    /\ Submit(c)
    /\ intents' = intents + 1
    /\ followUps' = Append(followUps, intents + 1)
    /\ UNCHANGED <<owner, activeRun, outcome, approvals, lock, handle, cancelled,
                   steerQueue, pc, run, carry, req, crashes, fired>>

-----------------------------------------------------------------------------
(* Cancel                                                                   *)

\* The token of the one handle is cancelled and the active run read.
Cancel(c) ==
    /\ pc[c] = "idle"
    /\ lock = None
    /\ activeRun # 0 \/ handle # NoHandle
    /\ lock' = c
    /\ cancelled' = IF handle = NoHandle THEN cancelled ELSE cancelled \cup {handle.loop}
    /\ run' = [run EXCEPT ![c] = activeRun]
    /\ Goto(c, "cancel")
    /\ UNCHANGED <<owner, durable, routerRun, followUps, handle, steerQueue, carry, req, history>>

\* Mutant: the drain of Cancel takes the mutex as the drain of a loop does.
CancelRunReenters(c) ==
    /\ pc[c] = "cancel"
    /\ lock = None
    /\ IF run[c] # 0 THEN FinishRun(run[c], "cancelled") ELSE UNCHANGED <<activeRun, outcome>>
    /\ Goto(c, "take")
    /\ lock' = c
    /\ UNCHANGED <<owner, intents, approvals, routerRun, followUps, handle,
                   cancelled, steerQueue, run, carry, req, history>>

\* runtime.cancel(): finishes the run unless the loop ended it meanwhile, in
\* which case it is a no-op or an InactiveRun error.  Then the drain, which must
\* not take the mutex again.
CancelRun(c) ==
    /\ pc[c] = "cancel"
    /\ IF run[c] # 0 THEN FinishRun(run[c], "cancelled") ELSE UNCHANGED <<activeRun, outcome>>
    /\ \/ run[c] # 0 /\ Goto(c, "take") /\ UNCHANGED <<lock, run>>
       \/ (run[c] = 0 \/ activeRun # run[c]) /\ Return(c)
    /\ UNCHANGED <<owner, intents, approvals, routerRun, followUps, handle,
                   cancelled, steerQueue, carry, req, history>>

-----------------------------------------------------------------------------
(* ResolveApproval: no mutex                                                *)

\* Attach binds a session no connection is bound to; CreateSession binds it first.
Attach(c) ==
    /\ pc[c] = "idle"
    /\ owner = None
    /\ owner' = c
    /\ UNCHANGED <<durable, lock, routerRun, followUps, handle, cancelled, steerQueue, pc,
                   run, carry, req, history>>

\* The request is answered, with a result or an error.
Answer(c) == Goto(c, "idle") /\ req' = [req EXCEPT ![c] = NoReq]

\* Refused to any connection but the one bound to the session.  The pending request
\* and its deferred tool call are read.
ResolveApproval(c, a, accepted) ==
    /\ pc[c] = "idle"
    /\ owner \in {None, c}
    /\ a \in Pending
    /\ req' = [req EXCEPT ![c] = [app |-> a, accepted |-> accepted, tool |-> approvals[a].tool,
                                  fresh |-> approvals[a].rev = intents]]
    /\ Goto(c, "resolve")
    /\ UNCHANGED <<owner, durable, lock, routerRun, followUps, handle, cancelled, steerQueue,
                   run, carry, history>>

\* The Resolved event: the approval and what is deferred on it leave the projection.
Resolved(a, state) ==
    approvals' = [approvals EXCEPT ![a].state = state, ![a].tool = 0]

\* Mutant: the revision is not compared.
IsFreshAlways(a) == a \in DOMAIN approvals

\* The latest intent is the one the approval was requested under.
IsFresh(a) == approvals[a].rev = intents

\* resolve_approval, the checks: still pending, and not stale.  A stale approval
\* is recorded as rejected and the request ends in an error.
CheckApproval(c) ==
    /\ pc[c] = "resolve"
    /\ LET a == req[c].app
       IN  \/ /\ a \notin Pending
              /\ Answer(c)
              /\ UNCHANGED approvals
           \/ /\ a \in Pending /\ IsFresh(a)
              /\ Goto(c, "record")
              /\ UNCHANGED <<approvals, req>>
           \/ /\ a \in Pending /\ ~IsFresh(a)
              /\ Resolved(a, "rejected")
              /\ Answer(c)
    /\ UNCHANGED <<owner, activeRun, outcome, intents, lock, routerRun, followUps, handle,
                   cancelled, steerQueue, run, carry, history>>

\* resolve_approval, the Resolved event; then a deferred tool call is executed or
\* its rejection recorded.  Without one the waiting stream continues by itself.
RecordResolution(c) ==
    /\ pc[c] = "record"
    /\ Resolved(req[c].app, IF req[c].accepted THEN "approved" ELSE "rejected")
    /\ IF req[c].tool # 0
       THEN Goto(c, IF req[c].accepted THEN "execute" ELSE "resume") /\ UNCHANGED req
       ELSE Answer(c)
    /\ UNCHANGED <<owner, activeRun, outcome, intents, lock, routerRun, followUps, handle,
                   cancelled, steerQueue, run, carry, history>>

\* execute_approved_write / execute_approved_bash, which compare the deferred call
\* with the approval by its action (tool name and target), not by its identity: an
\* error ends the request, anything else goes on to the resume.
ExecuteApproved(c) ==
    /\ pc[c] = "execute"
    /\ Answer(c) \/ (Goto(c, "resume") /\ UNCHANGED req)
    /\ UNCHANGED <<owner, durable, lock, routerRun, followUps, handle, cancelled, steerQueue,
                   run, carry, history>>

\* The active run is resumed by a new task, unless there is none or the model
\* selection is refused.
Resume(c, l) ==
    /\ pc[c] = "resume"
    /\ pc[l] = "off"
    /\ activeRun # 0
    /\ Spawn(l, activeRun)
    /\ run' = [run EXCEPT ![l] = activeRun]
    /\ req' = [req EXCEPT ![c] = NoReq]
    /\ pc' = [pc EXCEPT ![c] = "idle", ![l] = "build"]
    /\ UNCHANGED <<owner, durable, lock, routerRun, followUps, steerQueue, carry, history>>

NoResume(c) ==
    /\ pc[c] = "resume"
    /\ Answer(c)
    /\ UNCHANGED <<owner, durable, lock, routerRun, followUps, handle, cancelled, steerQueue,
                   run, carry, history>>

-----------------------------------------------------------------------------
(* The agent-loop task                                                      *)

\* Mutant: the loop does not look at its token.
LoopTopUncancelled(l) ==
    /\ pc[l] = "top"
    /\ steerQueue' = {}
    /\ Goto(l, IF Running THEN "model" ELSE "err")
    /\ UNCHANGED <<owner, durable, lock, routerRun, followUps, handle, cancelled, run, carry,
                   req, history>>

\* run_agent_loop finds the provider and builds the loop; when it cannot, the run
\* fails, whether its token is cancelled or not.
LoopBuild(l) ==
    /\ pc[l] = "build"
    /\ \/ Goto(l, "top") /\ UNCHANGED <<activeRun, outcome>>
       \/ /\ IF Running THEN FinishRun(run[l], "failed") ELSE UNCHANGED <<activeRun, outcome>>
          /\ Goto(l, "remove")
    /\ UNCHANGED <<owner, intents, approvals, lock, routerRun, followUps, handle,
                   cancelled, steerQueue, run, carry, req, history>>

\* AgentLoop::execute: cancelled or out of iterations, else the steer fragments are
\* taken and call_model checks the status.
LoopTop(l) ==
    /\ pc[l] = "top"
    /\ \/ Goto(l, "err") /\ UNCHANGED steerQueue
       \/ /\ l \notin cancelled
          /\ steerQueue' = {}
          /\ Goto(l, IF Running THEN "model" ELSE "err")
    /\ UNCHANGED <<owner, durable, lock, routerRun, followUps, handle, cancelled, run, carry,
                   req, history>>

\* One model turn: tool calls that mutate, read-only tool calls, a final answer
\* (recorded only for the active run), a failure or an unknown interruption.
LoopModel(l) ==
    /\ pc[l] = "model"
    /\ \/ \E point \in {"tools", "top", "err", "interrupted"} : Goto(l, point)
       \/ activeRun = run[l] /\ Goto(l, "ok")
    /\ UNCHANGED <<owner, durable, lock, routerRun, followUps, handle, cancelled, steerQueue,
                   run, carry, req, history>>

\* request_action on a mutating tool call: the latest revision is read ...
LoopAsk(l) ==
    /\ pc[l] = "tools"
    /\ Len(approvals) + Cardinality({k \in Loops : pc[k] = "request"}) < MaxApprovals
    /\ carry' = [carry EXCEPT ![l] = intents]
    /\ Goto(l, "request")
    /\ UNCHANGED <<owner, durable, lock, routerRun, followUps, handle, cancelled, steerQueue, run,
                   req, history>>

\* ... and an approval is requested under it.
LoopRequest(l) ==
    /\ pc[l] = "request"
    /\ approvals' = Append(approvals, [state |-> "pending", rev |-> carry[l], tool |-> 0])
    /\ carry' = [carry EXCEPT ![l] = Len(approvals) + 1]
    /\ Goto(l, "defer")
    /\ UNCHANGED <<owner, activeRun, outcome, intents, lock, routerRun, followUps, handle,
                   cancelled, steerQueue, run, req, history>>

\* process_single_tool defers a call on whichever approval was requested last; a
\* deferral on a resolved approval is never read.
DeferOnLatest(call) ==
    LET a == Len(approvals)
    IN  approvals' = IF a \in Pending THEN [approvals EXCEPT ![a].tool = call] ELSE approvals

LoopDefer(l) ==
    /\ pc[l] = "defer"
    /\ DeferOnLatest(carry[l])
    /\ carry' = [carry EXCEPT ![l] = 0]
    /\ Goto(l, "tools")
    /\ UNCHANGED <<owner, activeRun, outcome, intents, lock, routerRun, followUps, handle,
                   cancelled, steerQueue, run, req, history>>

\* The action is allowed without an approval: the call is not executed but deferred
\* all the same.
LoopAllowed(l) ==
    /\ pc[l] = "tools"
    /\ DeferOnLatest(AllowedCall)
    /\ UNCHANGED <<activeRun, outcome, intents, memory, history>>

\* The observations are added to the prompt.
LoopNextTurn(l) ==
    /\ pc[l] = "tools"
    /\ Goto(l, "top")
    /\ UNCHANGED <<owner, durable, lock, routerRun, followUps, handle, cancelled, steerQueue,
                   run, carry, req, history>>

\* run_agent_loop, result Ok: the gate is evaluated when the status is Running.
LoopOk(l) ==
    /\ pc[l] = "ok"
    /\ Goto(l, IF Running THEN "gate" ELSE "remove")
    /\ UNCHANGED <<owner, durable, lock, routerRun, followUps, handle, cancelled, steerQueue,
                   run, carry, req, history>>

\* CompletionGate and gap loop: Completed, and a drain whatever finish_run said,
\* or Failed.
LoopGate(l) ==
    /\ pc[l] = "gate"
    /\ \/ FinishRun(run[l], "completed") /\ Goto(l, "removeDrain")
       \/ FinishRun(run[l], "failed") /\ Goto(l, "remove")
    /\ UNCHANGED <<owner, intents, approvals, lock, routerRun, followUps, handle,
                   cancelled, steerQueue, run, carry, req, history>>

\* run_agent_loop, result Err: nothing after a cancellation or when the status is
\* not Running, else the run is ended.
LoopErr(l) ==
    /\ pc[l] \in {"err", "interrupted"}
    /\ IF l \notin cancelled /\ Running
       THEN FinishRun(run[l], IF pc[l] = "err" THEN "failed" ELSE "interrupted")
       ELSE UNCHANGED <<activeRun, outcome>>
    /\ Goto(l, "remove")
    /\ UNCHANGED <<owner, intents, approvals, lock, routerRun, followUps, handle,
                   cancelled, steerQueue, run, carry, req, history>>

\* The task removes the handle when it is of the same run, even if it is of a
\* later task of that run.
LoopRemove(l) ==
    /\ pc[l] \in {"remove", "removeDrain"}
    /\ handle' = IF handle.run = run[l] THEN NoHandle ELSE handle
    /\ cancelled' = cancelled \ {l}
    /\ IF pc[l] = "remove"
       THEN Goto(l, "off") /\ run' = [run EXCEPT ![l] = 0]
       ELSE Goto(l, "take") /\ UNCHANGED run
    /\ UNCHANGED <<owner, durable, lock, routerRun, followUps, steerQueue, carry, req, history>>

\* Mutant: the drain of a completed run does not wait for the mutex.
LoopLockUnguarded(l) ==
    /\ pc[l] = "lock"
    /\ lock' = l
    /\ Goto(l, "turn")
    /\ UNCHANGED <<owner, durable, routerRun, followUps, handle, cancelled, steerQueue, run,
                   carry, req, history>>

\* The drain of a completed run takes the mutex after it took the follow-up.
LoopLock(l) ==
    /\ pc[l] = "lock"
    /\ lock = None
    /\ lock' = l
    /\ Goto(l, "turn")
    /\ UNCHANGED <<owner, durable, routerRun, followUps, handle, cancelled, steerQueue, run,
                   carry, req, history>>

-----------------------------------------------------------------------------
(* The daemon dies and is started again: only the event log is left, and     *)
(* nothing ends the runs it left open.                                       *)
Crash ==
    /\ crashes < MaxCrashes
    /\ crashes' = crashes + 1
    /\ owner' = None
    /\ lock' = None
    /\ routerRun' = 0
    /\ followUps' = <<>>
    /\ handle' = NoHandle
    /\ cancelled' = {}
    /\ steerQueue' = {}
    /\ pc' = [p \in Procs |-> Finished(p)]
    /\ run' = [p \in Procs |-> 0]
    /\ carry' = [p \in Procs |-> 0]
    /\ req' = [c \in Clients |-> NoReq]
    /\ UNCHANGED <<durable, submitted, fired>>

Init ==
    /\ activeRun = 0 /\ outcome = <<>> /\ intents = 0
    /\ approvals = <<>>
    /\ owner \in Clients /\ lock = None /\ routerRun = 0 /\ followUps = <<>>
    /\ handle = NoHandle /\ cancelled = {} /\ steerQueue = {}
    /\ pc = [p \in Procs |-> Finished(p)]
    /\ run = [p \in Procs |-> 0]
    /\ carry = [p \in Procs |-> 0]
    /\ req = [c \in Clients |-> NoReq]
    /\ submitted = 0 /\ crashes = 0 /\ fired = <<>>

\* Steps of a request or a task that is under way.
Continue(p) ==
    \/ TakeFollowUp(p) \/ BeginTurn(p) \/ StartRun(p) \/ ModelRefused(p)
    \/ \E l \in Loops : Launch(p, l)

Serve(c) ==
    \/ Continue(c) \/ SteerAccepted(c) \/ SteerRefused(c) \/ CancelRun(c)
    \/ CheckApproval(c) \/ RecordResolution(c) \/ ExecuteApproved(c) \/ NoResume(c)
    \/ \E l \in Loops : Resume(c, l)

LoopStep(l) ==
    \/ Continue(l) \/ LoopBuild(l) \/ LoopTop(l) \/ LoopModel(l) \/ LoopAsk(l) \/ LoopRequest(l)
    \/ LoopDefer(l) \/ LoopAllowed(l) \/ LoopNextTurn(l) \/ LoopOk(l) \/ LoopGate(l) \/ LoopErr(l) \/ LoopRemove(l)
    \/ LoopLock(l)

Request(c) ==
    \/ Prompt(c) \/ Steer(c) \/ FollowUp(c) \/ Cancel(c) \/ Attach(c)
    \/ \E a \in DOMAIN approvals, accepted \in BOOLEAN : ResolveApproval(c, a, accepted)

Next ==
    \/ \E c \in Clients : Request(c) \/ Serve(c)
    \/ \E l \in Loops : LoopStep(l)
    \/ Crash

\* A request that is being served and a spawned task keep running; nobody has to
\* send a request, and the daemon does not have to crash.  A model turn has
\* finitely many tool calls, so a task that handles them is done some time.
Fairness ==
    /\ \A c \in Clients : WF_vars(Serve(c))
    /\ \A l \in Loops : WF_vars(LoopStep(l)) /\ WF_vars(LoopNextTurn(l))

Spec == Init /\ [][Next]_vars
FairSpec == Spec /\ Fairness

-----------------------------------------------------------------------------
(* Properties                                                               *)

Outcomes == {"open", "completed", "failed", "cancelled", "interrupted"}
Approval == [state : {"pending", "approved", "rejected"}, rev : Nat, tool : Nat]

\* Every variable has the shape of the state it stands for.
TypeOK ==
    /\ activeRun \in Nat /\ outcome \in Seq(Outcomes) /\ intents \in Nat
    /\ approvals \in Seq(Approval)
    /\ owner \in Clients \cup {None} /\ lock \in Procs \cup {None}
    /\ routerRun \in Nat /\ followUps \in Seq(Nat)
    /\ handle \in [run : Nat, loop : Loops \cup {None}]
    /\ cancelled \subseteq Loops /\ steerQueue \subseteq Nat
    /\ pc \in [Procs -> ClientPoints \cup LoopPoints]
    /\ \A c \in Clients : pc[c] \in ClientPoints
    /\ \A l \in Loops : pc[l] \in LoopPoints
    /\ run \in [Procs -> Nat] /\ carry \in [Procs -> Nat]
    /\ req \in [Clients -> [app : Nat, accepted : BOOLEAN, tool : Nat, fresh : BOOLEAN]]
    /\ submitted \in Nat /\ crashes \in Nat
    /\ fired \in Seq(Nat)

\* The program points at which a process holds the session mutex.
Holding == {"steer", "start", "launch", "cancel", "turn"}
Holds(p) == pc[p] \in Holding \/ (p \in Clients /\ pc[p] = "take")

\* The session mutex works: who is between taking and releasing it is its holder.
MutexHeld == \A p \in Procs : Holds(p) <=> lock = p

\* No run is abandoned: Started makes a run active whatever was active before,
\* and the check that nothing was active is an earlier read of the log, yet a run
\* that has not ended is always the active one (at most one per session).
NoAbandonedRun == \A r \in Runs : outcome[r] = "open" => r = activeRun

\* A follow-up is started at most once, although Cancel and the completed loop both
\* drain the queue and the dequeue is outside the mutex.  (The order in which they
\* were queued is not kept: a loop that waits for the mutex with the first may be
\* overtaken by a Cancel that drains the second.)
FollowUpsFireOnce ==
    \A i, j \in DOMAIN fired : fired[i] = fired[j] => i = j

\* An approval that was already stale when the user's answer arrived (a newer
\* Prompt, Steer or FollowUp was recorded since it was requested) never executes.
StaleNeverExecutes == \A c \in Clients : pc[c] = "execute" => req[c].fresh

\* The outcome of a run is final: a late Completed, Failed or Cancelled of a task
\* or of Cancel does not change how a run ended.
OutcomeIsFinal ==
    [][\A r \in Runs : outcome[r] # "open" => outcome'[r] = outcome[r]]_vars

\* Whoever takes the session mutex lets go of it: Cancel drains the queue with
\* the mutex held and must not wait for it again.
MutexReleased == lock # None ~> lock = None

\* A task whose token is cancelled stops working for its run.
CancelledLoopStops ==
    \A l \in Loops : (l \in cancelled /\ pc[l] \in Executing) ~> pc[l] \notin Executing

\* "harness drains one queued FollowUp into a Prompt turn": a follow-up taken
\* from the queue finds no other run active when it is its turn to start.
DrainedFollowUpStarts == \A p \in Procs : pc[p] = "turn" => activeRun = 0

\* "exact normalized action": the tool call that runs after an approval is the one
\* the approval was requested for.
ExecutesWhatWasApproved ==
    \A c \in Clients : (pc[c] = "resume" /\ req[c].accepted) => req[c].tool = req[c].app
=============================================================================
