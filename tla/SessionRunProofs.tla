-------------------------- MODULE SessionRunProofs --------------------------
(***************************************************************************)
(* A session never abandons a run, its mutex excludes, outcomes are final  *)
(* and stale approvals do not execute, for any number of clients, tasks,   *)
(* intents, approvals and crashes.                                         *)
(***************************************************************************)
EXTENDS SessionRun, TLAPS

-----------------------------------------------------------------------------
(* Types, in the parts an action disturbs together                          *)

LogType ==
    /\ activeRun \in Nat /\ outcome \in Seq(Outcomes) /\ intents \in Nat
    /\ approvals \in Seq(Approval)

PcType ==
    /\ pc \in [Procs -> ClientPoints \cup LoopPoints]
    /\ \A c \in Clients : pc[c] \in ClientPoints
    /\ \A l \in Loops : pc[l] \in LoopPoints

\* A handle that is set has a task.
HeldType ==
    /\ owner \in Clients \cup {None} /\ lock \in Procs \cup {None}
    /\ handle \in [run : Nat, loop : Loops \cup {None}]
    /\ handle # NoHandle => handle.loop \in Loops
    /\ cancelled \subseteq Loops

WorkType ==
    /\ routerRun \in Nat /\ followUps \in Seq(Nat) /\ steerQueue \subseteq Nat
    /\ run \in [Procs -> Nat] /\ carry \in [Procs -> Nat]
    /\ submitted \in Nat /\ crashes \in Nat /\ fired \in Seq(Nat)

ReqType == req \in [Clients -> [app : Nat, accepted : BOOLEAN, tool : Nat, fresh : BOOLEAN]]

Types == LogType /\ PcType /\ HeldType /\ WorkType /\ ReqType

\* The parts make up the type invariant.
LEMMA TypesTypeOK == Types => TypeOK
  BY DEF Types, TypeOK, LogType, PcType, HeldType, WorkType, ReqType

\* The parts hold initially.
LEMMA TypesInit == Init => Types
  <1> SUFFICES ASSUME Init PROVE Types
    OBVIOUS
  <1>1. LogType /\ WorkType /\ ReqType
    BY DEF Init, LogType, WorkType, ReqType, NoReq
  <1>2. PcType
    BY ProcsAssumption DEF Init, PcType, Finished, Procs, ClientPoints, LoopPoints
  <1>3. HeldType
    BY DEF Init, HeldType, NoHandle
  <1> QED BY <1>1, <1>2, <1>3 DEF Types

\* Every process stays at the program points of its kind.
LEMMA PcNext ==
  ASSUME PcType, [Next]_vars
  PROVE  PcType'
  <1> USE ProcsAssumption DEF PcType, Procs, ClientPoints, LoopPoints, Executing
  <1>1. ASSUME NEW p \in Procs, TakeFollowUp(p) PROVE PcType'
    BY <1>1 DEF TakeFollowUp, Finished, Goto
  <1>2. ASSUME NEW p \in Procs, BeginTurn(p) PROVE PcType'
    BY <1>2 DEF BeginTurn, Return, Finished, Goto
  <1>3. ASSUME NEW p \in Procs, StartRun(p) PROVE PcType'
    BY <1>3 DEF StartRun, Goto
  <1>4. ASSUME NEW p \in Procs, ModelRefused(p) PROVE PcType'
    BY <1>4 DEF ModelRefused, Return, Finished, Goto
  <1>5. ASSUME NEW p \in Procs, NEW l \in Loops, Launch(p, l) PROVE PcType'
    BY <1>5 DEF Launch, Finished
  <1>6. ASSUME NEW c \in Clients, Prompt(c) PROVE PcType'
    BY <1>6 DEF Prompt, Goto
  <1>7. ASSUME NEW c \in Clients, Steer(c) PROVE PcType'
    BY <1>7 DEF Steer, Goto
  <1>8. ASSUME NEW c \in Clients, SteerAccepted(c) PROVE PcType'
    BY <1>8 DEF SteerAccepted, Return, Finished, Goto
  <1>9. ASSUME NEW c \in Clients, SteerRefused(c) PROVE PcType'
    BY <1>9 DEF SteerRefused, Return, Finished, Goto
  <1>10. ASSUME NEW c \in Clients, Cancel(c) PROVE PcType'
    BY <1>10 DEF Cancel, Goto
  <1>11. ASSUME NEW c \in Clients, CancelRun(c) PROVE PcType'
    BY <1>11 DEF CancelRun, Return, Finished, Goto
  <1>12. ASSUME NEW c \in Clients, NEW a \in DOMAIN approvals, NEW accepted \in BOOLEAN,
                ResolveApproval(c, a, accepted)
         PROVE  PcType'
    BY <1>12 DEF ResolveApproval, Goto
  <1>13. ASSUME NEW c \in Clients, CheckApproval(c) PROVE PcType'
    BY <1>13 DEF CheckApproval, Answer, Goto
  <1>14. ASSUME NEW c \in Clients, RecordResolution(c) PROVE PcType'
    BY <1>14 DEF RecordResolution, Answer, Goto
  <1>15. ASSUME NEW c \in Clients, ExecuteApproved(c) PROVE PcType'
    BY <1>15 DEF ExecuteApproved, Answer, Goto
  <1>16. ASSUME NEW c \in Clients, NEW l \in Loops, Resume(c, l) PROVE PcType'
    BY <1>16 DEF Resume
  <1>17. ASSUME NEW c \in Clients, NoResume(c) PROVE PcType'
    BY <1>17 DEF NoResume, Answer, Goto
  <1>18. ASSUME NEW l \in Loops, LoopBuild(l) PROVE PcType'
    BY <1>18 DEF LoopBuild, Goto
  <1>19. ASSUME NEW l \in Loops, LoopTop(l) PROVE PcType'
    BY <1>19 DEF LoopTop, Goto
  <1>20. ASSUME NEW l \in Loops, LoopModel(l) PROVE PcType'
    BY <1>20 DEF LoopModel, Goto
  <1>21. ASSUME NEW l \in Loops, LoopAsk(l) PROVE PcType'
    BY <1>21 DEF LoopAsk, Goto
  <1>22. ASSUME NEW l \in Loops, LoopRequest(l) PROVE PcType'
    BY <1>22 DEF LoopRequest, Goto
  <1>23. ASSUME NEW l \in Loops, LoopDefer(l) PROVE PcType'
    BY <1>23 DEF LoopDefer, Goto
  <1>24. ASSUME NEW l \in Loops, LoopNextTurn(l) PROVE PcType'
    BY <1>24 DEF LoopNextTurn, Goto
  <1>25. ASSUME NEW l \in Loops, LoopOk(l) PROVE PcType'
    BY <1>25 DEF LoopOk, Goto
  <1>26. ASSUME NEW l \in Loops, LoopGate(l) PROVE PcType'
    BY <1>26 DEF LoopGate, Goto
  <1>27. ASSUME NEW l \in Loops, LoopErr(l) PROVE PcType'
    BY <1>27 DEF LoopErr, Goto
  <1>28. ASSUME NEW l \in Loops, LoopRemove(l) PROVE PcType'
    BY <1>28 DEF LoopRemove, Goto
  <1>29. ASSUME NEW l \in Loops, LoopLock(l) PROVE PcType'
    BY <1>29 DEF LoopLock, Goto
  <1>30. ASSUME NEW c \in Clients,
                FollowUp(c) \/ Attach(c)
         PROVE  PcType'
    BY <1>30 DEF FollowUp, Attach, memory
  <1>31. ASSUME NEW l \in Loops,
                LoopAllowed(l)
         PROVE  PcType'
    BY <1>31 DEF LoopAllowed, memory
  <1>32. CASE Crash
    BY <1>32 DEF Crash, Finished
  <1>33. CASE UNCHANGED vars
    BY <1>33 DEF vars, memory
  <1> QED
    BY <1>1, <1>2, <1>3, <1>4, <1>5, <1>6, <1>7, <1>8, <1>9, <1>10, <1>11, <1>12, <1>13,
       <1>14, <1>15, <1>16, <1>17, <1>18, <1>19, <1>20, <1>21, <1>22, <1>23, <1>24, <1>25,
       <1>26, <1>27, <1>28, <1>29, <1>30, <1>31, <1>32, <1>33
    DEF Next, Request, Serve, LoopStep, Continue, Procs

\* An update outside the domain changes nothing.
LEMMA ExceptOutside ==
  ASSUME NEW S, NEW s \in Seq(S), NEW i, i \notin DOMAIN s, NEW v
  PROVE  [s EXCEPT ![i] = v] = s
  <1>1. \A j \in DOMAIN s : j # i
    OBVIOUS
  <1>2. s = [j \in DOMAIN s |-> s[j]]
    OBVIOUS
  <1>3. [s EXCEPT ![i] = v] = [j \in DOMAIN s |-> s[j]]
    BY <1>1, Zenon
  <1> QED BY <1>2, <1>3

\* An update of a sequence keeps its type and length, inside the domain or not.
LEMMA ExceptSeq ==
  ASSUME NEW S, NEW s \in Seq(S), NEW i, NEW v, i \in DOMAIN s => v \in S
  PROVE  /\ [s EXCEPT ![i] = v] \in Seq(S)
         /\ DOMAIN [s EXCEPT ![i] = v] = DOMAIN s
         /\ \A j \in DOMAIN s : j # i => [s EXCEPT ![i] = v][j] = s[j]
  <1>1. CASE i \in DOMAIN s
    BY <1>1
  <1>2. CASE i \notin DOMAIN s
    BY <1>2, ExceptOutside
  <1> QED BY <1>1, <1>2

\* A client whose request is answered serves none.
LEMMA AnswerType ==
  ASSUME ReqType, NEW c \in Clients, Answer(c)
  PROVE  ReqType'
  BY DEF ReqType, Answer, NoReq

\* What finish_run does to the runs.
LEMMA FinishFacts ==
  ASSUME LogType, NEW r, NEW how \in Outcomes, FinishRun(r, how)
  PROVE  /\ activeRun' \in Nat /\ outcome' \in Seq(Outcomes)
         /\ DOMAIN outcome' = DOMAIN outcome
         /\ \A k \in DOMAIN outcome : outcome'[k] # outcome[k] => k = activeRun /\ k = r
         /\ activeRun' = activeRun \/ (activeRun' = 0 /\ activeRun = r)
         /\ activeRun = r /\ r \in DOMAIN outcome => outcome'[r] = how
  BY ExceptSeq DEF LogType, FinishRun

\* What a deferral does to the approvals.
LEMMA DeferFacts ==
  ASSUME LogType, NEW call \in Nat, DeferOnLatest(call)
  PROVE  /\ approvals' \in Seq(Approval)
         /\ DOMAIN approvals' = DOMAIN approvals
         /\ \A a \in DOMAIN approvals : approvals'[a].rev = approvals[a].rev
  <1> DEFINE n == Len(approvals)
             v == [approvals[n] EXCEPT !.tool = call]
  <1>1. \/ approvals' = approvals
        \/ n \in DOMAIN approvals /\ approvals' = [approvals EXCEPT ![n] = v]
    BY DEF DeferOnLatest, Pending, LogType
  <1>2. ASSUME n \in DOMAIN approvals PROVE v \in Approval /\ v.rev = approvals[n].rev
    <2>1. approvals[n] \in Approval
      BY <1>2 DEF LogType
    <2> QED BY <2>1 DEF Approval
  <1>3. CASE approvals' = approvals
    BY <1>3 DEF LogType
  <1>4. CASE n \in DOMAIN approvals /\ approvals' = [approvals EXCEPT ![n] = v]
    BY <1>2, <1>4 DEF LogType
  <1> QED BY <1>1, <1>3, <1>4

\* What a Resolved event does to the approvals.
LEMMA ResolvedFacts ==
  ASSUME LogType, NEW a, NEW state \in {"approved", "rejected"}, Resolved(a, state)
  PROVE  /\ approvals' \in Seq(Approval)
         /\ DOMAIN approvals' = DOMAIN approvals
         /\ \A b \in DOMAIN approvals : approvals'[b].rev = approvals[b].rev
  <1> DEFINE v == [approvals[a] EXCEPT !.state = state, !.tool = 0]
  <1>1. CASE a \notin DOMAIN approvals
    <2>1. \A w, x : [[approvals EXCEPT ![a] = w] EXCEPT ![a] = x] = approvals
      BY <1>1, ExceptOutside DEF LogType
    <2> QED BY <1>1, <2>1 DEF Resolved, LogType
  <1>2. CASE a \in DOMAIN approvals
    <2>1. approvals[a] \in Approval
      BY <1>2 DEF LogType
    <2>2. v \in Approval /\ v.rev = approvals[a].rev
      BY <2>1 DEF Approval
    <2>3. approvals' = [approvals EXCEPT ![a] = v]
      BY <1>2 DEF Resolved, LogType
    <2> QED BY <1>2, <2>2, <2>3 DEF LogType
  <1> QED BY <1>1, <1>2

\* Mutex, handle and tokens belong to processes there are.
LEMMA HeldNext ==
  ASSUME LogType, WorkType, HeldType, [Next]_vars
  PROVE  HeldType'
  <1> USE ProcsAssumption DEF HeldType, Procs
  <1>1. ASSUME NEW p \in Procs, TakeFollowUp(p) PROVE HeldType'
    BY <1>1 DEF TakeFollowUp
  <1>2. ASSUME NEW p \in Procs, BeginTurn(p) PROVE HeldType'
    BY <1>2 DEF BeginTurn, Return
  <1>3. ASSUME NEW p \in Procs, ModelRefused(p) PROVE HeldType'
    BY <1>3 DEF ModelRefused, Return
  <1>4. ASSUME NEW p \in Procs, NEW l \in Loops, Launch(p, l) PROVE HeldType'
    <2>1. run[p] \in Nat
      BY DEF WorkType
    <2> QED BY <1>4, <2>1 DEF Launch, Spawn, NoHandle
  <1>5. ASSUME NEW c \in Clients, Prompt(c) PROVE HeldType'
    BY <1>5 DEF Prompt
  <1>6. ASSUME NEW c \in Clients, Steer(c) PROVE HeldType'
    BY <1>6 DEF Steer
  <1>7. ASSUME NEW c \in Clients, SteerAccepted(c) PROVE HeldType'
    BY <1>7 DEF SteerAccepted, Return
  <1>8. ASSUME NEW c \in Clients, SteerRefused(c) PROVE HeldType'
    BY <1>8 DEF SteerRefused, Return
  <1>9. ASSUME NEW c \in Clients, Cancel(c) PROVE HeldType'
    BY <1>9 DEF Cancel
  <1>10. ASSUME NEW c \in Clients, CancelRun(c) PROVE HeldType'
    BY <1>10 DEF CancelRun, Return
  <1>11. ASSUME NEW c \in Clients, Attach(c) PROVE HeldType'
    BY <1>11 DEF Attach
  <1>12. ASSUME NEW c \in Clients, NEW l \in Loops, Resume(c, l) PROVE HeldType'
    <2>1. activeRun \in Nat
      BY DEF LogType
    <2> QED BY <1>12, <2>1 DEF Resume, Spawn, NoHandle
  <1>13. ASSUME NEW l \in Loops, LoopRemove(l) PROVE HeldType'
    BY <1>13 DEF LoopRemove, NoHandle
  <1>14. ASSUME NEW l \in Loops, LoopLock(l) PROVE HeldType'
    BY <1>14 DEF LoopLock
  <1>15. ASSUME NEW p \in Procs,
                StartRun(p)
         PROVE  HeldType'
    BY <1>15 DEF StartRun, memory
  <1>16. ASSUME NEW c \in Clients,
                FollowUp(c) \/ CheckApproval(c) \/ RecordResolution(c)
                \/ ExecuteApproved(c) \/ NoResume(c)
         PROVE  HeldType'
    BY <1>16 DEF FollowUp, CheckApproval, RecordResolution, ExecuteApproved, NoResume, memory
  <1>17. ASSUME NEW c \in Clients, NEW a \in DOMAIN approvals, NEW accepted \in BOOLEAN,
                ResolveApproval(c, a, accepted)
         PROVE  HeldType'
    BY <1>17 DEF ResolveApproval, memory
  <1>18. ASSUME NEW l \in Loops,
                LoopBuild(l) \/ LoopTop(l) \/ LoopModel(l) \/ LoopAsk(l) \/ LoopRequest(l)
                \/ LoopDefer(l) \/ LoopAllowed(l) \/ LoopNextTurn(l) \/ LoopOk(l)
                \/ LoopGate(l) \/ LoopErr(l)
         PROVE  HeldType'
    BY <1>18 DEF LoopBuild, LoopTop, LoopModel, LoopAsk, LoopRequest, LoopDefer,
       LoopAllowed, LoopNextTurn, LoopOk, LoopGate, LoopErr, memory
  <1>19. CASE Crash
    BY <1>19 DEF Crash, NoHandle
  <1>20. CASE UNCHANGED vars
    BY <1>20 DEF vars, memory
  <1> QED
    BY <1>1, <1>2, <1>3, <1>4, <1>5, <1>6, <1>7, <1>8, <1>9, <1>10, <1>11, <1>12, <1>13,
       <1>14, <1>15, <1>16, <1>17, <1>18, <1>19, <1>20
    DEF Next, Request, Serve, LoopStep, Continue, Procs

\* What the router, the tasks and the queues hold keeps its type.
LEMMA WorkNext ==
  ASSUME LogType, WorkType, [Next]_vars
  PROVE  WorkType'
  <1> USE DEF WorkType, Procs
  <1>1. ASSUME NEW p \in Procs, TakeFollowUp(p) PROVE WorkType'
    <2>1. followUps' \in Seq(Nat) /\ routerRun' \in Nat
      BY <1>1 DEF TakeFollowUp
    <2>2. carry' \in [Procs -> Nat]
      BY <1>1 DEF TakeFollowUp
    <2>3. run' = run \/ run' = [run EXCEPT ![p] = 0]
      BY <1>1 DEF TakeFollowUp
    <2> QED BY <1>1, <2>1, <2>2, <2>3 DEF TakeFollowUp, history
  <1>2. ASSUME NEW p \in Procs, BeginTurn(p) PROVE WorkType'
    <2>1. run' = run \/ run' = [run EXCEPT ![p] = 0]
      BY <1>2 DEF BeginTurn, Return
    <2>2. fired' = fired \/ fired' = Append(fired, carry[p])
      BY <1>2 DEF BeginTurn
    <2>3. run' \in [Procs -> Nat] /\ carry' \in [Procs -> Nat]
      BY <1>2, <2>1 DEF BeginTurn
    <2>4. fired' \in Seq(Nat)
      <3>1. carry[p] \in Nat /\ fired \in Seq(Nat)
        OBVIOUS
      <3>2. Append(fired, carry[p]) \in Seq(Nat)
        BY <3>1
      <3> QED BY <2>2, <3>1, <3>2
    <2>5. UNCHANGED <<routerRun, followUps, steerQueue, submitted, crashes>>
      BY <1>2 DEF BeginTurn
    <2> QED BY <2>3, <2>4, <2>5
  <1>3. ASSUME NEW p \in Procs, StartRun(p) PROVE WorkType'
    BY <1>3 DEF StartRun, LogType, history
  <1>4. ASSUME NEW p \in Procs, ModelRefused(p) PROVE WorkType'
    BY <1>4 DEF ModelRefused, Return, history
  <1>5. ASSUME NEW p \in Procs, NEW l \in Loops, Launch(p, l) PROVE WorkType'
    BY <1>5 DEF Launch, history
  <1>6. ASSUME NEW c \in Clients, Prompt(c) PROVE WorkType'
    BY <1>6 DEF Prompt, Submit, LogType
  <1>7. ASSUME NEW c \in Clients, Steer(c) PROVE WorkType'
    BY <1>7 DEF Steer, Submit, LogType
  <1>8. ASSUME NEW c \in Clients, FollowUp(c) PROVE WorkType'
    BY <1>8 DEF FollowUp, Submit, LogType
  <1>9. ASSUME NEW c \in Clients, SteerAccepted(c) PROVE WorkType'
    BY <1>9 DEF SteerAccepted, Return, history
  <1>10. ASSUME NEW c \in Clients, SteerRefused(c) PROVE WorkType'
    BY <1>10 DEF SteerRefused, Return, history
  <1>11. ASSUME NEW c \in Clients, Cancel(c) PROVE WorkType'
    BY <1>11 DEF Cancel, LogType, history
  <1>12. ASSUME NEW c \in Clients, CancelRun(c) PROVE WorkType'
    BY <1>12 DEF CancelRun, Return, history
  <1>13. ASSUME NEW c \in Clients, NEW l \in Loops, Resume(c, l) PROVE WorkType'
    BY <1>13 DEF Resume, LogType, history
  <1>14. ASSUME NEW l \in Loops, LoopTop(l) PROVE WorkType'
    BY <1>14 DEF LoopTop, history
  <1>15. ASSUME NEW l \in Loops, LoopAsk(l) PROVE WorkType'
    BY <1>15 DEF LoopAsk, LogType, history
  <1>16. ASSUME NEW l \in Loops, LoopRequest(l) PROVE WorkType'
    BY <1>16 DEF LoopRequest, LogType, history
  <1>17. ASSUME NEW l \in Loops, LoopDefer(l) PROVE WorkType'
    BY <1>17 DEF LoopDefer, history
  <1>18. ASSUME NEW l \in Loops, LoopRemove(l) PROVE WorkType'
    <2>1. run' = run \/ run' = [run EXCEPT ![l] = 0]
      BY <1>18 DEF LoopRemove
    <2>2. run' \in [Procs -> Nat]
      BY <2>1
    <2>3. UNCHANGED <<routerRun, followUps, steerQueue, carry, history>>
      BY <1>18 DEF LoopRemove
    <2> QED BY <2>2, <2>3 DEF history
  <1>19. ASSUME NEW c \in Clients,
                Attach(c) \/ CheckApproval(c) \/ RecordResolution(c) \/ ExecuteApproved(c)
                \/ NoResume(c)
         PROVE  WorkType'
    BY <1>19 DEF Attach, CheckApproval, RecordResolution, ExecuteApproved, NoResume,
       memory, history
  <1>20. ASSUME NEW c \in Clients, NEW a \in DOMAIN approvals, NEW accepted \in BOOLEAN,
                ResolveApproval(c, a, accepted)
         PROVE  WorkType'
    BY <1>20 DEF ResolveApproval, memory, history
  <1>21. ASSUME NEW l \in Loops,
                LoopBuild(l) \/ LoopModel(l) \/ LoopAllowed(l) \/ LoopNextTurn(l)
                \/ LoopOk(l) \/ LoopGate(l) \/ LoopErr(l) \/ LoopLock(l)
         PROVE  WorkType'
    BY <1>21 DEF LoopBuild, LoopModel, LoopAllowed, LoopNextTurn, LoopOk, LoopGate,
       LoopErr, LoopLock, memory, history
  <1>22. CASE Crash
    BY <1>22 DEF Crash
  <1>23. CASE UNCHANGED vars
    BY <1>23 DEF vars, memory, history
  <1> QED
    BY <1>1, <1>2, <1>3, <1>4, <1>5, <1>6, <1>7, <1>8, <1>9, <1>10, <1>11, <1>12, <1>13,
       <1>14, <1>15, <1>16, <1>17, <1>18, <1>19, <1>20, <1>21, <1>22, <1>23
    DEF Next, Request, Serve, LoopStep, Continue, Procs

\* The ResolveApproval request of a client keeps its type.
LEMMA ReqNext ==
  ASSUME LogType, ReqType, [Next]_vars
  PROVE  ReqType'
  <1> USE DEF ReqType
  <1>1. ASSUME NEW c \in Clients, NEW a \in DOMAIN approvals, NEW accepted \in BOOLEAN,
                ResolveApproval(c, a, accepted)
         PROVE  ReqType'
    <2>1. approvals[a] \in Approval /\ a \in Nat
      BY DEF LogType
    <2>2. approvals[a].tool \in Nat
      BY <2>1 DEF Approval
    <2> QED BY <1>1, <2>1, <2>2 DEF ResolveApproval
  <1>2. ASSUME NEW c \in Clients, CheckApproval(c) PROVE ReqType'
    BY <1>2, AnswerType DEF CheckApproval
  <1>3. ASSUME NEW c \in Clients, RecordResolution(c) PROVE ReqType'
    BY <1>3, AnswerType DEF RecordResolution
  <1>4. ASSUME NEW c \in Clients, ExecuteApproved(c) PROVE ReqType'
    BY <1>4, AnswerType DEF ExecuteApproved
  <1>5. ASSUME NEW c \in Clients, NEW l \in Loops, Resume(c, l) PROVE ReqType'
    BY <1>5 DEF Resume, NoReq
  <1>6. ASSUME NEW c \in Clients, NoResume(c) PROVE ReqType'
    BY <1>6, AnswerType DEF NoResume
  <1>7. ASSUME NEW p \in Procs,
                TakeFollowUp(p) \/ BeginTurn(p) \/ StartRun(p) \/ ModelRefused(p)
         PROVE  ReqType'
    BY <1>7 DEF TakeFollowUp, BeginTurn, StartRun, ModelRefused, memory
  <1>8. ASSUME NEW p \in Procs, NEW l \in Loops,
                Launch(p, l)
         PROVE  ReqType'
    BY <1>8 DEF Launch, memory
  <1>9. ASSUME NEW c \in Clients,
                Prompt(c) \/ Steer(c) \/ FollowUp(c) \/ SteerAccepted(c) \/ SteerRefused(c)
                \/ Cancel(c) \/ CancelRun(c) \/ Attach(c)
         PROVE  ReqType'
    BY <1>9 DEF Prompt, Steer, FollowUp, SteerAccepted, SteerRefused, Cancel, CancelRun,
       Attach, memory
  <1>10. ASSUME NEW l \in Loops,
                LoopBuild(l) \/ LoopTop(l) \/ LoopModel(l) \/ LoopAsk(l) \/ LoopRequest(l)
                \/ LoopDefer(l) \/ LoopAllowed(l) \/ LoopNextTurn(l) \/ LoopOk(l)
                \/ LoopGate(l) \/ LoopErr(l) \/ LoopRemove(l) \/ LoopLock(l)
         PROVE  ReqType'
    BY <1>10 DEF LoopBuild, LoopTop, LoopModel, LoopAsk, LoopRequest, LoopDefer,
       LoopAllowed, LoopNextTurn, LoopOk, LoopGate, LoopErr, LoopRemove, LoopLock, memory
  <1>11. CASE Crash
    BY <1>11 DEF Crash, NoReq
  <1>12. CASE UNCHANGED vars
    BY <1>12 DEF vars, memory
  <1> QED
    BY <1>1, <1>2, <1>3, <1>4, <1>5, <1>6, <1>7, <1>8, <1>9, <1>10, <1>11, <1>12
    DEF Next, Request, Serve, LoopStep, Continue, Procs

\* The projection keeps its type.
LEMMA LogNext ==
  ASSUME LogType, WorkType, [Next]_vars
  PROVE  LogType'
  <1> USE DEF LogType
  <1>1. ASSUME NEW p \in Procs, BeginTurn(p) PROVE LogType'
    BY <1>1 DEF BeginTurn
  <1>2. ASSUME NEW p \in Procs, StartRun(p) PROVE LogType'
    BY <1>2 DEF StartRun, Outcomes
  <1>3. ASSUME NEW c \in Clients, Prompt(c) PROVE LogType'
    BY <1>3 DEF Prompt
  <1>4. ASSUME NEW c \in Clients, FollowUp(c) PROVE LogType'
    BY <1>4 DEF FollowUp
  <1>5. ASSUME NEW c \in Clients, SteerAccepted(c) PROVE LogType'
    BY <1>5 DEF SteerAccepted
  <1>6. ASSUME NEW c \in Clients, CancelRun(c) PROVE LogType'
    BY <1>6, FinishFacts DEF CancelRun, Outcomes
  <1>7. ASSUME NEW c \in Clients, CheckApproval(c) PROVE LogType'
    BY <1>7, ResolvedFacts DEF CheckApproval
  <1>8. ASSUME NEW c \in Clients, RecordResolution(c) PROVE LogType'
    BY <1>8, ResolvedFacts DEF RecordResolution
  <1>9. ASSUME NEW l \in Loops, LoopBuild(l) PROVE LogType'
    BY <1>9, FinishFacts DEF LoopBuild, Outcomes
  <1>10. ASSUME NEW l \in Loops, LoopRequest(l) PROVE LogType'
    <2>1. carry[l] \in Nat
      BY DEF WorkType, Procs
    <2>2. [state |-> "pending", rev |-> carry[l], tool |-> 0] \in Approval
      BY <2>1 DEF Approval
    <2> QED BY <1>10, <2>2 DEF LoopRequest
  <1>11. ASSUME NEW l \in Loops, LoopDefer(l) PROVE LogType'
    <2>1. carry[l] \in Nat
      BY DEF WorkType, Procs
    <2> QED BY <1>11, <2>1, DeferFacts DEF LoopDefer
  <1>12. ASSUME NEW l \in Loops, LoopAllowed(l) PROVE LogType'
    BY <1>12, DeferFacts, BoundsAssumption DEF LoopAllowed, AllowedCall
  <1>13. ASSUME NEW l \in Loops, LoopGate(l) PROVE LogType'
    BY <1>13, FinishFacts DEF LoopGate, Outcomes
  <1>14. ASSUME NEW l \in Loops, LoopErr(l) PROVE LogType'
    BY <1>14, FinishFacts DEF LoopErr, Outcomes
  <1>15. ASSUME NEW p \in Procs,
                TakeFollowUp(p) \/ ModelRefused(p)
         PROVE  LogType'
    BY <1>15 DEF TakeFollowUp, ModelRefused, durable
  <1>16. ASSUME NEW p \in Procs, NEW l \in Loops,
                Launch(p, l)
         PROVE  LogType'
    BY <1>16 DEF Launch, durable
  <1>17. ASSUME NEW c \in Clients,
                Steer(c) \/ SteerRefused(c) \/ Cancel(c) \/ Attach(c) \/ ExecuteApproved(c)
                \/ NoResume(c)
         PROVE  LogType'
    BY <1>17 DEF Steer, SteerRefused, Cancel, Attach, ExecuteApproved, NoResume, durable
  <1>18. ASSUME NEW c \in Clients, NEW a \in DOMAIN approvals, NEW accepted \in BOOLEAN,
                ResolveApproval(c, a, accepted)
         PROVE  LogType'
    BY <1>18 DEF ResolveApproval, durable
  <1>19. ASSUME NEW c \in Clients, NEW l \in Loops,
                Resume(c, l)
         PROVE  LogType'
    BY <1>19 DEF Resume, durable
  <1>20. ASSUME NEW l \in Loops,
                LoopTop(l) \/ LoopModel(l) \/ LoopAsk(l) \/ LoopNextTurn(l) \/ LoopOk(l)
                \/ LoopRemove(l) \/ LoopLock(l)
         PROVE  LogType'
    BY <1>20 DEF LoopTop, LoopModel, LoopAsk, LoopNextTurn, LoopOk, LoopRemove, LoopLock,
       durable
  <1>21. CASE Crash
    BY <1>21 DEF Crash, durable
  <1>22. CASE UNCHANGED vars
    BY <1>22 DEF vars, memory, durable
  <1> QED
    BY <1>1, <1>2, <1>3, <1>4, <1>5, <1>6, <1>7, <1>8, <1>9, <1>10, <1>11, <1>12, <1>13,
       <1>14, <1>15, <1>16, <1>17, <1>18, <1>19, <1>20, <1>21, <1>22
    DEF Next, Request, Serve, LoopStep, Continue, Procs

\* Every step keeps the parts.
LEMMA TypesNext ==
  ASSUME Types, [Next]_vars
  PROVE  Types'
  BY PcNext, HeldNext, WorkNext, ReqNext, LogNext DEF Types

-----------------------------------------------------------------------------
(* The session mutex                                                        *)

\* Who enters the critical section takes the mutex and who leaves it gives it back.
LEMMA MutexNext ==
  ASSUME PcType, MutexHeld, [Next]_vars
  PROVE  MutexHeld'
  <1> USE ProcsAssumption DEF PcType, MutexHeld, Holds, Holding, Procs
  <1>1. ASSUME NEW p \in Procs, TakeFollowUp(p) PROVE MutexHeld'
    BY <1>1 DEF TakeFollowUp, Finished, Goto
  <1>2. ASSUME NEW p \in Procs, BeginTurn(p) PROVE MutexHeld'
    BY <1>2 DEF BeginTurn, Return, Finished, Goto
  <1>3. ASSUME NEW p \in Procs, StartRun(p) PROVE MutexHeld'
    BY <1>3 DEF StartRun, Goto
  <1>4. ASSUME NEW p \in Procs, ModelRefused(p) PROVE MutexHeld'
    BY <1>4 DEF ModelRefused, Return, Finished, Goto
  <1>5. ASSUME NEW p \in Procs, NEW l \in Loops, Launch(p, l) PROVE MutexHeld'
    BY <1>5 DEF Launch, Finished
  <1>6. ASSUME NEW c \in Clients, Prompt(c) PROVE MutexHeld'
    BY <1>6 DEF Prompt, Submit, Goto
  <1>7. ASSUME NEW c \in Clients, Steer(c) PROVE MutexHeld'
    BY <1>7 DEF Steer, Submit, Goto
  <1>8. ASSUME NEW c \in Clients, SteerAccepted(c) PROVE MutexHeld'
    BY <1>8 DEF SteerAccepted, Return, Finished, Goto
  <1>9. ASSUME NEW c \in Clients, SteerRefused(c) PROVE MutexHeld'
    BY <1>9 DEF SteerRefused, Return, Finished, Goto
  <1>10. ASSUME NEW c \in Clients, Cancel(c) PROVE MutexHeld'
    BY <1>10 DEF Cancel, Goto
  <1>11. ASSUME NEW c \in Clients, CancelRun(c) PROVE MutexHeld'
    BY <1>11 DEF CancelRun, Return, Finished, Goto
  <1>12. ASSUME NEW c \in Clients, NEW a \in DOMAIN approvals, NEW accepted \in BOOLEAN,
                ResolveApproval(c, a, accepted)
         PROVE  MutexHeld'
    BY <1>12 DEF ResolveApproval, Goto
  <1>13. ASSUME NEW c \in Clients, CheckApproval(c) PROVE MutexHeld'
    BY <1>13 DEF CheckApproval, Answer, Goto
  <1>14. ASSUME NEW c \in Clients, RecordResolution(c) PROVE MutexHeld'
    BY <1>14 DEF RecordResolution, Answer, Goto
  <1>15. ASSUME NEW c \in Clients, ExecuteApproved(c) PROVE MutexHeld'
    BY <1>15 DEF ExecuteApproved, Answer, Goto
  <1>16. ASSUME NEW c \in Clients, NEW l \in Loops, Resume(c, l) PROVE MutexHeld'
    BY <1>16 DEF Resume
  <1>17. ASSUME NEW c \in Clients, NoResume(c) PROVE MutexHeld'
    BY <1>17 DEF NoResume, Answer, Goto
  <1>18. ASSUME NEW l \in Loops, LoopBuild(l) PROVE MutexHeld'
    BY <1>18 DEF LoopBuild, Goto
  <1>19. ASSUME NEW l \in Loops, LoopTop(l) PROVE MutexHeld'
    BY <1>19 DEF LoopTop, Goto
  <1>20. ASSUME NEW l \in Loops, LoopModel(l) PROVE MutexHeld'
    BY <1>20 DEF LoopModel, Goto
  <1>21. ASSUME NEW l \in Loops, LoopAsk(l) PROVE MutexHeld'
    BY <1>21 DEF LoopAsk, Goto
  <1>22. ASSUME NEW l \in Loops, LoopRequest(l) PROVE MutexHeld'
    BY <1>22 DEF LoopRequest, Goto
  <1>23. ASSUME NEW l \in Loops, LoopDefer(l) PROVE MutexHeld'
    BY <1>23 DEF LoopDefer, Goto
  <1>24. ASSUME NEW l \in Loops, LoopNextTurn(l) PROVE MutexHeld'
    BY <1>24 DEF LoopNextTurn, Goto
  <1>25. ASSUME NEW l \in Loops, LoopOk(l) PROVE MutexHeld'
    BY <1>25 DEF LoopOk, Goto
  <1>26. ASSUME NEW l \in Loops, LoopGate(l) PROVE MutexHeld'
    BY <1>26 DEF LoopGate, Goto
  <1>27. ASSUME NEW l \in Loops, LoopErr(l) PROVE MutexHeld'
    BY <1>27 DEF LoopErr, Goto
  <1>28. ASSUME NEW l \in Loops, LoopRemove(l) PROVE MutexHeld'
    BY <1>28 DEF LoopRemove, Goto
  <1>29. ASSUME NEW l \in Loops, LoopLock(l) PROVE MutexHeld'
    BY <1>29 DEF LoopLock, Goto
  <1>30. ASSUME NEW c \in Clients,
                FollowUp(c) \/ Attach(c)
         PROVE  MutexHeld'
    BY <1>30 DEF FollowUp, Attach, memory
  <1>31. ASSUME NEW l \in Loops,
                LoopAllowed(l)
         PROVE  MutexHeld'
    BY <1>31 DEF LoopAllowed, memory
  <1>32. CASE Crash
    BY <1>32 DEF Crash, Finished
  <1>33. CASE UNCHANGED vars
    BY <1>33 DEF vars, memory
  <1> QED
    BY <1>1, <1>2, <1>3, <1>4, <1>5, <1>6, <1>7, <1>8, <1>9, <1>10, <1>11, <1>12, <1>13,
       <1>14, <1>15, <1>16, <1>17, <1>18, <1>19, <1>20, <1>21, <1>22, <1>23, <1>24, <1>25,
       <1>26, <1>27, <1>28, <1>29, <1>30, <1>31, <1>32, <1>33
    DEF Next, Request, Serve, LoopStep, Continue, Procs

-----------------------------------------------------------------------------
(* The runs of the session                                                  *)

\* Once a process passed the guard of a turn nothing is active until it records
\* Started: whoever else could start a run waits for the mutex.
StartClear == \A p \in Procs : pc[p] = "start" => activeRun = 0

\* The active run has not ended.
ActiveOpen == activeRun # 0 => activeRun \in Runs /\ outcome[activeRun] = "open"

\* NoAbandonedRun is not inductive: Started is recorded a step after the guard.
RunsInv == NoAbandonedRun /\ StartClear /\ ActiveOpen

\* What a step does to the runs it finds: a run that has ended keeps its outcome.
EndedStays == \A r \in Runs : outcome[r] # "open" => outcome'[r] = outcome[r]

\* A step that leaves the runs alone, or ends the active one, and brings no process
\* past the guard of a turn.
LEMMA FinishKeeps ==
  ASSUME LogType, RunsInv, NEW r, NEW how \in Outcomes \ {"open"},
         FinishRun(r, how) \/ UNCHANGED <<activeRun, outcome>>,
         \A p \in Procs : pc'[p] = "start" => pc[p] = "start"
  PROVE  RunsInv' /\ EndedStays
  <1>1. CASE UNCHANGED <<activeRun, outcome>>
    BY <1>1 DEF RunsInv, NoAbandonedRun, StartClear, ActiveOpen, EndedStays, Runs
  <1>2. CASE FinishRun(r, how)
    <2>1. /\ DOMAIN outcome' = DOMAIN outcome
          /\ \A k \in DOMAIN outcome : outcome'[k] # outcome[k] => k = activeRun /\ k = r
          /\ activeRun' = activeRun \/ (activeRun' = 0 /\ activeRun = r)
          /\ activeRun = r /\ r \in DOMAIN outcome => outcome'[r] = how
      BY <1>2, FinishFacts
    <2>2. activeRun = r => activeRun' = 0
      BY <1>2 DEF FinishRun
    <2>3. NoAbandonedRun'
      BY <2>1 DEF RunsInv, NoAbandonedRun, Runs
    <2>4. StartClear'
      BY <2>1 DEF RunsInv, StartClear
    <2>5. ActiveOpen'
      BY <2>1, <2>2 DEF RunsInv, ActiveOpen, Runs, LogType
    <2>6. EndedStays
      BY <2>1 DEF RunsInv, ActiveOpen, EndedStays, Runs, LogType
    <2> QED BY <2>3, <2>4, <2>5, <2>6 DEF RunsInv
  <1> QED BY <1>1, <1>2

\* Started, the one step that makes a run active.
LEMMA StartRunKeeps ==
  ASSUME LogType, PcType, MutexHeld, RunsInv, NEW p \in Procs, StartRun(p)
  PROVE  RunsInv' /\ EndedStays
  <1>1. /\ activeRun = 0 /\ activeRun' = Len(outcome) + 1
        /\ outcome' = Append(outcome, "open")
    BY DEF StartRun, RunsInv, StartClear
  <1>2. /\ Len(outcome) \in Nat /\ DOMAIN outcome' = DOMAIN outcome \cup {Len(outcome) + 1}
        /\ \A r \in DOMAIN outcome : outcome'[r] = outcome[r]
        /\ outcome'[Len(outcome) + 1] = "open" /\ 0 \notin DOMAIN outcome
    BY <1>1 DEF LogType
  <1>3. NoAbandonedRun'
    BY <1>1, <1>2 DEF RunsInv, NoAbandonedRun, Runs
  <1>4. ActiveOpen'
    BY <1>1, <1>2 DEF ActiveOpen, Runs
  <1>5. StartClear'
    BY DEF StartRun, Goto, MutexHeld, Holds, Holding, StartClear, PcType
  <1>6. EndedStays
    BY <1>2 DEF EndedStays, Runs
  <1> QED BY <1>3, <1>4, <1>5, <1>6 DEF RunsInv

\* No step abandons a run or changes how one ended.
LEMMA RunsNext ==
  ASSUME LogType, PcType, MutexHeld, RunsInv, [Next]_vars
  PROVE  RunsInv' /\ EndedStays
  <1>1. ASSUME NEW p \in Procs, TakeFollowUp(p) PROVE RunsInv' /\ EndedStays
    BY <1>1 DEF TakeFollowUp, Finished, Goto, durable, RunsInv, NoAbandonedRun, StartClear,
       ActiveOpen, EndedStays, Runs, PcType, Procs
  <1>2. ASSUME NEW p \in Procs, BeginTurn(p) PROVE RunsInv' /\ EndedStays
    BY <1>2 DEF BeginTurn, Return, Finished, Goto, RunsInv, NoAbandonedRun, StartClear,
       ActiveOpen, EndedStays, Runs, PcType, Procs
  <1>3. ASSUME NEW p \in Procs, StartRun(p) PROVE RunsInv' /\ EndedStays
    BY <1>3, StartRunKeeps
  <1>4. ASSUME NEW p \in Procs, ModelRefused(p) PROVE RunsInv' /\ EndedStays
    BY <1>4 DEF ModelRefused, Return, Finished, Goto, durable, RunsInv, NoAbandonedRun,
       StartClear, ActiveOpen, EndedStays, Runs, PcType, Procs
  <1>5. ASSUME NEW p \in Procs, NEW l \in Loops, Launch(p, l) PROVE RunsInv' /\ EndedStays
    BY <1>5 DEF Launch, Finished, durable, RunsInv, NoAbandonedRun, StartClear, ActiveOpen,
       EndedStays, Runs, PcType, Procs
  <1>6. ASSUME NEW c \in Clients, Prompt(c) PROVE RunsInv' /\ EndedStays
    BY <1>6 DEF Prompt, Submit, Goto, RunsInv, NoAbandonedRun, StartClear, ActiveOpen,
       EndedStays, Runs, PcType, Procs
  <1>7. ASSUME NEW c \in Clients, Steer(c) PROVE RunsInv' /\ EndedStays
    BY <1>7 DEF Steer, Submit, Goto, durable, RunsInv, NoAbandonedRun, StartClear,
       ActiveOpen, EndedStays, Runs, PcType, Procs
  <1>8. ASSUME NEW c \in Clients, SteerAccepted(c) PROVE RunsInv' /\ EndedStays
    BY <1>8 DEF SteerAccepted, Return, Finished, Goto, RunsInv, NoAbandonedRun, StartClear,
       ActiveOpen, EndedStays, Runs, PcType, Procs
  <1>9. ASSUME NEW c \in Clients, SteerRefused(c) PROVE RunsInv' /\ EndedStays
    BY <1>9 DEF SteerRefused, Return, Finished, Goto, durable, RunsInv, NoAbandonedRun,
       StartClear, ActiveOpen, EndedStays, Runs, PcType, Procs
  <1>10. ASSUME NEW c \in Clients, Cancel(c) PROVE RunsInv' /\ EndedStays
    BY <1>10 DEF Cancel, Goto, durable, RunsInv, NoAbandonedRun, StartClear, ActiveOpen,
       EndedStays, Runs, PcType, Procs
  <1>11. ASSUME NEW c \in Clients, CancelRun(c) PROVE RunsInv' /\ EndedStays
    <2>1. \A q \in Procs : pc'[q] = "start" => pc[q] = "start"
      BY <1>11 DEF CancelRun, Return, Finished, Goto, PcType, Procs
    <2> QED BY <1>11, <2>1, FinishKeeps DEF CancelRun, Outcomes
  <1>12. ASSUME NEW c \in Clients, NEW a \in DOMAIN approvals, NEW accepted \in BOOLEAN,
                ResolveApproval(c, a, accepted)
         PROVE  RunsInv' /\ EndedStays
    BY <1>12 DEF ResolveApproval, Goto, durable, RunsInv, NoAbandonedRun, StartClear,
       ActiveOpen, EndedStays, Runs, PcType, Procs
  <1>13. ASSUME NEW c \in Clients, CheckApproval(c) PROVE RunsInv' /\ EndedStays
    BY <1>13 DEF CheckApproval, Answer, Goto, RunsInv, NoAbandonedRun, StartClear,
       ActiveOpen, EndedStays, Runs, PcType, Procs
  <1>14. ASSUME NEW c \in Clients, RecordResolution(c) PROVE RunsInv' /\ EndedStays
    BY <1>14 DEF RecordResolution, Answer, Goto, RunsInv, NoAbandonedRun, StartClear,
       ActiveOpen, EndedStays, Runs, PcType, Procs
  <1>15. ASSUME NEW c \in Clients, ExecuteApproved(c) PROVE RunsInv' /\ EndedStays
    BY <1>15 DEF ExecuteApproved, Answer, Goto, durable, RunsInv, NoAbandonedRun,
       StartClear, ActiveOpen, EndedStays, Runs, PcType, Procs
  <1>16. ASSUME NEW c \in Clients, NEW l \in Loops, Resume(c, l) PROVE RunsInv' /\ EndedStays
    BY <1>16 DEF Resume, durable, RunsInv, NoAbandonedRun, StartClear, ActiveOpen,
       EndedStays, Runs, PcType, Procs
  <1>17. ASSUME NEW c \in Clients, NoResume(c) PROVE RunsInv' /\ EndedStays
    BY <1>17 DEF NoResume, Answer, Goto, durable, RunsInv, NoAbandonedRun, StartClear,
       ActiveOpen, EndedStays, Runs, PcType, Procs
  <1>18. ASSUME NEW l \in Loops, LoopBuild(l) PROVE RunsInv' /\ EndedStays
    <2>1. \A q \in Procs : pc'[q] = "start" => pc[q] = "start"
      BY <1>18 DEF LoopBuild, Goto, PcType, Procs
    <2> QED BY <1>18, <2>1, FinishKeeps DEF LoopBuild, Outcomes
  <1>19. ASSUME NEW l \in Loops, LoopTop(l) PROVE RunsInv' /\ EndedStays
    BY <1>19 DEF LoopTop, Goto, durable, RunsInv, NoAbandonedRun, StartClear, ActiveOpen,
       EndedStays, Runs, PcType, Procs
  <1>20. ASSUME NEW l \in Loops, LoopModel(l) PROVE RunsInv' /\ EndedStays
    BY <1>20 DEF LoopModel, Goto, durable, RunsInv, NoAbandonedRun, StartClear, ActiveOpen,
       EndedStays, Runs, PcType, Procs
  <1>21. ASSUME NEW l \in Loops, LoopAsk(l) PROVE RunsInv' /\ EndedStays
    BY <1>21 DEF LoopAsk, Goto, durable, RunsInv, NoAbandonedRun, StartClear, ActiveOpen,
       EndedStays, Runs, PcType, Procs
  <1>22. ASSUME NEW l \in Loops, LoopRequest(l) PROVE RunsInv' /\ EndedStays
    BY <1>22 DEF LoopRequest, Goto, RunsInv, NoAbandonedRun, StartClear, ActiveOpen,
       EndedStays, Runs, PcType, Procs
  <1>23. ASSUME NEW l \in Loops, LoopDefer(l) PROVE RunsInv' /\ EndedStays
    BY <1>23 DEF LoopDefer, Goto, RunsInv, NoAbandonedRun, StartClear, ActiveOpen,
       EndedStays, Runs, PcType, Procs
  <1>24. ASSUME NEW l \in Loops, LoopNextTurn(l) PROVE RunsInv' /\ EndedStays
    BY <1>24 DEF LoopNextTurn, Goto, durable, RunsInv, NoAbandonedRun, StartClear,
       ActiveOpen, EndedStays, Runs, PcType, Procs
  <1>25. ASSUME NEW l \in Loops, LoopOk(l) PROVE RunsInv' /\ EndedStays
    BY <1>25 DEF LoopOk, Goto, durable, RunsInv, NoAbandonedRun, StartClear, ActiveOpen,
       EndedStays, Runs, PcType, Procs
  <1>26. ASSUME NEW l \in Loops, LoopGate(l) PROVE RunsInv' /\ EndedStays
    <2>1. \A q \in Procs : pc'[q] = "start" => pc[q] = "start"
      BY <1>26 DEF LoopGate, Goto, PcType, Procs
    <2> QED BY <1>26, <2>1, FinishKeeps DEF LoopGate, Outcomes
  <1>27. ASSUME NEW l \in Loops, LoopErr(l) PROVE RunsInv' /\ EndedStays
    <2>1. \A q \in Procs : pc'[q] = "start" => pc[q] = "start"
      BY <1>27 DEF LoopErr, Goto, PcType, Procs
    <2> QED BY <1>27, <2>1, FinishKeeps DEF LoopErr, Outcomes
  <1>28. ASSUME NEW l \in Loops, LoopRemove(l) PROVE RunsInv' /\ EndedStays
    BY <1>28 DEF LoopRemove, Goto, durable, RunsInv, NoAbandonedRun, StartClear,
       ActiveOpen, EndedStays, Runs, PcType, Procs
  <1>29. ASSUME NEW l \in Loops, LoopLock(l) PROVE RunsInv' /\ EndedStays
    BY <1>29 DEF LoopLock, Goto, durable, RunsInv, NoAbandonedRun, StartClear, ActiveOpen,
       EndedStays, Runs, PcType, Procs
  <1>30. ASSUME NEW c \in Clients,
                FollowUp(c) \/ Attach(c)
         PROVE  RunsInv' /\ EndedStays
    BY <1>30 DEF FollowUp, Attach, memory, durable, RunsInv, NoAbandonedRun, StartClear,
       ActiveOpen, EndedStays, Runs
  <1>31. ASSUME NEW l \in Loops,
                LoopAllowed(l)
         PROVE  RunsInv' /\ EndedStays
    BY <1>31 DEF LoopAllowed, memory, durable, RunsInv, NoAbandonedRun, StartClear,
       ActiveOpen, EndedStays, Runs
  <1>32. CASE Crash
    BY <1>32 DEF Crash, Finished, RunsInv, NoAbandonedRun, StartClear, ActiveOpen,
       EndedStays, Runs, durable
  <1>33. CASE UNCHANGED vars
    BY <1>33 DEF vars, memory, durable, RunsInv, NoAbandonedRun, StartClear,
       ActiveOpen, EndedStays, Runs
  <1> QED
    BY <1>1, <1>2, <1>3, <1>4, <1>5, <1>6, <1>7, <1>8, <1>9, <1>10, <1>11, <1>12, <1>13,
       <1>14, <1>15, <1>16, <1>17, <1>18, <1>19, <1>20, <1>21, <1>22, <1>23, <1>24, <1>25,
       <1>26, <1>27, <1>28, <1>29, <1>30, <1>31, <1>32, <1>33
    DEF Next, Request, Serve, LoopStep, Continue, Procs

-----------------------------------------------------------------------------
(* Stale approvals                                                          *)

\* An approval was requested under a revision there was.
RevisionsKnown ==
    /\ \A a \in DOMAIN approvals : approvals[a].rev <= intents
    /\ \A l \in Loops : pc[l] = "request" => carry[l] <= intents

\* An approval that still looks fresh was fresh when the answer arrived: revisions
\* only grow.
FreshSoFar ==
    \A c \in Clients :
        /\ pc[c] = "resolve" =>
              /\ req[c].app \in DOMAIN approvals
              /\ approvals[req[c].app].rev = intents => req[c].fresh
        /\ pc[c] \in {"record", "execute"} => req[c].fresh

\* StaleNeverExecutes is not inductive: the check is two steps before the execution.
FreshInv == RevisionsKnown /\ FreshSoFar

\* A step that records intents at most and leaves approvals and requests alone.
LEMMA FreshIf ==
  ASSUME LogType, WorkType, FreshInv, intents' = intents \/ intents' = intents + 1,
         DOMAIN approvals' = DOMAIN approvals,
         \A a \in DOMAIN approvals : approvals'[a].rev = approvals[a].rev,
         \A l \in Loops : pc'[l] = "request" => pc[l] = "request" /\ carry'[l] = carry[l],
         \A c \in Clients : pc'[c] \in {"resolve", "record", "execute"} =>
            /\ req'[c] = req[c]
            /\ pc'[c] = "resolve" => pc[c] = "resolve"
            /\ pc'[c] \in {"record", "execute"} => pc[c] \in {"record", "execute"}
  PROVE  FreshInv'
  <1>0. \A a \in DOMAIN approvals : approvals[a] \in Approval
    BY DEF LogType
  <1>1. intents \in Nat /\ \A a \in DOMAIN approvals : approvals[a].rev \in Nat
    BY <1>0 DEF LogType, Approval
  <1>2. \A l \in Loops : carry[l] \in Nat
    BY DEF WorkType, Procs
  <1>3. RevisionsKnown'
    BY <1>1, <1>2 DEF FreshInv, RevisionsKnown
  <1>4. FreshSoFar'
    BY <1>1 DEF FreshInv, RevisionsKnown, FreshSoFar
  <1> QED BY <1>3, <1>4 DEF FreshInv

\* A fresh approval was fresh on arrival, whatever happened in between.
LEMMA FreshNext ==
  ASSUME LogType, PcType, WorkType, ReqType, FreshInv, [Next]_vars
  PROVE  FreshInv'
  <1>1. ASSUME NEW p \in Procs, TakeFollowUp(p) PROVE FreshInv'
    BY <1>1, FreshIf, ProcsAssumption DEF TakeFollowUp, Finished, Goto, durable, PcType,
       WorkType, Procs
  <1>2. ASSUME NEW p \in Procs, BeginTurn(p) PROVE FreshInv'
    BY <1>2, FreshIf, ProcsAssumption DEF BeginTurn, Return, Finished, Goto, PcType,
       WorkType, Procs
  <1>3. ASSUME NEW p \in Procs, StartRun(p) PROVE FreshInv'
    BY <1>3, FreshIf, ProcsAssumption DEF StartRun, Goto, PcType, Procs
  <1>4. ASSUME NEW p \in Procs, ModelRefused(p) PROVE FreshInv'
    BY <1>4, FreshIf, ProcsAssumption DEF ModelRefused, Return, Finished, Goto, durable,
       PcType, Procs
  <1>5. ASSUME NEW p \in Procs, NEW l \in Loops, Launch(p, l) PROVE FreshInv'
    BY <1>5, FreshIf, ProcsAssumption DEF Launch, Finished, durable, PcType, Procs
  <1>6. ASSUME NEW c \in Clients, Prompt(c) PROVE FreshInv'
    BY <1>6, FreshIf, ProcsAssumption DEF Prompt, Submit, Goto, PcType, Procs
  <1>7. ASSUME NEW c \in Clients, Steer(c) PROVE FreshInv'
    BY <1>7, FreshIf, ProcsAssumption DEF Steer, Submit, Goto, durable, PcType, Procs
  <1>8. ASSUME NEW c \in Clients, FollowUp(c) PROVE FreshInv'
    BY <1>8, FreshIf, ProcsAssumption DEF FollowUp, PcType, Procs
  <1>9. ASSUME NEW c \in Clients, SteerAccepted(c) PROVE FreshInv'
    BY <1>9, FreshIf, ProcsAssumption DEF SteerAccepted, Return, Finished, Goto, PcType, Procs
  <1>10. ASSUME NEW c \in Clients, SteerRefused(c) PROVE FreshInv'
    BY <1>10, FreshIf, ProcsAssumption DEF SteerRefused, Return, Finished, Goto, durable,
       PcType, Procs
  <1>11. ASSUME NEW c \in Clients, Cancel(c) PROVE FreshInv'
    BY <1>11, FreshIf, ProcsAssumption DEF Cancel, Goto, durable, PcType, Procs
  <1>12. ASSUME NEW c \in Clients, CancelRun(c) PROVE FreshInv'
    BY <1>12, FreshIf, ProcsAssumption DEF CancelRun, Return, Finished, Goto, PcType, Procs
  <1>13. ASSUME NEW c \in Clients, Attach(c) PROVE FreshInv'
    BY <1>13, FreshIf, ProcsAssumption DEF Attach, durable, PcType, Procs
  <1>14. ASSUME NEW c \in Clients, NEW a \in DOMAIN approvals, NEW accepted \in BOOLEAN,
                ResolveApproval(c, a, accepted)
         PROVE  FreshInv'
    <2>1. /\ req'[c].app = a /\ req'[c].fresh = (approvals[a].rev = intents)
          /\ \A d \in Clients : d # c => req'[d] = req[d]
      BY <1>14 DEF ResolveApproval, ReqType
    <2>2. pc'[c] = "resolve" /\ \A q \in Procs : q # c => pc'[q] = pc[q]
      BY <1>14 DEF ResolveApproval, Goto, PcType, Procs
    <2>3. UNCHANGED <<approvals, intents, carry>>
      BY <1>14 DEF ResolveApproval, durable
    <2> QED BY <2>1, <2>2, <2>3, ProcsAssumption DEF FreshInv, RevisionsKnown, FreshSoFar, Procs
  <1>15. ASSUME NEW c \in Clients, CheckApproval(c) PROVE FreshInv'
    <2>1. /\ DOMAIN approvals' = DOMAIN approvals
          /\ \A a \in DOMAIN approvals : approvals'[a].rev = approvals[a].rev
      BY <1>15, ResolvedFacts DEF CheckApproval
    <2>2. CASE pc'[c] # "record"
      BY <1>15, <2>1, <2>2, FreshIf, ProcsAssumption
         DEF CheckApproval, Answer, Goto, PcType, ReqType, Procs
    <2>3. CASE pc'[c] = "record"
      <3>1. req[c].fresh /\ UNCHANGED <<approvals, req, intents, carry>>
        BY <1>15, <2>3 DEF CheckApproval, Answer, Goto, PcType, Procs, IsFresh, FreshInv,
           FreshSoFar
      <3>2. pc' = [pc EXCEPT ![c] = "record"]
        BY <1>15, <2>3 DEF CheckApproval, Answer, Goto, PcType, Procs
      <3> QED BY <3>1, <3>2, ProcsAssumption
           DEF FreshInv, RevisionsKnown, FreshSoFar, PcType, Procs
    <2> QED BY <2>2, <2>3
  <1>16. ASSUME NEW c \in Clients, RecordResolution(c) PROVE FreshInv'
    <2>1. /\ DOMAIN approvals' = DOMAIN approvals
          /\ \A a \in DOMAIN approvals : approvals'[a].rev = approvals[a].rev
      BY <1>16, ResolvedFacts DEF RecordResolution
    <2> QED BY <1>16, <2>1, FreshIf, ProcsAssumption
         DEF RecordResolution, Answer, Goto, PcType, ReqType, Procs
  <1>17. ASSUME NEW c \in Clients, ExecuteApproved(c) PROVE FreshInv'
    BY <1>17, FreshIf, ProcsAssumption DEF ExecuteApproved, Answer, Goto, durable, PcType,
       ReqType, Procs
  <1>18. ASSUME NEW c \in Clients, NEW l \in Loops, Resume(c, l) PROVE FreshInv'
    BY <1>18, FreshIf, ProcsAssumption DEF Resume, durable, PcType, ReqType, Procs
  <1>19. ASSUME NEW c \in Clients, NoResume(c) PROVE FreshInv'
    BY <1>19, FreshIf, ProcsAssumption DEF NoResume, Answer, Goto, durable, PcType,
       ReqType, Procs
  <1>20. ASSUME NEW l \in Loops, LoopBuild(l) PROVE FreshInv'
    BY <1>20, FreshIf, ProcsAssumption DEF LoopBuild, Goto, PcType, Procs
  <1>21. ASSUME NEW l \in Loops, LoopTop(l) PROVE FreshInv'
    BY <1>21, FreshIf, ProcsAssumption DEF LoopTop, Goto, durable, PcType, Procs
  <1>22. ASSUME NEW l \in Loops, LoopModel(l) PROVE FreshInv'
    BY <1>22, FreshIf, ProcsAssumption DEF LoopModel, Goto, durable, PcType, Procs
  <1>23. ASSUME NEW l \in Loops, LoopAsk(l) PROVE FreshInv'
    <2>1. /\ carry'[l] = intents /\ UNCHANGED <<approvals, intents, req>>
          /\ \A k \in Loops : k # l => carry'[k] = carry[k]
      BY <1>23 DEF LoopAsk, durable, WorkType, Procs
    <2>2. pc'[l] = "request" /\ \A q \in Procs : q # l => pc'[q] = pc[q]
      BY <1>23 DEF LoopAsk, Goto, PcType, Procs
    <2>3. intents \in Nat
      BY DEF LogType
    <2> QED BY <2>1, <2>2, <2>3, ProcsAssumption DEF FreshInv, RevisionsKnown, FreshSoFar, Procs
  <1>24. ASSUME NEW l \in Loops, LoopRequest(l) PROVE FreshInv'
    <2>1. /\ approvals' = Append(approvals, [state |-> "pending", rev |-> carry[l], tool |-> 0])
          /\ UNCHANGED <<intents, req>> /\ carry[l] <= intents
          /\ \A k \in Loops : k # l => carry'[k] = carry[k]
      BY <1>24 DEF LoopRequest, FreshInv, RevisionsKnown, WorkType, Procs
    <2>2. pc'[l] = "defer" /\ \A q \in Procs : q # l => pc'[q] = pc[q]
      BY <1>24 DEF LoopRequest, Goto, PcType, Procs
    <2>3. /\ DOMAIN approvals' = DOMAIN approvals \cup {Len(approvals) + 1}
          /\ \A a \in DOMAIN approvals : approvals'[a] = approvals[a]
          /\ approvals'[Len(approvals) + 1].rev = carry[l]
      BY <2>1 DEF LogType
    <2>4. RevisionsKnown'
      BY <2>1, <2>2, <2>3 DEF FreshInv, RevisionsKnown, Procs
    <2>5. FreshSoFar'
      BY <2>1, <2>2, <2>3, ProcsAssumption DEF FreshInv, FreshSoFar, Procs
    <2> QED BY <2>4, <2>5 DEF FreshInv
  <1>25. ASSUME NEW l \in Loops, LoopDefer(l) PROVE FreshInv'
    <2>1. carry[l] \in Nat
      BY DEF WorkType, Procs
    <2>2. /\ DOMAIN approvals' = DOMAIN approvals
          /\ \A a \in DOMAIN approvals : approvals'[a].rev = approvals[a].rev
      BY <1>25, <2>1, DeferFacts DEF LoopDefer
    <2> QED BY <1>25, <2>2, FreshIf, ProcsAssumption DEF LoopDefer, Goto, PcType, WorkType, Procs
  <1>26. ASSUME NEW l \in Loops, LoopAllowed(l) PROVE FreshInv'
    BY <1>26, FreshIf, DeferFacts, BoundsAssumption DEF LoopAllowed, AllowedCall, memory
  <1>27. ASSUME NEW l \in Loops, LoopNextTurn(l) PROVE FreshInv'
    BY <1>27, FreshIf, ProcsAssumption DEF LoopNextTurn, Goto, durable, PcType, Procs
  <1>28. ASSUME NEW l \in Loops, LoopOk(l) PROVE FreshInv'
    BY <1>28, FreshIf, ProcsAssumption DEF LoopOk, Goto, durable, PcType, Procs
  <1>29. ASSUME NEW l \in Loops, LoopGate(l) PROVE FreshInv'
    BY <1>29, FreshIf, ProcsAssumption DEF LoopGate, Goto, PcType, Procs
  <1>30. ASSUME NEW l \in Loops, LoopErr(l) PROVE FreshInv'
    BY <1>30, FreshIf, ProcsAssumption DEF LoopErr, Goto, PcType, Procs
  <1>31. ASSUME NEW l \in Loops, LoopRemove(l) PROVE FreshInv'
    BY <1>31, FreshIf, ProcsAssumption DEF LoopRemove, Goto, durable, PcType, Procs
  <1>32. ASSUME NEW l \in Loops, LoopLock(l) PROVE FreshInv'
    BY <1>32, FreshIf, ProcsAssumption DEF LoopLock, Goto, durable, PcType, Procs
  <1>33. CASE Crash
    BY <1>33, FreshIf, ProcsAssumption DEF Crash, Finished, durable, Procs
  <1>34. CASE UNCHANGED vars
    BY <1>34, FreshIf DEF vars, memory, durable
  <1> QED
    BY <1>1, <1>2, <1>3, <1>4, <1>5, <1>6, <1>7, <1>8, <1>9, <1>10, <1>11, <1>12, <1>13,
       <1>14, <1>15, <1>16, <1>17, <1>18, <1>19, <1>20, <1>21, <1>22, <1>23, <1>24, <1>25,
       <1>26, <1>27, <1>28, <1>29, <1>30, <1>31, <1>32, <1>33, <1>34
    DEF Next, Request, Serve, LoopStep, Continue, Procs

-----------------------------------------------------------------------------
(* Follow-ups                                                               *)

\* Who has taken a follow-up and not started or dropped it yet.
Carrying == {p \in Procs : pc[p] \in {"lock", "turn"}}

\* A follow-up is in one place at most: in the queue, with one process, or started.
\* FollowUpsFireOnce alone is not inductive.
QueuedOnce ==
    \A i \in DOMAIN followUps :
        /\ followUps[i] <= intents
        /\ \A j \in DOMAIN followUps : followUps[i] = followUps[j] => i = j
        /\ \A p \in Carrying : carry[p] # followUps[i]
CarriedOnce ==
    \A p \in Carrying :
        /\ carry[p] <= intents
        /\ \A q \in Carrying : carry[p] = carry[q] => p = q
FiredOnce ==
    \A i \in DOMAIN fired :
        /\ fired[i] <= intents
        /\ \A j \in DOMAIN followUps : followUps[j] # fired[i]
        /\ \A p \in Carrying : carry[p] # fired[i]
FireInv == QueuedOnce /\ CarriedOnce /\ FiredOnce /\ FollowUpsFireOnce

\* Follow-ups are intent revisions.
LEMMA FireNats ==
  ASSUME LogType, WorkType
  PROVE  /\ intents \in Nat
         /\ \A p \in Procs : carry[p] \in Nat
         /\ \A i \in DOMAIN followUps : followUps[i] \in Nat
         /\ \A i \in DOMAIN fired : fired[i] \in Nat
  BY DEF LogType, WorkType

\* A step that leaves queue and started follow-ups alone and gives nobody one.
LEMMA FireIf ==
  ASSUME LogType, WorkType, FireInv, intents' = intents \/ intents' = intents + 1,
         UNCHANGED <<followUps, fired>>,
         \A p \in Procs : pc'[p] \in {"lock", "turn"} =>
            pc[p] \in {"lock", "turn"} /\ carry'[p] = carry[p]
  PROVE  FireInv'
  <1>1. Carrying' \subseteq Carrying /\ \A p \in Carrying' : carry'[p] = carry[p]
    BY DEF Carrying
  <1>2. /\ intents \in Nat /\ \A p \in Carrying : carry[p] \in Nat
        /\ \A i \in DOMAIN followUps : followUps[i] \in Nat
        /\ \A i \in DOMAIN fired : fired[i] \in Nat
    BY FireNats DEF Carrying
  <1>3. QueuedOnce' /\ CarriedOnce'
    BY <1>1, <1>2 DEF FireInv, QueuedOnce, CarriedOnce
  <1>4. FiredOnce' /\ FollowUpsFireOnce'
    BY <1>1, <1>2 DEF FireInv, FiredOnce, FollowUpsFireOnce
  <1> QED BY <1>3, <1>4 DEF FireInv

\* A follow-up moves from the queue to one process and from there to one start.
LEMMA FireNext ==
  ASSUME LogType, PcType, WorkType, FireInv, [Next]_vars
  PROVE  FireInv'
  <1>1. ASSUME NEW p \in Procs, TakeFollowUp(p) PROVE FireInv'
    <2>1. CASE routerRun = run[p] /\ followUps # <<>>
      <3>1. /\ followUps' = Tail(followUps) /\ carry' = [carry EXCEPT ![p] = Head(followUps)]
            /\ pc' = [pc EXCEPT ![p] = IF p \in Clients THEN "turn" ELSE "lock"]
            /\ UNCHANGED <<intents, fired>> /\ pc[p] = "take"
        BY <1>1, <2>1 DEF TakeFollowUp, Goto, durable, history
      <3>2. /\ \A i \in DOMAIN followUps' :
                  i + 1 \in DOMAIN followUps /\ followUps'[i] = followUps[i + 1]
            /\ 1 \in DOMAIN followUps /\ carry'[p] = followUps[1]
            /\ \A i \in DOMAIN followUps' : i \in Nat /\ i + 1 # 1
        BY <2>1, <3>1 DEF WorkType
      <3>3. /\ Carrying' = Carrying \cup {p} /\ p \notin Carrying
            /\ \A q \in Carrying : carry'[q] = carry[q]
        BY <3>1 DEF Carrying, PcType, WorkType
      <3>4. QueuedOnce'
        BY <3>1, <3>2, <3>3 DEF FireInv, QueuedOnce
      <3>5. CarriedOnce'
        BY <3>1, <3>2, <3>3 DEF FireInv, QueuedOnce, CarriedOnce
      <3>6. FiredOnce' /\ FollowUpsFireOnce'
        BY <3>1, <3>2, <3>3 DEF FireInv, FiredOnce, FollowUpsFireOnce
      <3> QED BY <3>4, <3>5, <3>6 DEF FireInv
    <2>2. CASE ~(routerRun = run[p] /\ followUps # <<>>)
      BY <1>1, <2>2, FireIf
         DEF TakeFollowUp, Goto, Finished, PcType, WorkType, durable, history
    <2> QED BY <2>1, <2>2
  <1>2. ASSUME NEW p \in Procs, BeginTurn(p) PROVE FireInv'
    <2>1. CASE activeRun = 0
      <3>1. /\ fired' = Append(fired, carry[p]) /\ intents' = intents + 1
            /\ UNCHANGED followUps /\ pc[p] = "turn" /\ pc' = [pc EXCEPT ![p] = "start"]
            /\ carry' = [carry EXCEPT ![p] = 0]
        BY <1>2, <2>1 DEF BeginTurn, Goto
      <3>2. /\ DOMAIN fired' = DOMAIN fired \cup {Len(fired) + 1}
            /\ \A i \in DOMAIN fired : fired'[i] = fired[i]
            /\ fired'[Len(fired) + 1] = carry[p]
        BY <3>1 DEF WorkType
      <3>3. /\ p \in Carrying /\ Carrying' = Carrying \ {p}
            /\ \A q \in Carrying' : carry'[q] = carry[q]
        BY <3>1 DEF Carrying, PcType, WorkType
      <3>4. /\ intents \in Nat /\ \A q \in Carrying : carry[q] \in Nat
            /\ \A i \in DOMAIN followUps : followUps[i] \in Nat
            /\ \A i \in DOMAIN fired : fired[i] \in Nat
        BY FireNats DEF Carrying
      <3>5. QueuedOnce' /\ CarriedOnce'
        BY <3>1, <3>3, <3>4 DEF FireInv, QueuedOnce, CarriedOnce
      <3>6. FiredOnce'
        BY <3>1, <3>2, <3>3, <3>4 DEF FireInv, FiredOnce, QueuedOnce, CarriedOnce
      <3>7. FollowUpsFireOnce'
        BY <3>2, <3>3 DEF FireInv, FiredOnce, FollowUpsFireOnce
      <3> QED BY <3>5, <3>6, <3>7 DEF FireInv
    <2>2. CASE activeRun # 0
      BY <1>2, <2>2, FireIf DEF BeginTurn, Return, Finished, Goto, PcType, WorkType
    <2> QED BY <2>1, <2>2
  <1>3. ASSUME NEW p \in Procs, StartRun(p) PROVE FireInv'
    BY <1>3, FireIf, ProcsAssumption DEF StartRun, Goto, PcType, WorkType, Procs, durable,
       history
  <1>4. ASSUME NEW p \in Procs, ModelRefused(p) PROVE FireInv'
    BY <1>4, FireIf, ProcsAssumption DEF ModelRefused, Return, Finished, Goto, PcType,
       WorkType, Procs, durable, history
  <1>5. ASSUME NEW p \in Procs, NEW l \in Loops, Launch(p, l) PROVE FireInv'
    BY <1>5, FireIf, ProcsAssumption DEF Launch, Finished, PcType, WorkType, Procs,
       durable, history
  <1>6. ASSUME NEW c \in Clients, Prompt(c) PROVE FireInv'
    BY <1>6, FireIf, ProcsAssumption DEF Prompt, Submit, Goto, PcType, WorkType, Procs,
       durable, history
  <1>7. ASSUME NEW c \in Clients, Steer(c) PROVE FireInv'
    BY <1>7, FireIf, ProcsAssumption DEF Steer, Submit, Goto, PcType, WorkType, Procs,
       durable, history
  <1>8. ASSUME NEW c \in Clients, FollowUp(c) PROVE FireInv'
    <2>1. /\ followUps' = Append(followUps, intents + 1) /\ intents' = intents + 1
          /\ UNCHANGED <<fired, pc, carry>>
      BY <1>8 DEF FollowUp, Submit
    <2>2. /\ DOMAIN followUps' = DOMAIN followUps \cup {Len(followUps) + 1}
          /\ \A i \in DOMAIN followUps : followUps'[i] = followUps[i]
          /\ followUps'[Len(followUps) + 1] = intents + 1
      BY <2>1 DEF WorkType
    <2>3. /\ Carrying' = Carrying /\ intents \in Nat
          /\ \A q \in Carrying : carry[q] \in Nat
          /\ \A i \in DOMAIN followUps : followUps[i] \in Nat
          /\ \A i \in DOMAIN fired : fired[i] \in Nat
      BY <2>1, FireNats DEF Carrying
    <2>4. QueuedOnce'
      BY <2>1, <2>2, <2>3 DEF FireInv, QueuedOnce, CarriedOnce
    <2>5. CarriedOnce' /\ FiredOnce' /\ FollowUpsFireOnce'
      BY <2>1, <2>2, <2>3 DEF FireInv, CarriedOnce, FiredOnce, FollowUpsFireOnce
    <2> QED BY <2>4, <2>5 DEF FireInv
  <1>9. ASSUME NEW c \in Clients, SteerAccepted(c) PROVE FireInv'
    BY <1>9, FireIf, ProcsAssumption DEF SteerAccepted, Return, Finished, Goto, PcType,
       WorkType, Procs, durable, history
  <1>10. ASSUME NEW c \in Clients, SteerRefused(c) PROVE FireInv'
    BY <1>10, FireIf, ProcsAssumption DEF SteerRefused, Return, Finished, Goto, PcType,
       WorkType, Procs, durable, history
  <1>11. ASSUME NEW c \in Clients, Cancel(c) PROVE FireInv'
    BY <1>11, FireIf, ProcsAssumption DEF Cancel, Goto, PcType, WorkType, Procs, durable,
       history
  <1>12. ASSUME NEW c \in Clients, CancelRun(c) PROVE FireInv'
    BY <1>12, FireIf, ProcsAssumption DEF CancelRun, Return, Finished, Goto, PcType,
       WorkType, Procs, durable, history
  <1>13. ASSUME NEW c \in Clients, Attach(c) PROVE FireInv'
    BY <1>13, FireIf, ProcsAssumption DEF Attach, PcType, WorkType, Procs, durable, history
  <1>14. ASSUME NEW c \in Clients, NEW a \in DOMAIN approvals, NEW accepted \in BOOLEAN,
                ResolveApproval(c, a, accepted)
         PROVE  FireInv'
    BY <1>14, FireIf, ProcsAssumption DEF ResolveApproval, Goto, PcType, WorkType, Procs,
       durable, history
  <1>15. ASSUME NEW c \in Clients, CheckApproval(c) PROVE FireInv'
    BY <1>15, FireIf, ProcsAssumption DEF CheckApproval, Answer, Goto, PcType, WorkType,
       Procs, durable, history
  <1>16. ASSUME NEW c \in Clients, RecordResolution(c) PROVE FireInv'
    BY <1>16, FireIf, ProcsAssumption DEF RecordResolution, Answer, Goto, PcType, WorkType,
       Procs, durable, history
  <1>17. ASSUME NEW c \in Clients, ExecuteApproved(c) PROVE FireInv'
    BY <1>17, FireIf, ProcsAssumption DEF ExecuteApproved, Answer, Goto, PcType, WorkType,
       Procs, durable, history
  <1>18. ASSUME NEW c \in Clients, NEW l \in Loops, Resume(c, l) PROVE FireInv'
    BY <1>18, FireIf, ProcsAssumption DEF Resume, PcType, WorkType, Procs, durable, history
  <1>19. ASSUME NEW c \in Clients, NoResume(c) PROVE FireInv'
    BY <1>19, FireIf, ProcsAssumption DEF NoResume, Answer, Goto, PcType, WorkType, Procs,
       durable, history
  <1>20. ASSUME NEW l \in Loops, LoopBuild(l) PROVE FireInv'
    BY <1>20, FireIf, ProcsAssumption DEF LoopBuild, Goto, PcType, WorkType, Procs,
       durable, history
  <1>21. ASSUME NEW l \in Loops, LoopTop(l) PROVE FireInv'
    BY <1>21, FireIf, ProcsAssumption DEF LoopTop, Goto, PcType, WorkType, Procs, durable,
       history
  <1>22. ASSUME NEW l \in Loops, LoopModel(l) PROVE FireInv'
    BY <1>22, FireIf, ProcsAssumption DEF LoopModel, Goto, PcType, WorkType, Procs,
       durable, history
  <1>23. ASSUME NEW l \in Loops, LoopAsk(l) PROVE FireInv'
    BY <1>23, FireIf, ProcsAssumption DEF LoopAsk, Goto, PcType, WorkType, Procs, durable,
       history
  <1>24. ASSUME NEW l \in Loops, LoopRequest(l) PROVE FireInv'
    BY <1>24, FireIf, ProcsAssumption DEF LoopRequest, Goto, PcType, WorkType, Procs,
       durable, history
  <1>25. ASSUME NEW l \in Loops, LoopDefer(l) PROVE FireInv'
    BY <1>25, FireIf, ProcsAssumption DEF LoopDefer, Goto, PcType, WorkType, Procs,
       durable, history
  <1>26. ASSUME NEW l \in Loops, LoopAllowed(l) PROVE FireInv'
    BY <1>26, FireIf, ProcsAssumption DEF LoopAllowed, PcType, WorkType, Procs, durable,
       history, memory
  <1>27. ASSUME NEW l \in Loops, LoopNextTurn(l) PROVE FireInv'
    BY <1>27, FireIf, ProcsAssumption DEF LoopNextTurn, Goto, PcType, WorkType, Procs,
       durable, history
  <1>28. ASSUME NEW l \in Loops, LoopOk(l) PROVE FireInv'
    BY <1>28, FireIf, ProcsAssumption DEF LoopOk, Goto, PcType, WorkType, Procs, durable,
       history
  <1>29. ASSUME NEW l \in Loops, LoopGate(l) PROVE FireInv'
    BY <1>29, FireIf, ProcsAssumption DEF LoopGate, Goto, PcType, WorkType, Procs, durable,
       history
  <1>30. ASSUME NEW l \in Loops, LoopErr(l) PROVE FireInv'
    BY <1>30, FireIf, ProcsAssumption DEF LoopErr, Goto, PcType, WorkType, Procs, durable,
       history
  <1>31. ASSUME NEW l \in Loops, LoopRemove(l) PROVE FireInv'
    BY <1>31, FireIf, ProcsAssumption DEF LoopRemove, Goto, PcType, WorkType, Procs,
       durable, history
  <1>32. ASSUME NEW l \in Loops, LoopLock(l) PROVE FireInv'
    BY <1>32, FireIf, ProcsAssumption DEF LoopLock, Goto, PcType, WorkType, Procs, durable,
       history
  <1>33. CASE Crash
    BY <1>33, FireNats DEF Crash, Finished, durable, Procs, Carrying, FireInv, QueuedOnce,
       CarriedOnce,
       FiredOnce, FollowUpsFireOnce
  <1>34. CASE UNCHANGED vars
    BY <1>34, FireIf DEF vars, memory, durable, history
  <1> QED
    BY <1>1, <1>2, <1>3, <1>4, <1>5, <1>6, <1>7, <1>8, <1>9, <1>10, <1>11, <1>12, <1>13,
       <1>14, <1>15, <1>16, <1>17, <1>18, <1>19, <1>20, <1>21, <1>22, <1>23, <1>24, <1>25,
       <1>26, <1>27, <1>28, <1>29, <1>30, <1>31, <1>32, <1>33, <1>34
    DEF Next, Request, Serve, LoopStep, Continue, Procs

-----------------------------------------------------------------------------
IInv == Types /\ MutexHeld /\ RunsInv /\ FreshInv /\ FireInv

\* The inductive invariant holds initially.
LEMMA InitIInv == Init => IInv
  <1> SUFFICES ASSUME Init PROVE IInv
    OBVIOUS
  <1>1. MutexHeld
    BY ProcsAssumption DEF Init, MutexHeld, Holds, Holding, Finished, Procs
  <1>2. RunsInv
    BY DEF Init, RunsInv, NoAbandonedRun, StartClear, ActiveOpen, Runs, Finished
  <1>3. FreshInv
    BY ProcsAssumption DEF Init, FreshInv, RevisionsKnown, FreshSoFar, Finished, Procs
  <1>4. FireInv
    BY DEF Init, FireInv, QueuedOnce, CarriedOnce, FiredOnce, FollowUpsFireOnce, Carrying,
       Finished
  <1> QED BY <1>1, <1>2, <1>3, <1>4, TypesInit DEF IInv

\* Every step keeps it, and keeps the outcomes of the runs that ended.
LEMMA NextIInv == IInv /\ [Next]_vars => IInv' /\ EndedStays
  BY TypesNext, MutexNext, RunsNext, FreshNext, FireNext DEF IInv, Types

\* So it always holds.
LEMMA Inductive == Spec => []IInv
  BY InitIInv, NextIInv, PTL DEF Spec

\* The projection, the daemon's memory and the requests keep their shape.
THEOREM TypeCorrect == Spec => []TypeOK
  BY Inductive, TypesTypeOK, PTL DEF IInv

\* The session mutex that Prompt, Cancel and the drain take excludes.
THEOREM MutualExclusion == Spec => []MutexHeld
  BY Inductive, PTL DEF IInv

\* A run that has not ended is the active one, although start_run looks at nothing
\* and the guard is an earlier read of the log.
THEOREM AtMostOneRun == Spec => []NoAbandonedRun
  BY Inductive, PTL DEF IInv, RunsInv

\* finish_run of a late task or of Cancel never changes how a run ended.
THEOREM FinalOutcomes == Spec => OutcomeIsFinal
  <1>1. IInv /\ [Next]_vars =>
          [\A r \in Runs : outcome[r] # "open" => outcome'[r] = outcome[r]]_vars
    BY NextIInv DEF EndedStays
  <1> QED BY <1>1, Inductive, PTL DEF Spec, OutcomeIsFinal

\* resolve_approval refuses what was stale when the answer arrived, whatever other
\* requests and tasks record between its reads.
THEOREM StaleRefused == Spec => []StaleNeverExecutes
  <1>1. IInv => StaleNeverExecutes
    BY DEF IInv, FreshInv, FreshSoFar, StaleNeverExecutes
  <1> QED BY <1>1, Inductive, PTL

\* take_follow_up_on_run_terminal does not let Cancel and a completed task start the
\* same follow-up, nor one of them start it twice.
THEOREM AtMostOnce == Spec => []FollowUpsFireOnce
  BY Inductive, PTL DEF IInv, FireInv
=============================================================================
