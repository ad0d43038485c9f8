-------------------------------- MODULE Pty --------------------------------
(***************************************************************************)
(* PtySessionManager: the table of PTY sessions, the map of live handles   *)
(* and the durable rows behind them, under the calls of several client     *)
(* connections.  The two mutexes of the manager are modelled as locks,     *)
(* because the calls take them in different orders and keep one of them    *)
(* while they wait for a reader thread.  What a session prints is the      *)
(* subject of OutputRing.                                                  *)
(***************************************************************************)
EXTENDS Naturals, FiniteSets

CONSTANTS
    Conns,       \* client connections
    Nobody,      \* the holder of a free lock
    MaxPty,      \* bound on the ids handed out
    PtyCrashes   \* bound on daemon restarts

ASSUME PtyConstants ==
    /\ Nobody \notin Conns
    /\ MaxPty \in Nat \ {0}
    /\ PtyCrashes \in Nat

VARIABLES
    row,         \* sessions: the state of each entry
    handle,      \* live: the ids with an open PTY
    stored,      \* the rows of the durable store
    nextId,      \* next_id
    sessionsLock, liveLock,
    proc,        \* the process behind a PTY
    held,        \* ids whose terminal a descendant keeps open
    place,       \* what a connection does next
    call,        \* the request it is serving
    saving,      \* the row it has copied and not yet saved
    restarts

ptyVars == <<row, handle, stored, nextId, sessionsLock, liveLock, proc, held,
             place, call, saving, restarts>>
os == <<proc, held>>
locks == <<sessionsLock, liveLock>>

PtyIds == 1..MaxPty
LiveLooking == {"starting", "running", "detached"}
RowStates == LiveLooking \cup {"failed", "exited"}
Requests == {"start", "attach", "detach", "terminate", "status"}
Places == {"idle", "requested", "admitted", "refused", "dropped", "opened", "inserted",
           "refresh", "polled", "reaped", "body", "attaching", "killing", "killed"}

NoCall == [req |-> "status", id |-> 1]

PtyInit ==
    /\ row = [i \in PtyIds |-> "absent"]
    /\ handle = {}
    /\ stored = [i \in PtyIds |-> "absent"]
    /\ nextId = 1
    /\ sessionsLock = Nobody
    /\ liveLock = Nobody
    /\ proc = [i \in PtyIds |-> "none"]
    /\ held = {}
    /\ place = [c \in Conns |-> "idle"]
    /\ call = [c \in Conns |-> NoCall]
    /\ saving = [c \in Conns |-> "none"]
    /\ restarts = 0

\* Connection c stands at p, with nothing left to save.
At(c, p) == place[c] = p /\ saving[c] = "none"
Goto(c, p) == place' = [place EXCEPT ![c] = p]
Id(c) == call[c].id

\* set_state up to its persist: the entry, if there still is one, changes under
\* the sessions lock and a copy of it is left to save.
SetState(c, st) ==
    /\ sessionsLock = Nobody
    /\ IF row[Id(c)] = "absent"
       THEN UNCHANGED <<row, saving>>
       ELSE /\ row' = [row EXCEPT ![Id(c)] = st]
            /\ saving' = [saving EXCEPT ![c] = st]

\* persist and update_state: the copy reaches the store after the lock is free,
\* or fails, which nobody looks at.  refresh_exit leaves the live lock after it.
Persist(c) ==
    /\ saving[c] # "none"
    /\ stored' \in {stored, [stored EXCEPT ![Id(c)] = saving[c]]}
    /\ saving' = [saving EXCEPT ![c] = "none"]
    /\ liveLock' = IF liveLock = c THEN Nobody ELSE liveLock
    /\ UNCHANGED <<row, handle, nextId, sessionsLock, os, place, call, restarts>>

-----------------------------------------------------------------------------
(* start: request, admission, spawn                                        *)

\* request: takes the next id and enters the row.
PtyRequest(c) ==
    /\ At(c, "idle")
    /\ nextId <= MaxPty
    /\ sessionsLock = Nobody
    /\ nextId' = nextId + 1
    /\ call' = [call EXCEPT ![c] = [req |-> "start", id |-> nextId]]
    /\ row' = [row EXCEPT ![nextId] = "starting"]
    /\ saving' = [saving EXCEPT ![c] = "starting"]
    /\ Goto(c, "requested")
    /\ UNCHANGED <<handle, stored, locks, os, restarts>>

\* The admission the effect seam gave: spawn on Allow, forget otherwise.
PtyAdmit(c) ==
    /\ At(c, "requested")
    /\ \E verdict \in {"admitted", "refused"} : Goto(c, verdict)
    /\ UNCHANGED <<row, handle, stored, nextId, locks, os, call, saving, restarts>>

\* forget: the entry and a handle go, then the durable row.
Forget(c) ==
    /\ At(c, "refused")
    /\ sessionsLock = Nobody
    /\ liveLock = Nobody
    /\ row' = [row EXCEPT ![Id(c)] = "absent"]
    /\ handle' = handle \ {Id(c)}
    /\ Goto(c, "dropped")
    /\ UNCHANGED <<stored, nextId, locks, os, call, saving, restarts>>

ForgetStored(c) ==
    /\ At(c, "dropped")
    /\ stored' \in {stored, [stored EXCEPT ![Id(c)] = "absent"]}
    /\ Goto(c, "idle")
    /\ UNCHANGED <<row, handle, nextId, locks, os, call, saving, restarts>>

\* spawn up to the open PTY.  The checks refuse an entry that is running.
SpawnOpen(c) ==
    /\ At(c, "admitted")
    /\ sessionsLock = Nobody
    /\ liveLock = Nobody
    /\ row[Id(c)] \notin {"absent", "running", "detached"}
    /\ Id(c) \notin handle
    /\ proc' = [proc EXCEPT ![Id(c)] = "alive"]
    /\ Goto(c, "opened")
    /\ UNCHANGED <<row, handle, stored, nextId, locks, held, call, saving, restarts>>

SpawnFails(c) ==
    /\ At(c, "admitted")
    /\ SetState(c, "failed")
    /\ Goto(c, "idle")
    /\ UNCHANGED <<handle, stored, nextId, locks, os, call, restarts>>

SpawnInsert(c) ==
    /\ At(c, "opened")
    /\ liveLock = Nobody
    /\ handle' = handle \cup {Id(c)}
    /\ Goto(c, "inserted")
    /\ UNCHANGED <<row, stored, nextId, locks, os, call, saving, restarts>>

\* set_state(Running); start then reads the entry back with get_session.
SpawnRunning(c) ==
    /\ At(c, "inserted")
    /\ SetState(c, "running")
    /\ Goto(c, "refresh")
    /\ UNCHANGED <<handle, stored, nextId, locks, os, call, restarts>>

-----------------------------------------------------------------------------
(* refresh_exit, at the start of every call                                *)

\* A request for an entry of the list.
Send(c, r, i) ==
    /\ At(c, "idle")
    /\ r # "start"
    /\ row[i] # "absent"
    /\ call' = [call EXCEPT ![c] = [req |-> r, id |-> i]]
    /\ Goto(c, "refresh")
    /\ UNCHANGED <<row, handle, stored, nextId, locks, os, saving, restarts>>

\* First critical section: try_wait under the live lock.
Poll(c) ==
    /\ At(c, "refresh")
    /\ liveLock = Nobody
    /\ Goto(c, IF Id(c) \in handle /\ proc[Id(c)] = "dead" THEN "polled" ELSE "body")
    /\ UNCHANGED <<row, handle, stored, nextId, locks, os, call, saving, restarts>>

\* Second critical section: the handle leaves the map; the live lock stays
\* taken until the state is saved.
Reap(c) ==
    /\ At(c, "polled")
    /\ liveLock = Nobody
    /\ liveLock' = c
    /\ handle' = handle \ {Id(c)}
    /\ Goto(c, "reaped")
    /\ UNCHANGED <<row, stored, nextId, sessionsLock, os, call, saving, restarts>>

\* The reader thread ends when nobody has the terminal open any more; then
\* set_state(Exited) takes the sessions lock under the live lock.
ReapExited(c) ==
    /\ At(c, "reaped")
    /\ Id(c) \notin held
    /\ SetState(c, "exited")
    /\ Goto(c, "body")
    /\ UNCHANGED <<handle, stored, nextId, locks, os, call, restarts>>

-----------------------------------------------------------------------------
(* the calls                                                               *)

\* PtyStatus, PtyList and the end of start; PtyInput, PtyOutput and PtyResize
\* change nothing of this state either.
Answer(c) ==
    /\ At(c, "body")
    /\ call[c].req \in {"start", "status"}
    /\ Goto(c, "idle")
    /\ UNCHANGED <<row, handle, stored, nextId, locks, os, call, saving, restarts>>

\* attach takes the sessions lock; only a detached entry needs more.
AttachLook(c) ==
    /\ At(c, "body")
    /\ call[c].req = "attach"
    /\ sessionsLock = Nobody
    /\ \/ /\ row[Id(c)] = "detached"
          /\ sessionsLock' = c
          /\ Goto(c, "attaching")
       \/ /\ row[Id(c)] # "detached"
          /\ UNCHANGED sessionsLock
          /\ Goto(c, "idle")
    /\ UNCHANGED <<row, handle, stored, nextId, liveLock, os, call, saving, restarts>>

\* It looks for the handle while it holds the sessions lock.
AttachLive(c) ==
    /\ At(c, "attaching")
    /\ liveLock = Nobody
    /\ sessionsLock' = Nobody
    /\ IF Id(c) \in handle
       THEN /\ row' = [row EXCEPT ![Id(c)] = "running"]
            /\ saving' = [saving EXCEPT ![c] = "running"]
       ELSE UNCHANGED <<row, saving>>
    /\ Goto(c, "idle")
    /\ UNCHANGED <<handle, stored, nextId, liveLock, os, call, restarts>>

Detach(c) ==
    /\ At(c, "body")
    /\ call[c].req = "detach"
    /\ IF row[Id(c)] = "running"
       THEN SetState(c, "detached")
       ELSE sessionsLock = Nobody /\ UNCHANGED <<row, saving>>
    /\ Goto(c, "idle")
    /\ UNCHANGED <<handle, stored, nextId, locks, os, call, restarts>>

\* A terminate that drops the handle and leaves the child alone.
TerminateForgets(c) ==
    /\ At(c, "body")
    /\ call[c].req = "terminate"
    /\ liveLock = Nobody
    /\ handle' = handle \ {Id(c)}
    /\ Goto(c, "killed")
    /\ UNCHANGED <<row, stored, nextId, locks, os, call, saving, restarts>>

\* terminate: removes the handle and, with the live lock held, kills the
\* child and waits for it.  Without a handle only the state is set.
TerminateTake(c) ==
    /\ At(c, "body")
    /\ call[c].req = "terminate"
    /\ liveLock = Nobody
    /\ \/ /\ Id(c) \in handle
          /\ liveLock' = c
          /\ handle' = handle \ {Id(c)}
          /\ proc' = [proc EXCEPT ![Id(c)] = "dead"]
          /\ Goto(c, "killing")
       \/ /\ Id(c) \notin handle
          /\ UNCHANGED <<liveLock, handle, proc>>
          /\ Goto(c, "killed")
    /\ UNCHANGED <<row, stored, nextId, sessionsLock, held, call, saving, restarts>>

\* A terminate that returns from the join with the live lock.
TerminateKeepsLock(c) ==
    /\ At(c, "killing")
    /\ Id(c) \notin held
    /\ Goto(c, "killed")
    /\ UNCHANGED <<row, handle, stored, nextId, locks, os, call, saving, restarts>>

\* The reader is joined, then the live lock is free again.
TerminateJoin(c) ==
    /\ At(c, "killing")
    /\ Id(c) \notin held
    /\ liveLock' = Nobody
    /\ Goto(c, "killed")
    /\ UNCHANGED <<row, handle, stored, nextId, sessionsLock, os, call, saving, restarts>>

TerminateExited(c) ==
    /\ At(c, "killed")
    /\ SetState(c, "exited")
    /\ Goto(c, "idle")
    /\ UNCHANGED <<handle, stored, nextId, locks, os, call, restarts>>

-----------------------------------------------------------------------------
(* the operating system and the daemon's restart                           *)

\* A child ends by itself, with or without a descendant that keeps the
\* terminal open.
ChildExits(i) ==
    /\ proc[i] = "alive"
    /\ proc' = [proc EXCEPT ![i] = "dead"]
    /\ held' \in {held, held \cup {i}}
    /\ UNCHANGED <<row, handle, stored, nextId, locks, place, call, saving, restarts>>

DescendantExits(i) ==
    /\ i \in held
    /\ held' = held \ {i}
    /\ UNCHANGED <<row, handle, stored, nextId, locks, proc, place, call, saving, restarts>>

\* set_store after a restart: rows that look live become failed, and the ids
\* go on after the largest stored one.
Hydrated == [i \in PtyIds |-> IF stored[i] \in LiveLooking THEN "failed" ELSE stored[i]]
StoredIds == {i \in PtyIds : stored[i] # "absent"}
NextFromZero == IF StoredIds = {} THEN 0 ELSE 1 + Cardinality(StoredIds)
NextStartsOver == 1
NextAfterStored ==
    IF StoredIds = {} THEN 1
    ELSE 1 + CHOOSE m \in StoredIds : \A i \in StoredIds : i <= m

\* The daemon dies: its terminals close, which hangs up on the children.
PtyRestart ==
    /\ restarts < PtyCrashes
    /\ restarts' = restarts + 1
    /\ row' = Hydrated
    /\ stored' = Hydrated
    /\ nextId' = NextAfterStored
    /\ handle' = {}
    /\ proc' = [i \in PtyIds |-> "none"]
    /\ held' = {}
    /\ sessionsLock' = Nobody
    /\ liveLock' = Nobody
    /\ place' = [c \in Conns |-> "idle"]
    /\ call' = [c \in Conns |-> NoCall]
    /\ saving' = [c \in Conns |-> "none"]

-----------------------------------------------------------------------------

PtyServe(c) ==
    \/ Persist(c)
    \/ PtyAdmit(c) \/ Forget(c) \/ ForgetStored(c)
    \/ SpawnOpen(c) \/ SpawnFails(c) \/ SpawnInsert(c) \/ SpawnRunning(c)
    \/ Poll(c) \/ Reap(c) \/ ReapExited(c)
    \/ Answer(c) \/ AttachLook(c) \/ AttachLive(c) \/ Detach(c)
    \/ TerminateTake(c) \/ TerminateJoin(c) \/ TerminateExited(c)

PtyNext ==
    \/ \E c \in Conns :
         \/ PtyRequest(c)
         \/ \E r \in Requests, i \in PtyIds : Send(c, r, i)
         \/ PtyServe(c)
    \/ \E i \in PtyIds : ChildExits(i) \/ DescendantExits(i)
    \/ PtyRestart

PtySpec == PtyInit /\ [][PtyNext]_ptyVars

-----------------------------------------------------------------------------

\* Every part of the manager keeps its shape: entries, durable rows, handles,
\* locks and the place of each connection.
PtyTypeOK ==
    /\ row \in [PtyIds -> RowStates \cup {"absent"}]
    /\ stored \in [PtyIds -> RowStates \cup {"absent"}]
    /\ handle \in SUBSET PtyIds
    /\ nextId \in 1..(MaxPty + 1)
    /\ sessionsLock \in Conns \cup {Nobody}
    /\ liveLock \in Conns \cup {Nobody}
    /\ proc \in [PtyIds -> {"none", "alive", "dead"}]
    /\ held \in SUBSET PtyIds
    /\ place \in [Conns -> Places]
    /\ call \in [Conns -> [req : Requests, id : PtyIds]]
    /\ saving \in [Conns -> RowStates \cup {"none"}]
    /\ restarts \in 0..PtyCrashes

\* No process is lost: whatever runs has a handle through which it can be
\* killed, or is about to get one from the spawn that opened it.  Two clients
\* that refresh, terminate and start, and the two tables they change one after
\* the other, never leave a process that nobody can reach.
NoLostProcess ==
    \A i \in PtyIds : proc[i] = "alive" =>
        \/ i \in handle
        \/ \E c \in Conns : place[c] = "opened" /\ Id(c) = i

\* An id with a durable row is never handed out again, by a daemon that has
\* been restarted either ("restart never reuses a stored session id"), also
\* when saves and deletes fail or overtake each other.
StoredIdsStayTaken == \A i \in StoredIds : i < nextId

\* The calls take the two locks in both orders: refresh_exit asks for the
\* sessions lock under the live lock, attach for the live lock under the
\* sessions lock.  A connection that waits for the other lock while it holds
\* one is one of these two; every other call holds one lock at a time, so all
\* the places where the manager can lock up are known.
LocksNestOnlyHere ==
    \A c \in Conns :
        /\ sessionsLock = c => place[c] = "attaching"
        /\ liveLock = c => \/ place[c] \in {"reaped", "killing"}
                           \/ place[c] = "body" /\ saving[c] # "none"

=============================================================================
