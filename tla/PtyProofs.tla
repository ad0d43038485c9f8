----------------------------- MODULE PtyProofs -----------------------------
(***************************************************************************)
(* PTY ids are never handed out twice, no running process loses its        *)
(* handle, and the two mutexes nest in the two known places only, for any  *)
(* number of connections, sessions and restarts.  Every byte a PTY prints  *)
(* is accounted for once, for any capacity of its ring.                    *)
(***************************************************************************)
EXTENDS Pty, OutputRing, SequenceTheorems, WellFoundedInduction, TLAPS

\* A start that has its id and no open PTY yet, and a start up to its insert.
Unopened == {"requested", "admitted", "refused", "dropped"}
Starting == Unopened \cup {"opened"}

\* Every id in use, by an entry, a durable row or a call, was handed out.
IdsTaken ==
    /\ \A i \in PtyIds : row[i] # "absent" \/ stored[i] # "absent" => i < nextId
    /\ \A c \in Conns : place[c] # "idle" \/ saving[c] # "none" => Id(c) < nextId

\* No two starts work for one id.
OneStarter ==
    \A c, d \in Conns :
        place[c] \in Starting /\ place[d] \in Starting /\ Id(c) = Id(d) => c = d

\* An id has no process until its start opens the PTY, and no handle until it enters it.
HandleAfterOpen ==
    \A c \in Conns :
        /\ place[c] \in Starting => Id(c) \notin handle
        /\ place[c] \in Unopened => proc[Id(c)] = "none"
        /\ place[c] = "opened" => proc[Id(c)] # "none"

\* A handle is that of a process, started for an entry that stays in the table.
ProcessHasRow ==
    \A i \in PtyIds :
        /\ i \in handle => proc[i] # "none"
        /\ proc[i] # "none" => row[i] # "absent"

\* Between the two critical sections of refresh_exit the child stays dead.
PolledIsDead == \A c \in Conns : place[c] \in {"polled", "reaped"} => proc[Id(c)] = "dead"

\* The inductive invariant.  The handle may only be dropped for a process that is
\* dead, which PolledIsDead says of the one that was seen dead under a lock given up
\* since; HandleAfterOpen keeps a start from reviving it.  The live lock is freed with the save,
\* which happens only if the entry is still there: ProcessHasRow.
PtyInv ==
    /\ PtyTypeOK
    /\ IdsTaken
    /\ OneStarter
    /\ HandleAfterOpen
    /\ ProcessHasRow
    /\ PolledIsDead
    /\ NoLostProcess
    /\ LocksNestOnlyHere

-----------------------------------------------------------------------------
\* The invariant holds initially.
LEMMA PtyInitInv == PtyInit => PtyInv
  <1> SUFFICES ASSUME PtyInit PROVE PtyInv
    OBVIOUS
  <1>1. PtyTypeOK
    BY PtyConstants DEF PtyInit, PtyTypeOK, PtyIds, Places, NoCall, Requests
  <1>2. IdsTaken /\ OneStarter /\ HandleAfterOpen
    BY DEF PtyInit, IdsTaken, OneStarter, HandleAfterOpen, Starting, Unopened
  <1>3. ProcessHasRow /\ PolledIsDead /\ NoLostProcess /\ LocksNestOnlyHere
    BY PtyConstants DEF PtyInit, ProcessHasRow, PolledIsDead, NoLostProcess, LocksNestOnlyHere
  <1> QED
    BY <1>1, <1>2, <1>3 DEF PtyInv

\* The id a restart goes on with is free and fits the bound.
LEMMA NextAfterStoredFree ==
  ASSUME PtyTypeOK
  PROVE  NextAfterStored \in 1..(MaxPty + 1) /\ \A i \in StoredIds : i < NextAfterStored
  <1>1. CASE StoredIds = {}
    BY PtyConstants, <1>1 DEF NextAfterStored
  <1>2. CASE StoredIds # {}
    <2> DEFINE Bounds == {n \in Nat : \A i \in StoredIds : i <= n}
    <2>1. StoredIds \subseteq 1..MaxPty
      BY DEF StoredIds, PtyIds
    <2>2. \E m \in StoredIds : \A i \in StoredIds : i <= m
      <3>1. MaxPty \in Bounds
        BY PtyConstants, <2>1
      <3>2. PICK m \in Bounds : \A n \in Bounds : ~(<<n, m>> \in OpToRel(<, Nat))
        BY <3>1, NatLessThanWellFounded, WFMin
      <3>3. \A n \in Bounds : ~(n < m)
        BY <3>2 DEF OpToRel
      <3>4. CASE m \in StoredIds
        BY <3>4
      <3>5. CASE m \notin StoredIds
        <4> PICK i \in StoredIds : TRUE
          BY <1>2
        <4>1. m \in Nat /\ m # 0
          <5>1. i \in Nat /\ i > 0
            BY PtyConstants, <2>1
          <5> QED
            BY <5>1
        <4>2. m - 1 \in Bounds
          BY <2>1, <3>5, <4>1
        <4> QED
          BY <3>3, <4>1, <4>2
      <3> QED
        BY <3>4, <3>5
    <2>3. PICK m \in StoredIds : NextAfterStored = 1 + m /\ \A i \in StoredIds : i <= m
      BY <1>2, <2>2 DEF NextAfterStored
    <2> QED
      BY PtyConstants, <2>1, <2>3
  <1> QED
    BY <1>1, <1>2

\* The id of a call is one that can be handed out.
LEMMA IdType == ASSUME PtyTypeOK, NEW c \in Conns PROVE Id(c) \in PtyIds
  BY DEF PtyTypeOK, Id

\* Every step keeps the types.
LEMMA PtyTypeNext == PtyInv /\ PtyNext => PtyTypeOK'
  <1> SUFFICES ASSUME PtyInv, PtyNext PROVE PtyTypeOK'
    OBVIOUS
  <1>a. /\ {"starting", "running", "detached", "failed", "exited"} \subseteq RowStates
        /\ "start" \in Requests /\ RowStates \ {"none"} = RowStates
    BY DEF RowStates, LiveLooking, Requests
  <1>b. {"idle", "requested", "admitted", "refused", "dropped", "opened", "inserted",
         "refresh", "polled", "reaped", "body", "attaching", "killing", "killed"}
        \subseteq Places
    BY DEF Places
  <1>c. nextId <= MaxPty => nextId \in PtyIds /\ nextId + 1 \in 1..(MaxPty + 1)
    BY PtyConstants DEF PtyInv, PtyTypeOK, PtyIds
  <1>d. restarts < PtyCrashes => restarts + 1 \in 0..PtyCrashes
    BY PtyConstants DEF PtyInv, PtyTypeOK
  <1>e. \A c \in Conns : Id(c) \in PtyIds
    BY IdType DEF PtyInv
  <1>1. ASSUME NEW c \in Conns, PtyRequest(c) PROVE PtyTypeOK'
    BY <1>1, PtyConstants, <1>a, <1>b, <1>c, <1>d, <1>e DEF PtyRequest, At, Goto, locks,
       os, PtyInv, PtyTypeOK
  <1>2. ASSUME NEW c \in Conns, NEW r \in Requests, NEW i \in PtyIds, Send(c, r, i) PROVE PtyTypeOK'
    BY <1>2, PtyConstants, <1>a, <1>b, <1>c, <1>d, <1>e DEF Send, At, Goto, locks, os,
       PtyInv, PtyTypeOK
  <1>3. ASSUME NEW c \in Conns, Persist(c) PROVE PtyTypeOK'
    BY <1>3 DEF Persist, os, PtyInv, PtyTypeOK
  <1>4. ASSUME NEW c \in Conns, PtyAdmit(c) PROVE PtyTypeOK'
    BY <1>4, PtyConstants, <1>a, <1>b, <1>c, <1>d, <1>e DEF PtyAdmit, At, Goto, locks,
       os, PtyInv, PtyTypeOK
  <1>5. ASSUME NEW c \in Conns, Forget(c) PROVE PtyTypeOK'
    BY <1>5, PtyConstants, <1>a, <1>b, <1>c, <1>d, <1>e DEF Forget, At, Goto, locks, os,
       PtyInv, PtyTypeOK
  <1>6. ASSUME NEW c \in Conns, ForgetStored(c) PROVE PtyTypeOK'
    BY <1>6, PtyConstants, <1>a, <1>b, <1>c, <1>d, <1>e DEF ForgetStored, At, Goto,
       locks, os, PtyInv, PtyTypeOK
  <1>7. ASSUME NEW c \in Conns, SpawnOpen(c) PROVE PtyTypeOK'
    BY <1>7, PtyConstants, <1>a, <1>b, <1>c, <1>d, <1>e DEF SpawnOpen, At, Goto, locks,
       os, PtyInv, PtyTypeOK
  <1>8. ASSUME NEW c \in Conns, SpawnFails(c) PROVE PtyTypeOK'
    BY <1>8, PtyConstants, <1>a, <1>b, <1>c, <1>d, <1>e DEF SpawnFails, At, Goto,
       SetState, locks, os, PtyInv, PtyTypeOK
  <1>9. ASSUME NEW c \in Conns, SpawnInsert(c) PROVE PtyTypeOK'
    BY <1>9, PtyConstants, <1>a, <1>b, <1>c, <1>d, <1>e DEF SpawnInsert, At, Goto,
       locks, os, PtyInv, PtyTypeOK
  <1>10. ASSUME NEW c \in Conns, SpawnRunning(c) PROVE PtyTypeOK'
    BY <1>10, PtyConstants, <1>a, <1>b, <1>c, <1>d, <1>e DEF SpawnRunning, At, Goto,
       SetState, locks, os, PtyInv, PtyTypeOK
  <1>11. ASSUME NEW c \in Conns, Poll(c) PROVE PtyTypeOK'
    BY <1>11, PtyConstants, <1>a, <1>b, <1>c, <1>d, <1>e DEF Poll, At, Goto, locks, os,
       PtyInv, PtyTypeOK
  <1>12. ASSUME NEW c \in Conns, Reap(c) PROVE PtyTypeOK'
    BY <1>12, PtyConstants, <1>a, <1>b, <1>c, <1>d, <1>e DEF Reap, At, Goto, os, PtyInv,
       PtyTypeOK
  <1>13. ASSUME NEW c \in Conns, ReapExited(c) PROVE PtyTypeOK'
    BY <1>13, PtyConstants, <1>a, <1>b, <1>c, <1>d, <1>e DEF ReapExited, At, Goto,
       SetState, locks, os, PtyInv, PtyTypeOK
  <1>14. ASSUME NEW c \in Conns, Answer(c) PROVE PtyTypeOK'
    BY <1>14, PtyConstants, <1>a, <1>b, <1>c, <1>d, <1>e DEF Answer, At, Goto, locks,
       os, PtyInv, PtyTypeOK
  <1>15. ASSUME NEW c \in Conns, AttachLook(c) PROVE PtyTypeOK'
    BY <1>15, PtyConstants, <1>a, <1>b, <1>c, <1>d, <1>e DEF AttachLook, At, Goto, os,
       PtyInv, PtyTypeOK
  <1>16. ASSUME NEW c \in Conns, AttachLive(c) PROVE PtyTypeOK'
    <2>1. UNCHANGED <<handle, stored, nextId, liveLock, proc, held, call, restarts>>
      BY <1>16 DEF AttachLive, os
    <2>2. sessionsLock' \in Conns \cup {Nobody} /\ place' \in [Conns -> Places]
      BY <1>16, <1>b DEF AttachLive, Goto, PtyInv, PtyTypeOK
    <2>3. /\ row' \in [PtyIds -> RowStates \cup {"absent"}]
          /\ saving' \in [Conns -> RowStates \cup {"none"}]
      BY <1>16, <1>a, <1>e DEF AttachLive, PtyInv, PtyTypeOK
    <2> QED
      BY <2>1, <2>2, <2>3 DEF PtyInv, PtyTypeOK
  <1>17. ASSUME NEW c \in Conns, Detach(c) PROVE PtyTypeOK'
    <2>1. UNCHANGED <<handle, stored, nextId, sessionsLock, liveLock, proc, held, call, restarts>>
      BY <1>17 DEF Detach, locks, os
    <2>2. place' \in [Conns -> Places]
      BY <1>17, <1>b DEF Detach, Goto, PtyInv, PtyTypeOK
    <2>3. /\ row' \in [PtyIds -> RowStates \cup {"absent"}]
          /\ saving' \in [Conns -> RowStates \cup {"none"}]
      BY <1>17, <1>a, <1>e DEF Detach, SetState, PtyInv, PtyTypeOK
    <2> QED
      BY <2>1, <2>2, <2>3 DEF PtyInv, PtyTypeOK
  <1>18. ASSUME NEW c \in Conns, TerminateTake(c) PROVE PtyTypeOK'
    BY <1>18, PtyConstants, <1>a, <1>b, <1>c, <1>d, <1>e DEF TerminateTake, At, Goto,
       PtyInv, PtyTypeOK
  <1>19. ASSUME NEW c \in Conns, TerminateJoin(c) PROVE PtyTypeOK'
    BY <1>19, PtyConstants, <1>a, <1>b, <1>c, <1>d, <1>e DEF TerminateJoin, At, Goto,
       os, PtyInv, PtyTypeOK
  <1>20. ASSUME NEW c \in Conns, TerminateExited(c) PROVE PtyTypeOK'
    BY <1>20, PtyConstants, <1>a, <1>b, <1>c, <1>d, <1>e DEF TerminateExited, At, Goto,
       SetState, locks, os, PtyInv, PtyTypeOK
  <1>21. ASSUME NEW i \in PtyIds, ChildExits(i) PROVE PtyTypeOK'
    BY <1>21 DEF ChildExits, locks, PtyInv, PtyTypeOK
  <1>22. ASSUME NEW i \in PtyIds, DescendantExits(i) PROVE PtyTypeOK'
    BY <1>22 DEF DescendantExits, locks, PtyInv, PtyTypeOK
  <1>23. ASSUME PtyRestart PROVE PtyTypeOK'
    <2>1. nextId' \in 1..(MaxPty + 1)
      BY <1>23, NextAfterStoredFree DEF PtyRestart, PtyInv
    <2>2. Hydrated \in [PtyIds -> RowStates \cup {"absent"}]
      BY <1>a DEF PtyInv, PtyTypeOK, Hydrated
    <2>3. NoCall \in [req : Requests, id : PtyIds]
      BY PtyConstants DEF NoCall, Requests, PtyIds
    <2> QED
      BY <1>23, <1>b, <1>d, <2>1, <2>2, <2>3 DEF PtyRestart, PtyInv, PtyTypeOK
  <1> QED
    BY <1>1, <1>2, <1>3, <1>4, <1>5, <1>6, <1>7, <1>8, <1>9, <1>10, <1>11, <1>12, <1>13,
       <1>14, <1>15, <1>16, <1>17, <1>18, <1>19, <1>20, <1>21, <1>22, <1>23 DEF PtyNext,
       PtyServe

\* No step uses an id that was not handed out.
LEMMA IdsTakenNext == PtyInv /\ PtyNext => IdsTaken'
  <1> SUFFICES ASSUME PtyInv, PtyNext PROVE IdsTaken'
    OBVIOUS
  <1>a. \A c \in Conns : Id(c) \in PtyIds
    BY IdType DEF PtyInv
  <1>b. nextId \in Nat /\ \A i \in PtyIds : i \in Nat
    BY PtyConstants DEF PtyInv, PtyTypeOK, PtyIds
  <1>1. ASSUME NEW c \in Conns, PtyRequest(c) PROVE IdsTaken'
    BY <1>1, PtyConstants, <1>a, <1>b DEF PtyRequest, At, Goto, locks, os, PtyInv,
       PtyTypeOK, IdsTaken, Id
  <1>2. ASSUME NEW c \in Conns, NEW r \in Requests, NEW i \in PtyIds, Send(c, r, i) PROVE IdsTaken'
    BY <1>2 DEF Send, At, Goto, locks, os, PtyInv, PtyTypeOK, IdsTaken, Id
  <1>3. ASSUME NEW c \in Conns, Persist(c) PROVE IdsTaken'
    BY <1>3 DEF Persist, os, PtyInv, PtyTypeOK, IdsTaken, Id
  <1>4. ASSUME NEW c \in Conns, PtyAdmit(c) PROVE IdsTaken'
    BY <1>4 DEF PtyAdmit, At, Goto, locks, os, PtyInv, PtyTypeOK, IdsTaken, Id
  <1>5. ASSUME NEW c \in Conns, Forget(c) PROVE IdsTaken'
    BY <1>5 DEF Forget, At, Goto, locks, os, PtyInv, PtyTypeOK, IdsTaken, Id
  <1>6. ASSUME NEW c \in Conns, ForgetStored(c) PROVE IdsTaken'
    BY <1>6 DEF ForgetStored, At, Goto, locks, os, PtyInv, PtyTypeOK, IdsTaken, Id
  <1>7. ASSUME NEW c \in Conns, SpawnOpen(c) PROVE IdsTaken'
    BY <1>7 DEF SpawnOpen, At, Goto, locks, os, PtyInv, PtyTypeOK, IdsTaken, Id
  <1>8. ASSUME NEW c \in Conns, SpawnFails(c) PROVE IdsTaken'
    BY <1>8 DEF SpawnFails, At, Goto, SetState, locks, os, PtyInv, PtyTypeOK, IdsTaken,
       Id
  <1>9. ASSUME NEW c \in Conns, SpawnInsert(c) PROVE IdsTaken'
    BY <1>9 DEF SpawnInsert, At, Goto, locks, os, PtyInv, PtyTypeOK, IdsTaken, Id
  <1>10. ASSUME NEW c \in Conns, SpawnRunning(c) PROVE IdsTaken'
    BY <1>10 DEF SpawnRunning, At, Goto, SetState, locks, os, PtyInv, PtyTypeOK,
       IdsTaken, Id
  <1>11. ASSUME NEW c \in Conns, Poll(c) PROVE IdsTaken'
    BY <1>11 DEF Poll, At, Goto, locks, os, PtyInv, PtyTypeOK, IdsTaken, Id
  <1>12. ASSUME NEW c \in Conns, Reap(c) PROVE IdsTaken'
    BY <1>12 DEF Reap, At, Goto, os, PtyInv, PtyTypeOK, IdsTaken, Id
  <1>13. ASSUME NEW c \in Conns, ReapExited(c) PROVE IdsTaken'
    BY <1>13 DEF ReapExited, At, Goto, SetState, locks, os, PtyInv, PtyTypeOK, IdsTaken,
       Id
  <1>14. ASSUME NEW c \in Conns, Answer(c) PROVE IdsTaken'
    BY <1>14 DEF Answer, At, Goto, locks, os, PtyInv, PtyTypeOK, IdsTaken, Id
  <1>15. ASSUME NEW c \in Conns, AttachLook(c) PROVE IdsTaken'
    BY <1>15 DEF AttachLook, At, Goto, os, PtyInv, PtyTypeOK, IdsTaken, Id
  <1>16. ASSUME NEW c \in Conns, AttachLive(c) PROVE IdsTaken'
    BY <1>16 DEF AttachLive, At, Goto, os, PtyInv, PtyTypeOK, IdsTaken, Id
  <1>17. ASSUME NEW c \in Conns, Detach(c) PROVE IdsTaken'
    BY <1>17 DEF Detach, At, Goto, SetState, locks, os, PtyInv, PtyTypeOK, IdsTaken, Id
  <1>18. ASSUME NEW c \in Conns, TerminateTake(c) PROVE IdsTaken'
    BY <1>18 DEF TerminateTake, At, Goto, PtyInv, PtyTypeOK, IdsTaken, Id
  <1>19. ASSUME NEW c \in Conns, TerminateJoin(c) PROVE IdsTaken'
    BY <1>19 DEF TerminateJoin, At, Goto, os, PtyInv, PtyTypeOK, IdsTaken, Id
  <1>20. ASSUME NEW c \in Conns, TerminateExited(c) PROVE IdsTaken'
    BY <1>20 DEF TerminateExited, At, Goto, SetState, locks, os, PtyInv, PtyTypeOK,
       IdsTaken, Id
  <1>21. ASSUME NEW i \in PtyIds, ChildExits(i) PROVE IdsTaken'
    BY <1>21 DEF ChildExits, locks, PtyInv, PtyTypeOK, IdsTaken, Id
  <1>22. ASSUME NEW i \in PtyIds, DescendantExits(i) PROVE IdsTaken'
    BY <1>22 DEF DescendantExits, locks, PtyInv, PtyTypeOK, IdsTaken, Id
  <1>23. ASSUME PtyRestart PROVE IdsTaken'
    <2>1. \A i \in PtyIds : stored'[i] # "absent" => i < nextId'
      <3>1. stored' = Hydrated /\ nextId' = NextAfterStored
        BY <1>23 DEF PtyRestart
      <3>2. \A i \in PtyIds : stored[i] # "absent" => i < NextAfterStored
        BY NextAfterStoredFree DEF PtyInv, StoredIds
      <3> QED
        BY <3>1, <3>2 DEF Hydrated, LiveLooking
    <2> QED
      BY <1>23, <2>1 DEF PtyRestart, IdsTaken
  <1> QED
    BY <1>1, <1>2, <1>3, <1>4, <1>5, <1>6, <1>7, <1>8, <1>9, <1>10, <1>11, <1>12, <1>13,
       <1>14, <1>15, <1>16, <1>17, <1>18, <1>19, <1>20, <1>21, <1>22, <1>23 DEF PtyNext,
       PtyServe

\* No step makes two starts work for one id.
LEMMA OneStarterNext == PtyInv /\ PtyNext => OneStarter'
  <1> SUFFICES ASSUME PtyInv, PtyNext PROVE OneStarter'
    OBVIOUS
  <1>a. \A c \in Conns : Id(c) \in PtyIds
    BY IdType DEF PtyInv
  <1>b. nextId \in Nat /\ \A i \in PtyIds : i \in Nat
    BY PtyConstants DEF PtyInv, PtyTypeOK, PtyIds
  <1>1. ASSUME NEW c \in Conns, PtyRequest(c) PROVE OneStarter'
    BY <1>1 DEF PtyRequest, At, Goto, locks, os, PtyInv, PtyTypeOK, IdsTaken,
       OneStarter, Id, Starting, Unopened
  <1>2. ASSUME NEW c \in Conns, NEW r \in Requests, NEW i \in PtyIds, Send(c, r, i) PROVE OneStarter'
    BY <1>2 DEF Send, At, Goto, locks, os, PtyInv, PtyTypeOK, IdsTaken, OneStarter, Id,
       Starting, Unopened
  <1>3. ASSUME NEW c \in Conns, Persist(c) PROVE OneStarter'
    BY <1>3 DEF Persist, os, PtyInv, PtyTypeOK, IdsTaken, OneStarter, Id, Starting,
       Unopened
  <1>4. ASSUME NEW c \in Conns, PtyAdmit(c) PROVE OneStarter'
    BY <1>4 DEF PtyAdmit, At, Goto, locks, os, PtyInv, PtyTypeOK, IdsTaken, OneStarter,
       Id, Starting, Unopened
  <1>5. ASSUME NEW c \in Conns, Forget(c) PROVE OneStarter'
    BY <1>5 DEF Forget, At, Goto, locks, os, PtyInv, PtyTypeOK, IdsTaken, OneStarter,
       Id, Starting, Unopened
  <1>6. ASSUME NEW c \in Conns, ForgetStored(c) PROVE OneStarter'
    BY <1>6 DEF ForgetStored, At, Goto, locks, os, PtyInv, PtyTypeOK, IdsTaken,
       OneStarter, Id, Starting, Unopened
  <1>7. ASSUME NEW c \in Conns, SpawnOpen(c) PROVE OneStarter'
    BY <1>7 DEF SpawnOpen, At, Goto, locks, os, PtyInv, PtyTypeOK, IdsTaken, OneStarter,
       Id, Starting, Unopened
  <1>8. ASSUME NEW c \in Conns, SpawnFails(c) PROVE OneStarter'
    BY <1>8 DEF SpawnFails, At, Goto, SetState, locks, os, PtyInv, PtyTypeOK, IdsTaken,
       OneStarter, Id, Starting, Unopened
  <1>9. ASSUME NEW c \in Conns, SpawnInsert(c) PROVE OneStarter'
    BY <1>9 DEF SpawnInsert, At, Goto, locks, os, PtyInv, PtyTypeOK, IdsTaken,
       OneStarter, Id, Starting, Unopened
  <1>10. ASSUME NEW c \in Conns, SpawnRunning(c) PROVE OneStarter'
    BY <1>10 DEF SpawnRunning, At, Goto, SetState, locks, os, PtyInv, PtyTypeOK,
       IdsTaken, OneStarter, Id, Starting, Unopened
  <1>11. ASSUME NEW c \in Conns, Poll(c) PROVE OneStarter'
    BY <1>11 DEF Poll, At, Goto, locks, os, PtyInv, PtyTypeOK, IdsTaken, OneStarter, Id,
       Starting, Unopened
  <1>12. ASSUME NEW c \in Conns, Reap(c) PROVE OneStarter'
    BY <1>12 DEF Reap, At, Goto, os, PtyInv, PtyTypeOK, IdsTaken, OneStarter, Id,
       Starting, Unopened
  <1>13. ASSUME NEW c \in Conns, ReapExited(c) PROVE OneStarter'
    BY <1>13 DEF ReapExited, At, Goto, SetState, locks, os, PtyInv, PtyTypeOK, IdsTaken,
       OneStarter, Id, Starting, Unopened
  <1>14. ASSUME NEW c \in Conns, Answer(c) PROVE OneStarter'
    BY <1>14 DEF Answer, At, Goto, locks, os, PtyInv, PtyTypeOK, IdsTaken, OneStarter,
       Id, Starting, Unopened
  <1>15. ASSUME NEW c \in Conns, AttachLook(c) PROVE OneStarter'
    BY <1>15 DEF AttachLook, At, Goto, os, PtyInv, PtyTypeOK, IdsTaken, OneStarter, Id,
       Starting, Unopened
  <1>16. ASSUME NEW c \in Conns, AttachLive(c) PROVE OneStarter'
    BY <1>16 DEF AttachLive, At, Goto, os, PtyInv, PtyTypeOK, IdsTaken, OneStarter, Id,
       Starting, Unopened
  <1>17. ASSUME NEW c \in Conns, Detach(c) PROVE OneStarter'
    BY <1>17 DEF Detach, At, Goto, SetState, locks, os, PtyInv, PtyTypeOK, IdsTaken,
       OneStarter, Id, Starting, Unopened
  <1>18. ASSUME NEW c \in Conns, TerminateTake(c) PROVE OneStarter'
    BY <1>18 DEF TerminateTake, At, Goto, PtyInv, PtyTypeOK, IdsTaken, OneStarter, Id,
       Starting, Unopened
  <1>19. ASSUME NEW c \in Conns, TerminateJoin(c) PROVE OneStarter'
    BY <1>19 DEF TerminateJoin, At, Goto, os, PtyInv, PtyTypeOK, IdsTaken, OneStarter,
       Id, Starting, Unopened
  <1>20. ASSUME NEW c \in Conns, TerminateExited(c) PROVE OneStarter'
    BY <1>20 DEF TerminateExited, At, Goto, SetState, locks, os, PtyInv, PtyTypeOK,
       IdsTaken, OneStarter, Id, Starting, Unopened
  <1>21. ASSUME NEW i \in PtyIds, ChildExits(i) PROVE OneStarter'
    BY <1>21 DEF ChildExits, locks, PtyInv, PtyTypeOK, IdsTaken, OneStarter, Id,
       Starting, Unopened
  <1>22. ASSUME NEW i \in PtyIds, DescendantExits(i) PROVE OneStarter'
    BY <1>22 DEF DescendantExits, locks, PtyInv, PtyTypeOK, IdsTaken, OneStarter, Id,
       Starting, Unopened
  <1>23. ASSUME PtyRestart PROVE OneStarter'
    BY <1>23 DEF PtyRestart, PtyInv, PtyTypeOK, IdsTaken, OneStarter, Id, Starting,
       Unopened
  <1> QED
    BY <1>1, <1>2, <1>3, <1>4, <1>5, <1>6, <1>7, <1>8, <1>9, <1>10, <1>11, <1>12, <1>13,
       <1>14, <1>15, <1>16, <1>17, <1>18, <1>19, <1>20, <1>21, <1>22, <1>23 DEF PtyNext,
       PtyServe

\* A step gives an id its process and its handle only in its start.
LEMMA HandleAfterOpenNext == PtyInv /\ PtyNext => HandleAfterOpen'
  <1> SUFFICES ASSUME PtyInv, PtyNext PROVE HandleAfterOpen'
    OBVIOUS
  <1>a. \A c \in Conns : Id(c) \in PtyIds
    BY IdType DEF PtyInv
  <1>b. nextId \in Nat /\ \A i \in PtyIds : i \in Nat
    BY PtyConstants DEF PtyInv, PtyTypeOK, PtyIds
  <1>1. ASSUME NEW c \in Conns, PtyRequest(c) PROVE HandleAfterOpen'
    <2>1. nextId \in PtyIds
      BY <1>1, <1>b, PtyConstants DEF PtyRequest, PtyInv, PtyTypeOK, PtyIds
    <2>2. proc[nextId] = "none" /\ nextId \notin handle
      BY <1>b, <2>1 DEF PtyInv, IdsTaken, ProcessHasRow
    <2>3. call'[c].id = nextId /\ \A d \in Conns \ {c} : call'[d] = call[d] /\ place'[d] = place[d]
      BY <1>1 DEF PtyRequest, Goto, PtyInv, PtyTypeOK
    <2>4. UNCHANGED <<handle, proc>> /\ place'[c] = "requested"
      BY <1>1 DEF PtyRequest, Goto, os, PtyInv, PtyTypeOK
    <2> QED
      BY <2>2, <2>3, <2>4 DEF PtyInv, HandleAfterOpen, Id, Starting, Unopened
  <1>2. ASSUME NEW c \in Conns, NEW r \in Requests, NEW i \in PtyIds, Send(c, r, i) PROVE HandleAfterOpen'
    BY <1>2 DEF Send, At, Goto, locks, os, PtyInv, PtyTypeOK, IdsTaken, OneStarter,
       HandleAfterOpen, ProcessHasRow, Id, Starting, Unopened
  <1>3. ASSUME NEW c \in Conns, Persist(c) PROVE HandleAfterOpen'
    BY <1>3 DEF Persist, os, PtyInv, PtyTypeOK, IdsTaken, OneStarter, HandleAfterOpen,
       ProcessHasRow, Id, Starting, Unopened
  <1>4. ASSUME NEW c \in Conns, PtyAdmit(c) PROVE HandleAfterOpen'
    BY <1>4 DEF PtyAdmit, At, Goto, locks, os, PtyInv, PtyTypeOK, IdsTaken, OneStarter,
       HandleAfterOpen, ProcessHasRow, Id, Starting, Unopened
  <1>5. ASSUME NEW c \in Conns, Forget(c) PROVE HandleAfterOpen'
    BY <1>5 DEF Forget, At, Goto, locks, os, PtyInv, PtyTypeOK, IdsTaken, OneStarter,
       HandleAfterOpen, ProcessHasRow, Id, Starting, Unopened
  <1>6. ASSUME NEW c \in Conns, ForgetStored(c) PROVE HandleAfterOpen'
    BY <1>6 DEF ForgetStored, At, Goto, locks, os, PtyInv, PtyTypeOK, IdsTaken,
       OneStarter, HandleAfterOpen, ProcessHasRow, Id, Starting, Unopened
  <1>7. ASSUME NEW c \in Conns, SpawnOpen(c) PROVE HandleAfterOpen'
    BY <1>7 DEF SpawnOpen, At, Goto, locks, os, PtyInv, PtyTypeOK, IdsTaken, OneStarter,
       HandleAfterOpen, ProcessHasRow, Id, Starting, Unopened
  <1>8. ASSUME NEW c \in Conns, SpawnFails(c) PROVE HandleAfterOpen'
    BY <1>8 DEF SpawnFails, At, Goto, SetState, locks, os, PtyInv, PtyTypeOK, IdsTaken,
       OneStarter, HandleAfterOpen, ProcessHasRow, Id, Starting, Unopened
  <1>9. ASSUME NEW c \in Conns, SpawnInsert(c) PROVE HandleAfterOpen'
    BY <1>9 DEF SpawnInsert, At, Goto, locks, os, PtyInv, PtyTypeOK, IdsTaken,
       OneStarter, HandleAfterOpen, ProcessHasRow, Id, Starting, Unopened
  <1>10. ASSUME NEW c \in Conns, SpawnRunning(c) PROVE HandleAfterOpen'
    BY <1>10 DEF SpawnRunning, At, Goto, SetState, locks, os, PtyInv, PtyTypeOK,
       IdsTaken, OneStarter, HandleAfterOpen, ProcessHasRow, Id, Starting, Unopened
  <1>11. ASSUME NEW c \in Conns, Poll(c) PROVE HandleAfterOpen'
    BY <1>11 DEF Poll, At, Goto, locks, os, PtyInv, PtyTypeOK, IdsTaken, OneStarter,
       HandleAfterOpen, ProcessHasRow, Id, Starting, Unopened
  <1>12. ASSUME NEW c \in Conns, Reap(c) PROVE HandleAfterOpen'
    BY <1>12 DEF Reap, At, Goto, os, PtyInv, PtyTypeOK, IdsTaken, OneStarter,
       HandleAfterOpen, ProcessHasRow, Id, Starting, Unopened
  <1>13. ASSUME NEW c \in Conns, ReapExited(c) PROVE HandleAfterOpen'
    BY <1>13 DEF ReapExited, At, Goto, SetState, locks, os, PtyInv, PtyTypeOK, IdsTaken,
       OneStarter, HandleAfterOpen, ProcessHasRow, Id, Starting, Unopened
  <1>14. ASSUME NEW c \in Conns, Answer(c) PROVE HandleAfterOpen'
    BY <1>14 DEF Answer, At, Goto, locks, os, PtyInv, PtyTypeOK, IdsTaken, OneStarter,
       HandleAfterOpen, ProcessHasRow, Id, Starting, Unopened
  <1>15. ASSUME NEW c \in Conns, AttachLook(c) PROVE HandleAfterOpen'
    BY <1>15 DEF AttachLook, At, Goto, os, PtyInv, PtyTypeOK, IdsTaken, OneStarter,
       HandleAfterOpen, ProcessHasRow, Id, Starting, Unopened
  <1>16. ASSUME NEW c \in Conns, AttachLive(c) PROVE HandleAfterOpen'
    BY <1>16 DEF AttachLive, At, Goto, os, PtyInv, PtyTypeOK, IdsTaken, OneStarter,
       HandleAfterOpen, ProcessHasRow, Id, Starting, Unopened
  <1>17. ASSUME NEW c \in Conns, Detach(c) PROVE HandleAfterOpen'
    BY <1>17 DEF Detach, At, Goto, SetState, locks, os, PtyInv, PtyTypeOK, IdsTaken,
       OneStarter, HandleAfterOpen, ProcessHasRow, Id, Starting, Unopened
  <1>18. ASSUME NEW c \in Conns, TerminateTake(c) PROVE HandleAfterOpen'
    BY <1>18 DEF TerminateTake, At, Goto, PtyInv, PtyTypeOK, IdsTaken, OneStarter,
       HandleAfterOpen, ProcessHasRow, Id, Starting, Unopened
  <1>19. ASSUME NEW c \in Conns, TerminateJoin(c) PROVE HandleAfterOpen'
    BY <1>19 DEF TerminateJoin, At, Goto, os, PtyInv, PtyTypeOK, IdsTaken, OneStarter,
       HandleAfterOpen, ProcessHasRow, Id, Starting, Unopened
  <1>20. ASSUME NEW c \in Conns, TerminateExited(c) PROVE HandleAfterOpen'
    BY <1>20 DEF TerminateExited, At, Goto, SetState, locks, os, PtyInv, PtyTypeOK,
       IdsTaken, OneStarter, HandleAfterOpen, ProcessHasRow, Id, Starting, Unopened
  <1>21. ASSUME NEW i \in PtyIds, ChildExits(i) PROVE HandleAfterOpen'
    BY <1>21 DEF ChildExits, locks, PtyInv, PtyTypeOK, IdsTaken, OneStarter,
       HandleAfterOpen, ProcessHasRow, Id, Starting, Unopened
  <1>22. ASSUME NEW i \in PtyIds, DescendantExits(i) PROVE HandleAfterOpen'
    BY <1>22 DEF DescendantExits, locks, PtyInv, PtyTypeOK, IdsTaken, OneStarter,
       HandleAfterOpen, ProcessHasRow, Id, Starting, Unopened
  <1>23. ASSUME PtyRestart PROVE HandleAfterOpen'
    BY <1>23 DEF PtyRestart, PtyInv, PtyTypeOK, IdsTaken, OneStarter, HandleAfterOpen,
       ProcessHasRow, Id, Starting, Unopened
  <1> QED
    BY <1>1, <1>2, <1>3, <1>4, <1>5, <1>6, <1>7, <1>8, <1>9, <1>10, <1>11, <1>12, <1>13,
       <1>14, <1>15, <1>16, <1>17, <1>18, <1>19, <1>20, <1>21, <1>22, <1>23 DEF PtyNext,
       PtyServe

\* The entry of an id with a process is never removed.
LEMMA ProcessHasRowNext == PtyInv /\ PtyNext => ProcessHasRow'
  <1> SUFFICES ASSUME PtyInv, PtyNext PROVE ProcessHasRow'
    OBVIOUS
  <1>a. \A c \in Conns : Id(c) \in PtyIds
    BY IdType DEF PtyInv
  <1>1. ASSUME NEW c \in Conns, PtyRequest(c) PROVE ProcessHasRow'
    BY <1>1 DEF PtyRequest, At, Goto, locks, os, PtyInv, ProcessHasRow
  <1>2. ASSUME NEW c \in Conns, NEW r \in Requests, NEW i \in PtyIds, Send(c, r, i) PROVE ProcessHasRow'
    BY <1>2 DEF Send, At, Goto, locks, os, PtyInv, ProcessHasRow
  <1>3. ASSUME NEW c \in Conns, Persist(c) PROVE ProcessHasRow'
    BY <1>3 DEF Persist, os, PtyInv, ProcessHasRow
  <1>4. ASSUME NEW c \in Conns, PtyAdmit(c) PROVE ProcessHasRow'
    BY <1>4 DEF PtyAdmit, At, Goto, locks, os, PtyInv, ProcessHasRow
  <1>5. ASSUME NEW c \in Conns, Forget(c) PROVE ProcessHasRow'
    BY <1>5 DEF Forget, At, Goto, locks, os, PtyInv, PtyTypeOK, HandleAfterOpen,
       ProcessHasRow, Id, Starting, Unopened
  <1>6. ASSUME NEW c \in Conns, ForgetStored(c) PROVE ProcessHasRow'
    BY <1>6 DEF ForgetStored, At, Goto, locks, os, PtyInv, ProcessHasRow
  <1>7. ASSUME NEW c \in Conns, SpawnOpen(c) PROVE ProcessHasRow'
    BY <1>7 DEF SpawnOpen, At, Goto, locks, os, PtyInv, ProcessHasRow
  <1>8. ASSUME NEW c \in Conns, SpawnFails(c) PROVE ProcessHasRow'
    BY <1>8 DEF SpawnFails, At, Goto, SetState, locks, os, PtyInv, PtyTypeOK,
       HandleAfterOpen, ProcessHasRow, Id, Starting, Unopened
  <1>9. ASSUME NEW c \in Conns, SpawnInsert(c) PROVE ProcessHasRow'
    BY <1>9 DEF SpawnInsert, At, Goto, locks, os, PtyInv, PtyTypeOK, HandleAfterOpen,
       ProcessHasRow, Id, Starting, Unopened
  <1>10. ASSUME NEW c \in Conns, SpawnRunning(c) PROVE ProcessHasRow'
    BY <1>10 DEF SpawnRunning, At, Goto, SetState, locks, os, PtyInv, PtyTypeOK,
       HandleAfterOpen, ProcessHasRow, Id, Starting, Unopened
  <1>11. ASSUME NEW c \in Conns, Poll(c) PROVE ProcessHasRow'
    BY <1>11 DEF Poll, At, Goto, locks, os, PtyInv, ProcessHasRow
  <1>12. ASSUME NEW c \in Conns, Reap(c) PROVE ProcessHasRow'
    BY <1>12 DEF Reap, At, Goto, os, PtyInv, ProcessHasRow
  <1>13. ASSUME NEW c \in Conns, ReapExited(c) PROVE ProcessHasRow'
    BY <1>13 DEF ReapExited, At, Goto, SetState, locks, os, PtyInv, PtyTypeOK,
       HandleAfterOpen, ProcessHasRow, Id, Starting, Unopened
  <1>14. ASSUME NEW c \in Conns, Answer(c) PROVE ProcessHasRow'
    BY <1>14 DEF Answer, At, Goto, locks, os, PtyInv, ProcessHasRow
  <1>15. ASSUME NEW c \in Conns, AttachLook(c) PROVE ProcessHasRow'
    BY <1>15 DEF AttachLook, At, Goto, os, PtyInv, ProcessHasRow
  <1>16. ASSUME NEW c \in Conns, AttachLive(c) PROVE ProcessHasRow'
    BY <1>16 DEF AttachLive, At, Goto, os, PtyInv, PtyTypeOK, HandleAfterOpen,
       ProcessHasRow, Id, Starting, Unopened
  <1>17. ASSUME NEW c \in Conns, Detach(c) PROVE ProcessHasRow'
    BY <1>17 DEF Detach, At, Goto, SetState, locks, os, PtyInv, PtyTypeOK,
       HandleAfterOpen, ProcessHasRow, Id, Starting, Unopened
  <1>18. ASSUME NEW c \in Conns, TerminateTake(c) PROVE ProcessHasRow'
    BY <1>18 DEF TerminateTake, At, Goto, PtyInv, PtyTypeOK, HandleAfterOpen,
       ProcessHasRow, Id, Starting, Unopened
  <1>19. ASSUME NEW c \in Conns, TerminateJoin(c) PROVE ProcessHasRow'
    BY <1>19 DEF TerminateJoin, At, Goto, os, PtyInv, ProcessHasRow
  <1>20. ASSUME NEW c \in Conns, TerminateExited(c) PROVE ProcessHasRow'
    BY <1>20 DEF TerminateExited, At, Goto, SetState, locks, os, PtyInv, PtyTypeOK,
       HandleAfterOpen, ProcessHasRow, Id, Starting, Unopened
  <1>21. ASSUME NEW i \in PtyIds, ChildExits(i) PROVE ProcessHasRow'
    BY <1>21 DEF ChildExits, locks, PtyInv, ProcessHasRow
  <1>22. ASSUME NEW i \in PtyIds, DescendantExits(i) PROVE ProcessHasRow'
    BY <1>22 DEF DescendantExits, locks, PtyInv, ProcessHasRow
  <1>23. ASSUME PtyRestart PROVE ProcessHasRow'
    BY <1>23 DEF PtyRestart, PtyInv, ProcessHasRow
  <1> QED
    BY <1>1, <1>2, <1>3, <1>4, <1>5, <1>6, <1>7, <1>8, <1>9, <1>10, <1>11, <1>12, <1>13,
       <1>14, <1>15, <1>16, <1>17, <1>18, <1>19, <1>20, <1>21, <1>22, <1>23 DEF PtyNext,
       PtyServe

\* A child that was seen dead is not revived.
LEMMA PolledIsDeadNext == PtyInv /\ PtyNext => PolledIsDead'
  <1> SUFFICES ASSUME PtyInv, PtyNext PROVE PolledIsDead'
    OBVIOUS
  <1>a. \A c \in Conns : Id(c) \in PtyIds
    BY IdType DEF PtyInv
  <1>1. ASSUME NEW c \in Conns, PtyRequest(c) PROVE PolledIsDead'
    BY <1>1 DEF PtyRequest, At, Goto, locks, os, PtyInv, PtyTypeOK, HandleAfterOpen,
       PolledIsDead, Id, Starting, Unopened
  <1>2. ASSUME NEW c \in Conns, NEW r \in Requests, NEW i \in PtyIds, Send(c, r, i) PROVE PolledIsDead'
    BY <1>2 DEF Send, At, Goto, locks, os, PtyInv, PtyTypeOK, HandleAfterOpen,
       PolledIsDead, Id, Starting, Unopened
  <1>3. ASSUME NEW c \in Conns, Persist(c) PROVE PolledIsDead'
    BY <1>3 DEF Persist, os, PtyInv, PtyTypeOK, HandleAfterOpen, PolledIsDead, Id,
       Starting, Unopened
  <1>4. ASSUME NEW c \in Conns, PtyAdmit(c) PROVE PolledIsDead'
    BY <1>4 DEF PtyAdmit, At, Goto, locks, os, PtyInv, PtyTypeOK, HandleAfterOpen,
       PolledIsDead, Id, Starting, Unopened
  <1>5. ASSUME NEW c \in Conns, Forget(c) PROVE PolledIsDead'
    BY <1>5 DEF Forget, At, Goto, locks, os, PtyInv, PtyTypeOK, HandleAfterOpen,
       PolledIsDead, Id, Starting, Unopened
  <1>6. ASSUME NEW c \in Conns, ForgetStored(c) PROVE PolledIsDead'
    BY <1>6 DEF ForgetStored, At, Goto, locks, os, PtyInv, PtyTypeOK, HandleAfterOpen,
       PolledIsDead, Id, Starting, Unopened
  <1>7. ASSUME NEW c \in Conns, SpawnOpen(c) PROVE PolledIsDead'
    BY <1>7 DEF SpawnOpen, At, Goto, locks, os, PtyInv, PtyTypeOK, HandleAfterOpen,
       PolledIsDead, Id, Starting, Unopened
  <1>8. ASSUME NEW c \in Conns, SpawnFails(c) PROVE PolledIsDead'
    BY <1>8 DEF SpawnFails, At, Goto, SetState, locks, os, PtyInv, PtyTypeOK,
       HandleAfterOpen, PolledIsDead, Id, Starting, Unopened
  <1>9. ASSUME NEW c \in Conns, SpawnInsert(c) PROVE PolledIsDead'
    BY <1>9 DEF SpawnInsert, At, Goto, locks, os, PtyInv, PtyTypeOK, HandleAfterOpen,
       PolledIsDead, Id, Starting, Unopened
  <1>10. ASSUME NEW c \in Conns, SpawnRunning(c) PROVE PolledIsDead'
    BY <1>10 DEF SpawnRunning, At, Goto, SetState, locks, os, PtyInv, PtyTypeOK,
       HandleAfterOpen, PolledIsDead, Id, Starting, Unopened
  <1>11. ASSUME NEW c \in Conns, Poll(c) PROVE PolledIsDead'
    BY <1>11 DEF Poll, At, Goto, locks, os, PtyInv, PtyTypeOK, HandleAfterOpen,
       PolledIsDead, Id, Starting, Unopened
  <1>12. ASSUME NEW c \in Conns, Reap(c) PROVE PolledIsDead'
    BY <1>12 DEF Reap, At, Goto, os, PtyInv, PtyTypeOK, HandleAfterOpen, PolledIsDead,
       Id, Starting, Unopened
  <1>13. ASSUME NEW c \in Conns, ReapExited(c) PROVE PolledIsDead'
    BY <1>13 DEF ReapExited, At, Goto, SetState, locks, os, PtyInv, PtyTypeOK,
       HandleAfterOpen, PolledIsDead, Id, Starting, Unopened
  <1>14. ASSUME NEW c \in Conns, Answer(c) PROVE PolledIsDead'
    BY <1>14 DEF Answer, At, Goto, locks, os, PtyInv, PtyTypeOK, HandleAfterOpen,
       PolledIsDead, Id, Starting, Unopened
  <1>15. ASSUME NEW c \in Conns, AttachLook(c) PROVE PolledIsDead'
    BY <1>15 DEF AttachLook, At, Goto, os, PtyInv, PtyTypeOK, HandleAfterOpen,
       PolledIsDead, Id, Starting, Unopened
  <1>16. ASSUME NEW c \in Conns, AttachLive(c) PROVE PolledIsDead'
    BY <1>16 DEF AttachLive, At, Goto, os, PtyInv, PtyTypeOK, HandleAfterOpen,
       PolledIsDead, Id, Starting, Unopened
  <1>17. ASSUME NEW c \in Conns, Detach(c) PROVE PolledIsDead'
    BY <1>17 DEF Detach, At, Goto, SetState, locks, os, PtyInv, PtyTypeOK,
       HandleAfterOpen, PolledIsDead, Id, Starting, Unopened
  <1>18. ASSUME NEW c \in Conns, TerminateTake(c) PROVE PolledIsDead'
    BY <1>18 DEF TerminateTake, At, Goto, PtyInv, PtyTypeOK, HandleAfterOpen,
       PolledIsDead, Id, Starting, Unopened
  <1>19. ASSUME NEW c \in Conns, TerminateJoin(c) PROVE PolledIsDead'
    BY <1>19 DEF TerminateJoin, At, Goto, os, PtyInv, PtyTypeOK, HandleAfterOpen,
       PolledIsDead, Id, Starting, Unopened
  <1>20. ASSUME NEW c \in Conns, TerminateExited(c) PROVE PolledIsDead'
    BY <1>20 DEF TerminateExited, At, Goto, SetState, locks, os, PtyInv, PtyTypeOK,
       HandleAfterOpen, PolledIsDead, Id, Starting, Unopened
  <1>21. ASSUME NEW i \in PtyIds, ChildExits(i) PROVE PolledIsDead'
    BY <1>21 DEF ChildExits, locks, PtyInv, PtyTypeOK, HandleAfterOpen, PolledIsDead,
       Id, Starting, Unopened
  <1>22. ASSUME NEW i \in PtyIds, DescendantExits(i) PROVE PolledIsDead'
    BY <1>22 DEF DescendantExits, locks, PtyInv, PtyTypeOK, HandleAfterOpen,
       PolledIsDead, Id, Starting, Unopened
  <1>23. ASSUME PtyRestart PROVE PolledIsDead'
    BY <1>23 DEF PtyRestart, PtyInv, PolledIsDead
  <1> QED
    BY <1>1, <1>2, <1>3, <1>4, <1>5, <1>6, <1>7, <1>8, <1>9, <1>10, <1>11, <1>12, <1>13,
       <1>14, <1>15, <1>16, <1>17, <1>18, <1>19, <1>20, <1>21, <1>22, <1>23 DEF PtyNext,
       PtyServe

\* A step drops the handle of a dead process only.
LEMMA NoLostNext == PtyInv /\ PtyNext => NoLostProcess'
  <1> SUFFICES ASSUME PtyInv, PtyNext PROVE NoLostProcess'
    OBVIOUS
  <1>a. \A c \in Conns : Id(c) \in PtyIds
    BY IdType DEF PtyInv
  <1>1. ASSUME NEW c \in Conns, PtyRequest(c) PROVE NoLostProcess'
    BY <1>1 DEF PtyRequest, At, Goto, locks, os, PtyInv, PtyTypeOK, HandleAfterOpen,
       PolledIsDead, NoLostProcess, Id, Starting, Unopened
  <1>2. ASSUME NEW c \in Conns, NEW r \in Requests, NEW i \in PtyIds, Send(c, r, i) PROVE NoLostProcess'
    BY <1>2 DEF Send, At, Goto, locks, os, PtyInv, PtyTypeOK, HandleAfterOpen,
       PolledIsDead, NoLostProcess, Id, Starting, Unopened
  <1>3. ASSUME NEW c \in Conns, Persist(c) PROVE NoLostProcess'
    BY <1>3 DEF Persist, os, PtyInv, PtyTypeOK, HandleAfterOpen, PolledIsDead,
       NoLostProcess, Id, Starting, Unopened
  <1>4. ASSUME NEW c \in Conns, PtyAdmit(c) PROVE NoLostProcess'
    BY <1>4 DEF PtyAdmit, At, Goto, locks, os, PtyInv, PtyTypeOK, HandleAfterOpen,
       PolledIsDead, NoLostProcess, Id, Starting, Unopened
  <1>5. ASSUME NEW c \in Conns, Forget(c) PROVE NoLostProcess'
    BY <1>5 DEF Forget, At, Goto, locks, os, PtyInv, PtyTypeOK, HandleAfterOpen,
       PolledIsDead, NoLostProcess, Id, Starting, Unopened
  <1>6. ASSUME NEW c \in Conns, ForgetStored(c) PROVE NoLostProcess'
    BY <1>6 DEF ForgetStored, At, Goto, locks, os, PtyInv, PtyTypeOK, HandleAfterOpen,
       PolledIsDead, NoLostProcess, Id, Starting, Unopened
  <1>7. ASSUME NEW c \in Conns, SpawnOpen(c) PROVE NoLostProcess'
    BY <1>7 DEF SpawnOpen, At, Goto, locks, os, PtyInv, PtyTypeOK, HandleAfterOpen,
       PolledIsDead, NoLostProcess, Id, Starting, Unopened
  <1>8. ASSUME NEW c \in Conns, SpawnFails(c) PROVE NoLostProcess'
    BY <1>8 DEF SpawnFails, At, Goto, SetState, locks, os, PtyInv, PtyTypeOK,
       HandleAfterOpen, PolledIsDead, NoLostProcess, Id, Starting, Unopened
  <1>9. ASSUME NEW c \in Conns, SpawnInsert(c) PROVE NoLostProcess'
    BY <1>9 DEF SpawnInsert, At, Goto, locks, os, PtyInv, PtyTypeOK, HandleAfterOpen,
       PolledIsDead, NoLostProcess, Id, Starting, Unopened
  <1>10. ASSUME NEW c \in Conns, SpawnRunning(c) PROVE NoLostProcess'
    BY <1>10 DEF SpawnRunning, At, Goto, SetState, locks, os, PtyInv, PtyTypeOK,
       HandleAfterOpen, PolledIsDead, NoLostProcess, Id, Starting, Unopened
  <1>11. ASSUME NEW c \in Conns, Poll(c) PROVE NoLostProcess'
    BY <1>11 DEF Poll, At, Goto, locks, os, PtyInv, PtyTypeOK, HandleAfterOpen,
       PolledIsDead, NoLostProcess, Id, Starting, Unopened
  <1>12. ASSUME NEW c \in Conns, Reap(c) PROVE NoLostProcess'
    BY <1>12 DEF Reap, At, Goto, os, PtyInv, PtyTypeOK, HandleAfterOpen, PolledIsDead,
       NoLostProcess, Id, Starting, Unopened
  <1>13. ASSUME NEW c \in Conns, ReapExited(c) PROVE NoLostProcess'
    BY <1>13 DEF ReapExited, At, Goto, SetState, locks, os, PtyInv, PtyTypeOK,
       HandleAfterOpen, PolledIsDead, NoLostProcess, Id, Starting, Unopened
  <1>14. ASSUME NEW c \in Conns, Answer(c) PROVE NoLostProcess'
    BY <1>14 DEF Answer, At, Goto, locks, os, PtyInv, PtyTypeOK, HandleAfterOpen,
       PolledIsDead, NoLostProcess, Id, Starting, Unopened
  <1>15. ASSUME NEW c \in Conns, AttachLook(c) PROVE NoLostProcess'
    BY <1>15 DEF AttachLook, At, Goto, os, PtyInv, PtyTypeOK, HandleAfterOpen,
       PolledIsDead, NoLostProcess, Id, Starting, Unopened
  <1>16. ASSUME NEW c \in Conns, AttachLive(c) PROVE NoLostProcess'
    BY <1>16 DEF AttachLive, At, Goto, os, PtyInv, PtyTypeOK, HandleAfterOpen,
       PolledIsDead, NoLostProcess, Id, Starting, Unopened
  <1>17. ASSUME NEW c \in Conns, Detach(c) PROVE NoLostProcess'
    BY <1>17 DEF Detach, At, Goto, SetState, locks, os, PtyInv, PtyTypeOK,
       HandleAfterOpen, PolledIsDead, NoLostProcess, Id, Starting, Unopened
  <1>18. ASSUME NEW c \in Conns, TerminateTake(c) PROVE NoLostProcess'
    BY <1>18 DEF TerminateTake, At, Goto, PtyInv, PtyTypeOK, HandleAfterOpen,
       PolledIsDead, NoLostProcess, Id, Starting, Unopened
  <1>19. ASSUME NEW c \in Conns, TerminateJoin(c) PROVE NoLostProcess'
    BY <1>19 DEF TerminateJoin, At, Goto, os, PtyInv, PtyTypeOK, HandleAfterOpen,
       PolledIsDead, NoLostProcess, Id, Starting, Unopened
  <1>20. ASSUME NEW c \in Conns, TerminateExited(c) PROVE NoLostProcess'
    BY <1>20 DEF TerminateExited, At, Goto, SetState, locks, os, PtyInv, PtyTypeOK,
       HandleAfterOpen, PolledIsDead, NoLostProcess, Id, Starting, Unopened
  <1>21. ASSUME NEW i \in PtyIds, ChildExits(i) PROVE NoLostProcess'
    BY <1>21 DEF ChildExits, locks, PtyInv, PtyTypeOK, HandleAfterOpen, PolledIsDead,
       NoLostProcess, Id, Starting, Unopened
  <1>22. ASSUME NEW i \in PtyIds, DescendantExits(i) PROVE NoLostProcess'
    BY <1>22 DEF DescendantExits, locks, PtyInv, PtyTypeOK, HandleAfterOpen,
       PolledIsDead, NoLostProcess, Id, Starting, Unopened
  <1>23. ASSUME PtyRestart PROVE NoLostProcess'
    BY <1>23 DEF PtyRestart, PtyInv, NoLostProcess
  <1> QED
    BY <1>1, <1>2, <1>3, <1>4, <1>5, <1>6, <1>7, <1>8, <1>9, <1>10, <1>11, <1>12, <1>13,
       <1>14, <1>15, <1>16, <1>17, <1>18, <1>19, <1>20, <1>21, <1>22, <1>23 DEF PtyNext,
       PtyServe

\* A step takes a lock on the way to one of the nested places only.
LEMMA LocksNext == PtyInv /\ PtyNext => LocksNestOnlyHere'
  <1> SUFFICES ASSUME PtyInv, PtyNext PROVE LocksNestOnlyHere'
    OBVIOUS
  <1>a. \A c \in Conns : Id(c) \in PtyIds
    BY IdType DEF PtyInv
  <1>1. ASSUME NEW c \in Conns, PtyRequest(c) PROVE LocksNestOnlyHere'
    BY <1>1 DEF PtyRequest, At, Goto, locks, os, PtyInv, LocksNestOnlyHere
  <1>2. ASSUME NEW c \in Conns, NEW r \in Requests, NEW i \in PtyIds, Send(c, r, i) PROVE LocksNestOnlyHere'
    BY <1>2 DEF Send, At, Goto, locks, os, PtyInv, LocksNestOnlyHere
  <1>3. ASSUME NEW c \in Conns, Persist(c) PROVE LocksNestOnlyHere'
    BY <1>3, PtyConstants, <1>a DEF Persist, os, PtyInv, LocksNestOnlyHere
  <1>4. ASSUME NEW c \in Conns, PtyAdmit(c) PROVE LocksNestOnlyHere'
    BY <1>4 DEF PtyAdmit, At, Goto, locks, os, PtyInv, LocksNestOnlyHere
  <1>5. ASSUME NEW c \in Conns, Forget(c) PROVE LocksNestOnlyHere'
    BY <1>5 DEF Forget, At, Goto, locks, os, PtyInv, LocksNestOnlyHere
  <1>6. ASSUME NEW c \in Conns, ForgetStored(c) PROVE LocksNestOnlyHere'
    BY <1>6 DEF ForgetStored, At, Goto, locks, os, PtyInv, LocksNestOnlyHere
  <1>7. ASSUME NEW c \in Conns, SpawnOpen(c) PROVE LocksNestOnlyHere'
    BY <1>7 DEF SpawnOpen, At, Goto, locks, os, PtyInv, LocksNestOnlyHere
  <1>8. ASSUME NEW c \in Conns, SpawnFails(c) PROVE LocksNestOnlyHere'
    BY <1>8 DEF SpawnFails, At, Goto, SetState, locks, os, PtyInv, PtyTypeOK,
       ProcessHasRow, PolledIsDead, LocksNestOnlyHere, Id
  <1>9. ASSUME NEW c \in Conns, SpawnInsert(c) PROVE LocksNestOnlyHere'
    BY <1>9 DEF SpawnInsert, At, Goto, locks, os, PtyInv, LocksNestOnlyHere
  <1>10. ASSUME NEW c \in Conns, SpawnRunning(c) PROVE LocksNestOnlyHere'
    BY <1>10 DEF SpawnRunning, At, Goto, SetState, locks, os, PtyInv, PtyTypeOK,
       ProcessHasRow, PolledIsDead, LocksNestOnlyHere, Id
  <1>11. ASSUME NEW c \in Conns, Poll(c) PROVE LocksNestOnlyHere'
    BY <1>11 DEF Poll, At, Goto, locks, os, PtyInv, LocksNestOnlyHere
  <1>12. ASSUME NEW c \in Conns, Reap(c) PROVE LocksNestOnlyHere'
    BY <1>12 DEF Reap, At, Goto, os, PtyInv, PtyTypeOK, ProcessHasRow, PolledIsDead,
       LocksNestOnlyHere, Id
  <1>13. ASSUME NEW c \in Conns, ReapExited(c) PROVE LocksNestOnlyHere'
    BY <1>13 DEF ReapExited, At, Goto, SetState, locks, os, PtyInv, PtyTypeOK,
       ProcessHasRow, PolledIsDead, LocksNestOnlyHere, Id
  <1>14. ASSUME NEW c \in Conns, Answer(c) PROVE LocksNestOnlyHere'
    BY <1>14 DEF Answer, At, Goto, locks, os, PtyInv, LocksNestOnlyHere
  <1>15. ASSUME NEW c \in Conns, AttachLook(c) PROVE LocksNestOnlyHere'
    BY <1>15 DEF AttachLook, At, Goto, os, PtyInv, PtyTypeOK, ProcessHasRow,
       PolledIsDead, LocksNestOnlyHere, Id
  <1>16. ASSUME NEW c \in Conns, AttachLive(c) PROVE LocksNestOnlyHere'
    BY <1>16, PtyConstants, <1>a DEF AttachLive, At, Goto, os, PtyInv, LocksNestOnlyHere
  <1>17. ASSUME NEW c \in Conns, Detach(c) PROVE LocksNestOnlyHere'
    BY <1>17 DEF Detach, At, Goto, SetState, locks, os, PtyInv, PtyTypeOK,
       ProcessHasRow, PolledIsDead, LocksNestOnlyHere, Id
  <1>18. ASSUME NEW c \in Conns, TerminateTake(c) PROVE LocksNestOnlyHere'
    BY <1>18 DEF TerminateTake, At, Goto, PtyInv, PtyTypeOK, ProcessHasRow,
       PolledIsDead, LocksNestOnlyHere, Id
  <1>19. ASSUME NEW c \in Conns, TerminateJoin(c) PROVE LocksNestOnlyHere'
    BY <1>19, PtyConstants, <1>a DEF TerminateJoin, At, Goto, os, PtyInv,
       LocksNestOnlyHere
  <1>20. ASSUME NEW c \in Conns, TerminateExited(c) PROVE LocksNestOnlyHere'
    BY <1>20 DEF TerminateExited, At, Goto, SetState, locks, os, PtyInv, PtyTypeOK,
       ProcessHasRow, PolledIsDead, LocksNestOnlyHere, Id
  <1>21. ASSUME NEW i \in PtyIds, ChildExits(i) PROVE LocksNestOnlyHere'
    BY <1>21 DEF ChildExits, locks, PtyInv, LocksNestOnlyHere
  <1>22. ASSUME NEW i \in PtyIds, DescendantExits(i) PROVE LocksNestOnlyHere'
    BY <1>22 DEF DescendantExits, locks, PtyInv, LocksNestOnlyHere
  <1>23. ASSUME PtyRestart PROVE LocksNestOnlyHere'
    BY <1>23, PtyConstants, <1>a DEF PtyRestart, PtyInv, LocksNestOnlyHere
  <1> QED
    BY <1>1, <1>2, <1>3, <1>4, <1>5, <1>6, <1>7, <1>8, <1>9, <1>10, <1>11, <1>12, <1>13,
       <1>14, <1>15, <1>16, <1>17, <1>18, <1>19, <1>20, <1>21, <1>22, <1>23 DEF PtyNext,
       PtyServe

-----------------------------------------------------------------------------
\* Every step, also one that changes nothing, keeps the invariant.
LEMMA PtyInvNext == PtyInv /\ [PtyNext]_ptyVars => PtyInv'
  <1> SUFFICES ASSUME PtyInv, [PtyNext]_ptyVars PROVE PtyInv'
    OBVIOUS
  <1>1. CASE PtyNext
    BY <1>1, PtyTypeNext, IdsTakenNext, OneStarterNext, HandleAfterOpenNext, ProcessHasRowNext,
       PolledIsDeadNext, NoLostNext, LocksNext DEF PtyInv
  <1>2. CASE UNCHANGED ptyVars
    <2>1. PtyTypeOK' /\ IdsTaken'
      BY <1>2 DEF ptyVars, PtyInv, PtyTypeOK, IdsTaken, Id
    <2>2. OneStarter' /\ HandleAfterOpen' /\ ProcessHasRow' /\ PolledIsDead'
      BY <1>2 DEF ptyVars, PtyInv, OneStarter, HandleAfterOpen, ProcessHasRow, PolledIsDead, Id
    <2>3. NoLostProcess' /\ LocksNestOnlyHere'
      BY <1>2 DEF ptyVars, PtyInv, NoLostProcess, LocksNestOnlyHere, Id
    <2> QED
      BY <2>1, <2>2, <2>3 DEF PtyInv
  <1> QED
    BY <1>1, <1>2

\* The invariant holds throughout.
LEMMA PtyInvAlways == PtySpec => []PtyInv
  BY PtyInitInv, PtyInvNext, PTL DEF PtySpec

\* The tables, the locks and the calls of the manager keep their shape.
THEOREM PtyTypeCorrect == PtySpec => []PtyTypeOK
  <1>1. PtyInv => PtyTypeOK
    BY DEF PtyInv
  <1> QED
    BY <1>1, PtyInvAlways, PTL

\* Whatever runs can be killed: refresh_exit, terminate, forget and spawn, of any
\* number of clients, never drop the last handle of a running process.
THEOREM NoProcessIsLost == PtySpec => []NoLostProcess
  <1>1. PtyInv => NoLostProcess
    BY DEF PtyInv
  <1> QED
    BY <1>1, PtyInvAlways, PTL

\* An id with a durable row is never handed out again, after any number of restarts
\* and whatever saves and deletes were lost.
THEOREM StoredIdsAreTaken == PtySpec => []StoredIdsStayTaken
  <1>1. PtyInv => StoredIdsStayTaken
    BY DEF PtyInv, IdsTaken, StoredIdsStayTaken, StoredIds
  <1> QED
    BY <1>1, PtyInvAlways, PTL

\* attach and refresh_exit are the only two calls that wait for one mutex of the
\* manager with the other, and the live lock is given back with the save.
THEOREM LocksNestKnown == PtySpec => []LocksNestOnlyHere
  <1>1. PtyInv => LocksNestOnlyHere
    BY DEF PtyInv
  <1> QED
    BY <1>1, PtyInvAlways, PTL

-----------------------------------------------------------------------------
(* What a PTY prints *)

\* Sequences of numbered bytes.
Bytes == Seq(Nat)

\* A sequence of bytes and the set of them.
LEMMA BytesProperties ==
    ASSUME NEW x \in Bytes
    PROVE  /\ Len(x) \in Nat
           /\ \A i \in 1 .. Len(x) : x[i] \in Nat /\ x[i] \in ToSet(x)
           /\ \A a \in ToSet(x) : \E i \in 1 .. Len(x) : x[i] = a
           /\ ToSet(x) \subseteq Nat
  BY DEF Bytes, ToSet

\* No bytes.
LEMMA BytesEmpty == <<>> \in Bytes /\ ToSet(<<>>) = {} /\ Len(<<>>) = 0 /\ Increasing(<<>>)
  BY DEF Bytes, ToSet, Increasing

\* One sequence behind another.
LEMMA BytesConcat ==
    ASSUME NEW x \in Bytes, NEW y \in Bytes
    PROVE  /\ x \o y \in Bytes
           /\ Len(x \o y) = Len(x) + Len(y)
           /\ \A i \in 1 .. (Len(x) + Len(y)) :
                 (x \o y)[i] = IF i <= Len(x) THEN x[i] ELSE y[i - Len(x)]
           /\ ToSet(x \o y) = ToSet(x) \cup ToSet(y)
<1>1. /\ x \o y \in Bytes
      /\ Len(x \o y) = Len(x) + Len(y)
      /\ \A i \in 1 .. (Len(x) + Len(y)) :
            (x \o y)[i] = IF i <= Len(x) THEN x[i] ELSE y[i - Len(x)]
  BY ConcatProperties DEF Bytes
<1>2. ToSet(x) = Range(x) /\ ToSet(y) = Range(y) /\ ToSet(x \o y) = Range(x \o y)
  BY Zenon DEF ToSet, Range
<1>3. Range(x \o y) = Range(x) \cup Range(y)
  BY RangeConcatenation DEF Bytes
<1> QED
  BY <1>1, <1>2, <1>3

\* A piece of a sequence.
LEMMA BytesSub ==
    ASSUME NEW x \in Bytes, NEW m \in Nat \ {0}, NEW n \in 0 .. Len(x)
    PROVE  /\ SubSeq(x, m, n) \in Bytes
           /\ Len(SubSeq(x, m, n)) = IF m <= n THEN n - m + 1 ELSE 0
           /\ \A i \in 1 .. (n - m + 1) : SubSeq(x, m, n)[i] = x[m + i - 1]
           /\ ToSet(SubSeq(x, m, n)) \subseteq ToSet(x)
           /\ \A a \in ToSet(SubSeq(x, m, n)) : \E i \in m .. n : a = x[i]
<1>0. Len(x) \in Nat
  BY BytesProperties
<1>1. \A i \in m .. n : x[i] \in Nat /\ x[i] \in ToSet(x)
  BY <1>0, BytesProperties
<1>2. /\ SubSeq(x, m, n) \in Bytes
      /\ Len(SubSeq(x, m, n)) = IF m <= n THEN n - m + 1 ELSE 0
      /\ \A i \in 1 .. (n - m + 1) : SubSeq(x, m, n)[i] = x[m + i - 1]
  BY <1>0, <1>1, SubSeqProperties DEF Bytes
<1> DEFINE y == SubSeq(x, m, n)
<1> HIDE DEF y
<1>3. \A a \in ToSet(y) : \E i \in m .. n : a = x[i]
  <2> SUFFICES ASSUME NEW a \in ToSet(y) PROVE \E i \in m .. n : a = x[i]
    OBVIOUS
  <2>1. y \in Bytes
    BY <1>2 DEF y
  <2>2. PICK k \in 1 .. Len(y) : y[k] = a
    BY <2>1, BytesProperties
  <2>3. Len(y) = IF m <= n THEN n - m + 1 ELSE 0
    BY <1>2 DEF y
  <2>4. k \in 1 .. (n - m + 1) /\ m + k - 1 \in m .. n
    BY <1>0, <2>2, <2>3
  <2>5. y[k] = x[m + k - 1]
    BY <1>2, <2>4 DEF y
  <2> QED
    BY <2>2, <2>4, <2>5
<1>4. ToSet(y) \subseteq ToSet(x)
  BY <1>1, <1>3
<1> QED
  BY <1>2, <1>3, <1>4 DEF y

\* Increasing sequences in turn give an increasing sequence.
LEMMA IncreasingConcat ==
    ASSUME NEW x \in Bytes, NEW y \in Bytes, Increasing(x), Increasing(y), Before(x, y)
    PROVE  Increasing(x \o y)
<1> DEFINE z == x \o y
<1>1. /\ Len(z) = Len(x) + Len(y) /\ Len(x) \in Nat /\ Len(y) \in Nat
      /\ \A i \in 1 .. (Len(x) + Len(y)) : z[i] = IF i <= Len(x) THEN x[i] ELSE y[i - Len(x)]
  BY BytesConcat, BytesProperties
<1> HIDE DEF z
<1> SUFFICES ASSUME NEW j \in 1 .. Len(z), NEW k \in 1 .. Len(z), j < k
             PROVE  z[j] < z[k]
  BY DEF Increasing, z
<1>2. CASE k <= Len(x)
  <2>1. j \in 1 .. Len(x) /\ k \in 1 .. Len(x) /\ z[j] = x[j] /\ z[k] = x[k]
    BY <1>1, <1>2
  <2> QED
    BY <2>1 DEF Increasing
<1>3. CASE j <= Len(x) /\ ~(k <= Len(x))
  <2>1. j \in 1 .. Len(x) /\ k - Len(x) \in 1 .. Len(y)
    BY <1>1, <1>3
  <2>2. z[j] = x[j] /\ z[k] = y[k - Len(x)]
    BY <1>1, <1>3
  <2>3. x[j] \in ToSet(x) /\ y[k - Len(x)] \in ToSet(y)
    BY <2>1, BytesProperties
  <2> QED
    BY <2>2, <2>3 DEF Before
<1>4. CASE ~(j <= Len(x))
  <2>1. /\ j - Len(x) \in 1 .. Len(y) /\ k - Len(x) \in 1 .. Len(y)
        /\ j - Len(x) < k - Len(x) /\ ~(k <= Len(x))
    BY <1>1, <1>4
  <2>2. z[j] = y[j - Len(x)] /\ z[k] = y[k - Len(x)]
    BY <1>1, <1>4, <2>1
  <2> QED
    BY <2>1, <2>2 DEF Increasing
<1> QED
  BY <1>1, <1>2, <1>3, <1>4

\* Pieces of an increasing sequence are increasing, and in turn.
LEMMA IncreasingSub ==
    ASSUME NEW x \in Bytes, Increasing(x), NEW m \in Nat \ {0}, NEW n \in 0 .. Len(x)
    PROVE  /\ Increasing(SubSeq(x, m, n))
           /\ \A l \in 0 .. Len(x) : Before(SubSeq(x, m, n), SubSeq(x, n + 1, l))
<1>0. Len(x) \in Nat /\ n \in Nat
  BY BytesProperties
<1> DEFINE y == SubSeq(x, m, n)
<1>1. /\ Len(y) = IF m <= n THEN n - m + 1 ELSE 0
      /\ \A i \in 1 .. (n - m + 1) : y[i] = x[m + i - 1]
      /\ \A a \in ToSet(y) : \E i \in m .. n : a = x[i]
  BY BytesSub
<1> HIDE DEF y
<1>2. Increasing(y)
  <2> SUFFICES ASSUME NEW j \in 1 .. Len(y), NEW k \in 1 .. Len(y), j < k
               PROVE  y[j] < y[k]
    BY DEF Increasing
  <2>1. /\ j \in 1 .. (n - m + 1) /\ k \in 1 .. (n - m + 1)
        /\ m + j - 1 \in 1 .. Len(x) /\ m + k - 1 \in 1 .. Len(x) /\ m + j - 1 < m + k - 1
    BY <1>0, <1>1
  <2>2. y[j] = x[m + j - 1] /\ y[k] = x[m + k - 1]
    BY <1>1, <2>1
  <2> QED
    BY <2>1, <2>2 DEF Increasing
<1>3. ASSUME NEW l \in 0 .. Len(x) PROVE Before(y, SubSeq(x, n + 1, l))
  <2> DEFINE w == SubSeq(x, n + 1, l)
  <2>1. \A b \in ToSet(w) : \E i \in (n + 1) .. l : b = x[i]
    <3>1. n + 1 \in Nat \ {0}
      BY <1>0
    <3> QED
      BY <3>1, BytesSub
  <2> HIDE DEF w
  <2> SUFFICES ASSUME NEW a \in ToSet(y), NEW b \in ToSet(w) PROVE a < b
    BY DEF Before, w
  <2>2. PICK i \in m .. n : a = x[i]
    BY <1>1
  <2>3. PICK k \in (n + 1) .. l : b = x[k]
    BY <2>1
  <2>4. i \in 1 .. Len(x) /\ k \in 1 .. Len(x) /\ i < k
    BY <1>0
  <2> QED
    BY <2>2, <2>3, <2>4 DEF Increasing
<1> QED
  BY <1>2, <1>3 DEF y

\* A buffer cut in two: what is cut off, and what stays.
LEMMA Cut ==
    ASSUME NEW x \in Bytes, Increasing(x), NEW p \in Nat, NEW q \in Nat, p <= q, q <= Len(x)
    PROVE  /\ SubSeq(x, p + 1, q) \in Bytes
           /\ SubSeq(x, q + 1, Len(x)) \in Bytes
           /\ Increasing(SubSeq(x, p + 1, q)) /\ Increasing(SubSeq(x, q + 1, Len(x)))
           /\ Before(SubSeq(x, p + 1, q), SubSeq(x, q + 1, Len(x)))
           /\ ToSet(SubSeq(x, p + 1, q)) \subseteq ToSet(SubSeq(x, p + 1, Len(x)))
           /\ ToSet(SubSeq(x, q + 1, Len(x))) \subseteq ToSet(SubSeq(x, p + 1, Len(x)))
           /\ ToSet(SubSeq(x, p + 1, q)) \subseteq ToSet(x)
<1>0. /\ Len(x) \in Nat /\ q \in 0 .. Len(x) /\ Len(x) \in 0 .. Len(x)
      /\ p + 1 \in Nat \ {0} /\ q + 1 \in Nat \ {0}
  BY BytesProperties
<1> DEFINE a == SubSeq(x, p + 1, q)
           b == SubSeq(x, p + 1, Len(x))
           c == SubSeq(x, q + 1, Len(x))
<1>1. /\ a \in Bytes /\ ToSet(a) \subseteq ToSet(x)
      /\ \A e \in ToSet(a) : \E i \in (p + 1) .. q : e = x[i]
  BY <1>0, BytesSub
<1>2. c \in Bytes /\ \A e \in ToSet(c) : \E i \in (q + 1) .. Len(x) : e = x[i]
  BY <1>0, BytesSub
<1>3. /\ b \in Bytes
      /\ Len(b) = IF p + 1 <= Len(x) THEN Len(x) - (p + 1) + 1 ELSE 0
      /\ \A i \in 1 .. (Len(x) - (p + 1) + 1) : b[i] = x[(p + 1) + i - 1]
  BY <1>0, BytesSub
<1>4. Increasing(a) /\ Increasing(c) /\ Before(a, c)
  BY <1>0, IncreasingSub
<1> HIDE DEF a, b, c
<1>5. ASSUME NEW i \in (p + 1) .. Len(x) PROVE x[i] \in ToSet(b)
  <2>1. /\ i - p \in 1 .. (Len(x) - (p + 1) + 1) /\ (p + 1) + (i - p) - 1 = i
        /\ i - p \in 1 .. Len(b)
    BY <1>0, <1>3
  <2>2. b[i - p] = x[i]
    BY <1>3, <2>1
  <2>3. b[i - p] \in ToSet(b)
    BY <1>3, <2>1, BytesProperties
  <2> QED
    BY <2>2, <2>3
<1>6. ToSet(a) \subseteq ToSet(b)
  <2> SUFFICES ASSUME NEW e \in ToSet(a) PROVE e \in ToSet(b)
    OBVIOUS
  <2>1. PICK i \in (p + 1) .. q : e = x[i]
    BY <1>1
  <2>2. i \in (p + 1) .. Len(x)
    BY <1>0
  <2> QED
    BY <2>1, <2>2, <1>5
<1>7. ToSet(c) \subseteq ToSet(b)
  <2> SUFFICES ASSUME NEW e \in ToSet(c) PROVE e \in ToSet(b)
    OBVIOUS
  <2>1. PICK i \in (q + 1) .. Len(x) : e = x[i]
    BY <1>2
  <2>2. i \in (p + 1) .. Len(x)
    BY <1>0
  <2> QED
    BY <2>1, <2>2, <1>5
<1> QED
  BY <1>1, <1>2, <1>4, <1>6, <1>7 DEF a, b, c

\* An artifact on its way: behind what was fetched, before the bytes that wait.
Artifact(a, f, W, b) ==
    a \in Bytes /\ Increasing(a) /\ Before(f, a) /\ Before(a, b) /\ ToSet(a) \subseteq W

\* The queue of artifacts.
Queue(sp, f, W, b) ==
    /\ sp \in Seq(Bytes)
    /\ \A i \in 1 .. Len(sp) : Artifact(sp[i], f, W, b)
    /\ \A i, j \in 1 .. Len(sp) : i < j => Before(sp[i], sp[j])

\* record_spill: a suffix of the queue and the new artifact.
LEMMA RecordShape ==
    ASSUME NEW sp \in Seq(Bytes), NEW a \in Bytes
    PROVE  /\ RecordSpill(sp, a) \in Seq(Bytes)
           /\ Len(RecordSpill(sp, a)) <= MaxSpills
           /\ \E d \in 0 .. Len(sp) :
                 /\ Len(RecordSpill(sp, a)) = Len(sp) - d + 1
                 /\ \A i \in 1 .. (Len(sp) - d) : RecordSpill(sp, a)[i] = sp[d + i]
                 /\ RecordSpill(sp, a)[Len(sp) - d + 1] = a
<1>0. Len(sp) \in Nat /\ MaxSpills \in Nat \ {0}
  BY RingConstants
<1> DEFINE d == IF Len(sp) >= MaxSpills THEN Len(sp) - MaxSpills + 1 ELSE 0
           kept == IF Len(sp) >= MaxSpills
                   THEN SubSeq(sp, Len(sp) - MaxSpills + 2, Len(sp)) ELSE sp
           r == Append(kept, a)
<1>1. d \in 0 .. Len(sp) /\ Len(sp) - d + 1 <= MaxSpills
  BY <1>0
<1>2. /\ kept \in Seq(Bytes) /\ Len(kept) = Len(sp) - d
      /\ \A i \in 1 .. (Len(sp) - d) : kept[i] = sp[d + i]
  <2>1. CASE Len(sp) >= MaxSpills
    <3> DEFINE m == Len(sp) - MaxSpills + 2
    <3>1. m \in 1 .. (Len(sp) + 1) /\ d = m - 1 /\ \A i \in m .. Len(sp) : sp[i] \in Bytes
      BY <2>1, <1>0
    <3>2. /\ SubSeq(sp, m, Len(sp)) \in Seq(Bytes)
          /\ Len(SubSeq(sp, m, Len(sp))) = IF m <= Len(sp) THEN Len(sp) - m + 1 ELSE 0
          /\ \A i \in 1 .. (Len(sp) - m + 1) : SubSeq(sp, m, Len(sp))[i] = sp[m + i - 1]
      BY <1>0, <3>1, SubSeqProperties
    <3>3. kept = SubSeq(sp, m, Len(sp))
      BY <2>1
    <3> HIDE DEF kept, m, d
    <3> QED
      BY <3>1, <3>2, <3>3, <1>0
  <2>2. CASE ~(Len(sp) >= MaxSpills)
    <3>1. kept = sp /\ d = 0
      BY <2>2
    <3> HIDE DEF kept, d
    <3> QED
      BY <3>1, <1>0
  <2> QED
    BY <2>1, <2>2
<1> HIDE DEF kept, d
<1>3. /\ r \in Seq(Bytes) /\ Len(r) = Len(sp) - d + 1
      /\ \A i \in 1 .. (Len(sp) - d) : r[i] = sp[d + i]
      /\ r[Len(sp) - d + 1] = a
  BY <1>0, <1>1, <1>2, AppendProperties
<1>4. RecordSpill(sp, a) = r
  BY DEF RecordSpill, kept
<1> HIDE DEF r
<1> QED
  BY <1>1, <1>3, <1>4

\* record_spill drops the oldest artifacts and adds one behind the others.
LEMMA QueueRecord ==
    ASSUME NEW sp, NEW f, NEW W, NEW b, NEW a, NEW c, Queue(sp, f, W, b),
           Artifact(a, f, W, c), ToSet(a) \subseteq ToSet(b), ToSet(c) \subseteq ToSet(b)
    PROVE  Queue(RecordSpill(sp, a), f, W, c) /\ Len(RecordSpill(sp, a)) <= MaxSpills
<1>0. sp \in Seq(Bytes) /\ Len(sp) \in Nat /\ a \in Bytes
  BY DEF Queue, Artifact
<1> DEFINE r == RecordSpill(sp, a)
<1>1. r \in Seq(Bytes) /\ Len(r) <= MaxSpills
  BY <1>0, RecordShape
<1>2. PICK d \in 0 .. Len(sp) :
         /\ Len(r) = Len(sp) - d + 1
         /\ \A i \in 1 .. (Len(sp) - d) : r[i] = sp[d + i]
         /\ r[Len(sp) - d + 1] = a
  BY <1>0, RecordShape
<1>l. Len(r) = Len(sp) - d + 1 /\ d \in 0 .. Len(sp)
  BY <1>2
<1> HIDE DEF r
<1>3. ASSUME NEW i \in 1 .. Len(sp)
      PROVE  Artifact(sp[i], f, W, c) /\ Before(sp[i], a)
  <2>1. Artifact(sp[i], f, W, b)
    BY DEF Queue
  <2> QED
    BY <2>1 DEF Artifact, Before
<1>4. ASSUME NEW i \in 1 .. Len(r) PROVE Artifact(r[i], f, W, c)
  <2>1. CASE i = Len(sp) - d + 1
    BY <2>1, <1>2
  <2>2. CASE i # Len(sp) - d + 1
    <3>1. i \in 1 .. (Len(sp) - d) /\ d + i \in 1 .. Len(sp)
      BY <2>2, <1>0, <1>l
    <3>2. r[i] = sp[d + i]
      BY <3>1, <1>2
    <3> QED
      BY <3>1, <3>2, <1>3
  <2> QED
    BY <2>1, <2>2
<1>5. ASSUME NEW i \in 1 .. Len(r), NEW j \in 1 .. Len(r), i < j PROVE Before(r[i], r[j])
  <2>1. i \in 1 .. (Len(sp) - d) /\ d + i \in 1 .. Len(sp)
    BY <1>0, <1>l, <1>5
  <2>2. r[i] = sp[d + i]
    BY <2>1, <1>2
  <2>3. CASE j = Len(sp) - d + 1
    BY <2>1, <2>2, <2>3, <1>2, <1>3
  <2>4. CASE j # Len(sp) - d + 1
    <3>1. j \in 1 .. (Len(sp) - d) /\ d + j \in 1 .. Len(sp) /\ d + i < d + j
      BY <2>4, <1>0, <1>l, <1>5
    <3>2. r[j] = sp[d + j]
      BY <3>1, <1>2
    <3>3. Before(sp[d + i], sp[d + j])
      BY <2>1, <3>1 DEF Queue
    <3> QED
      BY <2>2, <3>2, <3>3
  <2> QED
    BY <2>3, <2>4
<1> QED
  BY <1>1, <1>4, <1>5 DEF Queue, r

\* A queue stays one when more bytes become loose and later ones join the buffer.
LEMMA QueueWeaken ==
    ASSUME NEW sp, NEW f, NEW W, NEW b, NEW V, NEW c, Queue(sp, f, W, b), W \subseteq V,
           \A w \in W, e \in ToSet(c) : e \in ToSet(b) \/ w < e
    PROVE  Queue(sp, f, V, c)
<1>1. ASSUME NEW i \in 1 .. Len(sp) PROVE Artifact(sp[i], f, V, c)
  <2>1. Artifact(sp[i], f, W, b)
    BY DEF Queue
  <2>2. Before(sp[i], c)
    BY <2>1 DEF Artifact, Before
  <2> QED
    BY <2>1, <2>2 DEF Artifact
<1> QED
  BY <1>1 DEF Queue

\* The reader is handed the oldest artifact.
LEMMA QueueHead ==
    ASSUME NEW sp, NEW f \in Bytes, NEW W, NEW b, Queue(sp, f, W, b), sp # <<>>
    PROVE  Artifact(Head(sp), f, W, b) /\ Queue(Tail(sp), f \o Head(sp), W, b)
<1> DEFINE t == Tail(sp)
           h == Head(sp)
<1>0. sp \in Seq(Bytes) /\ Len(sp) \in Nat /\ Len(sp) # 0
  BY EmptySeq DEF Queue
<1>1. /\ h = sp[1] /\ t \in Seq(Bytes) /\ Len(t) = Len(sp) - 1
      /\ \A i \in 1 .. (Len(sp) - 1) : t[i] = sp[i + 1]
  BY <1>0, HeadTailProperties
<1> HIDE DEF t, h
<1>2. Artifact(h, f, W, b)
  <2>1. 1 \in 1 .. Len(sp)
    BY <1>0
  <2> QED
    BY <1>1, <2>1 DEF Queue
<1>3. ToSet(f \o h) = ToSet(f) \cup ToSet(h)
  BY <1>2, BytesConcat DEF Artifact
<1>4. ASSUME NEW i \in 1 .. Len(t) PROVE Artifact(t[i], f \o h, W, b)
  <2>1. /\ i \in 1 .. (Len(sp) - 1) /\ i + 1 \in 1 .. Len(sp)
        /\ 1 \in 1 .. Len(sp) /\ 1 < i + 1
    BY <1>0, <1>1
  <2>2. t[i] = sp[i + 1]
    BY <1>1, <2>1
  <2>3. Artifact(sp[i + 1], f, W, b) /\ Before(sp[1], sp[i + 1])
    BY <2>1 DEF Queue
  <2> HIDE DEF Queue
  <2>4. Before(f \o h, t[i])
    BY <1>1, <1>3, <2>2, <2>3 DEF Before, Artifact
  <2> QED
    BY <2>2, <2>3, <2>4 DEF Artifact
<1>5. ASSUME NEW i \in 1 .. Len(t), NEW j \in 1 .. Len(t), i < j PROVE Before(t[i], t[j])
  <2>1. /\ i \in 1 .. (Len(sp) - 1) /\ i + 1 \in 1 .. Len(sp)
        /\ j \in 1 .. (Len(sp) - 1) /\ j + 1 \in 1 .. Len(sp) /\ i + 1 < j + 1
    BY <1>0, <1>1, <1>5
  <2>2. t[i] = sp[i + 1] /\ t[j] = sp[j + 1]
    BY <1>1, <2>1
  <2> QED
    BY <2>1, <2>2 DEF Queue
<1> QED
  BY <1>1, <1>2, <1>4, <1>5 DEF Queue, t, h

\* A set of numbers that holds 0 and, with each number below n, the next one, holds n.
LEMMA Climb ==
    ASSUME NEW n \in Nat, NEW S, 0 \in S, \A k \in 0 .. n : k < n /\ k \in S => k + 1 \in S
    PROVE  n \in S
<1> SUFFICES ASSUME n \notin S PROVE FALSE
  OBVIOUS
<1> DEFINE T == {k \in 0 .. n : k \notin S}
<1>1. T \subseteq Nat /\ T # {}
  OBVIOUS
<1>2. PICK m \in T : \A k \in T : ~ (<<k, m>> \in OpToRel(<, Nat))
  <2> HIDE DEF T
  <2> QED
    BY <1>1, NatLessThanWellFounded, WFMin
<1>3. m \in 0 .. n /\ m \notin S /\ m # 0 /\ m - 1 \in 0 .. n /\ m - 1 < m /\ m - 1 < n
  OBVIOUS
<1>4. m - 1 \notin T
  <2>1. <<m - 1, m>> \in OpToRel(<, Nat)
    BY <1>3 DEF OpToRel
  <2> QED
    BY <1>2, <2>1
<1>5. (m - 1) + 1 = m
  BY <1>3
<1> QED
  BY <1>3, <1>4, <1>5

\* The loop of note_overflow: the queue after each of the n batches.
LEMMA StoredUnfolds ==
    ASSUME NEW n \in Nat, NEW buffer, NEW refused
    PROVE  \E g : /\ StoredBatches(buffer, n, refused) = g[n]
                  /\ g[0] = pendingSpills
                  /\ \A k \in 1 .. n :
                        g[k] = IF k \in refused THEN g[k - 1]
                               ELSE RecordSpill(g[k - 1], Batch(buffer, k))
<1> DEFINE After(g, k) == IF k = 0 THEN pendingSpills
                          ELSE IF k \in refused THEN g[k - 1]
                          ELSE RecordSpill(g[k - 1], Batch(buffer, k))
           S == {m \in 0 .. n : \E g : g = [k \in 0 .. m |-> After(g, k)]}
<1>1. 0 \in S
  <2> DEFINE g0 == [k \in 0 .. 0 |-> pendingSpills]
  <2>1. g0 = [k \in 0 .. 0 |-> After(g0, k)]
    <3>1. \A k \in 0 .. 0 : After(g0, k) = pendingSpills
      OBVIOUS
    <3> HIDE DEF After
    <3> QED
      BY <3>1
  <2> HIDE DEF g0, After
  <2> QED
    BY <2>1
<1>2. ASSUME NEW m \in 0 .. n, m < n, m \in S PROVE m + 1 \in S
  <2>1. PICK g : g = [k \in 0 .. m |-> After(g, k)]
    BY <1>2
  <2> DEFINE h == [k \in 0 .. (m + 1) |-> IF k = m + 1 THEN After(g, k) ELSE g[k]]
  <2>2. ASSUME NEW k \in 0 .. (m + 1) PROVE h[k] = After(h, k)
    <3>1. After(h, k) = After(g, k)
      <4>1. CASE k = 0
        BY <4>1
      <4>2. CASE k # 0
        <5>1. k - 1 \in 0 .. (m + 1) /\ k - 1 # m + 1
          BY <4>2
        <5>2. h[k - 1] = g[k - 1]
          BY <5>1
        <5> HIDE DEF h
        <5> QED
          BY <5>2
      <4> QED
        BY <4>1, <4>2
    <3>2. h[k] = After(g, k)
      <4>1. CASE k = m + 1
        BY <4>1
      <4>2. CASE k # m + 1
        <5>1. k \in 0 .. m /\ h[k] = g[k]
          BY <4>2
        <5> HIDE DEF After, h
        <5> QED
          BY <5>1, <2>1
      <4> QED
        BY <4>1, <4>2
    <3> QED
      BY <3>1, <3>2
  <2>3. h = [k \in 0 .. (m + 1) |-> After(h, k)]
    <3> DEFINE hh == [k \in 0 .. (m + 1) |-> After(h, k)]
    <3>1. \A k \in 0 .. (m + 1) : h[k] = hh[k]
      BY <2>2
    <3> HIDE DEF After
    <3> QED
      BY <3>1
  <2>4. m + 1 \in 0 .. n
    BY <1>2
  <2> HIDE DEF h, After
  <2> QED
    BY <2>3, <2>4
<1>3. n \in S
  <2> HIDE DEF S
  <2> QED
    BY <1>1, <1>2, Climb
<1> DEFINE f == CHOOSE g : g = [k \in 0 .. n |-> After(g, k)]
<1>4. f = [k \in 0 .. n |-> After(f, k)]
  BY <1>3, Zenon
<1>5. StoredBatches(buffer, n, refused) = f[n]
  BY Zenon DEF StoredBatches
<1> HIDE DEF f
<1>6. \A k \in 0 .. n : f[k] = After(f, k)
  <2> HIDE DEF After
  <2> QED
    BY <1>4
<1>7. f[0] = pendingSpills
  <2>1. 0 \in 0 .. n
    OBVIOUS
  <2> QED
    BY <1>6, <2>1
<1>8. ASSUME NEW k \in 1 .. n
      PROVE  f[k] = IF k \in refused THEN f[k - 1]
                    ELSE RecordSpill(f[k - 1], Batch(buffer, k))
  <2>1. k \in 0 .. n /\ k # 0
    OBVIOUS
  <2> QED
    BY <1>6, <2>1
<1> QED
  BY <1>5, <1>7, <1>8

\* A batch holds at least one byte, so the loop of note_overflow ends.
LEMMA ThresholdPositive == Threshold \in Nat \ {0}
  BY RingConstants DEF Threshold

\* Where the batches begin.
LEMMA Multiples ==
    ASSUME NEW T \in Nat, NEW k \in Nat
    PROVE  k * T \in Nat /\ (k + 1) * T = k * T + T /\ 0 * T = 0
  OBVIOUS

\* A later batch begins later.
LEMMA MultiplesGrow ==
    ASSUME NEW T \in Nat, NEW k \in Nat, NEW n \in Nat, k <= n
    PROVE  k * T <= n * T
<1>1. PICK d \in Nat : n = k + d
  <2>1. n - k \in Nat /\ n = k + (n - k)
    OBVIOUS
  <2> QED
    BY <2>1
<1>2. d * T \in Nat /\ k * T \in Nat
  OBVIOUS
<1>3. (k + d) * T = k * T + d * T
  OBVIOUS
<1> QED
  BY <1>1, <1>2, <1>3

\* The whole batches of l bytes leave less than one.
LEMMA WholeBatches ==
    ASSUME NEW T \in Nat \ {0}, NEW l \in Nat
    PROVE  /\ l \div T \in Nat
           /\ (l \div T) * T <= l
           /\ l < (l \div T) * T + T
  OBVIOUS

\* The batches note_overflow stores join the queue in the order of writing.
LEMMA StoredQueue ==
    ASSUME NEW n \in Nat, NEW buffer \in Bytes, Increasing(buffer), NEW refused,
           NEW f, NEW W, Before(f, buffer), ToSet(buffer) \subseteq W,
           Queue(pendingSpills, f, W, buffer), Len(pendingSpills) <= MaxSpills,
           n * Threshold <= Len(buffer)
    PROVE  /\ Queue(StoredBatches(buffer, n, refused), f, W,
                    SubSeq(buffer, n * Threshold + 1, Len(buffer)))
           /\ Len(StoredBatches(buffer, n, refused)) <= MaxSpills
<1> DEFINE rest(k) == SubSeq(buffer, k * Threshold + 1, Len(buffer))
<1>0. Threshold \in Nat /\ Len(buffer) \in Nat
  BY ThresholdPositive, BytesProperties
<1>1. PICK g : /\ StoredBatches(buffer, n, refused) = g[n]
               /\ g[0] = pendingSpills
               /\ \A k \in 1 .. n :
                     g[k] = IF k \in refused THEN g[k - 1]
                            ELSE RecordSpill(g[k - 1], Batch(buffer, k))
  BY StoredUnfolds
<1> DEFINE S == {k \in 0 .. n : Queue(g[k], f, W, rest(k)) /\ Len(g[k]) <= MaxSpills}
<1>2. 0 \in S
  <2>1. ToSet(rest(0)) \subseteq ToSet(buffer)
    <3>1. 0 * Threshold + 1 \in Nat \ {0} /\ Len(buffer) \in 0 .. Len(buffer)
      BY <1>0
    <3> QED
      BY <3>1, BytesSub
  <2> HIDE DEF rest
  <2>2. Queue(pendingSpills, f, W, rest(0))
    BY <2>1, QueueWeaken
  <2> QED
    BY <1>1, <2>2
<1>3. ASSUME NEW k \in 0 .. n, k < n, k \in S PROVE k + 1 \in S
  <2> DEFINE p == k * Threshold
             q == (k + 1) * Threshold
             a == SubSeq(buffer, p + 1, q)
  <2>1. p \in Nat /\ q \in Nat /\ p <= q /\ q <= Len(buffer) /\ k + 1 \in 0 .. n
    <3>1. k \in Nat /\ k + 1 \in Nat /\ k + 1 <= n /\ k + 1 \in 0 .. n
      BY <1>3
    <3>2. p \in Nat /\ q = p + Threshold
      BY <1>0, <3>1, Multiples
    <3>3. q <= n * Threshold
      BY <1>0, <3>1, MultiplesGrow
    <3>4. n * Threshold \in Nat
      BY <1>0, Multiples
    <3> HIDE DEF p, q
    <3> QED
      BY <1>0, <3>1, <3>2, <3>3, <3>4
  <2> HIDE DEF p, q
  <2>2. /\ a \in Bytes /\ Increasing(a) /\ Before(a, rest(k + 1))
        /\ ToSet(a) \subseteq ToSet(rest(k)) /\ ToSet(rest(k + 1)) \subseteq ToSet(rest(k))
        /\ ToSet(a) \subseteq ToSet(buffer)
    <3>1. rest(k) = SubSeq(buffer, p + 1, Len(buffer))
      BY DEF p
    <3>2. rest(k + 1) = SubSeq(buffer, q + 1, Len(buffer))
      BY DEF q
    <3> HIDE DEF rest
    <3> QED
      BY <2>1, <3>1, <3>2, Cut
  <2>3. Batch(buffer, k + 1) = a
    <3>1. (k + 1) - 1 = k
      BY <1>3
    <3> QED
      BY <3>1 DEF Batch, p, q
  <2>4. g[k + 1] = g[k] \/ g[k + 1] = RecordSpill(g[k], a)
    <3>1. k + 1 \in 1 .. n /\ (k + 1) - 1 = k
      BY <1>3
    <3> HIDE DEF a
    <3> QED
      BY <1>1, <2>3, <3>1
  <2> HIDE DEF a, rest
  <2>5. Queue(g[k], f, W, rest(k)) /\ Len(g[k]) <= MaxSpills
    BY <1>3
  <2>6. CASE g[k + 1] = g[k]
    <3>1. Queue(g[k], f, W, rest(k + 1))
      BY <2>2, <2>5, QueueWeaken
    <3> QED
      BY <2>1, <2>5, <2>6, <3>1
  <2>7. CASE g[k + 1] = RecordSpill(g[k], a)
    <3>1. Artifact(a, f, W, rest(k + 1))
      BY <2>2 DEF Artifact, Before
    <3>2. Queue(RecordSpill(g[k], a), f, W, rest(k + 1)) /\ Len(RecordSpill(g[k], a)) <= MaxSpills
      BY <2>2, <2>5, <3>1, QueueRecord
    <3> QED
      BY <2>1, <2>7, <3>2
  <2> QED
    BY <2>4, <2>6, <2>7
<1>4. n \in S
  <2> HIDE DEF S
  <2> QED
    BY <1>2, <1>3, Climb
<1> QED
  BY <1>1, <1>4

\* The bytes up to this one have left the ring.
Base == written - Len(ring)

\* The displaced ones among them: no read handed them out.
Loose == {a \in Nat : a <= Base /\ a \notin ToSet(received)}

\* What the numbers and the sequences are.
RingTypes ==
    /\ written \in Nat /\ droppedTotal \in Nat
    /\ ring \in Bytes /\ received \in Bytes /\ fetched \in Bytes /\ spillBuffer \in Bytes

\* The ring holds the newest bytes; what a client received is older.
Stream ==
    /\ written = Len(received) + Len(ring) + droppedTotal
    /\ \A i \in 1 .. Len(ring) : ring[i] = Base + i
    /\ Increasing(received)
    /\ \A a \in ToSet(received) : a <= Base

\* The overflow, oldest first: what was fetched, the queue, the buffer.
Overflow ==
    /\ Increasing(fetched) /\ ToSet(fetched) \subseteq Loose
    /\ Increasing(spillBuffer) /\ ToSet(spillBuffer) \subseteq Loose
    /\ Before(fetched, spillBuffer)
    /\ Queue(pendingSpills, fetched, Loose, spillBuffer)

\* The inductive invariant.  BytesAccounted alone does not say which bytes left the
\* ring, so a chunk that is pushed might displace a byte that waits in an artifact.
RingInv == RingTypes /\ RingBounded /\ Stream /\ Overflow

\* A PTY that has printed nothing.
LEMMA InitRing == RingInit => RingInv
<1> SUFFICES ASSUME RingInit PROVE RingInv
  OBVIOUS
<1>1. RingTypes /\ RingBounded
  BY BytesEmpty, ThresholdPositive, RingConstants DEF RingInit, RingTypes, RingBounded
<1>2. Stream
  BY BytesEmpty DEF RingInit, Stream
<1>3. Queue(<<>>, fetched, Loose, spillBuffer)
  BY DEF Queue
<1>4. Overflow
  BY <1>3, BytesEmpty DEF RingInit, Overflow, Before
<1> QED
  BY <1>1, <1>2, <1>4 DEF RingInv

\* The bytes in the ring are the newest and in order.
LEMMA RingBytes ==
    ASSUME RingTypes, Stream
    PROVE  /\ Len(ring) \in Nat /\ Len(received) \in Nat /\ Base \in Nat
           /\ Base + Len(ring) = written
           /\ \A a \in ToSet(ring) : Base < a
           /\ Increasing(ring)
<1>1. Len(ring) \in Nat /\ Len(received) \in Nat
  BY BytesProperties DEF RingTypes
<1>2. Base \in Nat /\ Base + Len(ring) = written
  BY <1>1 DEF Base, Stream, RingTypes
<1>3. ASSUME NEW a \in ToSet(ring) PROVE Base < a
  <2>1. PICK i \in 1 .. Len(ring) : ring[i] = a
    BY BytesProperties DEF RingTypes
  <2>2. ring[i] = Base + i
    BY DEF Stream
  <2> QED
    BY <1>1, <1>2, <2>1, <2>2
<1>4. Increasing(ring)
  <2> SUFFICES ASSUME NEW j \in 1 .. Len(ring), NEW k \in 1 .. Len(ring), j < k
               PROVE  ring[j] < ring[k]
    BY DEF Increasing
  <2>1. ring[j] = Base + j /\ ring[k] = Base + k
    BY DEF Stream
  <2> QED
    BY <1>1, <1>2, <2>1
<1> QED
  BY <1>1, <1>2, <1>3, <1>4

\* The forced flush at the end of the terminal.
LEMMA EndsRing == RingInv /\ ReaderEnds => RingInv'
<1> SUFFICES ASSUME RingInv, ReaderEnds PROVE RingInv'
  OBVIOUS
<1>0. /\ written' = written /\ ring' = ring /\ droppedTotal' = droppedTotal
      /\ received' = received /\ fetched' = fetched /\ spillBuffer' = <<>>
  BY DEF ReaderEnds
<1>1. Base' = Base /\ Loose' = Loose
  BY <1>0 DEF Base, Loose
<1>2. RingTypes' /\ Stream'
  BY <1>0, <1>1, BytesEmpty DEF RingInv, RingTypes, Stream
<1>3. Queue(pendingSpills, fetched, Loose, spillBuffer) /\ Len(pendingSpills) <= MaxSpills
  BY DEF RingInv, RingBounded, Overflow
<1>4. Queue(pendingSpills', fetched, Loose, <<>>) /\ Len(pendingSpills') <= MaxSpills
  <2>1. CASE pendingSpills' = pendingSpills
    <3>1. Queue(pendingSpills, fetched, Loose, <<>>)
      BY <1>3, BytesEmpty, QueueWeaken
    <3> QED
      BY <1>3, <2>1, <3>1
  <2>2. CASE pendingSpills' = RecordSpill(pendingSpills, spillBuffer)
    <3>1. Artifact(spillBuffer, fetched, Loose, <<>>)
      BY BytesEmpty DEF Artifact, RingInv, RingTypes, Overflow, Before
    <3> QED
      BY <1>3, <2>2, <3>1, BytesEmpty, QueueRecord
  <2> QED
    BY <2>1, <2>2 DEF ReaderEnds
<1>5. RingBounded'
  BY <1>0, <1>4, BytesEmpty, ThresholdPositive DEF RingInv, RingBounded, Threshold
<1>6. Overflow'
  <2>1. Before(fetched, <<>>)
    BY BytesEmpty DEF Before
  <2> QED
    BY <1>0, <1>1, <1>4, <2>1, BytesEmpty DEF RingInv, Overflow
<1> QED
  BY <1>2, <1>5, <1>6 DEF RingInv

\* A read takes the oldest bytes of the ring and the oldest artifact.
LEMMA ReadRing ==
    ASSUME RingInv, NEW max \in 1 .. Capacity, ReadOutput(max) PROVE RingInv'
<1> DEFINE n == IF max < Len(ring) THEN max ELSE Len(ring)
           out == SubSeq(ring, 1, n)
           rest == SubSeq(ring, n + 1, Len(ring))
<1>0. RingTypes /\ Stream /\ Overflow /\ RingBounded
  BY DEF RingInv
<1>1. /\ written' = written /\ droppedTotal' = droppedTotal /\ spillBuffer' = spillBuffer
      /\ received' = received \o out /\ ring' = rest
  BY DEF ReadOutput
<1>2. /\ Len(ring) \in Nat /\ Len(received) \in Nat /\ Base \in Nat
      /\ Base + Len(ring) = written /\ Increasing(ring)
      /\ \A a \in ToSet(ring) : Base < a
  BY <1>0, RingBytes
<1>3. n \in Nat /\ n <= Len(ring) /\ n \in 0 .. Len(ring)
  BY <1>2, RingConstants
<1> HIDE DEF n
<1>4. /\ out \in Bytes /\ Len(out) = n /\ Increasing(out)
      /\ ToSet(out) \subseteq ToSet(ring)
      /\ \A a \in ToSet(out) : \E i \in 1 .. n : a = ring[i]
  <2>1. /\ out \in Bytes /\ Len(out) = IF 1 <= n THEN n - 1 + 1 ELSE 0
        /\ ToSet(out) \subseteq ToSet(ring)
        /\ \A a \in ToSet(out) : \E i \in 1 .. n : a = ring[i]
    BY <1>0, <1>3, BytesSub DEF RingTypes
  <2>2. Increasing(out)
    BY <1>0, <1>2, <1>3, IncreasingSub DEF RingTypes
  <2> HIDE DEF out
  <2> QED
    BY <1>3, <2>1, <2>2
<1>5. /\ rest \in Bytes /\ Len(rest) = Len(ring) - n
      /\ \A i \in 1 .. Len(rest) : rest[i] = ring[n + i]
  <2>0. n + 1 \in Nat \ {0} /\ Len(ring) \in 0 .. Len(ring)
    BY <1>2, <1>3
  <2>1. /\ rest \in Bytes
        /\ Len(rest) = IF n + 1 <= Len(ring) THEN Len(ring) - (n + 1) + 1 ELSE 0
        /\ \A i \in 1 .. (Len(ring) - (n + 1) + 1) : rest[i] = ring[(n + 1) + i - 1]
    BY <1>0, <2>0, BytesSub DEF RingTypes
  <2> HIDE DEF rest
  <2>2. Len(rest) = Len(ring) - n /\ Len(ring) - (n + 1) + 1 = Len(ring) - n
    BY <1>2, <1>3, <2>1
  <2>3. ASSUME NEW i \in 1 .. Len(rest) PROVE rest[i] = ring[n + i]
    <3>1. i \in 1 .. (Len(ring) - (n + 1) + 1) /\ (n + 1) + i - 1 = n + i
      BY <1>2, <1>3, <2>2
    <3> QED
      BY <2>1, <3>1
  <2> QED
    BY <2>1, <2>2, <2>3
<1> HIDE DEF out, rest
<1>6. Base' = Base + n
  BY <1>0, <1>1, <1>2, <1>3, <1>5 DEF Base, RingTypes
<1>7. /\ received' \in Bytes /\ Len(received') = Len(received) + n
      /\ ToSet(received') = ToSet(received) \cup ToSet(out)
  BY <1>0, <1>1, <1>4, BytesConcat DEF RingTypes
<1>8. \A a \in ToSet(out) : Base < a /\ a <= Base + n
  <2> SUFFICES ASSUME NEW a \in ToSet(out) PROVE Base < a /\ a <= Base + n
    OBVIOUS
  <2>1. PICK i \in 1 .. n : a = ring[i]
    BY <1>4
  <2>2. i \in 1 .. Len(ring)
    BY <1>2, <1>3
  <2>3. a = Base + i
    BY <1>0, <2>1, <2>2 DEF Stream
  <2> QED
    BY <1>2, <1>3, <2>3
<1>9. Stream'
  <2>1. written' = Len(received') + Len(ring') + droppedTotal'
    BY <1>0, <1>1, <1>2, <1>3, <1>5, <1>7 DEF Stream, RingTypes
  <2>2. ASSUME NEW i \in 1 .. Len(ring') PROVE ring'[i] = Base' + i
    <3>1. n + i \in 1 .. Len(ring) /\ i \in 1 .. Len(rest)
      BY <1>1, <1>2, <1>3, <1>5
    <3>2. rest[i] = ring[n + i] /\ ring[n + i] = Base + (n + i)
      BY <1>0, <1>5, <3>1 DEF Stream
    <3>3. Base + (n + i) = (Base + n) + i
      BY <1>2, <1>3, <3>1
    <3> QED
      BY <1>1, <1>6, <3>2, <3>3
  <2>3. Before(received, out)
    <3> SUFFICES ASSUME NEW a \in ToSet(received), NEW b \in ToSet(out) PROVE a < b
      BY DEF Before
    <3>1. a <= Base /\ Base < b /\ a \in Nat /\ b \in Nat
      BY <1>0, <1>4, <1>8, BytesProperties DEF Stream, RingTypes
    <3> QED
      BY <1>2, <3>1
  <2>4. Increasing(received')
    BY <1>0, <1>1, <1>4, <2>3, IncreasingConcat DEF Stream, RingTypes
  <2>5. ASSUME NEW a \in ToSet(received') PROVE a <= Base'
    <3>1. CASE a \in ToSet(out)
      BY <1>6, <1>8, <3>1
    <3>2. CASE a \in ToSet(received)
      <4>1. a <= Base /\ a \in Nat
        BY <1>0, <3>2, BytesProperties DEF Stream, RingTypes
      <4> QED
        BY <1>2, <1>3, <1>6, <4>1
    <3> QED
      BY <1>7, <3>1, <3>2
  <2> QED
    BY <2>1, <2>2, <2>4, <2>5 DEF Stream
<1>10. Loose \subseteq Loose'
  <2> SUFFICES ASSUME NEW a \in Loose PROVE a \in Loose'
    OBVIOUS
  <2>1. a \in Nat /\ a <= Base /\ a \notin ToSet(received)
    BY DEF Loose
  <2>2. a \notin ToSet(out) /\ a <= Base + n
    BY <1>2, <1>3, <1>8, <2>1
  <2> QED
    BY <1>6, <1>7, <2>1, <2>2 DEF Loose
<1>11. Queue(pendingSpills, fetched, Loose', spillBuffer)
  <2>1. Queue(pendingSpills, fetched, Loose, spillBuffer)
    BY <1>0 DEF Overflow
  <2> QED
    BY <1>10, <2>1, QueueWeaken
<1>12. /\ fetched' \in Bytes /\ Increasing(fetched') /\ ToSet(fetched') \subseteq Loose'
       /\ Before(fetched', spillBuffer)
       /\ Queue(pendingSpills', fetched', Loose', spillBuffer)
       /\ Len(pendingSpills') <= MaxSpills
  <2>0. /\ fetched \in Bytes /\ Increasing(fetched) /\ ToSet(fetched) \subseteq Loose'
        /\ Before(fetched, spillBuffer) /\ Len(pendingSpills) <= MaxSpills
    BY <1>0, <1>10 DEF Overflow, RingTypes, RingBounded
  <2>1. CASE pendingSpills = <<>>
    <3>1. fetched' = fetched /\ pendingSpills' = pendingSpills
      BY <2>1 DEF ReadOutput
    <3> QED
      BY <1>11, <2>0, <3>1
  <2>2. CASE pendingSpills # <<>>
    <3> DEFINE h == Head(pendingSpills)
    <3>1. fetched' = fetched \o h /\ pendingSpills' = Tail(pendingSpills)
      BY <2>2 DEF ReadOutput
    <3>2. /\ Artifact(h, fetched, Loose', spillBuffer)
          /\ Queue(Tail(pendingSpills), fetched \o h, Loose', spillBuffer)
      BY <1>11, <2>0, <2>2, QueueHead
    <3>3. Len(Tail(pendingSpills)) <= MaxSpills
      <4>1. pendingSpills \in Seq(Bytes)
        BY <1>11 DEF Queue
      <4>2. Len(pendingSpills) \in Nat /\ Len(Tail(pendingSpills)) = Len(pendingSpills) - 1
        BY <2>2, <4>1, HeadTailProperties
      <4> QED
        BY <2>0, <4>2, RingConstants
    <3> HIDE DEF h
    <3>4. /\ fetched \o h \in Bytes
          /\ ToSet(fetched \o h) = ToSet(fetched) \cup ToSet(h)
      BY <2>0, <3>2, BytesConcat DEF Artifact
    <3>5. Increasing(fetched \o h)
      BY <2>0, <3>2, IncreasingConcat DEF Artifact
    <3>6. Before(fetched \o h, spillBuffer) /\ ToSet(fetched \o h) \subseteq Loose'
      BY <2>0, <3>2, <3>4 DEF Artifact, Before
    <3> QED
      BY <3>1, <3>2, <3>3, <3>4, <3>5, <3>6
  <2> QED
    BY <2>1, <2>2
<1>13. Overflow'
  <2>1. Increasing(spillBuffer) /\ ToSet(spillBuffer) \subseteq Loose'
    BY <1>0, <1>10 DEF Overflow
  <2> QED
    BY <1>1, <1>12, <2>1 DEF Overflow
<1>14. RingTypes'
  BY <1>0, <1>1, <1>5, <1>7, <1>12 DEF RingTypes
<1>15. RingBounded'
  <2>1. Len(ring') <= Capacity
    BY <1>0, <1>1, <1>2, <1>3, <1>5, RingConstants DEF RingBounded
  <2> QED
    BY <1>0, <1>1, <1>12, <2>1 DEF RingBounded, Threshold
<1> QED
  BY <1>9, <1>13, <1>14, <1>15 DEF RingInv

\* Consecutive bytes: their number and order.
LEMMA Consecutive ==
    ASSUME NEW x \in Bytes, NEW e \in Nat, \A i \in 1 .. Len(x) : x[i] = e + i
    PROVE  Increasing(x) /\ \A a \in ToSet(x) : e < a /\ a <= e + Len(x)
<1>0. Len(x) \in Nat
  BY BytesProperties
<1>1. Increasing(x)
  <2> SUFFICES ASSUME NEW j \in 1 .. Len(x), NEW k \in 1 .. Len(x), j < k
               PROVE  x[j] < x[k]
    BY DEF Increasing
  <2>1. x[j] = e + j /\ x[k] = e + k
    OBVIOUS
  <2> QED
    BY <1>0, <2>1
<1>2. ASSUME NEW a \in ToSet(x) PROVE e < a /\ a <= e + Len(x)
  <2>1. PICK i \in 1 .. Len(x) : x[i] = a
    BY BytesProperties
  <2>2. a = e + i
    BY <2>1
  <2> QED
    BY <1>0, <2>2
<1> QED
  BY <1>1, <1>2

\* A chunk of n bytes is pushed: over bytes leave the ring at its old end.
LEMMA PushedShape ==
    ASSUME RingTypes, Stream, NEW n \in Nat \ {0}
    PROVE  LET after == Pushed([k \in 1 .. n |-> written + k])
           IN  \E over \in Nat :
                 /\ after.ring \in Bytes /\ Len(after.ring) = Len(ring) + n - over
                 /\ \A i \in 1 .. Len(after.ring) : after.ring[i] = (Base + over) + i
                 /\ Len(after.ring) <= Capacity
                 /\ after.spilled \in Bytes /\ Len(after.spilled) = over
                 /\ \A i \in 1 .. Len(after.spilled) : after.spilled[i] = Base + i
<1>0. /\ Len(ring) \in Nat /\ Base \in Nat /\ Base + Len(ring) = written /\ ring \in Bytes
  BY RingBytes DEF RingTypes
<1> DEFINE chunk == [k \in 1 .. n |-> written + k]
           all == ring \o chunk
           over == IF Len(all) > Capacity THEN Len(all) - Capacity ELSE 0
           new == SubSeq(all, over + 1, Len(all))
           out == SubSeq(all, 1, over)
<1>1. chunk \in Bytes /\ Len(chunk) = n /\ \A k \in 1 .. n : chunk[k] = written + k
  <2>1. \A k \in 1 .. n : written + k \in Nat
    BY <1>0
  <2>2. chunk \in [1 .. n -> Nat]
    BY <2>1
  <2> QED
    BY <2>2 DEF Bytes
<1> HIDE DEF chunk
<1>2. /\ all \in Bytes /\ Len(all) = Len(ring) + n
      /\ \A i \in 1 .. (Len(ring) + n) :
            all[i] = IF i <= Len(ring) THEN ring[i] ELSE chunk[i - Len(ring)]
  BY <1>0, <1>1, BytesConcat
<1> HIDE DEF all
<1>3. ASSUME NEW i \in 1 .. Len(all) PROVE all[i] = Base + i
  <2>0. i \in 1 .. (Len(ring) + n)
    BY <1>2
  <2>1. CASE i <= Len(ring)
    <3>1. i \in 1 .. Len(ring) /\ all[i] = ring[i]
      BY <1>0, <1>2, <2>0, <2>1
    <3> QED
      BY <3>1 DEF Stream
  <2>2. CASE ~(i <= Len(ring))
    <3>1. i - Len(ring) \in 1 .. n /\ all[i] = chunk[i - Len(ring)]
      BY <1>0, <1>2, <2>0, <2>2
    <3>2. chunk[i - Len(ring)] = written + (i - Len(ring))
      BY <1>1, <3>1
    <3> QED
      BY <1>0, <2>0, <3>1, <3>2
  <2> QED
    BY <2>1, <2>2
<1>4. /\ Len(all) \in Nat /\ over \in Nat /\ over \in 0 .. Len(all)
      /\ Len(all) - over <= Capacity
  BY <1>0, <1>2, RingConstants
<1> HIDE DEF over
<1>5. /\ new \in Bytes /\ Len(new) = Len(ring) + n - over
      /\ \A i \in 1 .. Len(new) : new[i] = (Base + over) + i
  <2>0. over + 1 \in Nat \ {0} /\ Len(all) \in 0 .. Len(all)
    BY <1>4
  <2>1. /\ new \in Bytes
        /\ Len(new) = IF over + 1 <= Len(all) THEN Len(all) - (over + 1) + 1 ELSE 0
        /\ \A i \in 1 .. (Len(all) - (over + 1) + 1) : new[i] = all[(over + 1) + i - 1]
    BY <1>2, <2>0, BytesSub
  <2> HIDE DEF new
  <2>2. Len(new) = Len(all) - over /\ Len(all) - (over + 1) + 1 = Len(all) - over
    BY <1>4, <2>1
  <2>3. ASSUME NEW i \in 1 .. Len(new) PROVE new[i] = (Base + over) + i
    <3>1. /\ i \in 1 .. (Len(all) - (over + 1) + 1) /\ (over + 1) + i - 1 = over + i
          /\ over + i \in 1 .. Len(all)
      BY <1>4, <2>2
    <3>2. new[i] = all[over + i] /\ all[over + i] = Base + (over + i)
      BY <1>3, <2>1, <3>1
    <3> QED
      BY <1>0, <1>4, <3>1, <3>2
  <2>4. new \in Bytes
    BY <2>1
  <2>5. Len(new) = Len(ring) + n - over
    <3>1. Len(all) = Len(ring) + n
      BY <1>2
    <3> QED
      BY <1>0, <1>4, <2>2, <3>1
  <2> QED
    BY <2>3, <2>4, <2>5
<1>6. /\ out \in Bytes /\ Len(out) = over
      /\ \A i \in 1 .. Len(out) : out[i] = Base + i
  <2>1. /\ out \in Bytes
        /\ Len(out) = IF 1 <= over THEN over - 1 + 1 ELSE 0
        /\ \A i \in 1 .. (over - 1 + 1) : out[i] = all[1 + i - 1]
    BY <1>2, <1>4, BytesSub
  <2> HIDE DEF out
  <2>2. Len(out) = over /\ over - 1 + 1 = over
    BY <1>4, <2>1
  <2>3. ASSUME NEW i \in 1 .. Len(out) PROVE out[i] = Base + i
    <3>1. i \in 1 .. (over - 1 + 1) /\ 1 + i - 1 = i /\ i \in 1 .. Len(all)
      BY <1>4, <2>2
    <3> QED
      BY <1>3, <2>1, <3>1
  <2> QED
    BY <2>1, <2>2, <2>3
<1> DEFINE after == Pushed([k \in 1 .. n |-> written + k])
<1>7. after.ring = new /\ after.spilled = out
  BY DEF Pushed, all, over, chunk
<1>8. Len(new) <= Capacity
  BY <1>2, <1>4, <1>5
<1> HIDE DEF after, new, out
<1>9. \E o \in Nat :
         /\ after.ring \in Bytes /\ Len(after.ring) = Len(ring) + n - o
         /\ \A i \in 1 .. Len(after.ring) : after.ring[i] = (Base + o) + i
         /\ Len(after.ring) <= Capacity
         /\ after.spilled \in Bytes /\ Len(after.spilled) = o
         /\ \A i \in 1 .. Len(after.spilled) : after.spilled[i] = Base + i
  BY <1>4, <1>5, <1>6, <1>7, <1>8
<1> QED
  BY <1>9 DEF after

\* A chunk displaces the oldest bytes, which join the buffer and leave it in batches.
LEMMA PushRing == ASSUME RingInv, NEW n \in 1 .. MaxChunk, Push(n) PROVE RingInv'
<1>0. RingTypes /\ Stream /\ Overflow /\ RingBounded /\ n \in Nat \ {0}
  BY RingConstants DEF RingInv
<1> DEFINE after == Pushed([k \in 1 .. n |-> written + k])
           buffer == spillBuffer \o after.spilled
           batches == Len(buffer) \div Threshold
<1>1. /\ written' = written + n /\ received' = received /\ fetched' = fetched
      /\ ring' = after.ring /\ droppedTotal' = droppedTotal + Len(after.spilled)
      /\ spillBuffer' = SubSeq(buffer, batches * Threshold + 1, Len(buffer))
      /\ \E refused \in SUBSET (1 .. batches) :
            pendingSpills' = StoredBatches(buffer, batches, refused)
  BY DEF Push
<1>2. PICK over \in Nat :
         /\ after.ring \in Bytes /\ Len(after.ring) = Len(ring) + n - over
         /\ \A i \in 1 .. Len(after.ring) : after.ring[i] = (Base + over) + i
         /\ Len(after.ring) <= Capacity
         /\ after.spilled \in Bytes /\ Len(after.spilled) = over
         /\ \A i \in 1 .. Len(after.spilled) : after.spilled[i] = Base + i
  BY <1>0, PushedShape
<1> HIDE DEF after
<1>3. /\ Len(ring) \in Nat /\ Len(received) \in Nat /\ Base \in Nat
      /\ Base + Len(ring) = written
  BY <1>0, RingBytes
<1>4. Base' = Base + over
  BY <1>0, <1>1, <1>2, <1>3 DEF Base
<1>5. /\ Increasing(after.spilled)
      /\ \A a \in ToSet(after.spilled) : a \in Nat /\ Base < a /\ a <= Base + over
  <2>1. \A a \in ToSet(after.spilled) : a \in Nat
    BY <1>2, BytesProperties
  <2> QED
    BY <1>2, <1>3, <2>1, Consecutive
<1>6. Stream'
  <2>1. written' = Len(received') + Len(ring') + droppedTotal'
    BY <1>0, <1>1, <1>2, <1>3 DEF Stream, RingTypes
  <2>2. \A i \in 1 .. Len(ring') : ring'[i] = Base' + i
    BY <1>1, <1>2, <1>4
  <2>3. ASSUME NEW a \in ToSet(received) PROVE a <= Base'
    <3>1. a <= Base /\ a \in Nat
      BY <1>0, BytesProperties DEF Stream, RingTypes
    <3> QED
      BY <1>3, <1>4, <3>1
  <2> QED
    BY <1>0, <1>1, <2>1, <2>2, <2>3 DEF Stream
<1>7. Loose \subseteq Loose' /\ ToSet(after.spilled) \subseteq Loose'
  <2>1. ASSUME NEW a \in Loose PROVE a \in Loose'
    <3>1. a \in Nat /\ a <= Base /\ a \notin ToSet(received)
      BY DEF Loose
    <3>2. a <= Base + over
      BY <1>3, <3>1
    <3> QED
      BY <1>1, <1>4, <3>1, <3>2 DEF Loose
  <2>2. ASSUME NEW a \in ToSet(after.spilled) PROVE a \in Loose'
    <3>1. a \notin ToSet(received)
      <4> SUFFICES ASSUME a \in ToSet(received) PROVE FALSE
        OBVIOUS
      <4>1. a <= Base
        BY <1>0 DEF Stream
      <4> QED
        BY <1>3, <1>5, <4>1
    <3> QED
      BY <1>1, <1>4, <1>5, <3>1 DEF Loose
  <2> QED
    BY <2>1, <2>2
<1>8. /\ buffer \in Bytes /\ Len(buffer) \in Nat
      /\ ToSet(buffer) = ToSet(spillBuffer) \cup ToSet(after.spilled)
  BY <1>0, <1>2, BytesConcat, BytesProperties DEF RingTypes
<1>9. \A w \in Loose, e \in ToSet(after.spilled) : w < e
  <2> SUFFICES ASSUME NEW w \in Loose, NEW e \in ToSet(after.spilled) PROVE w < e
    OBVIOUS
  <2>1. w \in Nat /\ w <= Base /\ e \in Nat /\ Base < e
    BY <1>5 DEF Loose
  <2> QED
    BY <1>3, <2>1
<1>10. Increasing(buffer)
  <2>1. Before(spillBuffer, after.spilled)
    BY <1>0, <1>9 DEF Before, Overflow
  <2> QED
    BY <1>0, <1>2, <1>5, <2>1, IncreasingConcat DEF RingTypes, Overflow
<1>11. Before(fetched, buffer) /\ ToSet(buffer) \subseteq Loose'
  BY <1>0, <1>7, <1>8, <1>9 DEF Before, Overflow
<1> HIDE DEF buffer
<1>12. Queue(pendingSpills, fetched, Loose', buffer)
  <2>1. Queue(pendingSpills, fetched, Loose, spillBuffer)
    BY <1>0 DEF Overflow
  <2>2. \A w \in Loose, e \in ToSet(buffer) : e \in ToSet(spillBuffer) \/ w < e
    BY <1>8, <1>9
  <2> QED
    BY <1>7, <2>1, <2>2, QueueWeaken
<1>13. /\ batches \in Nat /\ batches * Threshold <= Len(buffer)
       /\ Len(buffer) < batches * Threshold + Threshold
       /\ batches * Threshold \in Nat /\ Threshold \in Nat \ {0}
  BY <1>8, WholeBatches, Multiples, ThresholdPositive
<1> HIDE DEF batches
<1> DEFINE q == batches * Threshold
           left == SubSeq(buffer, q + 1, Len(buffer))
<1>14. Queue(pendingSpills', fetched, Loose', left) /\ Len(pendingSpills') <= MaxSpills
  <2>1. PICK refused \in SUBSET (1 .. batches) :
           pendingSpills' = StoredBatches(buffer, batches, refused)
    BY <1>1
  <2>2. Len(pendingSpills) <= MaxSpills
    BY <1>0 DEF RingBounded
  <2> QED
    BY <1>8, <1>10, <1>11, <1>12, <1>13, <2>1, <2>2, StoredQueue
<1>15. /\ left \in Bytes /\ Increasing(left) /\ Len(left) < Threshold
       /\ ToSet(left) \subseteq ToSet(buffer)
  <2>0. q \in Nat /\ q <= Len(buffer) /\ Len(buffer) < q + Threshold
    BY <1>13
  <2> HIDE DEF q
  <2>1. q + 1 \in Nat \ {0} /\ Len(buffer) \in 0 .. Len(buffer)
    BY <1>8, <2>0
  <2>2. /\ left \in Bytes /\ ToSet(left) \subseteq ToSet(buffer)
        /\ Len(left) = IF q + 1 <= Len(buffer) THEN Len(buffer) - (q + 1) + 1 ELSE 0
    BY <1>8, <2>1, BytesSub
  <2>3. Increasing(left)
    BY <1>8, <1>10, <2>1, IncreasingSub
  <2> HIDE DEF left
  <2>4. Len(left) < Threshold
    BY <1>8, <1>13, <2>0, <2>2
  <2> QED
    BY <2>2, <2>3, <2>4
<1>16. spillBuffer' = left
  BY <1>1
<1> HIDE DEF left
<1>17. Overflow'
  <2>1. Before(fetched, left) /\ ToSet(left) \subseteq Loose'
    BY <1>11, <1>15 DEF Before
  <2>2. Increasing(fetched) /\ ToSet(fetched) \subseteq Loose'
    BY <1>0, <1>7 DEF Overflow
  <2>3. fetched' = fetched
    BY <1>1
  <2> QED
    BY <1>14, <1>15, <1>16, <2>1, <2>2, <2>3 DEF Overflow
<1>18. RingTypes'
  <2>1. written' \in Nat /\ droppedTotal' \in Nat
    <3>1. /\ written' = written + n /\ droppedTotal' = droppedTotal + Len(after.spilled)
          /\ Len(after.spilled) = over
      BY <1>1, <1>2
    <3> QED
      BY <1>0, <3>1 DEF RingTypes
  <2>2. ring' \in Bytes /\ received' = received /\ fetched' = fetched
    BY <1>1, <1>2
  <2> QED
    BY <1>0, <1>15, <1>16, <2>1, <2>2 DEF RingTypes
<1>19. RingBounded'
  BY <1>1, <1>2, <1>14, <1>15, <1>16 DEF RingBounded, Threshold
<1> QED
  BY <1>6, <1>17, <1>18, <1>19 DEF RingInv

\* The invariant is inductive.
LEMMA RingInvNext == RingInv /\ [RingNext]_ringVars => RingInv'
<1> SUFFICES ASSUME RingInv, [RingNext]_ringVars PROVE RingInv'
  OBVIOUS
<1>1. ASSUME NEW n \in 1 .. MaxChunk, Push(n) PROVE RingInv'
  BY <1>1, PushRing
<1>2. CASE ReaderEnds
  BY <1>2, EndsRing
<1>3. ASSUME NEW max \in 1 .. Capacity, ReadOutput(max) PROVE RingInv'
  BY <1>3, ReadRing
<1>4. CASE UNCHANGED ringVars
  <2>0. /\ written' = written /\ ring' = ring /\ droppedTotal' = droppedTotal
        /\ spillBuffer' = spillBuffer /\ pendingSpills' = pendingSpills
        /\ received' = received /\ fetched' = fetched
    BY <1>4 DEF ringVars
  <2>1. Base' = Base /\ Loose' = Loose
    BY <2>0 DEF Base, Loose
  <2>2. RingTypes' /\ RingBounded'
    BY <2>0 DEF RingInv, RingTypes, RingBounded, Threshold
  <2>3. Stream' /\ Overflow'
    BY <2>0, <2>1 DEF RingInv, Stream, Overflow
  <2> QED
    BY <2>2, <2>3 DEF RingInv
<1> QED
  BY <1>1, <1>2, <1>3, <1>4 DEF RingNext

\* It always holds.
LEMMA RingInvAlways == RingSpec => []RingInv
  BY InitRing, RingInvNext, PTL DEF RingSpec

\* What the invariant says of the bytes.
LEMMA Accounted == RingInv => BytesAccounted
<1> SUFFICES ASSUME RingInv PROVE BytesAccounted
  OBVIOUS
<1> DEFINE stream == received \o ring
           queue == <<fetched>> \o pendingSpills
           overflow == queue \o <<spillBuffer>>
<1>0. RingTypes /\ Stream /\ Overflow
  BY DEF RingInv
<1>1. /\ Len(ring) \in Nat /\ Len(received) \in Nat /\ Base \in Nat
      /\ Increasing(ring) /\ \A a \in ToSet(ring) : Base < a
  BY <1>0, RingBytes
<1>2. Len(stream) = Len(received) + Len(ring) /\ ToSet(stream) = ToSet(received) \cup ToSet(ring)
  BY <1>0, BytesConcat DEF RingTypes
<1>3. written = Len(stream) + droppedTotal
  BY <1>0, <1>2 DEF Stream
<1>4. Increasing(stream)
  <2>1. Before(received, ring)
    <3> SUFFICES ASSUME NEW a \in ToSet(received), NEW b \in ToSet(ring) PROVE a < b
      BY DEF Before
    <3>1. a \in Nat /\ b \in Nat /\ a <= Base /\ Base < b
      BY <1>0, <1>1, BytesProperties DEF RingTypes, Stream
    <3> QED
      BY <1>1, <3>1
  <2> QED
    BY <1>0, <1>1, <2>1, IncreasingConcat DEF RingTypes, Stream
<1>5. Loose \cap ToSet(stream) = {}
  <2> SUFFICES ASSUME NEW a \in Loose, a \in ToSet(stream) PROVE FALSE
    OBVIOUS
  <2>1. a \in Nat /\ a <= Base /\ a \notin ToSet(received)
    BY DEF Loose
  <2>2. Base < a
    BY <1>1, <1>2, <2>1
  <2> QED
    BY <1>1, <2>1, <2>2
<1> HIDE DEF stream
<1> DEFINE l == Len(pendingSpills)
<1>6. pendingSpills \in Seq(Bytes) /\ l \in Nat
  BY <1>0 DEF Overflow, Queue
<1>7. /\ Len(overflow) = l + 2
      /\ overflow[1] = fetched /\ overflow[l + 2] = spillBuffer
      /\ \A i \in 2 .. (l + 1) : overflow[i] = pendingSpills[i - 1]
  <2>1. /\ <<fetched>> \in Seq(Bytes) /\ Len(<<fetched>>) = 1 /\ <<fetched>>[1] = fetched
        /\ <<spillBuffer>> \in Seq(Bytes) /\ Len(<<spillBuffer>>) = 1
        /\ <<spillBuffer>>[1] = spillBuffer
    BY <1>0 DEF RingTypes
  <2> DEFINE F == <<fetched>>
             B == <<spillBuffer>>
  <2> HIDE DEF F, B
  <2>2. /\ F \o pendingSpills \in Seq(Bytes) /\ Len(F \o pendingSpills) = 1 + l
        /\ \A i \in 1 .. (1 + l) : (F \o pendingSpills)[i] = IF i <= 1 THEN F[i] ELSE pendingSpills[i - 1]
    BY <1>6, <2>1, ConcatProperties DEF F
  <2>3. queue = F \o pendingSpills
    BY DEF F
  <2> HIDE DEF queue
  <2>4. /\ Len(queue \o B) = (1 + l) + 1
        /\ \A i \in 1 .. ((1 + l) + 1) : (queue \o B)[i] = IF i <= 1 + l THEN queue[i] ELSE B[i - (1 + l)]
    BY <1>6, <2>1, <2>2, <2>3, ConcatProperties DEF B
  <2>5. overflow = queue \o B
    BY DEF B
  <2> HIDE DEF overflow
  <2>6. overflow[1] = fetched
    <3>1. 1 \in 1 .. (1 + l) /\ 1 \in 1 .. ((1 + l) + 1) /\ 1 <= 1 + l
      BY <1>6
    <3>2. queue[1] = F[1]
      BY <2>2, <2>3, <3>1
    <3>3. F[1] = fetched
      BY DEF F
    <3> QED
      BY <2>4, <2>5, <3>1, <3>2, <3>3
  <2>7. overflow[l + 2] = spillBuffer
    <3>1. /\ l + 2 \in 1 .. ((1 + l) + 1) /\ ~(l + 2 <= 1 + l) /\ (l + 2) - (1 + l) = 1
      BY <1>6
    <3>2. B[1] = spillBuffer
      BY DEF B
    <3> QED
      BY <2>4, <2>5, <3>1, <3>2
  <2>8. ASSUME NEW i \in 2 .. (l + 1) PROVE overflow[i] = pendingSpills[i - 1]
    <3>1. /\ i \in 1 .. (1 + l) /\ i \in 1 .. ((1 + l) + 1) /\ i <= 1 + l /\ ~(i <= 1)
      BY <1>6
    <3> QED
      BY <2>2, <2>3, <2>4, <2>5, <3>1
  <2>9. Len(overflow) = l + 2
    BY <1>6, <2>4, <2>5
  <2> QED
    BY <2>6, <2>7, <2>8, <2>9
<1> HIDE DEF overflow
<1>8. ASSUME NEW i \in 1 .. Len(overflow)
      PROVE  \/ i = 1 /\ overflow[i] = fetched
             \/ i = l + 2 /\ overflow[i] = spillBuffer
             \/ i \in 2 .. (l + 1) /\ i - 1 \in 1 .. l /\ overflow[i] = pendingSpills[i - 1]
  <2>1. i = 1 \/ i = l + 2 \/ (i \in 2 .. (l + 1) /\ i - 1 \in 1 .. l)
    BY <1>6, <1>7
  <2> QED
    BY <1>7, <2>1
<1>9. \A i \in 1 .. l : Artifact(pendingSpills[i], fetched, Loose, spillBuffer)
  BY <1>0 DEF Overflow, Queue
<1>10. ASSUME NEW i \in 1 .. Len(overflow)
       PROVE  Increasing(overflow[i]) /\ ToSet(overflow[i]) \cap ToSet(stream) = {}
  <2>1. Increasing(overflow[i]) /\ ToSet(overflow[i]) \subseteq Loose
    BY <1>0, <1>8, <1>9 DEF Overflow, Artifact
  <2> QED
    BY <1>5, <2>1
<1>11. ASSUME NEW i \in 1 .. Len(overflow), NEW j \in 1 .. Len(overflow), i < j
       PROVE  Before(overflow[i], overflow[j])
  <2>1. CASE i = 1
    <3>1. overflow[i] = fetched /\ j # 1
      BY <1>7, <1>11, <2>1
    <3>2. Before(fetched, spillBuffer)
      BY <1>0 DEF Overflow
    <3> QED
      BY <1>8, <1>9, <3>1, <3>2 DEF Artifact
  <2>2. CASE i # 1
    <3>1. i \in 2 .. (l + 1) /\ i - 1 \in 1 .. l /\ j # 1 /\ j \in 1 .. (l + 2)
      BY <1>6, <1>7, <1>11, <2>2
    <3>2. overflow[i] = pendingSpills[i - 1]
      BY <1>7, <3>1
    <3>3. CASE j = l + 2
      BY <1>7, <1>9, <3>1, <3>2, <3>3 DEF Artifact
    <3>4. CASE j # l + 2
      <4>1. j \in 2 .. (l + 1) /\ j - 1 \in 1 .. l /\ i - 1 < j - 1
        BY <1>6, <1>11, <3>1, <3>4
      <4>2. overflow[j] = pendingSpills[j - 1]
        BY <1>7, <4>1
      <4>3. Before(pendingSpills[i - 1], pendingSpills[j - 1])
        BY <1>0, <3>1, <4>1 DEF Overflow, Queue
      <4> QED
        BY <3>2, <4>2, <4>3
    <3> QED
      BY <3>3, <3>4
  <2> QED
    BY <2>1, <2>2
<1> QED
  BY <1>3, <1>4, <1>10, <1>11 DEF BytesAccounted, stream, overflow

\* The limits that push_slice, note_overflow and record_spill enforce hold after every
\* chunk and every read, for any capacity, threshold and size of the chunks.
THEOREM RingStaysBounded == RingSpec => []RingBounded
  BY RingInvAlways, PTL DEF RingInv

\* Every byte the process printed is received, in the ring or counted in dropped_total,
\* and none is handed out twice, by two calls of read_output or by a read and an
\* artifact, whatever the artifact store refuses.
THEOREM EveryByteAccounted == RingSpec => []BytesAccounted
  BY RingInvAlways, Accounted, PTL

=============================================================================
