----------------------------- MODULE HostProofs -----------------------------
(***************************************************************************)
(* Whoever serves is at the socket's path, and clients launch one daemon   *)
(* at a time, for any number of clients and daemons.  What is proved of    *)
(* PTYs, their output, batches, the feed and the start holds of the host   *)
(* they are parts of.                                                      *)
(***************************************************************************)
EXTENDS MCHost, PtyProofs, OfflineBatchProofs, LiveFeedProofs, FiniteSetTheorems

Stages == {"idle", "look", "loop", "lock", "sweep", "unlink", "recheck", "spawn", "wait"}
Locked == {"sweep", "unlink", "recheck", "spawn", "wait"}
OnSocket == {"bound", "listening", "serving"}

\* A daemon that was not started has no origin and no life.
Unborn == \A d \in Daemons : d > born => origin[d] = "none" /\ life[d] = "none"

\* The socket's daemon got as far as binding it.
SockBound == sock # 0 => life[sock] \in OnSocket \cup {"dead"}

\* Whoever is between taking and dropping the spawn lock holds it.
LockHeld == \A c \in Launchers : stage[c] \in Locked => spawnLock = c

\* The socket that is about to be removed is a dead daemon's.
SweptDead ==
    ~gap => \A c \in Launchers : stage[c] = "unlink" => sock # 0 /\ life[sock] = "dead"

\* A daemon that has bound its socket is at the path.
BoundAtPath == ~gap => \A d \in Daemons : life[d] \in OnSocket => sock = d

\* Nobody starts daemons by hand or leaves one behind.
Calm == ~orphaned /\ \A d \in Daemons : origin[d] \in {"none", "launch"}

\* A daemon that lives serves at the path, or the client that launched it waits.
Attended(d) ==
    \/ life[d] = "serving" /\ sock = d
    \/ \E c \in Launchers : stage[c] = "wait" /\ mine[c] = d

AllAttended == \A d \in Alive : Attended(d)

\* No two daemons live, and none when a client is about to launch one.
OneAlive == \A d, e \in Alive : d = e
SpawnClear == \A c \in Launchers : stage[c] = "spawn" => Alive = {}

CalmInv == Calm => ~gap /\ OneAlive /\ AllAttended /\ SpawnClear

\* The inductive invariant.  ServerAtPath needs that a removal, decided in one step
\* and done in another, still meets the dead socket it saw, which the lock and the
\* daemons' refusal to replace a socket guarantee.  OneLaunched needs that the lock
\* is dropped only when the launched daemon serves or is dead.
StartInv == StartTypeOK /\ Unborn /\ SockBound /\ LockHeld /\ SweptDead /\ BoundAtPath /\ CalmInv

-----------------------------------------------------------------------------
\* The invariant holds initially.
LEMMA StartInitInv == StartInit => StartInv
  <1> SUFFICES ASSUME StartInit PROVE StartInv
    OBVIOUS
  <1>1. StartTypeOK
    <2>1. sock \in 0..born /\ born \in 0..MaxDaemons
      BY DaemonStartConstants DEF StartInit
    <2>2. mine \in [Launchers -> 0..born]
      BY DEF StartInit
    <2>3. spawnLock \in Launchers \cup {NoLauncher} /\ orphaned \in BOOLEAN /\ gap \in BOOLEAN
      BY DEF StartInit
    <2>4. /\ life \in [Daemons -> {"none", "starting", "opening", "bound", "listening",
                             "serving", "dead"}]
          /\ origin \in [Daemons -> {"none", "launch", "hand", "old"}]
          /\ stage \in [Launchers -> Stages]
      BY DEF StartInit, Stages
    <2> QED BY <2>1, <2>2, <2>3, <2>4 DEF StartTypeOK, Stages
  <1>2. Unborn /\ SockBound /\ LockHeld /\ SweptDead /\ BoundAtPath
    BY DEF StartInit, Unborn, SockBound, LockHeld, SweptDead, BoundAtPath, Locked, OnSocket
  <1>3. Alive = {}
    BY DEF StartInit, Alive
  <1>4. CalmInv
    BY <1>3 DEF StartInit, CalmInv, OneAlive, AllAttended, SpawnClear
  <1> QED BY <1>1, <1>2, <1>4 DEF StartInv

\* A call that returns leaves the types of its own state.
LEMMA ReturnsTypes ==
  ASSUME StartTypeOK, NEW c \in Launchers, Returns(c)
  PROVE  /\ stage' \in [Launchers -> Stages]
         /\ mine' \in [Launchers -> 0..born]
         /\ spawnLock' \in Launchers \cup {NoLauncher}
  BY DaemonStartConstants DEF StartTypeOK, Returns, Step, Stages

\* Every step keeps the types.
LEMMA StartTypeNext ==
  ASSUME StartTypeOK, Unborn, StartNext
  PROVE  StartTypeOK'
  <1>1. ASSUME NEW c \in Launchers, Ensure(c) PROVE StartTypeOK'
    BY DaemonStartConstants, <1>1 DEF Ensure, Step, StartTypeOK, Unborn, Daemons
  <1>2. ASSUME NEW c \in Launchers, Look(c) PROVE StartTypeOK'
    BY DaemonStartConstants, <1>2 DEF Look, Step, StartTypeOK, Unborn, Daemons
  <1>3. ASSUME NEW c \in Launchers, LoopProbe(c) PROVE StartTypeOK'
    BY DaemonStartConstants, <1>3 DEF LoopProbe, Step, StartTypeOK, Unborn, Daemons
  <1>4. ASSUME NEW c \in Launchers, TakeLock(c) PROVE StartTypeOK'
    BY DaemonStartConstants, <1>4 DEF TakeLock, Step, StartTypeOK, Unborn, Daemons
  <1>5. ASSUME NEW c \in Launchers, LockBusy(c) PROVE StartTypeOK'
    BY DaemonStartConstants, <1>5 DEF LockBusy, Step, StartTypeOK, Unborn, Daemons
  <1>6. ASSUME NEW c \in Launchers, Sweep(c) PROVE StartTypeOK'
    BY DaemonStartConstants, <1>6 DEF Sweep, Step, StartTypeOK, Unborn, Daemons
  <1>7. ASSUME NEW c \in Launchers, Unlink(c) PROVE StartTypeOK'
    <2>1. CASE Returns(c)
      BY DaemonStartConstants, <1>7, <2>1, ReturnsTypes DEF Unlink, StartTypeOK, Stages, Daemons
    <2>2. CASE ~Returns(c)
      BY DaemonStartConstants, <1>7, <2>2 DEF Unlink, Step, StartTypeOK, Daemons
    <2> QED BY <2>1, <2>2
  <1>8. ASSUME NEW c \in Launchers, Recheck(c) PROVE StartTypeOK'
    <2>1. CASE Returns(c)
      BY DaemonStartConstants, <1>8, <2>1, ReturnsTypes DEF Recheck, StartTypeOK, Stages, Daemons
    <2>2. CASE ~Returns(c)
      BY DaemonStartConstants, <1>8, <2>2 DEF Recheck, Step, StartTypeOK, Daemons
    <2> QED BY <2>1, <2>2
  <1>9. ASSUME NEW c \in Launchers, Launch(c) PROVE StartTypeOK'
    BY DaemonStartConstants, <1>9 DEF Launch, Step, Birth, StartTypeOK, Unborn, Daemons
  <1>10. ASSUME NEW c \in Launchers, LaunchFails(c) PROVE StartTypeOK'
    <2>1. Returns(c)
      BY <1>10 DEF LaunchFails
    <2> QED BY DaemonStartConstants, <1>10, <2>1, ReturnsTypes DEF LaunchFails, StartTypeOK, Stages, Daemons
  <1>11. ASSUME NEW c \in Launchers, WaitEnds(c) PROVE StartTypeOK'
    <2>1. Returns(c)
      BY <1>11 DEF WaitEnds
    <2> QED BY DaemonStartConstants, <1>11, <2>1, ReturnsTypes DEF WaitEnds, StartTypeOK, Stages, Daemons
  <1>12. ASSUME NEW c \in Launchers, Timeout(c) PROVE StartTypeOK'
    <2>1. Returns(c)
      BY <1>12 DEF Timeout
    <2> QED BY DaemonStartConstants, <1>12, <2>1, ReturnsTypes DEF Timeout, StartTypeOK, Stages, Daemons
  <1>13. ASSUME NEW c \in Launchers, LauncherDies(c) PROVE StartTypeOK'
    <2>1. Returns(c)
      BY <1>13 DEF LauncherDies
    <2> QED BY DaemonStartConstants, <1>13, <2>1, ReturnsTypes DEF LauncherDies, StartTypeOK, Stages, Daemons
  <1>14. ASSUME StartByHand PROVE StartTypeOK'
    <2>1. PICK from \in {"hand", "old"} : Birth(from)
      BY <1>14 DEF StartByHand
    <2>2. /\ sock' = sock /\ mine' = mine /\ stage' = stage /\ spawnLock' = spawnLock
          /\ orphaned' = orphaned /\ gap' = gap
      BY <1>14 DEF StartByHand, clientVars
    <2>3. born' \in 0..MaxDaemons /\ sock' \in 0..born' /\ 0..born \subseteq 0..born'
      BY DaemonStartConstants, <2>1, <2>2 DEF Birth, StartTypeOK
    <2>4. mine' \in [Launchers -> 0..born']
      BY <2>2, <2>3 DEF StartTypeOK
    <2>5. life' \in [Daemons -> {"none", "starting", "opening", "bound", "listening",
                              "serving", "dead"}]
      BY <2>1 DEF Birth, StartTypeOK
    <2>6. origin' \in [Daemons -> {"none", "launch", "hand", "old"}]
      BY <2>1 DEF Birth, StartTypeOK
    <2> QED BY <2>2, <2>3, <2>4, <2>5, <2>6 DEF StartTypeOK
  <1>15. ASSUME NEW d \in Daemons, CheckPath(d) PROVE StartTypeOK'
    BY DaemonStartConstants, <1>15 DEF CheckPath, Becomes, clientVars, StartTypeOK, Unborn, Daemons
  <1>16. ASSUME NEW d \in Daemons, Bind(d) PROVE StartTypeOK'
    <2>1. d \in 0..born
      BY DaemonStartConstants, <1>16 DEF Bind, Unborn, StartTypeOK, Daemons
    <2>2. sock' \in {sock, d}
      BY <1>16 DEF Bind
    <2>3. life' \in [Daemons -> {"none", "starting", "opening", "bound", "listening",
                              "serving", "dead"}]
      BY <1>16 DEF Bind, Becomes, StartTypeOK
    <2> QED BY <1>16, <2>1, <2>2, <2>3 DEF Bind, clientVars, StartTypeOK
  <1>17. ASSUME NEW d \in Daemons, Listen(d) PROVE StartTypeOK'
    BY DaemonStartConstants, <1>17 DEF Listen, Becomes, clientVars, StartTypeOK, Unborn, Daemons
  <1>18. ASSUME NEW d \in Daemons, Serve(d) PROVE StartTypeOK'
    BY DaemonStartConstants, <1>18 DEF Serve, Becomes, clientVars, StartTypeOK, Unborn, Daemons
  <1>19. ASSUME NEW d \in Daemons, ServerDies(d) PROVE StartTypeOK'
    BY DaemonStartConstants, <1>19 DEF ServerDies, Becomes, clientVars, Alive, StartTypeOK, Unborn, Daemons
  <1> QED BY <1>1, <1>2, <1>3, <1>4, <1>5, <1>6, <1>7, <1>8, <1>9, <1>10, <1>11, <1>12, <1>13, <1>14, <1>15, <1>16, <1>17, <1>18, <1>19 DEF StartNext

\* Daemons get their origin when they are started.
LEMMA UnbornNext ==
  ASSUME StartTypeOK, Unborn, StartNext
  PROVE  Unborn'
  <1>1. ASSUME NEW c \in Launchers, Ensure(c) PROVE Unborn'
    BY DaemonStartConstants, <1>1 DEF Ensure, Step, StartTypeOK, Unborn, Daemons
  <1>2. ASSUME NEW c \in Launchers, Look(c) PROVE Unborn'
    BY DaemonStartConstants, <1>2 DEF Look, Step, StartTypeOK, Unborn, Daemons
  <1>3. ASSUME NEW c \in Launchers, LoopProbe(c) PROVE Unborn'
    BY DaemonStartConstants, <1>3 DEF LoopProbe, Step, StartTypeOK, Unborn, Daemons
  <1>4. ASSUME NEW c \in Launchers, TakeLock(c) PROVE Unborn'
    BY DaemonStartConstants, <1>4 DEF TakeLock, Step, StartTypeOK, Unborn, Daemons
  <1>5. ASSUME NEW c \in Launchers, LockBusy(c) PROVE Unborn'
    BY DaemonStartConstants, <1>5 DEF LockBusy, Step, StartTypeOK, Unborn, Daemons
  <1>6. ASSUME NEW c \in Launchers, Sweep(c) PROVE Unborn'
    BY DaemonStartConstants, <1>6 DEF Sweep, Step, StartTypeOK, Unborn, Daemons
  <1>7. ASSUME NEW c \in Launchers, Unlink(c) PROVE Unborn'
    BY DaemonStartConstants, <1>7 DEF Unlink, Step, Returns, StartTypeOK, Unborn, Daemons
  <1>8. ASSUME NEW c \in Launchers, Recheck(c) PROVE Unborn'
    BY DaemonStartConstants, <1>8 DEF Recheck, Step, Returns, StartTypeOK, Unborn, Daemons
  <1>9. ASSUME NEW c \in Launchers, Launch(c) PROVE Unborn'
    BY DaemonStartConstants, <1>9 DEF Launch, Step, Birth, StartTypeOK, Unborn, Daemons
  <1>10. ASSUME NEW c \in Launchers, LaunchFails(c) PROVE Unborn'
    BY DaemonStartConstants, <1>10 DEF LaunchFails, Step, Returns, StartTypeOK, Unborn, Daemons
  <1>11. ASSUME NEW c \in Launchers, WaitEnds(c) PROVE Unborn'
    BY DaemonStartConstants, <1>11 DEF WaitEnds, Step, Returns, StartTypeOK, Unborn, Daemons
  <1>12. ASSUME NEW c \in Launchers, Timeout(c) PROVE Unborn'
    BY DaemonStartConstants, <1>12 DEF Timeout, Step, Returns, StartTypeOK, Unborn, Daemons
  <1>13. ASSUME NEW c \in Launchers, LauncherDies(c) PROVE Unborn'
    BY DaemonStartConstants, <1>13 DEF LauncherDies, Step, Returns, StartTypeOK, Unborn, Daemons
  <1>14. ASSUME StartByHand PROVE Unborn'
    BY DaemonStartConstants, <1>14 DEF StartByHand, Birth, clientVars, StartTypeOK, Unborn, Daemons
  <1>15. ASSUME NEW d \in Daemons, CheckPath(d) PROVE Unborn'
    BY DaemonStartConstants, <1>15 DEF CheckPath, Becomes, clientVars, StartTypeOK, Unborn, Daemons
  <1>16. ASSUME NEW d \in Daemons, Bind(d) PROVE Unborn'
    BY DaemonStartConstants, <1>16 DEF Bind, Becomes, clientVars, StartTypeOK, Unborn, Daemons
  <1>17. ASSUME NEW d \in Daemons, Listen(d) PROVE Unborn'
    BY DaemonStartConstants, <1>17 DEF Listen, Becomes, clientVars, StartTypeOK, Unborn, Daemons
  <1>18. ASSUME NEW d \in Daemons, Serve(d) PROVE Unborn'
    BY DaemonStartConstants, <1>18 DEF Serve, Becomes, clientVars, StartTypeOK, Unborn, Daemons
  <1>19. ASSUME NEW d \in Daemons, ServerDies(d) PROVE Unborn'
    BY DaemonStartConstants, <1>19 DEF ServerDies, Becomes, clientVars, Alive, StartTypeOK, Unborn, Daemons
  <1> QED BY <1>1, <1>2, <1>3, <1>4, <1>5, <1>6, <1>7, <1>8, <1>9, <1>10, <1>11, <1>12, <1>13, <1>14, <1>15, <1>16, <1>17, <1>18, <1>19 DEF StartNext

\* Every step keeps the daemon of the socket bound to it, or dead.
LEMMA SockNext ==
  ASSUME StartTypeOK, Unborn, SockBound, StartNext
  PROVE  SockBound'
  <1>1. ASSUME NEW c \in Launchers, Ensure(c) PROVE SockBound'
    BY DaemonStartConstants, <1>1 DEF Ensure, Step, StartTypeOK, Unborn, SockBound, OnSocket, Daemons
  <1>2. ASSUME NEW c \in Launchers, Look(c) PROVE SockBound'
    BY DaemonStartConstants, <1>2 DEF Look, Step, StartTypeOK, Unborn, SockBound, OnSocket, Daemons
  <1>3. ASSUME NEW c \in Launchers, LoopProbe(c) PROVE SockBound'
    BY DaemonStartConstants, <1>3 DEF LoopProbe, Step, StartTypeOK, Unborn, SockBound, OnSocket, Daemons
  <1>4. ASSUME NEW c \in Launchers, TakeLock(c) PROVE SockBound'
    BY DaemonStartConstants, <1>4 DEF TakeLock, Step, StartTypeOK, Unborn, SockBound, OnSocket, Daemons
  <1>5. ASSUME NEW c \in Launchers, LockBusy(c) PROVE SockBound'
    BY DaemonStartConstants, <1>5 DEF LockBusy, Step, StartTypeOK, Unborn, SockBound, OnSocket, Daemons
  <1>6. ASSUME NEW c \in Launchers, Sweep(c) PROVE SockBound'
    BY DaemonStartConstants, <1>6 DEF Sweep, Step, StartTypeOK, Unborn, SockBound, OnSocket, Daemons
  <1>7. ASSUME NEW c \in Launchers, Unlink(c) PROVE SockBound'
    BY DaemonStartConstants, <1>7 DEF Unlink, Step, Returns, StartTypeOK, Unborn, SockBound, OnSocket, Daemons
  <1>8. ASSUME NEW c \in Launchers, Recheck(c) PROVE SockBound'
    BY DaemonStartConstants, <1>8 DEF Recheck, Step, Returns, StartTypeOK, Unborn, SockBound, OnSocket, Daemons
  <1>9. ASSUME NEW c \in Launchers, Launch(c) PROVE SockBound'
    BY DaemonStartConstants, <1>9 DEF Launch, Step, Birth, StartTypeOK, Unborn, SockBound, OnSocket, Daemons
  <1>10. ASSUME NEW c \in Launchers, LaunchFails(c) PROVE SockBound'
    BY DaemonStartConstants, <1>10 DEF LaunchFails, Step, Returns, StartTypeOK, Unborn, SockBound, OnSocket, Daemons
  <1>11. ASSUME NEW c \in Launchers, WaitEnds(c) PROVE SockBound'
    BY DaemonStartConstants, <1>11 DEF WaitEnds, Step, Returns, StartTypeOK, Unborn, SockBound, OnSocket, Daemons
  <1>12. ASSUME NEW c \in Launchers, Timeout(c) PROVE SockBound'
    BY DaemonStartConstants, <1>12 DEF Timeout, Step, Returns, StartTypeOK, Unborn, SockBound, OnSocket, Daemons
  <1>13. ASSUME NEW c \in Launchers, LauncherDies(c) PROVE SockBound'
    BY DaemonStartConstants, <1>13 DEF LauncherDies, Step, Returns, StartTypeOK, Unborn, SockBound, OnSocket, Daemons
  <1>14. ASSUME StartByHand PROVE SockBound'
    BY DaemonStartConstants, <1>14 DEF StartByHand, Birth, clientVars, StartTypeOK, Unborn, SockBound, OnSocket, Daemons
  <1>15. ASSUME NEW d \in Daemons, CheckPath(d) PROVE SockBound'
    BY DaemonStartConstants, <1>15 DEF CheckPath, Becomes, clientVars, StartTypeOK, Unborn, SockBound, OnSocket, Daemons
  <1>16. ASSUME NEW d \in Daemons, Bind(d) PROVE SockBound'
    BY DaemonStartConstants, <1>16 DEF Bind, Becomes, clientVars, StartTypeOK, Unborn, SockBound, OnSocket, Daemons
  <1>17. ASSUME NEW d \in Daemons, Listen(d) PROVE SockBound'
    BY DaemonStartConstants, <1>17 DEF Listen, Becomes, clientVars, StartTypeOK, Unborn, SockBound, OnSocket, Daemons
  <1>18. ASSUME NEW d \in Daemons, Serve(d) PROVE SockBound'
    BY DaemonStartConstants, <1>18 DEF Serve, Becomes, clientVars, StartTypeOK, Unborn, SockBound, OnSocket, Daemons
  <1>19. ASSUME NEW d \in Daemons, ServerDies(d) PROVE SockBound'
    BY DaemonStartConstants, <1>19 DEF ServerDies, Becomes, clientVars, Alive, StartTypeOK, Unborn, SockBound, OnSocket, Daemons
  <1> QED BY <1>1, <1>2, <1>3, <1>4, <1>5, <1>6, <1>7, <1>8, <1>9, <1>10, <1>11, <1>12, <1>13, <1>14, <1>15, <1>16, <1>17, <1>18, <1>19 DEF StartNext

\* Every step keeps the lock with those who are past TakeLock.
LEMMA LockNext ==
  ASSUME StartTypeOK, LockHeld, StartNext
  PROVE  LockHeld'
  <1>1. ASSUME NEW c \in Launchers, Ensure(c) PROVE LockHeld'
    BY DaemonStartConstants, <1>1 DEF Ensure, Step, StartTypeOK, LockHeld, Locked
  <1>2. ASSUME NEW c \in Launchers, Look(c) PROVE LockHeld'
    BY DaemonStartConstants, <1>2 DEF Look, Step, StartTypeOK, LockHeld, Locked
  <1>3. ASSUME NEW c \in Launchers, LoopProbe(c) PROVE LockHeld'
    BY DaemonStartConstants, <1>3 DEF LoopProbe, Step, StartTypeOK, LockHeld, Locked
  <1>4. ASSUME NEW c \in Launchers, TakeLock(c) PROVE LockHeld'
    BY DaemonStartConstants, <1>4 DEF TakeLock, Step, StartTypeOK, LockHeld, Locked
  <1>5. ASSUME NEW c \in Launchers, LockBusy(c) PROVE LockHeld'
    BY DaemonStartConstants, <1>5 DEF LockBusy, Step, StartTypeOK, LockHeld, Locked
  <1>6. ASSUME NEW c \in Launchers, Sweep(c) PROVE LockHeld'
    BY DaemonStartConstants, <1>6 DEF Sweep, Step, StartTypeOK, LockHeld, Locked
  <1>7. ASSUME NEW c \in Launchers, Unlink(c) PROVE LockHeld'
    BY DaemonStartConstants, <1>7 DEF Unlink, Step, Returns, StartTypeOK, LockHeld, Locked
  <1>8. ASSUME NEW c \in Launchers, Recheck(c) PROVE LockHeld'
    BY DaemonStartConstants, <1>8 DEF Recheck, Step, Returns, StartTypeOK, LockHeld, Locked
  <1>9. ASSUME NEW c \in Launchers, Launch(c) PROVE LockHeld'
    BY DaemonStartConstants, <1>9 DEF Launch, Step, Birth, StartTypeOK, LockHeld, Locked
  <1>10. ASSUME NEW c \in Launchers, LaunchFails(c) PROVE LockHeld'
    BY DaemonStartConstants, <1>10 DEF LaunchFails, Step, Returns, StartTypeOK, LockHeld, Locked
  <1>11. ASSUME NEW c \in Launchers, WaitEnds(c) PROVE LockHeld'
    BY DaemonStartConstants, <1>11 DEF WaitEnds, Step, Returns, StartTypeOK, LockHeld, Locked
  <1>12. ASSUME NEW c \in Launchers, Timeout(c) PROVE LockHeld'
    BY DaemonStartConstants, <1>12 DEF Timeout, Step, Returns, StartTypeOK, LockHeld, Locked
  <1>13. ASSUME NEW c \in Launchers, LauncherDies(c) PROVE LockHeld'
    BY DaemonStartConstants, <1>13 DEF LauncherDies, Step, Returns, StartTypeOK, LockHeld, Locked
  <1>14. ASSUME StartByHand PROVE LockHeld'
    BY DaemonStartConstants, <1>14 DEF StartByHand, Birth, clientVars, StartTypeOK, LockHeld, Locked
  <1>15. ASSUME NEW d \in Daemons, CheckPath(d) PROVE LockHeld'
    BY DaemonStartConstants, <1>15 DEF CheckPath, Becomes, clientVars, StartTypeOK, LockHeld, Locked
  <1>16. ASSUME NEW d \in Daemons, Bind(d) PROVE LockHeld'
    BY DaemonStartConstants, <1>16 DEF Bind, Becomes, clientVars, StartTypeOK, LockHeld, Locked
  <1>17. ASSUME NEW d \in Daemons, Listen(d) PROVE LockHeld'
    BY DaemonStartConstants, <1>17 DEF Listen, Becomes, clientVars, StartTypeOK, LockHeld, Locked
  <1>18. ASSUME NEW d \in Daemons, Serve(d) PROVE LockHeld'
    BY DaemonStartConstants, <1>18 DEF Serve, Becomes, clientVars, StartTypeOK, LockHeld, Locked
  <1>19. ASSUME NEW d \in Daemons, ServerDies(d) PROVE LockHeld'
    BY DaemonStartConstants, <1>19 DEF ServerDies, Becomes, clientVars, Alive, StartTypeOK, LockHeld, Locked
  <1> QED BY <1>1, <1>2, <1>3, <1>4, <1>5, <1>6, <1>7, <1>8, <1>9, <1>10, <1>11, <1>12, <1>13, <1>14, <1>15, <1>16, <1>17, <1>18, <1>19 DEF StartNext

\* Between a look and a removal nobody else touches the path.
LEMMA SweptNext ==
  ASSUME StartTypeOK, SockBound, LockHeld, SweptDead, StartNext
  PROVE  SweptDead'
  <1>1. ASSUME NEW c \in Launchers, Ensure(c) PROVE SweptDead'
    BY DaemonStartConstants, <1>1 DEF Ensure, Step, StartTypeOK, SockBound, OnSocket, SweptDead, LockHeld, Locked, Listening, Daemons
  <1>2. ASSUME NEW c \in Launchers, Look(c) PROVE SweptDead'
    BY DaemonStartConstants, <1>2 DEF Look, Step, StartTypeOK, SockBound, OnSocket, SweptDead, LockHeld, Locked, Listening, Daemons
  <1>3. ASSUME NEW c \in Launchers, LoopProbe(c) PROVE SweptDead'
    BY DaemonStartConstants, <1>3 DEF LoopProbe, Step, StartTypeOK, SockBound, OnSocket, SweptDead, LockHeld, Locked, Listening, Daemons
  <1>4. ASSUME NEW c \in Launchers, TakeLock(c) PROVE SweptDead'
    BY DaemonStartConstants, <1>4 DEF TakeLock, Step, StartTypeOK, SockBound, OnSocket, SweptDead, LockHeld, Locked, Listening, Daemons
  <1>5. ASSUME NEW c \in Launchers, LockBusy(c) PROVE SweptDead'
    BY DaemonStartConstants, <1>5 DEF LockBusy, Step, StartTypeOK, SockBound, OnSocket, SweptDead, LockHeld, Locked, Listening, Daemons
  <1>6. ASSUME NEW c \in Launchers, Sweep(c) PROVE SweptDead'
    BY DaemonStartConstants, <1>6 DEF Sweep, Step, StartTypeOK, SockBound, OnSocket, SweptDead, LockHeld, Locked, Listening, Daemons
  <1>7. ASSUME NEW c \in Launchers, Unlink(c) PROVE SweptDead'
    BY DaemonStartConstants, <1>7 DEF Unlink, Step, Returns, StartTypeOK, SockBound, OnSocket, SweptDead, LockHeld, Locked, Listening, Daemons
  <1>8. ASSUME NEW c \in Launchers, Recheck(c) PROVE SweptDead'
    BY DaemonStartConstants, <1>8 DEF Recheck, Step, Returns, StartTypeOK, SockBound, OnSocket, SweptDead, LockHeld, Locked, Listening, Daemons
  <1>9. ASSUME NEW c \in Launchers, Launch(c) PROVE SweptDead'
    BY DaemonStartConstants, <1>9 DEF Launch, Step, Birth, StartTypeOK, SockBound, OnSocket, SweptDead, LockHeld, Locked, Listening, Daemons
  <1>10. ASSUME NEW c \in Launchers, LaunchFails(c) PROVE SweptDead'
    BY DaemonStartConstants, <1>10 DEF LaunchFails, Step, Returns, StartTypeOK, SockBound, OnSocket, SweptDead, LockHeld, Locked, Listening, Daemons
  <1>11. ASSUME NEW c \in Launchers, WaitEnds(c) PROVE SweptDead'
    BY DaemonStartConstants, <1>11 DEF WaitEnds, Step, Returns, StartTypeOK, SockBound, OnSocket, SweptDead, LockHeld, Locked, Listening, Daemons
  <1>12. ASSUME NEW c \in Launchers, Timeout(c) PROVE SweptDead'
    BY DaemonStartConstants, <1>12 DEF Timeout, Step, Returns, StartTypeOK, SockBound, OnSocket, SweptDead, LockHeld, Locked, Listening, Daemons
  <1>13. ASSUME NEW c \in Launchers, LauncherDies(c) PROVE SweptDead'
    BY DaemonStartConstants, <1>13 DEF LauncherDies, Step, Returns, StartTypeOK, SockBound, OnSocket, SweptDead, LockHeld, Locked, Listening, Daemons
  <1>14. ASSUME StartByHand PROVE SweptDead'
    BY DaemonStartConstants, <1>14 DEF StartByHand, Birth, clientVars, StartTypeOK, SockBound, OnSocket, SweptDead, LockHeld, Locked, Listening, Daemons
  <1>15. ASSUME NEW d \in Daemons, CheckPath(d) PROVE SweptDead'
    BY DaemonStartConstants, <1>15 DEF CheckPath, Becomes, clientVars, StartTypeOK, SockBound, OnSocket, SweptDead, LockHeld, Locked, Listening, Daemons
  <1>16. ASSUME NEW d \in Daemons, Bind(d) PROVE SweptDead'
    BY DaemonStartConstants, <1>16 DEF Bind, Becomes, clientVars, StartTypeOK, SockBound, OnSocket, SweptDead, LockHeld, Locked, Listening, Daemons
  <1>17. ASSUME NEW d \in Daemons, Listen(d) PROVE SweptDead'
    BY DaemonStartConstants, <1>17 DEF Listen, Becomes, clientVars, StartTypeOK, SockBound, OnSocket, SweptDead, LockHeld, Locked, Listening, Daemons
  <1>18. ASSUME NEW d \in Daemons, Serve(d) PROVE SweptDead'
    BY DaemonStartConstants, <1>18 DEF Serve, Becomes, clientVars, StartTypeOK, SockBound, OnSocket, SweptDead, LockHeld, Locked, Listening, Daemons
  <1>19. ASSUME NEW d \in Daemons, ServerDies(d) PROVE SweptDead'
    BY DaemonStartConstants, <1>19 DEF ServerDies, Becomes, clientVars, Alive, StartTypeOK, SockBound, OnSocket, SweptDead, LockHeld, Locked, Listening, Daemons
  <1> QED BY <1>1, <1>2, <1>3, <1>4, <1>5, <1>6, <1>7, <1>8, <1>9, <1>10, <1>11, <1>12, <1>13, <1>14, <1>15, <1>16, <1>17, <1>18, <1>19 DEF StartNext

\* Sockets are removed only below dead daemons.
LEMMA BoundNext ==
  ASSUME StartTypeOK, SweptDead, BoundAtPath, StartNext
  PROVE  BoundAtPath'
  <1>1. ASSUME NEW c \in Launchers, Ensure(c) PROVE BoundAtPath'
    BY DaemonStartConstants, <1>1 DEF Ensure, Step, StartTypeOK, SweptDead, BoundAtPath, OnSocket, Daemons
  <1>2. ASSUME NEW c \in Launchers, Look(c) PROVE BoundAtPath'
    BY DaemonStartConstants, <1>2 DEF Look, Step, StartTypeOK, SweptDead, BoundAtPath, OnSocket, Daemons
  <1>3. ASSUME NEW c \in Launchers, LoopProbe(c) PROVE BoundAtPath'
    BY DaemonStartConstants, <1>3 DEF LoopProbe, Step, StartTypeOK, SweptDead, BoundAtPath, OnSocket, Daemons
  <1>4. ASSUME NEW c \in Launchers, TakeLock(c) PROVE BoundAtPath'
    BY DaemonStartConstants, <1>4 DEF TakeLock, Step, StartTypeOK, SweptDead, BoundAtPath, OnSocket, Daemons
  <1>5. ASSUME NEW c \in Launchers, LockBusy(c) PROVE BoundAtPath'
    BY DaemonStartConstants, <1>5 DEF LockBusy, Step, StartTypeOK, SweptDead, BoundAtPath, OnSocket, Daemons
  <1>6. ASSUME NEW c \in Launchers, Sweep(c) PROVE BoundAtPath'
    BY DaemonStartConstants, <1>6 DEF Sweep, Step, StartTypeOK, SweptDead, BoundAtPath, OnSocket, Daemons
  <1>7. ASSUME NEW c \in Launchers, Unlink(c) PROVE BoundAtPath'
    BY DaemonStartConstants, <1>7 DEF Unlink, Step, Returns, StartTypeOK, SweptDead, BoundAtPath, OnSocket, Daemons
  <1>8. ASSUME NEW c \in Launchers, Recheck(c) PROVE BoundAtPath'
    BY DaemonStartConstants, <1>8 DEF Recheck, Step, Returns, StartTypeOK, SweptDead, BoundAtPath, OnSocket, Daemons
  <1>9. ASSUME NEW c \in Launchers, Launch(c) PROVE BoundAtPath'
    BY DaemonStartConstants, <1>9 DEF Launch, Step, Birth, StartTypeOK, SweptDead, BoundAtPath, OnSocket, Daemons
  <1>10. ASSUME NEW c \in Launchers, LaunchFails(c) PROVE BoundAtPath'
    BY DaemonStartConstants, <1>10 DEF LaunchFails, Step, Returns, StartTypeOK, SweptDead, BoundAtPath, OnSocket, Daemons
  <1>11. ASSUME NEW c \in Launchers, WaitEnds(c) PROVE BoundAtPath'
    BY DaemonStartConstants, <1>11 DEF WaitEnds, Step, Returns, StartTypeOK, SweptDead, BoundAtPath, OnSocket, Daemons
  <1>12. ASSUME NEW c \in Launchers, Timeout(c) PROVE BoundAtPath'
    BY DaemonStartConstants, <1>12 DEF Timeout, Step, Returns, StartTypeOK, SweptDead, BoundAtPath, OnSocket, Daemons
  <1>13. ASSUME NEW c \in Launchers, LauncherDies(c) PROVE BoundAtPath'
    BY DaemonStartConstants, <1>13 DEF LauncherDies, Step, Returns, StartTypeOK, SweptDead, BoundAtPath, OnSocket, Daemons
  <1>14. ASSUME StartByHand PROVE BoundAtPath'
    BY DaemonStartConstants, <1>14 DEF StartByHand, Birth, clientVars, StartTypeOK, SweptDead, BoundAtPath, OnSocket, Daemons
  <1>15. ASSUME NEW d \in Daemons, CheckPath(d) PROVE BoundAtPath'
    BY DaemonStartConstants, <1>15 DEF CheckPath, Becomes, clientVars, StartTypeOK, SweptDead, BoundAtPath, OnSocket, Daemons
  <1>16. ASSUME NEW d \in Daemons, Bind(d) PROVE BoundAtPath'
    BY DaemonStartConstants, <1>16 DEF Bind, Becomes, clientVars, StartTypeOK, SweptDead, BoundAtPath, OnSocket, Daemons
  <1>17. ASSUME NEW d \in Daemons, Listen(d) PROVE BoundAtPath'
    BY DaemonStartConstants, <1>17 DEF Listen, Becomes, clientVars, StartTypeOK, SweptDead, BoundAtPath, OnSocket, Daemons
  <1>18. ASSUME NEW d \in Daemons, Serve(d) PROVE BoundAtPath'
    BY DaemonStartConstants, <1>18 DEF Serve, Becomes, clientVars, StartTypeOK, SweptDead, BoundAtPath, OnSocket, Daemons
  <1>19. ASSUME NEW d \in Daemons, ServerDies(d) PROVE BoundAtPath'
    BY DaemonStartConstants, <1>19 DEF ServerDies, Becomes, clientVars, Alive, StartTypeOK, SweptDead, BoundAtPath, OnSocket, Daemons
  <1> QED BY <1>1, <1>2, <1>3, <1>4, <1>5, <1>6, <1>7, <1>8, <1>9, <1>10, <1>11, <1>12, <1>13, <1>14, <1>15, <1>16, <1>17, <1>18, <1>19 DEF StartNext

\* What is calm after a step was calm before it.
LEMMA CalmBack ==
  ASSUME StartTypeOK, Unborn, StartNext
  PROVE  Calm' => Calm
  <1>1. ASSUME NEW c \in Launchers, Ensure(c) PROVE Calm' => Calm
    BY DaemonStartConstants, <1>1 DEF Ensure, Step, StartTypeOK, Unborn, Calm, Daemons
  <1>2. ASSUME NEW c \in Launchers, Look(c) PROVE Calm' => Calm
    BY DaemonStartConstants, <1>2 DEF Look, Step, StartTypeOK, Unborn, Calm, Daemons
  <1>3. ASSUME NEW c \in Launchers, LoopProbe(c) PROVE Calm' => Calm
    BY DaemonStartConstants, <1>3 DEF LoopProbe, Step, StartTypeOK, Unborn, Calm, Daemons
  <1>4. ASSUME NEW c \in Launchers, TakeLock(c) PROVE Calm' => Calm
    BY DaemonStartConstants, <1>4 DEF TakeLock, Step, StartTypeOK, Unborn, Calm, Daemons
  <1>5. ASSUME NEW c \in Launchers, LockBusy(c) PROVE Calm' => Calm
    BY DaemonStartConstants, <1>5 DEF LockBusy, Step, StartTypeOK, Unborn, Calm, Daemons
  <1>6. ASSUME NEW c \in Launchers, Sweep(c) PROVE Calm' => Calm
    BY DaemonStartConstants, <1>6 DEF Sweep, Step, StartTypeOK, Unborn, Calm, Daemons
  <1>7. ASSUME NEW c \in Launchers, Unlink(c) PROVE Calm' => Calm
    BY DaemonStartConstants, <1>7 DEF Unlink, Step, Returns, StartTypeOK, Unborn, Calm, Daemons
  <1>8. ASSUME NEW c \in Launchers, Recheck(c) PROVE Calm' => Calm
    BY DaemonStartConstants, <1>8 DEF Recheck, Step, Returns, StartTypeOK, Unborn, Calm, Daemons
  <1>9. ASSUME NEW c \in Launchers, Launch(c) PROVE Calm' => Calm
    BY DaemonStartConstants, <1>9 DEF Launch, Step, Birth, StartTypeOK, Unborn, Calm, Daemons
  <1>10. ASSUME NEW c \in Launchers, LaunchFails(c) PROVE Calm' => Calm
    BY DaemonStartConstants, <1>10 DEF LaunchFails, Step, Returns, StartTypeOK, Unborn, Calm, Daemons
  <1>11. ASSUME NEW c \in Launchers, WaitEnds(c) PROVE Calm' => Calm
    BY DaemonStartConstants, <1>11 DEF WaitEnds, Step, Returns, StartTypeOK, Unborn, Calm, Daemons
  <1>12. ASSUME NEW c \in Launchers, Timeout(c) PROVE Calm' => Calm
    BY DaemonStartConstants, <1>12 DEF Timeout, Step, Returns, StartTypeOK, Unborn, Calm, Daemons
  <1>13. ASSUME NEW c \in Launchers, LauncherDies(c) PROVE Calm' => Calm
    BY DaemonStartConstants, <1>13 DEF LauncherDies, Step, Returns, StartTypeOK, Unborn, Calm, Daemons
  <1>14. ASSUME StartByHand PROVE Calm' => Calm
    BY DaemonStartConstants, <1>14 DEF StartByHand, Birth, clientVars, StartTypeOK, Unborn, Calm, Daemons
  <1>15. ASSUME NEW d \in Daemons, CheckPath(d) PROVE Calm' => Calm
    BY DaemonStartConstants, <1>15 DEF CheckPath, Becomes, clientVars, StartTypeOK, Unborn, Calm, Daemons
  <1>16. ASSUME NEW d \in Daemons, Bind(d) PROVE Calm' => Calm
    BY DaemonStartConstants, <1>16 DEF Bind, Becomes, clientVars, StartTypeOK, Unborn, Calm, Daemons
  <1>17. ASSUME NEW d \in Daemons, Listen(d) PROVE Calm' => Calm
    BY DaemonStartConstants, <1>17 DEF Listen, Becomes, clientVars, StartTypeOK, Unborn, Calm, Daemons
  <1>18. ASSUME NEW d \in Daemons, Serve(d) PROVE Calm' => Calm
    BY DaemonStartConstants, <1>18 DEF Serve, Becomes, clientVars, StartTypeOK, Unborn, Calm, Daemons
  <1>19. ASSUME NEW d \in Daemons, ServerDies(d) PROVE Calm' => Calm
    BY DaemonStartConstants, <1>19 DEF ServerDies, Becomes, clientVars, Alive, StartTypeOK, Unborn, Calm, Daemons
  <1> QED BY <1>1, <1>2, <1>3, <1>4, <1>5, <1>6, <1>7, <1>8, <1>9, <1>10, <1>11, <1>12, <1>13, <1>14, <1>15, <1>16, <1>17, <1>18, <1>19 DEF StartNext

\* Every step keeps the invariant of a calm system.
LEMMA CalmNext ==
  ASSUME StartTypeOK, LockHeld, SweptDead, BoundAtPath, CalmInv, Calm' => Calm, StartNext
  PROVE  CalmInv'
  <1>1. ASSUME NEW c \in Launchers, Ensure(c) PROVE CalmInv'
    BY DaemonStartConstants, <1>1 DEF Ensure, Step, StartTypeOK, LockHeld, SweptDead, BoundAtPath, CalmInv, OneAlive, AllAttended, SpawnClear, Calm, Attended, Alive, Locked, OnSocket, Running, Listening, Daemons
  <1>2. ASSUME NEW c \in Launchers, Look(c) PROVE CalmInv'
    BY DaemonStartConstants, <1>2 DEF Look, Step, StartTypeOK, LockHeld, SweptDead, BoundAtPath, CalmInv, OneAlive, AllAttended, SpawnClear, Calm, Attended, Alive, Locked, OnSocket, Running, Listening, Daemons
  <1>3. ASSUME NEW c \in Launchers, LoopProbe(c) PROVE CalmInv'
    BY DaemonStartConstants, <1>3 DEF LoopProbe, Step, StartTypeOK, LockHeld, SweptDead, BoundAtPath, CalmInv, OneAlive, AllAttended, SpawnClear, Calm, Attended, Alive, Locked, OnSocket, Running, Listening, Daemons
  <1>4. ASSUME NEW c \in Launchers, TakeLock(c) PROVE CalmInv'
    <2> SUFFICES ASSUME Calm' PROVE ~gap' /\ OneAlive' /\ AllAttended' /\ SpawnClear'
      BY DEF CalmInv
    <2>1. ~gap /\ OneAlive /\ AllAttended /\ SpawnClear
      BY DEF CalmInv
    <2>2. Alive' = Alive /\ life' = life /\ sock' = sock /\ mine' = mine /\ gap' = gap
      BY <1>4 DEF TakeLock, Alive
    <2>3. stage[c] = "lock" /\ stage'[c] \in {"sweep", "idle"}
      BY <1>4 DEF TakeLock, Step, StartTypeOK
    <2>4. \A b \in Launchers : b # c => stage'[b] = stage[b]
      BY <1>4 DEF TakeLock, Step, StartTypeOK
    <2>5. \A e \in Alive : Attended(e)'
      BY <2>1, <2>2, <2>3, <2>4 DEF AllAttended, Attended
    <2> QED BY <2>1, <2>2, <2>3, <2>4, <2>5 DEF OneAlive, AllAttended, SpawnClear
  <1>5. ASSUME NEW c \in Launchers, LockBusy(c) PROVE CalmInv'
    BY DaemonStartConstants, <1>5 DEF LockBusy, Step, StartTypeOK, LockHeld, SweptDead, BoundAtPath, CalmInv, OneAlive, AllAttended, SpawnClear, Calm, Attended, Alive, Locked, OnSocket, Running, Listening, Daemons
  <1>6. ASSUME NEW c \in Launchers, Sweep(c) PROVE CalmInv'
    BY DaemonStartConstants, <1>6 DEF Sweep, Step, StartTypeOK, LockHeld, SweptDead, BoundAtPath, CalmInv, OneAlive, AllAttended, SpawnClear, Calm, Attended, Alive, Locked, OnSocket, Running, Listening, Daemons
  <1>7. ASSUME NEW c \in Launchers, Unlink(c) PROVE CalmInv'
    <2> SUFFICES ASSUME Calm' PROVE ~gap' /\ OneAlive' /\ AllAttended' /\ SpawnClear'
      BY DEF CalmInv
    <2>1. ~gap /\ OneAlive /\ AllAttended /\ SpawnClear
      BY DEF CalmInv
    <2>2. Alive' = Alive /\ life' = life /\ gap' = gap
      BY <1>7 DEF Unlink, Alive
    <2>3. \A b \in Launchers : b # c => stage'[b] = stage[b] /\ mine'[b] = mine[b]
      BY <1>7 DEF Unlink, Returns, Step, StartTypeOK
    <2>4. stage[c] = "unlink" /\ stage'[c] \in {"idle", "recheck"}
      BY <1>7 DEF Unlink, Returns, Step, StartTypeOK
    <2>5. ASSUME NEW e \in Alive PROVE Attended(e)'
      <3>1. sock # 0 /\ life[sock] = "dead"
        BY <2>1, <2>4 DEF SweptDead
      <3>2. PICK b \in Launchers : stage[b] = "wait" /\ mine[b] = e
        BY <2>1, <2>5, <3>1 DEF AllAttended, Attended
      <3> QED BY <2>3, <2>4, <3>2 DEF Attended
    <2> QED BY <2>1, <2>2, <2>3, <2>4, <2>5 DEF OneAlive, AllAttended, SpawnClear
  <1>8. ASSUME NEW c \in Launchers, Recheck(c) PROVE CalmInv'
    BY DaemonStartConstants, <1>8 DEF Recheck, Step, Returns, StartTypeOK, LockHeld, SweptDead, BoundAtPath, CalmInv, OneAlive, AllAttended, SpawnClear, Calm, Attended, Alive, Locked, OnSocket, Running, Listening, Daemons
  <1>9. ASSUME NEW c \in Launchers, Launch(c) PROVE CalmInv'
    <2> SUFFICES ASSUME Calm' PROVE ~gap' /\ OneAlive' /\ AllAttended' /\ SpawnClear'
      BY DEF CalmInv
    <2>1. ~gap /\ OneAlive /\ AllAttended /\ SpawnClear
      BY DEF CalmInv
    <2>2. Alive = {}
      BY <1>9, <2>1 DEF Launch, SpawnClear
    <2>3. Alive' \subseteq {born + 1}
      BY DaemonStartConstants, <1>9, <2>2 DEF Launch, Birth, Alive, StartTypeOK, Daemons
    <2>4. stage'[c] = "wait" /\ mine'[c] = born + 1 /\ gap' = gap
      BY <1>9 DEF Launch, Step, StartTypeOK
    <2>5. \A b \in Launchers : stage'[b] # "spawn"
      BY <1>9, <2>4 DEF Launch, Step, StartTypeOK, LockHeld, Locked
    <2> QED BY <2>1, <2>3, <2>4, <2>5 DEF OneAlive, AllAttended, SpawnClear, Attended
  <1>10. ASSUME NEW c \in Launchers, LaunchFails(c) PROVE CalmInv'
    BY DaemonStartConstants, <1>10 DEF LaunchFails, Step, Returns, StartTypeOK, LockHeld, SweptDead, BoundAtPath, CalmInv, OneAlive, AllAttended, SpawnClear, Calm, Attended, Alive, Locked, OnSocket, Running, Listening, Daemons
  <1>11. ASSUME NEW c \in Launchers, WaitEnds(c) PROVE CalmInv'
    BY DaemonStartConstants, <1>11 DEF WaitEnds, Step, Returns, StartTypeOK, LockHeld, SweptDead, BoundAtPath, CalmInv, OneAlive, AllAttended, SpawnClear, Calm, Attended, Alive, Locked, OnSocket, Running, Listening, Daemons
  <1>12. ASSUME NEW c \in Launchers, Timeout(c) PROVE CalmInv'
    BY DaemonStartConstants, <1>12 DEF Timeout, Step, Returns, StartTypeOK, LockHeld, SweptDead, BoundAtPath, CalmInv, OneAlive, AllAttended, SpawnClear, Calm, Attended, Alive, Locked, OnSocket, Running, Listening, Daemons
  <1>13. ASSUME NEW c \in Launchers, LauncherDies(c) PROVE CalmInv'
    <2> SUFFICES ASSUME Calm' PROVE ~gap' /\ OneAlive' /\ AllAttended' /\ SpawnClear'
      BY DEF CalmInv
    <2>1. ~gap /\ OneAlive /\ AllAttended /\ SpawnClear
      BY DEF CalmInv
    <2>2. stage[c] # "wait"
      BY <1>13 DEF LauncherDies, Calm
    <2>3. Alive' = Alive /\ life' = life /\ sock' = sock /\ gap' = gap
      BY <1>13 DEF LauncherDies, Alive
    <2>4. stage'[c] = "idle" /\ \A b \in Launchers : b # c => stage'[b] = stage[b] /\ mine'[b] = mine[b]
      BY <1>13 DEF LauncherDies, Returns, Step, StartTypeOK
    <2>5. \A e \in Alive : Attended(e)'
      BY <2>1, <2>2, <2>3, <2>4 DEF AllAttended, Attended
    <2> QED BY <2>1, <2>3, <2>4, <2>5 DEF OneAlive, AllAttended, SpawnClear
  <1>14. ASSUME StartByHand PROVE CalmInv'
    <2>1. born + 1 \in Daemons
      BY DaemonStartConstants, <1>14 DEF StartByHand, Birth, StartTypeOK, Daemons
    <2>2. origin'[born + 1] \in {"hand", "old"}
      BY <1>14, <2>1 DEF StartByHand, Birth, StartTypeOK
    <2>3. ~Calm'
      BY <2>1, <2>2 DEF Calm
    <2> QED BY <2>3 DEF CalmInv
  <1>15. ASSUME NEW d \in Daemons, CheckPath(d) PROVE CalmInv'
    BY DaemonStartConstants, <1>15 DEF CheckPath, Becomes, clientVars, StartTypeOK, LockHeld, SweptDead, BoundAtPath, CalmInv, OneAlive, AllAttended, SpawnClear, Calm, Attended, Alive, Locked, OnSocket, Running, Listening, Daemons
  <1>16. ASSUME NEW d \in Daemons, Bind(d) PROVE CalmInv'
    <2> SUFFICES ASSUME Calm' PROVE ~gap' /\ OneAlive' /\ AllAttended' /\ SpawnClear'
      BY DEF CalmInv
    <2>1. ~gap /\ OneAlive /\ AllAttended /\ SpawnClear
      BY DEF CalmInv
    <2>2. stage' = stage /\ mine' = mine /\ gap' = gap
      BY <1>16 DEF Bind, clientVars
    <2>3. Alive' \subseteq Alive
      BY <1>16 DEF Bind, Becomes, Alive, StartTypeOK
    <2>4. \A e \in Daemons : life[e] = "serving" /\ sock = e => life'[e] = "serving" /\ sock' = e
      <3>1. CASE sock = 0
        <4>1. \A e \in Daemons : sock # e
          BY <3>1 DEF Daemons
        <4> QED BY <4>1
      <3>2. CASE sock # 0
        <4>1. sock' = sock /\ \A e \in Daemons : e # d => life'[e] = life[e]
          BY <1>16, <3>2 DEF Bind, Becomes, StartTypeOK
        <4>2. life[d] # "serving"
          BY <1>16 DEF Bind
        <4> QED BY <4>1, <4>2
      <3> QED BY <3>1, <3>2
    <2>5. \A e \in Alive : Attended(e)'
      BY <2>1, <2>2, <2>4 DEF AllAttended, Attended, Alive
    <2> QED BY <2>1, <2>2, <2>3, <2>5 DEF OneAlive, AllAttended, SpawnClear
  <1>17. ASSUME NEW d \in Daemons, Listen(d) PROVE CalmInv'
    BY DaemonStartConstants, <1>17 DEF Listen, Becomes, clientVars, StartTypeOK, LockHeld, SweptDead, BoundAtPath, CalmInv, OneAlive, AllAttended, SpawnClear, Calm, Attended, Alive, Locked, OnSocket, Running, Listening, Daemons
  <1>18. ASSUME NEW d \in Daemons, Serve(d) PROVE CalmInv'
    BY DaemonStartConstants, <1>18 DEF Serve, Becomes, clientVars, StartTypeOK, LockHeld, SweptDead, BoundAtPath, CalmInv, OneAlive, AllAttended, SpawnClear, Calm, Attended, Alive, Locked, OnSocket, Running, Listening, Daemons
  <1>19. ASSUME NEW d \in Daemons, ServerDies(d) PROVE CalmInv'
    BY DaemonStartConstants, <1>19 DEF ServerDies, Becomes, clientVars, Alive, StartTypeOK, LockHeld, SweptDead, BoundAtPath, CalmInv, OneAlive, AllAttended, SpawnClear, Calm, Attended, Alive, Locked, OnSocket, Running, Listening, Daemons
  <1> QED BY <1>1, <1>2, <1>3, <1>4, <1>5, <1>6, <1>7, <1>8, <1>9, <1>10, <1>11, <1>12, <1>13, <1>14, <1>15, <1>16, <1>17, <1>18, <1>19 DEF StartNext

\* The invariant is kept by every step and by stuttering.
LEMMA StartInvNext ==
  ASSUME StartInv, [StartNext]_startVars
  PROVE  StartInv'
  <1>1. CASE StartNext
    <2>1. StartTypeOK' /\ Unborn' /\ SockBound'
      BY <1>1, StartTypeNext, UnbornNext, SockNext DEF StartInv
    <2>2. LockHeld' /\ SweptDead' /\ BoundAtPath'
      BY <1>1, LockNext, SweptNext, BoundNext DEF StartInv
    <2>3. Calm' => Calm
      BY <1>1, CalmBack DEF StartInv
    <2>4. CalmInv'
      BY <1>1, <2>3, CalmNext DEF StartInv
    <2> QED BY <2>1, <2>2, <2>4 DEF StartInv
  <1>2. CASE UNCHANGED startVars
    BY <1>2 DEF startVars, StartInv, StartTypeOK, Unborn, SockBound, LockHeld, SweptDead,
       BoundAtPath, CalmInv, Calm, OneAlive, AllAttended, Attended, SpawnClear, Alive
  <1> QED BY <1>1, <1>2

\* The invariant always holds.
LEMMA StartInvAlways == StartSpec => []StartInv
  BY StartInitInv, StartInvNext, PTL DEF StartSpec

\* Sockets, locks and processes keep their shape through ensure_daemon_running and
\* the start of impetusd.
THEOREM StartTypeCorrect == StartSpec => []StartTypeOK
  <1>1. StartInv => StartTypeOK
    BY DEF StartInv
  <1> QED BY <1>1, StartInvAlways, PTL

\* A daemon that serves is the one at the socket's path, whatever number of clients
\* runs ensure_daemon_running and whoever dies, unless a client probed a socket
\* between its bind and its listen.
THEOREM ServedAtPath == StartSpec => []ServerAtPath
  <1>1. StartInv => ServerAtPath
    BY DEF StartInv, BoundAtPath, OnSocket, ServerAtPath
  <1> QED BY <1>1, StartInvAlways, PTL

\* The clients of the spawn lock have at most one daemon alive between them, as long
\* as nobody starts one by hand and none of them leaves its own behind.
THEOREM OneLaunchedAtATime == StartSpec => []OneLaunched
  <1>1. ASSUME StartInv PROVE OneLaunched
    <2> SUFFICES ASSUME Calm PROVE Cardinality(Alive) <= 1
      BY DEF OneLaunched, Calm
    <2>1. OneAlive
      BY <1>1 DEF StartInv, CalmInv
    <2>2. CASE Alive = {}
      <3>1. Cardinality(Alive) = 0
        BY <2>2, FS_EmptySet
      <3> QED BY <3>1
    <2>3. CASE Alive # {}
      <3>1. PICK d \in Alive : Alive = {d}
        BY <2>1, <2>3 DEF OneAlive
      <3>2. Cardinality(Alive) = 1
        BY <3>1, FS_Singleton
      <3> QED BY <3>2
    <2> QED BY <2>2, <2>3
  <1> QED BY <1>1, StartInvAlways, PTL

-----------------------------------------------------------------------------
(* The host *)

\* Every behaviour of the host is one of each of its parts: a step of the daemon is a
\* step of one part or leaves it alone.
THEOREM HostParts == HostSpec => PtySpec /\ RingSpec /\ BatchSpec /\ FeedSpec /\ StartSpec
<1>1. HostInit => PtyInit /\ RingInit /\ BatchInit /\ FeedInit /\ StartInit
  BY DEF HostInit
<1>2. [HostNext]_hostVars => [PtyNext]_ptyVars
  BY DEF HostNext, hostVars, PtyMoves, RingMoves, BatchMoves, FeedMoves, StartMoves
<1>3. [HostNext]_hostVars => [RingNext]_ringVars
  BY DEF HostNext, hostVars, PtyMoves, RingMoves, BatchMoves, FeedMoves, StartMoves
<1>4. [HostNext]_hostVars => [BatchNext]_batchVars
  BY DEF HostNext, hostVars, PtyMoves, RingMoves, BatchMoves, FeedMoves, StartMoves
<1>5. [HostNext]_hostVars => [FeedNext]_feedVars
  BY DEF HostNext, hostVars, PtyMoves, RingMoves, BatchMoves, FeedMoves, StartMoves
<1>6. [HostNext]_hostVars => [StartNext]_startVars
  BY DEF HostNext, hostVars, PtyMoves, RingMoves, BatchMoves, FeedMoves, StartMoves
<1> QED
  BY <1>1, <1>2, <1>3, <1>4, <1>5, <1>6, PTL
     DEF HostSpec, PtySpec, RingSpec, BatchSpec, FeedSpec, StartSpec

\* PTY sessions, rings, batches and daemons keep their shape and their bounds in every
\* state of the host.
THEOREM HostTypeCorrect == HostSpec => []HostTypeOK
<1>1. PtyTypeOK /\ RingBounded /\ BatchTypeOK /\ StartTypeOK => HostTypeOK
  BY DEF HostTypeOK
<1> QED
  BY <1>1, HostParts, PtyTypeCorrect, RingStaysBounded, BatchTypeCorrect, StartTypeCorrect, PTL

=============================================================================
