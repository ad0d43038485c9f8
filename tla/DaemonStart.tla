---------------------------- MODULE DaemonStart ----------------------------
(***************************************************************************)
(* Who becomes the daemon: clients that find nothing to talk to and start  *)
(* impetusd under the spawn lock (impetus-daemon-control), daemons that    *)
(* the user starts by hand, and the start of impetusd up to its socket.    *)
(* Clients and daemons may die at any step; the kernel then releases the   *)
(* lock, and the socket file stays.                                        *)
(***************************************************************************)
EXTENDS Naturals, FiniteSets

CONSTANTS
    Launchers,     \* client processes
    NoLauncher,
    MaxDaemons     \* bound on the daemons started

ASSUME DaemonStartConstants ==
    /\ NoLauncher \notin Launchers
    /\ MaxDaemons \in Nat

VARIABLES
    sock,          \* the daemon whose socket is at the path, 0 for no file
    life,          \* how far each daemon got
    origin,        \* "launch" by a client, by "hand", or by hand and "old"
    born,          \* number of daemons started
    spawnLock,     \* holder of the flock on daemon.spawn.lock
    stage,         \* what each client does next
    mine,          \* the daemon it launched
    orphaned,      \* a client gave up on a launched daemon without killing it
    gap            \* a client looked between a daemon's bind and its listen

startVars == <<sock, life, origin, born, spawnLock, stage, mine, orphaned, gap>>
clientVars == <<spawnLock, stage, mine, orphaned, gap>>

Daemons == 1..MaxDaemons
Alive == {d \in Daemons : life[d] \notin {"none", "dead"}}

StartInit ==
    /\ sock = 0
    /\ life = [d \in Daemons |-> "none"]
    /\ origin = [d \in Daemons |-> "none"]
    /\ born = 0
    /\ spawnLock = NoLauncher
    /\ stage = [c \in Launchers |-> "idle"]
    /\ mine = [c \in Launchers |-> 0]
    /\ orphaned = FALSE
    /\ gap = FALSE

\* socket_listening: somebody accepts connections.
Listening == sock # 0 /\ life[sock] \in {"listening", "serving"}

\* is_daemon_running: Hello is answered.  A connection to a daemon that listens and
\* does not serve yet waits for it.
Running == sock # 0 /\ life[sock] = "serving" /\ origin[sock] # "old"
Waits == sock # 0 /\ life[sock] = "listening"

Step(c, there) == stage' = [stage EXCEPT ![c] = there]

\* The call returns, Ok or Err; a lock that is held is dropped.
Returns(c) ==
    /\ Step(c, "idle")
    /\ mine' = [mine EXCEPT ![c] = 0]
    /\ spawnLock' = IF spawnLock = c THEN NoLauncher ELSE spawnLock

-----------------------------------------------------------------------------
(* ensure_daemon_running_with                                              *)

Ensure(c) ==
    /\ stage[c] = "idle"
    /\ ~Waits /\ ~Running
    /\ Step(c, "look")
    /\ UNCHANGED <<sock, life, origin, born, spawnLock, mine, orphaned, gap>>

\* Something listens and Hello failed: an error, or Ok at a second attempt.
Look(c) ==
    /\ stage[c] = "look"
    /\ Step(c, IF Listening THEN "idle" ELSE "loop")
    /\ UNCHANGED <<sock, life, origin, born, spawnLock, mine, orphaned, gap>>

LoopProbe(c) ==
    /\ stage[c] = "loop"
    /\ ~Waits
    /\ Step(c, IF Running THEN "idle" ELSE "lock")
    /\ UNCHANGED <<sock, life, origin, born, spawnLock, mine, orphaned, gap>>

\* Writing the owner's data into the file may fail, which drops the lock again.
TakeLock(c) ==
    /\ stage[c] = "lock"
    /\ spawnLock = NoLauncher
    /\ \/ spawnLock' = c /\ Step(c, "sweep")
       \/ UNCHANGED spawnLock /\ Step(c, "idle")
    /\ UNCHANGED <<sock, life, origin, born, mine, orphaned, gap>>

\* A peer holds it: back to the probe, or LockBusyTimeout.
LockBusy(c) ==
    /\ stage[c] = "lock"
    /\ spawnLock # NoLauncher
    /\ Step(c, "loop") \/ Step(c, "idle")
    /\ UNCHANGED <<sock, life, origin, born, spawnLock, mine, orphaned, gap>>

\* Any file is stale.
SweepBlind(c) ==
    /\ stage[c] = "sweep"
    /\ Step(c, IF sock # 0 THEN "unlink" ELSE "recheck")
    /\ UNCHANGED <<sock, life, origin, born, spawnLock, mine, orphaned, gap>>

\* A file nobody listens on is stale.
Sweep(c) ==
    /\ stage[c] = "sweep"
    /\ IF sock # 0 /\ ~Listening
       THEN Step(c, "unlink") /\ gap' = (gap \/ life[sock] = "bound")
       ELSE Step(c, "recheck") /\ UNCHANGED gap
    /\ UNCHANGED <<sock, life, origin, born, spawnLock, mine, orphaned>>

Unlink(c) ==
    /\ stage[c] = "unlink"
    /\ \/ sock' = 0 /\ Step(c, "recheck") /\ UNCHANGED <<spawnLock, mine>>
       \/ Returns(c) /\ UNCHANGED sock
    /\ UNCHANGED <<life, origin, born, orphaned, gap>>

Recheck(c) ==
    /\ stage[c] = "recheck"
    /\ ~Waits
    /\ IF Running THEN Returns(c) ELSE Step(c, "spawn") /\ UNCHANGED <<spawnLock, mine>>
    /\ UNCHANGED <<sock, life, origin, born, orphaned, gap>>

Birth(from) ==
    /\ born < MaxDaemons
    /\ born' = born + 1
    /\ life' = [life EXCEPT ![born + 1] = "starting"]
    /\ origin' = [origin EXCEPT ![born + 1] = from]

Launch(c) ==
    /\ stage[c] = "spawn"
    /\ Birth("launch")
    /\ mine' = [mine EXCEPT ![c] = born + 1]
    /\ Step(c, "wait")
    /\ UNCHANGED <<sock, spawnLock, orphaned, gap>>

LaunchFails(c) ==
    /\ stage[c] = "spawn"
    /\ Returns(c)
    /\ UNCHANGED <<sock, life, origin, born, orphaned, gap>>

\* wait_until_ready_holding_child: somebody serves, the child is gone, or the
\* child cannot be asked.
WaitEnds(c) ==
    /\ stage[c] = "wait"
    /\ \/ Running /\ UNCHANGED orphaned
       \/ life[mine[c]] = "dead" /\ UNCHANGED orphaned
       \/ orphaned' = TRUE
    /\ Returns(c)
    /\ UNCHANGED <<sock, life, origin, born, gap>>

\* The child is left running.
TimeoutLeaves(c) ==
    /\ stage[c] = "wait"
    /\ Returns(c)
    /\ UNCHANGED <<sock, life, origin, born, orphaned, gap>>

\* The deadline: the child is killed, ready by now or not.
Timeout(c) ==
    /\ stage[c] = "wait"
    /\ life' = [life EXCEPT ![mine[c]] = "dead"]
    /\ Returns(c)
    /\ UNCHANGED <<sock, origin, born, orphaned, gap>>

\* The client is killed; its child is not.
LauncherDies(c) ==
    /\ stage[c] # "idle"
    /\ orphaned' = (orphaned \/ stage[c] = "wait")
    /\ Returns(c)
    /\ UNCHANGED <<sock, life, origin, born, gap>>

-----------------------------------------------------------------------------
(* impetusd                                                                *)

\* By hand, with the clients' protocol version or an old one.
StartByHand ==
    /\ Birth("hand") \/ Birth("old")
    /\ UNCHANGED <<sock, clientVars>>

Becomes(d, l) == life' = [life EXCEPT ![d] = l]

\* main refuses to replace a socket, then opens the store ...
CheckPath(d) ==
    /\ life[d] = "starting"
    /\ Becomes(d, IF sock # 0 THEN "dead" ELSE "opening")
    /\ UNCHANGED <<sock, origin, born, clientVars>>

\* ... and binds, which fails when there is a file by now.
Bind(d) ==
    /\ life[d] = "opening"
    /\ IF sock # 0 THEN Becomes(d, "dead") /\ UNCHANGED sock
                   ELSE Becomes(d, "bound") /\ sock' = d
    /\ UNCHANGED <<origin, born, clientVars>>

\* listen is a system call of its own.
Listen(d) ==
    /\ life[d] = "bound"
    /\ Becomes(d, "listening")
    /\ UNCHANGED <<sock, origin, born, clientVars>>

\* set_socket_permissions needs a file at the path, whosever it is.
Serve(d) ==
    /\ life[d] = "listening"
    /\ Becomes(d, IF sock = 0 THEN "dead" ELSE "serving")
    /\ UNCHANGED <<sock, origin, born, clientVars>>

\* An error or a signal; the file stays.
ServerDies(d) ==
    /\ d \in Alive
    /\ Becomes(d, "dead")
    /\ UNCHANGED <<sock, origin, born, clientVars>>

StartNext ==
    \/ \E c \in Launchers :
         \/ Ensure(c) \/ Look(c) \/ LoopProbe(c) \/ TakeLock(c) \/ LockBusy(c)
         \/ Sweep(c) \/ Unlink(c) \/ Recheck(c) \/ Launch(c) \/ LaunchFails(c)
         \/ WaitEnds(c) \/ Timeout(c) \/ LauncherDies(c)
    \/ StartByHand
    \/ \E d \in Daemons :
         CheckPath(d) \/ Bind(d) \/ Listen(d) \/ Serve(d) \/ ServerDies(d)

StartSpec == StartInit /\ [][StartNext]_startVars

-----------------------------------------------------------------------------

\* Daemons, socket, lock and clients keep their shape.
StartTypeOK ==
    /\ sock \in 0..born /\ born \in 0..MaxDaemons
    /\ life \in [Daemons -> {"none", "starting", "opening", "bound", "listening",
                             "serving", "dead"}]
    /\ origin \in [Daemons -> {"none", "launch", "hand", "old"}]
    /\ spawnLock \in Launchers \cup {NoLauncher}
    /\ stage \in [Launchers -> {"idle", "look", "loop", "lock", "sweep", "unlink",
                             "recheck", "spawn", "wait"}]
    /\ mine \in [Launchers -> 0..born]
    /\ orphaned \in BOOLEAN /\ gap \in BOOLEAN

\* Whoever serves is found at the path, so two daemons never serve the same
\* sessions, over dead clients and daemons, daemons started by hand and kills that
\* come late; unless a client took a socket between bind and listen for a stale
\* one.
ServerAtPath == ~gap => \A d \in Daemons : life[d] = "serving" => sock = d

\* Clients launch one daemon at a time: while nobody starts one by hand and no
\* client leaves its own behind, there are never two, not even starting ones.
OneLaunched ==
    (~orphaned /\ \A d \in Daemons : origin[d] \in {"none", "launch"}) =>
        Cardinality(Alive) <= 1

=============================================================================
