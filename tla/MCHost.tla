------------------------------- MODULE MCHost -------------------------------
(***************************************************************************)
(* The host side of the daemon for TLC: PTY sessions, the output of one    *)
(* PTY, offline batches, the live feed of events and the start of the      *)
(* daemon.  They share no state, so they are checked side by side: a       *)
(* behaviour belongs to the one that focus names.                          *)
(***************************************************************************)
EXTENDS Pty, OutputRing, OfflineBatch, LiveFeed, DaemonStart, TLC

CONSTANTS c1, c2, c3, d1, d2, i1, i2, Focus

VARIABLE focus

hostVars == <<focus, ptyVars, ringVars, batchVars, feedVars, startVars>>

Clients == {c1, c2, c3}
HostSymmetry == Permutations(Clients)

HostInit ==
    /\ focus \in Focus
    /\ PtyInit
    /\ RingInit
    /\ BatchInit
    /\ file = [f \in Digests \X Items |-> IF f[2] = i1 THEN "absent" ELSE "source"]
    /\ FeedInit
    /\ StartInit

PtyMoves == focus = "pty" /\ PtyNext /\ UNCHANGED <<focus, ringVars, batchVars, feedVars, startVars>>
RingMoves == focus = "ring" /\ RingNext /\ UNCHANGED <<focus, ptyVars, batchVars, feedVars, startVars>>
BatchMoves == focus = "batch" /\ BatchNext /\ UNCHANGED <<focus, ptyVars, ringVars, feedVars, startVars>>
FeedMoves == focus = "feed" /\ FeedNext /\ UNCHANGED <<focus, ptyVars, ringVars, batchVars, startVars>>

StartMoves == focus = "start" /\ StartNext /\ UNCHANGED <<focus, ptyVars, ringVars, batchVars, feedVars>>

HostNext == PtyMoves \/ RingMoves \/ BatchMoves \/ FeedMoves \/ StartMoves

HostSpec == HostInit /\ [][HostNext]_hostVars

\* PTY sessions, rings, batches and daemons keep their shape; a ring keeps its bounds.
HostTypeOK == PtyTypeOK /\ RingBounded /\ BatchTypeOK /\ StartTypeOK

\* An action of the batch or of the feed beside the idle rest of the host.
InBatch(A) == focus = "batch" /\ A /\ UNCHANGED <<focus, ptyVars, ringVars, feedVars, startVars>>
InFeed(A) == focus = "feed" /\ A /\ UNCHANGED <<focus, ptyVars, ringVars, batchVars, startVars>>

\* The poll loop of the daemon ticks for ever (see BatchFairness).  The threads of
\* the feed, each a spawned task that is never starved, go on when they can: the
\* store that still has to send, the connection in the daemon, the subscription
\* task of the TUI and its main loop.
HostFairSpec ==
    /\ HostSpec
    /\ WF_hostVars(InBatch(Tick))
    /\ WF_hostVars(InBatch(Collect("cli")))
    /\ WF_hostVars(InFeed(\E s \in Logs : Notify(s)))
    /\ WF_hostVars(InFeed(ServeClient))
    /\ WF_hostVars(InFeed(FollowEvents))
    /\ WF_hostVars(InFeed(EventBatch))

=============================================================================
