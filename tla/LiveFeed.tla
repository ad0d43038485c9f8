------------------------------ MODULE LiveFeed ------------------------------
(***************************************************************************)
(* Live events from the log to the screen: the store's broadcast of        *)
(* appends, the subscription loop of a daemon connection (serve_client),   *)
(* the event connection of the client library and the task and message     *)
(* queue of the TUI that show the session the user has activated.  The     *)
(* connection may break and the user may change sessions at any time.      *)
(***************************************************************************)
EXTENDS Naturals, Sequences

CONSTANTS
    Logs,          \* sessions
    Ring,          \* capacity of the broadcast channel
    MaxTip,        \* bound on the events of a session
    MaxBreaks,     \* bound on lost connections
    MaxSwitches    \* bound on activations

ASSUME LiveFeedConstants ==
    /\ "none" \notin Logs
    /\ Ring \in Nat \ {0}
    /\ MaxTip \in Nat /\ MaxBreaks \in Nat /\ MaxSwitches \in Nat

VARIABLES
    tip,           \* last sequence of each session's log
    unsent,        \* events committed and not yet broadcast, per session
    feed,          \* the daemon's end of the event connection
    pipe,          \* batches on the wire
    task,          \* the TUI's subscription task
    inbox,         \* messages to the TUI's main loop
    screen,        \* active session, generation, last_sequence and what is shown
    breaks

feedVars == <<tip, unsent, feed, pipe, task, inbox, screen, breaks>>

NoFeed == [up |-> FALSE, log |-> "none", cursor |-> 0, queue |-> <<>>,
           lagged |-> FALSE, draining |-> FALSE]
NoTask == [state |-> "none", log |-> "none", gen |-> 0, after |-> 0]

FeedInit ==
    /\ tip = [s \in Logs |-> 1]
    /\ unsent = [s \in Logs |-> 0]
    /\ feed = NoFeed
    /\ pipe = <<>>
    /\ task = NoTask
    /\ inbox = <<>>
    /\ screen = [log |-> "none", gen |-> 0, last |-> 0, shown |-> <<>>]
    /\ breaks = 0

-----------------------------------------------------------------------------
(* the store                                                               *)

\* append_next commits; the notification is sent after that.
AppendEvent(s) ==
    /\ tip[s] < MaxTip
    /\ tip' = [tip EXCEPT ![s] = @ + 1]
    /\ unsent' = [unsent EXCEPT ![s] = @ + 1]
    /\ UNCHANGED <<feed, pipe, task, inbox, screen, breaks>>

\* A receiver that is too slow loses the oldest notifications and is told once.
Broadcast(f, s) ==
    IF ~f.up THEN f
    ELSE IF Len(f.queue) < Ring THEN [f EXCEPT !.queue = Append(@, s)]
    ELSE [f EXCEPT !.queue = Append(Tail(@), s), !.lagged = TRUE]

Notify(s) ==
    /\ unsent[s] > 0
    /\ unsent' = [unsent EXCEPT ![s] = @ - 1]
    /\ feed' = Broadcast(feed, s)
    /\ UNCHANGED <<tip, pipe, task, inbox, screen, breaks>>

-----------------------------------------------------------------------------
(* serve_client                                                            *)

\* Subscribe: the cursor is the client's; the receiver sees later notifications
\* only, and nothing is sent until one of them is for this session.
ServeSubscribe ==
    /\ task.state = "asked"
    /\ feed' = [NoFeed EXCEPT !.up = TRUE, !.log = task.log, !.cursor = task.after]
    /\ task' = [task EXCEPT !.state = "live"]
    /\ UNCHANGED <<tip, unsent, pipe, inbox, screen, breaks>>

\* recv: a lag is swallowed, a notification for another session too.
Receive ==
    /\ feed.up /\ ~feed.draining
    /\ \/ feed.lagged /\ feed' = [feed EXCEPT !.lagged = FALSE]
       \/ /\ ~feed.lagged
          /\ feed.queue # <<>>
          /\ feed' = [feed EXCEPT !.queue = Tail(@), !.draining = Head(feed.queue) = feed.log]
    /\ UNCHANGED <<tip, unsent, pipe, task, inbox, screen, breaks>>

\* One batch per notification.
DrainOnce ==
    /\ feed.draining
    /\ \/ /\ feed.cursor < tip[feed.log]
          /\ \E n \in (feed.cursor + 1)..tip[feed.log] :
               /\ pipe' = Append(pipe, <<feed.cursor + 1, n>>)
               /\ feed' = [feed EXCEPT !.cursor = n, !.draining = FALSE]
       \/ /\ feed.cursor >= tip[feed.log]
          /\ feed' = [feed EXCEPT !.draining = FALSE]
          /\ UNCHANGED pipe
    /\ UNCHANGED <<tip, unsent, task, inbox, screen, breaks>>

\* Stream until empty: each batch is what fits a frame, one event at least, and
\* the cursor follows it.
Drain ==
    /\ feed.draining
    /\ \/ /\ feed.cursor < tip[feed.log]
          /\ \E n \in (feed.cursor + 1)..tip[feed.log] :
               /\ pipe' = Append(pipe, <<feed.cursor + 1, n>>)
               /\ feed' = [feed EXCEPT !.cursor = n]
       \/ /\ feed.cursor >= tip[feed.log]
          /\ feed' = [feed EXCEPT !.draining = FALSE]
          /\ UNCHANGED pipe
    /\ UNCHANGED <<tip, unsent, task, inbox, screen, breaks>>

-----------------------------------------------------------------------------
(* the client                                                              *)

\* subscribe_live on a connection of its own, from the task's cursor.
SubscribeLive ==
    /\ task.state = "connect"
    /\ task' = [task EXCEPT !.state = "asked"]
    /\ UNCHANGED <<tip, unsent, feed, pipe, inbox, screen, breaks>>

\* next_events: the cursor moves to the end of the batch, the main loop gets it.
NextBatch ==
    /\ task.state = "live"
    /\ pipe # <<>>
    /\ task' = [task EXCEPT !.after = IF Head(pipe)[2] > @ THEN Head(pipe)[2] ELSE @]
    /\ inbox' = Append(inbox, [log |-> task.log, gen |-> task.gen, batch |-> Head(pipe)])
    /\ pipe' = Tail(pipe)
    /\ UNCHANGED <<tip, unsent, feed, screen, breaks>>

\* The connection breaks; what is on the wire is lost.  The task reports it, and
\* after its backoff subscribes again.
Break ==
    /\ breaks < MaxBreaks
    /\ task.state \in {"asked", "live"}
    /\ breaks' = breaks + 1
    /\ feed' = NoFeed
    /\ pipe' = <<>>
    /\ task' = [task EXCEPT !.state = "connect"]
    /\ UNCHANGED <<tip, unsent, inbox, screen>>

\* ActivateSession: a new generation with an empty screen and a task that starts
\* from sequence 0; the previous task is aborted, its messages stay queued.
ActivateSession(s) ==
    /\ screen.gen < MaxSwitches
    /\ screen' = [log |-> s, gen |-> screen.gen + 1, last |-> 0, shown |-> <<>>]
    /\ task' = [state |-> "connect", log |-> s, gen |-> screen.gen + 1, after |-> 0]
    /\ feed' = NoFeed
    /\ pipe' = <<>>
    /\ UNCHANGED <<tip, unsent, inbox, breaks>>

\* ingest_event for every event of a batch: known sequences are skipped.
Ingested(sc, log, batch) ==
    LET from == IF batch[1] > sc.last THEN batch[1] ELSE sc.last + 1
        fresh == IF from > batch[2] THEN <<>>
                 ELSE [k \in 1..(batch[2] - from + 1) |-> <<log, from + k - 1>>]
    IN  [sc EXCEPT !.shown = @ \o fresh,
                   !.last = IF batch[2] > @ THEN batch[2] ELSE @]

\* Whatever arrives is shown.
EventBatchUnchecked ==
    /\ inbox # <<>>
    /\ inbox' = Tail(inbox)
    /\ screen' = Ingested(screen, Head(inbox).log, Head(inbox).batch)
    /\ UNCHANGED <<tip, unsent, feed, pipe, task, breaks>>

\* A batch of another session or generation is dropped.
EventBatch ==
    /\ inbox # <<>>
    /\ inbox' = Tail(inbox)
    /\ screen' = IF Head(inbox).log = screen.log /\ Head(inbox).gen = screen.gen
                 THEN Ingested(screen, Head(inbox).log, Head(inbox).batch) ELSE screen
    /\ UNCHANGED <<tip, unsent, feed, pipe, task, breaks>>

\* The daemon's side of the event connection, and the task that follows it.
ServeClient == ServeSubscribe \/ Receive \/ Drain
FollowEvents == SubscribeLive \/ NextBatch

FeedNext ==
    \/ \E s \in Logs : AppendEvent(s) \/ Notify(s) \/ ActivateSession(s)
    \/ ServeClient \/ FollowEvents \/ EventBatch \/ Break

FeedSpec == FeedInit /\ [][FeedNext]_feedVars

-----------------------------------------------------------------------------

\* The screen shows the log of the active session from its first event on, every
\* event once and in order, over lost batches, new subscriptions, late messages
\* of a session that was left and sessions that are activated again.
TimelineFaithful ==
    /\ screen.shown = [k \in 1..screen.last |-> <<screen.log, k>>]
    /\ screen.log # "none" => screen.last <= tip[screen.log]

\* A notification that reached the connection's queue is worth all the events
\* that were in the log: they get to the screen unless the queue overflows, or the
\* connection goes because it breaks or the user goes elsewhere.
NotifiedIsShown ==
    \A n \in 1..MaxTip :
        (/\ feed.up /\ tip[feed.log] >= n
         /\ \E k \in 1..Len(feed.queue) : feed.queue[k] = feed.log)
            ~> (screen.last >= n \/ ~feed.up \/ feed.lagged)

\* "reconnect replays events": what is in the log when a subscription has been
\* made gets to the screen while the connection lasts.
ReconnectReplays ==
    \A n \in 1..MaxTip :
        (feed.up /\ tip[feed.log] >= n) ~> (screen.last >= n \/ ~feed.up)

=============================================================================
