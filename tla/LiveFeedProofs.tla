--------------------------- MODULE LiveFeedProofs ---------------------------
(***************************************************************************)
(* The screen shows the log of the active session without a gap, a         *)
(* repetition or an event of another session, for any number of sessions,  *)
(* events, lost connections and activations.                               *)
(***************************************************************************)
EXTENDS LiveFeed, SequenceTheorems, TLAPS

\* A batch, by its first and last sequence; a message to the main loop; the records of
\* the connection, the task and the screen.
Sessions == Logs \cup {"none"}
Batches == Nat \X Nat
Messages == [log : Sessions, gen : Nat, batch : Batches]
Lines == Sessions \X Nat
Feeds == [up : BOOLEAN, log : Sessions, cursor : Nat, queue : Seq(Logs),
          lagged : BOOLEAN, draining : BOOLEAN]
Tasks == [state : {"none", "connect", "asked", "live"}, log : Sessions, gen : Nat, after : Nat]
Screens == [log : Sessions, gen : Nat, last : Nat, shown : Seq(Lines)]

\* The types of the variables.
FeedTypeOK ==
    /\ tip \in [Logs -> Nat]
    /\ unsent \in [Logs -> Nat]
    /\ feed \in Feeds
    /\ pipe \in Seq(Batches)
    /\ task \in Tasks
    /\ inbox \in Seq(Messages)
    /\ screen \in Screens
    /\ breaks \in Nat

\* The task and the connection serve the session on the screen; a connection is up
\* while the task is live, and only then has something on the wire.
SameSession ==
    /\ task.state # "none" => task.log = screen.log /\ task.gen = screen.gen /\ screen.log \in Logs
    /\ task.state = "none" => screen.log = "none" /\ screen.gen = 0 /\ screen.last = 0
    /\ feed.up <=> task.state = "live"
    /\ feed.up => feed.log = screen.log
    /\ ~feed.up => pipe = <<>> /\ ~feed.draining

\* A message of the generation on the screen.
Current(i) == inbox[i].gen = screen.gen

\* Messages arrive in the order of their generations, the last one the screen's; those
\* of its generation are of its session.
Generations ==
    \A i \in 1..Len(inbox) :
        /\ task.state # "none" /\ inbox[i].gen <= screen.gen
        /\ Current(i) => inbox[i].log = screen.log
        /\ \A j \in i..Len(inbox) : Current(i) => Current(j)

\* How far the screen is when it has ingested the first i messages.
ReachedBy(i) == IF i > 0 /\ Current(i) THEN inbox[i].batch[2] ELSE screen.last

\* Every message goes on where the one before it ended, up to the task's cursor.
InboxChained ==
    /\ \A i \in 1..Len(inbox) :
         Current(i) => /\ inbox[i].batch[1] = ReachedBy(i - 1) + 1
                       /\ inbox[i].batch[1] <= inbox[i].batch[2]
    /\ task.state # "none" => ReachedBy(Len(inbox)) = task.after

\* Where the first i batches on the wire end.
SentBy(i) == IF i > 0 THEN pipe[i][2] ELSE task.after

\* Every batch on the wire goes on where the one before it ended, up to the cursor of
\* the connection.
PipeChained ==
    /\ \A i \in 1..Len(pipe) : /\ pipe[i][1] = SentBy(i - 1) + 1
                               /\ pipe[i][1] <= pipe[i][2]
    /\ feed.up => SentBy(Len(pipe)) = feed.cursor

\* The cursors stay within the log.
WithinLog ==
    task.state # "none" =>
        /\ task.after <= tip[screen.log]
        /\ screen.last <= tip[screen.log]
        /\ feed.up => feed.cursor <= tip[screen.log]
        /\ \A i \in 1..Len(pipe) : pipe[i][2] <= tip[screen.log]
        /\ \A i \in 1..Len(inbox) : Current(i) => inbox[i].batch[2] <= tip[screen.log]

\* What is shown is what was counted.
Shown == screen.shown = [k \in 1..screen.last |-> <<screen.log, k>>]

\* The inductive invariant.  What is on its way to the screen is a chain without gaps
\* or overlaps from the last event shown to the cursor of the task, and from there to
\* that of the daemon; a lost connection cuts it at the task's cursor, where the next
\* one goes on.
FeedInv ==
    /\ FeedTypeOK
    /\ SameSession
    /\ Generations
    /\ InboxChained
    /\ PipeChained
    /\ WithinLog
    /\ Shown

-----------------------------------------------------------------------------
(* operators of the model                                                  *)

\* The fields of the records.
LEMMA Fields ==
  ASSUME FeedTypeOK
  PROVE  /\ feed.up \in BOOLEAN /\ feed.log \in Sessions /\ feed.cursor \in Nat
         /\ feed.queue \in Seq(Logs) /\ feed.lagged \in BOOLEAN /\ feed.draining \in BOOLEAN
         /\ task.state \in {"none", "connect", "asked", "live"} /\ task.log \in Sessions
         /\ task.gen \in Nat /\ task.after \in Nat
         /\ screen.log \in Sessions /\ screen.gen \in Nat /\ screen.last \in Nat
         /\ screen.shown \in Seq(Lines)
  BY DEF FeedTypeOK, Feeds, Tasks, Screens

\* The fields of a message, and of a batch on the wire.
LEMMA MessageFields ==
  ASSUME FeedTypeOK, NEW i \in 1..Len(inbox)
  PROVE  /\ inbox[i] \in Messages /\ inbox[i].gen \in Nat /\ inbox[i].batch \in Batches
         /\ inbox[i].batch[1] \in Nat /\ inbox[i].batch[2] \in Nat
  <1>1. inbox[i] \in Messages
    BY ElementOfSeq DEF FeedTypeOK
  <1>2. inbox[i].gen \in Nat /\ inbox[i].batch \in Batches
    BY <1>1 DEF Messages
  <1> QED
    BY <1>1, <1>2 DEF Batches

LEMMA BatchFields ==
  ASSUME FeedTypeOK, NEW i \in 1..Len(pipe)
  PROVE  pipe[i] \in Batches /\ pipe[i][1] \in Nat /\ pipe[i][2] \in Nat
  <1>1. pipe[i] \in Batches
    BY ElementOfSeq DEF FeedTypeOK
  <1> QED
    BY <1>1 DEF Batches

\* The invariant holds initially.
LEMMA FeedInitInv == FeedInit => FeedInv
  <1> SUFFICES ASSUME FeedInit PROVE FeedInv
    OBVIOUS
  <1>1. FeedTypeOK
    <2>1. NoFeed \in Feeds /\ NoTask \in Tasks
      BY DEF NoFeed, Feeds, NoTask, Tasks, Sessions
    <2>2. screen \in Screens
      BY DEF FeedInit, Screens, Sessions
    <2> QED
      BY <2>1, <2>2 DEF FeedInit, FeedTypeOK
  <1>2. SameSession /\ Generations /\ WithinLog
    BY DEF FeedInit, SameSession, Generations, WithinLog, NoFeed, NoTask
  <1>3. InboxChained /\ PipeChained
    BY DEF FeedInit, InboxChained, PipeChained, NoFeed, NoTask
  <1>4. Shown
    BY DEF FeedInit, Shown
  <1> QED
    BY <1>1, <1>2, <1>3, <1>4 DEF FeedInv

\* A broadcast touches the queue of the receiver and its mark of a lag, nothing else.
LEMMA BroadcastKeeps ==
  ASSUME FeedTypeOK, NEW s \in Logs
  PROVE  /\ Broadcast(feed, s) \in Feeds
         /\ Broadcast(feed, s).up = feed.up /\ Broadcast(feed, s).log = feed.log
         /\ Broadcast(feed, s).cursor = feed.cursor
         /\ Broadcast(feed, s).draining = feed.draining
  <1> DEFINE added == Append(feed.queue, s)
             moved == Append(Tail(feed.queue), s)
  <1>1. feed \in Feeds /\ feed.queue \in Seq(Logs) /\ feed.up \in BOOLEAN
    BY Fields DEF FeedTypeOK
  <1>2. CASE ~feed.up
    BY <1>1, <1>2 DEF Broadcast
  <1>3. CASE feed.up /\ Len(feed.queue) < Ring
    <2>1. added \in Seq(Logs)
      BY <1>1, AppendProperties
    <2>2. Broadcast(feed, s) = [feed EXCEPT !.queue = added]
      BY <1>3 DEF Broadcast
    <2> HIDE DEF added
    <2> QED
      BY <1>1, <2>1, <2>2 DEF Feeds
  <1>4. CASE feed.up /\ ~(Len(feed.queue) < Ring)
    <2>1. feed.queue # <<>>
      BY <1>4, LiveFeedConstants
    <2>2. moved \in Seq(Logs)
      <3>1. Tail(feed.queue) \in Seq(Logs)
        BY <1>1, <2>1, HeadTailProperties
      <3> QED
        BY <3>1, AppendProperties
    <2>3. Broadcast(feed, s) = [feed EXCEPT !.queue = moved, !.lagged = TRUE]
      BY <1>4 DEF Broadcast
    <2> HIDE DEF moved
    <2> QED
      BY <1>1, <2>2, <2>3 DEF Feeds
  <1> QED
    BY <1>1, <1>2, <1>3, <1>4

\* A sequence that agrees with one and then with another is their concatenation.
LEMMA Joined ==
  ASSUME NEW S, NEW s \in Seq(S), NEW t \in Seq(S), NEW u \in Seq(S),
         Len(u) = Len(s) + Len(t),
         \A k \in 1..Len(s) : u[k] = s[k],
         \A k \in 1..Len(t) : u[Len(s) + k] = t[k]
  PROVE  s \o t = u
  <1> DEFINE c == s \o t
  <1>1. /\ c \in Seq(S) /\ Len(c) = Len(s) + Len(t)
        /\ \A i \in 1..(Len(s) + Len(t)) : c[i] = IF i <= Len(s) THEN s[i] ELSE t[i - Len(s)]
    BY ConcatProperties
  <1>2. Len(s) \in Nat /\ Len(t) \in Nat
    BY LenProperties
  <1> HIDE DEF c
  <1>3. ASSUME NEW i \in 1..Len(c) PROVE c[i] = u[i]
    <2>1. CASE i <= Len(s)
      BY <1>1, <1>2, <2>1
    <2>2. CASE ~(i <= Len(s))
      <3>1. i - Len(s) \in 1..Len(t) /\ Len(s) + (i - Len(s)) = i
        BY <1>1, <1>2, <2>2
      <3>2. u[Len(s) + (i - Len(s))] = t[i - Len(s)]
        BY <3>1
      <3> QED
        BY <1>1, <2>2, <3>1, <3>2
    <2> QED
      BY <2>1, <2>2
  <1>4. c = u
    BY <1>1, <1>3, SeqEqual
  <1> QED
    BY <1>4 DEF c

\* A batch that goes on where the screen is puts exactly its events there.
LEMMA IngestedNext ==
  ASSUME FeedTypeOK, Shown, NEW b \in Batches, b[1] = screen.last + 1, b[1] <= b[2]
  PROVE  Ingested(screen, screen.log, b) =
           [screen EXCEPT !.shown = [k \in 1..b[2] |-> <<screen.log, k>>], !.last = b[2]]
  <1> DEFINE old == [k \in 1..screen.last |-> <<screen.log, k>>]
             fresh == [k \in 1..(b[2] - b[1] + 1) |-> <<screen.log, b[1] + k - 1>>]
             all == [k \in 1..b[2] |-> <<screen.log, k>>]
  <1>1. b[1] \in Nat /\ b[2] \in Nat /\ screen.last \in Nat /\ screen.log \in Sessions
    BY Fields DEF Batches
  <1>2. Ingested(screen, screen.log, b) = [screen EXCEPT !.shown = @ \o fresh, !.last = b[2]]
    <2>1. b[1] > screen.last /\ ~(b[1] > b[2]) /\ b[2] > screen.last
      BY <1>1
    <2> QED
      BY <2>1 DEF Ingested
  <1>3. fresh \in Seq(Lines) /\ Len(fresh) = b[2] - screen.last
    <2>1. b[2] - b[1] + 1 \in Nat /\ b[2] - b[1] + 1 = b[2] - screen.last
      BY <1>1
    <2>2. \A k \in 1..(b[2] - b[1] + 1) : b[1] + k - 1 \in Nat
      BY <1>1
    <2> QED
      BY <1>1, <2>1, <2>2 DEF Lines
  <1>4. old \in Seq(Lines) /\ Len(old) = screen.last
    BY <1>1 DEF Lines
  <1>5. all \in Seq(Lines) /\ Len(all) = b[2]
    BY <1>1 DEF Lines
  <1>6. old \o fresh = all
    <2>1. \A k \in 1..Len(old) : all[k] = old[k]
      BY <1>1, <1>4
    <2>2. ASSUME NEW k \in 1..Len(fresh) PROVE all[Len(old) + k] = fresh[k]
      <3>1. k \in 1..(b[2] - screen.last)
        BY <1>3
      <3>2. /\ screen.last + k \in 1..b[2] /\ k \in 1..(b[2] - b[1] + 1)
            /\ b[1] + k - 1 = screen.last + k
        BY <1>1, <3>1
      <3> QED
        BY <1>4, <3>2
    <2>3. Len(all) = Len(old) + Len(fresh)
      BY <1>1, <1>3, <1>4, <1>5
    <2> HIDE DEF old, fresh, all
    <2> QED
      BY <1>3, <1>4, <1>5, <2>1, <2>2, <2>3, Joined
  <1>7. screen.shown = old
    BY DEF Shown
  <1> HIDE DEF fresh, all, old
  <1>8. Ingested(screen, screen.log, b) = [screen EXCEPT !.shown = all, !.last = b[2]]
    BY <1>2, <1>6, <1>7
  <1> QED
    BY <1>8 DEF all

\* The lines of a session up to n are a sequence of lines.
LEMMA LinesOK ==
  ASSUME NEW l \in Sessions, NEW n \in Nat
  PROVE  [k \in 1..n |-> <<l, k>>] \in Seq(Lines)
  BY DEF Lines

-----------------------------------------------------------------------------
(* every step keeps the invariant                                          *)

\* An append makes the log longer.
LEMMA AppendEventKeeps ==
  ASSUME FeedInv, NEW s \in Logs, AppendEvent(s)
  PROVE  FeedInv'
  <1>1. FeedTypeOK'
    BY DEF FeedInv, FeedTypeOK, AppendEvent
  <1>2. SameSession' /\ Generations' /\ Shown'
    BY DEF FeedInv, AppendEvent, SameSession, Generations, Current, Shown
  <1>3. InboxChained' /\ PipeChained'
    BY DEF FeedInv, AppendEvent, InboxChained, PipeChained, ReachedBy, SentBy, Current
  <1>4. WithinLog'
    <2>1. \A l \in Logs : tip[l] \in Nat /\ tip'[l] \in Nat /\ tip[l] <= tip'[l]
      BY DEF FeedInv, FeedTypeOK, AppendEvent
    <2>2. \A i \in 1..Len(pipe) : pipe[i][2] \in Nat
      BY BatchFields DEF FeedInv
    <2>3. \A i \in 1..Len(inbox) : inbox[i].batch[2] \in Nat
      BY MessageFields DEF FeedInv
    <2>4. task.after \in Nat /\ screen.last \in Nat /\ feed.cursor \in Nat
      BY Fields DEF FeedInv
    <2>5. task.state # "none" => screen.log \in Logs
      BY DEF FeedInv, SameSession
    <2>6. WithinLog /\ pipe' = pipe /\ inbox' = inbox /\ task' = task /\ screen' = screen
          /\ feed' = feed
      BY DEF FeedInv, AppendEvent
    <2>7. SUFFICES ASSUME task.state # "none"
                   PROVE  /\ task.after <= tip'[screen.log]
                          /\ screen.last <= tip'[screen.log]
                          /\ feed.up => feed.cursor <= tip'[screen.log]
                          /\ \A i \in 1..Len(pipe) : pipe[i][2] <= tip'[screen.log]
                          /\ \A i \in 1..Len(inbox) :
                               Current(i) => inbox[i].batch[2] <= tip'[screen.log]
      BY <2>6 DEF WithinLog, Current
    <2> DEFINE old == tip[screen.log]
               new == tip'[screen.log]
    <2>8. old \in Nat /\ new \in Nat /\ old <= new
      BY <2>1, <2>5, <2>7
    <2>9. /\ task.after <= old /\ screen.last <= old
          /\ feed.up => feed.cursor <= old
          /\ \A i \in 1..Len(pipe) : pipe[i][2] <= old
          /\ \A i \in 1..Len(inbox) : Current(i) => inbox[i].batch[2] <= old
      BY <2>6, <2>7 DEF WithinLog
    <2> HIDE DEF old, new
    <2>10. /\ task.after <= new /\ screen.last <= new
           /\ feed.up => feed.cursor <= new
           /\ \A i \in 1..Len(pipe) : pipe[i][2] <= new
           /\ \A i \in 1..Len(inbox) : Current(i) => inbox[i].batch[2] <= new
      BY <2>2, <2>3, <2>4, <2>8, <2>9
    <2> QED
      BY <2>10 DEF new
  <1> QED
    BY <1>1, <1>2, <1>3, <1>4 DEF FeedInv

\* A notification only wakes the connection.
LEMMA NotifyKeeps ==
  ASSUME FeedInv, NEW s \in Logs, Notify(s)
  PROVE  FeedInv'
  <1>1. /\ feed' \in Feeds /\ feed'.up = feed.up /\ feed'.log = feed.log
        /\ feed'.cursor = feed.cursor /\ feed'.draining = feed.draining
    BY BroadcastKeeps DEF FeedInv, Notify
  <1>2. FeedTypeOK'
    BY <1>1 DEF FeedInv, FeedTypeOK, Notify
  <1>3. SameSession' /\ Generations' /\ Shown' /\ WithinLog'
    BY <1>1 DEF FeedInv, Notify, SameSession, Generations, Current, Shown, WithinLog
  <1>4. InboxChained' /\ PipeChained'
    BY <1>1 DEF FeedInv, Notify, InboxChained, PipeChained, ReachedBy, SentBy, Current
  <1> QED
    BY <1>2, <1>3, <1>4 DEF FeedInv

\* A session that is activated starts a generation no message is of.
LEMMA ActivateSessionKeeps ==
  ASSUME FeedInv, NEW s \in Logs, ActivateSession(s)
  PROVE  FeedInv'
  <1>1. screen.gen \in Nat /\ Len(inbox) \in Nat
    BY Fields, LenProperties DEF FeedInv, FeedTypeOK
  <1>2. /\ screen'.log = s /\ screen'.gen = screen.gen + 1 /\ screen'.last = 0
        /\ screen'.shown = <<>>
        /\ task'.state = "connect" /\ task'.log = s /\ task'.gen = screen.gen + 1
        /\ task'.after = 0
        /\ ~feed'.up /\ ~feed'.draining /\ pipe' = <<>> /\ inbox' = inbox /\ tip' = tip
    BY DEF ActivateSession, NoFeed
  <1>3. FeedTypeOK'
    <2>1. feed' \in Feeds
      BY DEF ActivateSession, NoFeed, Feeds, Sessions
    <2>2. task' \in Tasks /\ screen' \in Screens
      BY <1>1 DEF ActivateSession, Tasks, Screens, Sessions
    <2> QED
      BY <2>1, <2>2 DEF FeedInv, FeedTypeOK, ActivateSession
  <1>4. \A i \in 1..Len(inbox') : inbox'[i].gen <= screen'.gen /\ inbox'[i].gen # screen'.gen
    <2>1. \A i \in 1..Len(inbox) : inbox[i].gen \in Nat /\ inbox[i].gen <= screen.gen
      BY MessageFields DEF FeedInv, Generations
    <2> QED
      BY <1>1, <1>2, <2>1
  <1>5. SameSession'
    BY <1>2 DEF SameSession
  <1>6. Generations'
    BY <1>2, <1>4 DEF Generations, Current
  <1>7. InboxChained' /\ PipeChained'
    <2>1. Len(inbox') > 0 => Len(inbox') \in 1..Len(inbox')
      BY <1>1, <1>2
    <2> QED
      BY <1>2, <1>4, <2>1 DEF InboxChained, PipeChained, ReachedBy, Current
  <1>8. WithinLog'
    BY <1>2, <1>4 DEF FeedInv, FeedTypeOK, WithinLog, Current
  <1>9. Shown'
    BY <1>2 DEF Shown
  <1> QED
    BY <1>3, <1>5, <1>6, <1>7, <1>8, <1>9 DEF FeedInv

\* A subscription starts from the task's cursor with nothing on the wire.
LEMMA ServeSubscribeKeeps ==
  ASSUME FeedInv, ServeSubscribe
  PROVE  FeedInv'
  <1>1. task.after \in Nat /\ task.log \in Sessions /\ task \in Tasks
    BY Fields DEF FeedInv, FeedTypeOK
  <1>2. /\ feed'.up /\ feed'.log = task.log /\ feed'.cursor = task.after /\ ~feed'.draining
        /\ task'.state = "live" /\ task'.log = task.log /\ task'.gen = task.gen
        /\ task'.after = task.after /\ task.state = "asked"
    BY <1>1 DEF ServeSubscribe, NoFeed, Tasks
  <1>3. /\ tip' = tip /\ pipe' = pipe /\ inbox' = inbox /\ screen' = screen
    BY DEF ServeSubscribe
  <1>4. pipe = <<>>
    BY <1>2 DEF FeedInv, SameSession
  <1>5. FeedTypeOK'
    <2>1. feed' \in Feeds
      <3>1. NoFeed \in Feeds
        BY DEF NoFeed, Feeds, Sessions
      <3> QED
        BY <1>1, <3>1 DEF ServeSubscribe, Feeds
    <2>2. task' \in Tasks
      BY <1>1 DEF ServeSubscribe, Tasks
    <2> QED
      BY <2>1, <2>2 DEF FeedInv, FeedTypeOK, ServeSubscribe
  <1>6. SameSession' /\ Generations' /\ Shown'
    BY <1>2, <1>3 DEF FeedInv, SameSession, Generations, Current, Shown
  <1>7. InboxChained' /\ PipeChained'
    BY <1>2, <1>3, <1>4 DEF FeedInv, InboxChained, PipeChained, ReachedBy, SentBy, Current
  <1>8. WithinLog'
    BY <1>2, <1>3 DEF FeedInv, WithinLog, Current
  <1> QED
    BY <1>5, <1>6, <1>7, <1>8 DEF FeedInv

\* Taking a notification only decides whether the connection drains.
LEMMA ReceiveKeeps ==
  ASSUME FeedInv, Receive
  PROVE  FeedInv'
  <1>1. feed \in Feeds /\ feed.queue \in Seq(Logs)
    BY Fields DEF FeedInv, FeedTypeOK
  <1>2. /\ feed' \in Feeds /\ feed'.up /\ feed.up /\ feed'.log = feed.log
        /\ feed'.cursor = feed.cursor
    <2>1. CASE feed.lagged /\ feed' = [feed EXCEPT !.lagged = FALSE]
      BY <1>1, <2>1 DEF Receive, Feeds
    <2>2. CASE /\ feed.queue # <<>>
               /\ feed' = [feed EXCEPT !.queue = Tail(@), !.draining = Head(feed.queue) = feed.log]
      <3>1. Tail(feed.queue) \in Seq(Logs)
        BY <1>1, <2>2, HeadTailProperties
      <3> QED
        BY <1>1, <2>2, <3>1 DEF Receive, Feeds
    <2> QED
      BY <2>1, <2>2 DEF Receive
  <1>3. /\ tip' = tip /\ pipe' = pipe /\ inbox' = inbox /\ screen' = screen /\ task' = task
    BY DEF Receive
  <1>4. FeedTypeOK'
    BY <1>2 DEF FeedInv, FeedTypeOK, Receive
  <1>5. SameSession' /\ Generations' /\ Shown' /\ WithinLog'
    BY <1>2, <1>3 DEF FeedInv, SameSession, Generations, Current, Shown, WithinLog
  <1>6. InboxChained' /\ PipeChained'
    BY <1>2, <1>3 DEF FeedInv, InboxChained, PipeChained, ReachedBy, SentBy, Current
  <1> QED
    BY <1>4, <1>5, <1>6 DEF FeedInv

\* The drain puts a batch on the wire that goes on where the last one ended.
LEMMA DrainKeeps ==
  ASSUME FeedInv, Drain
  PROVE  FeedInv'
  <1>1. /\ feed \in Feeds /\ feed.cursor \in Nat /\ feed.draining /\ feed.up
        /\ feed.log = screen.log /\ task.state = "live" /\ screen.log \in Logs
        /\ tip[screen.log] \in Nat /\ pipe \in Seq(Batches) /\ Len(pipe) \in Nat
        /\ task.after \in Nat
    <2>1. feed \in Feeds /\ feed.cursor \in Nat /\ pipe \in Seq(Batches) /\ task.after \in Nat
      BY Fields DEF FeedInv, FeedTypeOK
    <2>2. feed.draining /\ feed.up
      BY DEF Drain, FeedInv, SameSession
    <2>3. feed.log = screen.log /\ task.state = "live" /\ screen.log \in Logs
      BY <2>2 DEF FeedInv, SameSession
    <2> QED
      BY <2>1, <2>2, <2>3, LenProperties DEF FeedInv, FeedTypeOK
  <1>2. tip' = tip /\ unsent' = unsent /\ inbox' = inbox /\ screen' = screen /\ task' = task
        /\ breaks' = breaks
    BY DEF Drain
  <1>3. CASE feed.cursor < tip[feed.log]
    <2>1. PICK n \in (feed.cursor + 1)..tip[feed.log] :
             /\ pipe' = Append(pipe, <<feed.cursor + 1, n>>)
             /\ feed' = [feed EXCEPT !.cursor = n]
      BY <1>1, <1>3 DEF Drain
    <2> DEFINE b == <<feed.cursor + 1, n>>
    <2>2. /\ n \in Nat /\ n <= tip[screen.log] /\ feed.cursor + 1 <= n
          /\ b \in Batches /\ b[1] = feed.cursor + 1 /\ b[2] = n
      BY <1>1, <2>1 DEF Batches
    <2>3. /\ feed' \in Feeds /\ feed'.up /\ feed'.log = feed.log /\ feed'.cursor = n
      BY <1>1, <2>1, <2>2 DEF Feeds
    <2> HIDE DEF b
    <2>4. /\ pipe' \in Seq(Batches) /\ Len(pipe') = Len(pipe) + 1
          /\ \A i \in 1..Len(pipe) : pipe'[i] = pipe[i]
          /\ pipe'[Len(pipe) + 1] = b
      BY <1>1, <2>1, <2>2, AppendProperties DEF b
    <2>5. FeedTypeOK'
      BY <1>2, <2>3, <2>4 DEF FeedInv, FeedTypeOK
    <2>6. SameSession' /\ Generations' /\ Shown'
      BY <1>1, <1>2, <2>3 DEF FeedInv, SameSession, Generations, Current, Shown
    <2>7. InboxChained'
      BY <1>2 DEF FeedInv, InboxChained, ReachedBy, Current
    <2>8. PipeChained'
      <3>1. SentBy(Len(pipe)) = feed.cursor
        BY <1>1 DEF FeedInv, PipeChained
      <3>2. ASSUME NEW i \in 1..Len(pipe')
            PROVE  pipe'[i][1] = SentBy(i - 1)' + 1 /\ pipe'[i][1] <= pipe'[i][2]
        <4>1. SentBy(i - 1)' = SentBy(i - 1)
          BY <1>1, <1>2, <2>4 DEF SentBy
        <4>2. CASE i \in 1..Len(pipe)
          BY <2>4, <4>1, <4>2 DEF FeedInv, PipeChained
        <4>3. CASE i = Len(pipe) + 1
          <5>1. i - 1 = Len(pipe)
            BY <1>1, <4>3
          <5> QED
            BY <2>2, <2>4, <3>1, <4>1, <4>3, <5>1
        <4> QED
          BY <1>1, <2>4, <4>2, <4>3
      <3>3. SentBy(Len(pipe))' = feed'.cursor
        <4>1. Len(pipe') > 0
          BY <1>1, <2>4
        <4> QED
          BY <2>2, <2>3, <2>4, <4>1 DEF SentBy
      <3> QED
        BY <3>2, <3>3 DEF PipeChained
    <2>9. WithinLog'
      <3>1. ASSUME NEW i \in 1..Len(pipe') PROVE pipe'[i][2] <= tip[screen.log]
        <4>1. CASE i \in 1..Len(pipe)
          BY <1>1, <2>4, <4>1 DEF FeedInv, WithinLog
        <4>2. CASE i = Len(pipe) + 1
          BY <2>2, <2>4, <4>2
        <4> QED
          BY <1>1, <2>4, <4>1, <4>2
      <3> QED
        BY <1>2, <2>2, <2>3, <3>1 DEF FeedInv, WithinLog, Current
    <2> QED
      BY <2>5, <2>6, <2>7, <2>8, <2>9 DEF FeedInv
  <1>4. CASE ~(feed.cursor < tip[feed.log])
    <2>1. feed' = [feed EXCEPT !.draining = FALSE] /\ pipe' = pipe
      BY <1>1, <1>4 DEF Drain
    <2>2. /\ feed' \in Feeds /\ feed'.up /\ feed'.log = feed.log /\ feed'.cursor = feed.cursor
      BY <1>1, <2>1 DEF Feeds
    <2>3. FeedTypeOK'
      BY <1>2, <2>1, <2>2 DEF FeedInv, FeedTypeOK
    <2>4. SameSession' /\ Generations' /\ Shown' /\ WithinLog'
      BY <1>1, <1>2, <2>1, <2>2
         DEF FeedInv, SameSession, Generations, Current, Shown, WithinLog
    <2>5. InboxChained' /\ PipeChained'
      BY <1>1, <1>2, <2>1, <2>2
         DEF FeedInv, InboxChained, PipeChained, ReachedBy, SentBy, Current
    <2> QED
      BY <2>3, <2>4, <2>5 DEF FeedInv
  <1> QED
    BY <1>3, <1>4

\* Asking for a subscription changes the state of the task only.
LEMMA SubscribeLiveKeeps ==
  ASSUME FeedInv, SubscribeLive
  PROVE  FeedInv'
  <1>1. /\ task' \in Tasks /\ task.state = "connect" /\ task'.state = "asked"
        /\ task'.log = task.log /\ task'.gen = task.gen /\ task'.after = task.after
    BY DEF FeedInv, FeedTypeOK, SubscribeLive, Tasks
  <1>2. /\ tip' = tip /\ feed' = feed /\ pipe' = pipe /\ inbox' = inbox /\ screen' = screen
    BY DEF SubscribeLive
  <1>3. FeedTypeOK'
    BY <1>1 DEF FeedInv, FeedTypeOK, SubscribeLive
  <1>4. SameSession' /\ Generations' /\ Shown' /\ WithinLog'
    BY <1>1, <1>2 DEF FeedInv, SameSession, Generations, Current, Shown, WithinLog
  <1>5. InboxChained' /\ PipeChained'
    BY <1>1, <1>2 DEF FeedInv, InboxChained, PipeChained, ReachedBy, SentBy, Current
  <1> QED
    BY <1>3, <1>4, <1>5 DEF FeedInv

\* A lost connection leaves the task's cursor, and with it the chain to the screen.
LEMMA BreakKeeps ==
  ASSUME FeedInv, Break
  PROVE  FeedInv'
  <1>1. /\ task' \in Tasks /\ task.state # "none" /\ task'.state = "connect"
        /\ task'.log = task.log /\ task'.gen = task.gen /\ task'.after = task.after
    BY DEF FeedInv, FeedTypeOK, Break, Tasks
  <1>2. /\ tip' = tip /\ inbox' = inbox /\ screen' = screen
        /\ pipe' = <<>> /\ ~feed'.up /\ ~feed'.draining
    BY DEF Break, NoFeed
  <1>3. FeedTypeOK'
    <2>1. feed' \in Feeds
      BY DEF Break, NoFeed, Feeds, Sessions
    <2> QED
      BY <1>1, <2>1 DEF FeedInv, FeedTypeOK, Break
  <1>4. SameSession' /\ Generations' /\ Shown'
    BY <1>1, <1>2 DEF FeedInv, SameSession, Generations, Current, Shown
  <1>5. InboxChained' /\ PipeChained'
    BY <1>1, <1>2 DEF FeedInv, InboxChained, PipeChained, ReachedBy, SentBy, Current
  <1>6. WithinLog'
    BY <1>1, <1>2 DEF FeedInv, WithinLog, Current
  <1> QED
    BY <1>3, <1>4, <1>5, <1>6 DEF FeedInv

\* The task takes the first batch of the wire and passes it on: its cursor moves to the
\* end of the batch, which both chains share.
LEMMA NextBatchKeeps ==
  ASSUME FeedInv, NextBatch
  PROVE  FeedInv'
  <1> DEFINE h == pipe[1]
             m == [log |-> task.log, gen |-> task.gen, batch |-> h]
  <1>1. /\ pipe \in Seq(Batches) /\ Len(pipe) \in Nat \ {0} /\ Head(pipe) = h
        /\ inbox \in Seq(Messages) /\ Len(inbox) \in Nat /\ task \in Tasks
    BY EmptySeq, LenProperties DEF FeedInv, FeedTypeOK, NextBatch
  <1>2. /\ task.state = "live" /\ feed.up /\ task.log = screen.log /\ task.gen = screen.gen
        /\ screen.log \in Logs /\ task.after \in Nat /\ task.log \in Sessions /\ task.gen \in Nat
    BY Fields DEF FeedInv, SameSession, NextBatch
  <1>3. h \in Batches /\ h[1] \in Nat /\ h[2] \in Nat
    BY <1>1, BatchFields DEF FeedInv
  <1>4. h[1] = task.after + 1 /\ h[1] <= h[2] /\ h[2] <= tip[screen.log]
    <2>1. 1 \in 1..Len(pipe)
      BY <1>1
    <2>2. SentBy(1 - 1) = task.after
      BY DEF SentBy
    <2> QED
      BY <1>2, <2>1, <2>2 DEF FeedInv, PipeChained, WithinLog
  <1>5. m \in Messages /\ m.gen = screen.gen /\ m.log = screen.log /\ m.batch = h
    BY <1>2, <1>3 DEF Messages
  <1>6. /\ tip' = tip /\ unsent' = unsent /\ feed' = feed /\ screen' = screen
        /\ breaks' = breaks /\ inbox' = Append(inbox, m) /\ pipe' = Tail(pipe)
    BY <1>1 DEF NextBatch
  <1>7. /\ task' \in Tasks /\ task'.state = "live" /\ task'.log = task.log
        /\ task'.gen = task.gen /\ task'.after = h[2]
    <2>1. Head(pipe)[2] > task.after
      BY <1>1, <1>2, <1>3, <1>4
    <2>2. task' = [task EXCEPT !.after = h[2]]
      BY <1>1, <2>1 DEF NextBatch
    <2> QED
      BY <1>1, <1>2, <1>3, <2>2 DEF Tasks
  <1> HIDE DEF m, h
  <1>8. /\ inbox' \in Seq(Messages) /\ Len(inbox') = Len(inbox) + 1
        /\ \A i \in 1..Len(inbox) : inbox'[i] = inbox[i]
        /\ inbox'[Len(inbox) + 1] = m
    BY <1>1, <1>5, <1>6, AppendProperties
  <1>9. /\ pipe' \in Seq(Batches) /\ Len(pipe') = Len(pipe) - 1
        /\ \A i \in 1..Len(pipe') : pipe'[i] = pipe[i + 1]
    BY <1>1, <1>6, HeadTailProperties, EmptySeq
  <1>10. FeedTypeOK'
    BY <1>6, <1>7, <1>8, <1>9 DEF FeedInv, FeedTypeOK
  <1>11. SameSession' /\ Shown'
    BY <1>2, <1>6, <1>7 DEF FeedInv, SameSession, Shown
  <1>12. \A i \in 1..Len(inbox') : i \in 1..Len(inbox) \/ i = Len(inbox) + 1
    BY <1>1, <1>8
  <1>13. /\ \A i \in 1..Len(inbox') : i = Len(inbox) + 1 => Current(i)'
         /\ \A i \in 1..Len(inbox) : Current(i)' <=> Current(i)
    BY <1>5, <1>6, <1>8 DEF Current
  <1>14. Generations'
    <2>1. ASSUME NEW i \in 1..Len(inbox')
          PROVE  /\ inbox'[i].gen <= screen.gen
                 /\ inbox'[i].gen = screen.gen => inbox'[i].log = screen.log
      <3>1. CASE i \in 1..Len(inbox)
        BY <1>8, <3>1 DEF FeedInv, Generations, Current
      <3>2. CASE i = Len(inbox) + 1
        BY <1>2, <1>5, <1>8, <3>2
      <3> QED
        BY <1>12, <3>1, <3>2
    <2>2. ASSUME NEW i \in 1..Len(inbox'), NEW j \in i..Len(inbox'), Current(i)'
          PROVE  Current(j)'
      <3>1. CASE j = Len(inbox) + 1
        <4>1. j \in 1..Len(inbox')
          BY <1>1, <1>8, <3>1
        <4> QED
          BY <1>13, <3>1, <4>1
      <3>2. CASE j # Len(inbox) + 1
        <4>1. i \in 1..Len(inbox) /\ j \in i..Len(inbox) /\ j \in 1..Len(inbox)
          BY <1>1, <1>8, <3>2
        <4> QED
          BY <1>13, <2>2, <4>1 DEF FeedInv, Generations
      <3> QED
        BY <3>1, <3>2
    <2> QED
      BY <1>6, <1>7, <2>1, <2>2 DEF Generations, Current
  <1>15. InboxChained'
    <2>1. \A i \in 0..Len(inbox) : ReachedBy(i)' = ReachedBy(i)
      <3> SUFFICES ASSUME NEW i \in 0..Len(inbox) PROVE ReachedBy(i)' = ReachedBy(i)
        OBVIOUS
      <3>1. CASE i = 0
        BY <1>6, <3>1 DEF ReachedBy
      <3>2. CASE i \in 1..Len(inbox)
        BY <1>6, <1>8, <1>13, <3>2 DEF ReachedBy
      <3> QED
        BY <1>1, <3>1, <3>2
    <2>2. ReachedBy(Len(inbox)) = task.after
      BY <1>2 DEF FeedInv, InboxChained
    <2>3. ASSUME NEW i \in 1..Len(inbox'), Current(i)'
          PROVE  /\ inbox'[i].batch[1] = ReachedBy(i - 1)' + 1
                 /\ inbox'[i].batch[1] <= inbox'[i].batch[2]
      <3>1. i - 1 \in 0..Len(inbox)
        BY <1>1, <1>8
      <3>2. CASE i \in 1..Len(inbox)
        BY <1>8, <1>13, <2>1, <2>3, <3>1, <3>2 DEF FeedInv, InboxChained
      <3>3. CASE i = Len(inbox) + 1
        <4>1. i - 1 = Len(inbox)
          BY <1>1, <3>3
        <4> QED
          BY <1>4, <1>5, <1>8, <2>1, <2>2, <3>1, <3>3, <4>1
      <3> QED
        BY <1>12, <3>2, <3>3
    <2>4. ReachedBy(Len(inbox))' = task'.after
      <3>1. Len(inbox') > 0 /\ Len(inbox') \in 1..Len(inbox')
        BY <1>1, <1>8
      <3>2. Current(Len(inbox))'
        BY <1>8, <1>13, <3>1
      <3> QED
        BY <1>5, <1>7, <1>8, <3>1, <3>2 DEF ReachedBy
    <2> QED
      BY <2>3, <2>4 DEF InboxChained
  <1>16. PipeChained'
    <2>1. ASSUME NEW i \in 0..Len(pipe') PROVE SentBy(i)' = SentBy(i + 1)
      <3>1. CASE i = 0
        BY <1>7, <3>1 DEF SentBy, h
      <3>2. CASE i \in 1..Len(pipe')
        BY <1>9, <3>2 DEF SentBy
      <3> QED
        BY <1>1, <1>9, <3>1, <3>2
    <2>2. ASSUME NEW i \in 1..Len(pipe')
          PROVE  pipe'[i][1] = SentBy(i - 1)' + 1 /\ pipe'[i][1] <= pipe'[i][2]
      <3>1. i + 1 \in 1..Len(pipe) /\ i - 1 \in 0..Len(pipe') /\ (i + 1) - 1 = (i - 1) + 1
        BY <1>1, <1>9
      <3>2. pipe[i + 1][1] = SentBy((i + 1) - 1) + 1 /\ pipe[i + 1][1] <= pipe[i + 1][2]
        BY <3>1 DEF FeedInv, PipeChained
      <3>3. SentBy(i - 1)' = SentBy((i - 1) + 1)
        BY <2>1, <3>1
      <3> QED
        BY <1>9, <3>1, <3>2, <3>3
    <2>3. SentBy(Len(pipe))' = feed'.cursor
      <3>1. Len(pipe') \in 0..Len(pipe') /\ Len(pipe') + 1 = Len(pipe)
        BY <1>1, <1>9
      <3>2. SentBy(Len(pipe)) = feed.cursor
        BY <1>2 DEF FeedInv, PipeChained
      <3>3. SentBy(Len(pipe))' = SentBy(Len(pipe') + 1)
        BY <2>1, <3>1
      <3> QED
        BY <1>6, <3>1, <3>2, <3>3
    <2> QED
      BY <2>2, <2>3 DEF PipeChained
  <1>17. WithinLog'
    <2>1. ASSUME NEW i \in 1..Len(pipe') PROVE pipe'[i][2] <= tip[screen.log]
      <3>1. i + 1 \in 1..Len(pipe)
        BY <1>1, <1>9
      <3> QED
        BY <1>2, <1>9, <3>1 DEF FeedInv, WithinLog
    <2>2. ASSUME NEW i \in 1..Len(inbox'), Current(i)' PROVE inbox'[i].batch[2] <= tip[screen.log]
      <3>1. CASE i \in 1..Len(inbox)
        BY <1>2, <1>8, <1>13, <2>2, <3>1 DEF FeedInv, WithinLog
      <3>2. CASE i = Len(inbox) + 1
        BY <1>4, <1>5, <1>8, <3>2
      <3> QED
        BY <1>12, <3>1, <3>2
    <2> QED
      BY <1>2, <1>4, <1>6, <1>7, <2>1, <2>2 DEF FeedInv, WithinLog
  <1> QED
    BY <1>10, <1>11, <1>14, <1>15, <1>16, <1>17 DEF FeedInv

\* The main loop takes the first message: of another generation it is dropped, of this
\* one it goes on where the screen is.
LEMMA EventBatchKeeps ==
  ASSUME FeedInv, EventBatch
  PROVE  FeedInv'
  <1> DEFINE b == inbox[1].batch
  <1>1. /\ inbox \in Seq(Messages) /\ Len(inbox) \in Nat \ {0} /\ Head(inbox) = inbox[1]
        /\ 1 \in 1..Len(inbox) /\ inbox # <<>>
    <2>1. inbox \in Seq(Messages) /\ inbox # <<>>
      BY DEF FeedInv, FeedTypeOK, EventBatch
    <2>2. Len(inbox) \in Nat \ {0}
      BY <2>1, EmptySeq
    <2> QED
      BY <2>1, <2>2
  <1>2. /\ tip' = tip /\ unsent' = unsent /\ feed' = feed /\ pipe' = pipe /\ task' = task
        /\ breaks' = breaks /\ inbox' = Tail(inbox)
    BY DEF EventBatch
  <1>3. /\ inbox' \in Seq(Messages) /\ Len(inbox') = Len(inbox) - 1
        /\ \A i \in 1..Len(inbox') : inbox'[i] = inbox[i + 1]
    BY <1>1, <1>2, HeadTailProperties
  <1>4. \A i \in 1..Len(inbox') : i + 1 \in 1..Len(inbox)
    BY <1>1, <1>3
  <1>5. task.state # "none" /\ screen.log \in Logs /\ screen \in Screens
    BY <1>1 DEF FeedInv, FeedTypeOK, Generations, SameSession
  <1>6. /\ screen'.log = screen.log /\ screen'.gen = screen.gen /\ screen' \in Screens
        /\ screen'.shown = [k \in 1..screen'.last |-> <<screen.log, k>>]
        /\ screen'.last = ReachedBy(1) /\ ReachedBy(1) <= tip[screen.log]
    <2>1. CASE Current(1)
      <3>1. /\ b \in Batches /\ b[1] = screen.last + 1 /\ b[1] <= b[2] /\ b[2] \in Nat
            /\ b[2] <= tip[screen.log] /\ inbox[1].log = screen.log /\ ReachedBy(1) = b[2]
        <4>1. ReachedBy(1 - 1) = screen.last
          BY DEF ReachedBy
        <4>2. b \in Batches /\ b[2] \in Nat
          BY <1>1, MessageFields DEF FeedInv
        <4>3. b[1] = ReachedBy(1 - 1) + 1 /\ b[1] <= b[2]
          BY <1>1, <2>1 DEF FeedInv, InboxChained
        <4>4. inbox[1].log = screen.log
          BY <1>1, <2>1 DEF FeedInv, Generations
        <4>5. b[2] <= tip[screen.log]
          BY <1>1, <1>5, <2>1 DEF FeedInv, WithinLog
        <4>6. ReachedBy(1) = b[2]
          BY <2>1 DEF ReachedBy
        <4> QED
          BY <4>1, <4>2, <4>3, <4>4, <4>5, <4>6
      <3> DEFINE all == [k \in 1..b[2] |-> <<screen.log, k>>]
      <3>2. screen' = [screen EXCEPT !.shown = all, !.last = b[2]]
        <4>1. screen' = Ingested(screen, screen.log, b)
          BY <1>1, <2>1, <3>1 DEF EventBatch, Current
        <4> QED
          BY <3>1, <4>1, IngestedNext DEF FeedInv
      <3>3. all \in Seq(Lines)
        BY <1>5, <3>1, LinesOK DEF Sessions
      <3> HIDE DEF all, b
      <3>4. /\ screen'.log = screen.log /\ screen'.gen = screen.gen /\ screen'.last = b[2]
            /\ screen'.shown = all /\ screen' \in Screens
        BY <1>5, <3>1, <3>2, <3>3 DEF Screens
      <3> QED
        BY <3>1, <3>4 DEF all
    <2>2. CASE ~Current(1)
      <3>1. screen' = screen
        BY <1>1, <2>2 DEF EventBatch, Current
      <3>2. ReachedBy(1) = screen.last /\ screen.last <= tip[screen.log]
        BY <1>5, <2>2 DEF ReachedBy, FeedInv, WithinLog
      <3> QED
        BY <1>5, <3>1, <3>2 DEF FeedInv, Shown
    <2> QED
      BY <2>1, <2>2
  <1>7. \A i \in 1..Len(inbox') : Current(i)' <=> Current(i + 1)
    BY <1>3, <1>6 DEF Current
  <1>8. FeedTypeOK'
    BY <1>2, <1>3, <1>6 DEF FeedInv, FeedTypeOK
  <1>9. Shown'
    BY <1>6 DEF Shown
  <1>10. SameSession'
    BY <1>2, <1>5, <1>6 DEF FeedInv, SameSession
  <1>11. Generations'
    <2>1. ASSUME NEW i \in 1..Len(inbox')
          PROVE  /\ inbox'[i].gen <= screen'.gen
                 /\ Current(i)' => inbox'[i].log = screen'.log
      BY <1>3, <1>4, <1>6, <1>7 DEF FeedInv, Generations
    <2>2. ASSUME NEW i \in 1..Len(inbox'), NEW j \in i..Len(inbox'), Current(i)'
          PROVE  Current(j)'
      <3>1. j \in 1..Len(inbox') /\ j + 1 \in (i + 1)..Len(inbox) /\ i + 1 \in 1..Len(inbox)
        BY <1>1, <1>3
      <3> QED
        BY <1>7, <2>2, <3>1 DEF FeedInv, Generations
    <2> QED
      BY <1>2, <1>5, <2>1, <2>2 DEF Generations
  <1>12. ASSUME NEW i \in 0..Len(inbox') PROVE ReachedBy(i)' = ReachedBy(i + 1)
    <2>1. CASE i = 0
      BY <1>6, <2>1 DEF ReachedBy
    <2>2. CASE i \in 1..Len(inbox') /\ Current(i + 1)
      BY <1>3, <1>7, <2>2 DEF ReachedBy
    <2>3. CASE i \in 1..Len(inbox') /\ ~Current(i + 1)
      <3>1. i + 1 \in 1..Len(inbox)
        BY <1>4, <2>3
      <3>2. ~Current(1)
        BY <1>1, <2>3, <3>1 DEF FeedInv, Generations
      <3>3. screen'.last = screen.last
        BY <1>6, <3>2 DEF ReachedBy
      <3> QED
        BY <1>7, <2>3, <3>3 DEF ReachedBy
    <2> QED
      BY <1>1, <1>3, <2>1, <2>2, <2>3
  <1>13. InboxChained'
    <2>1. ASSUME NEW i \in 1..Len(inbox'), Current(i)'
          PROVE  /\ inbox'[i].batch[1] = ReachedBy(i - 1)' + 1
                 /\ inbox'[i].batch[1] <= inbox'[i].batch[2]
      <3>1. i + 1 \in 1..Len(inbox) /\ i - 1 \in 0..Len(inbox') /\ (i + 1) - 1 = (i - 1) + 1
        BY <1>1, <1>3
      <3>2. Current(i + 1)
        BY <1>7, <2>1
      <3>3. /\ inbox[i + 1].batch[1] = ReachedBy((i + 1) - 1) + 1
            /\ inbox[i + 1].batch[1] <= inbox[i + 1].batch[2]
        BY <3>1, <3>2 DEF FeedInv, InboxChained
      <3>4. ReachedBy(i - 1)' = ReachedBy((i - 1) + 1)
        BY <1>12, <3>1
      <3> QED
        BY <1>3, <3>1, <3>3, <3>4
    <2>2. ReachedBy(Len(inbox))' = task'.after
      <3>1. Len(inbox') \in 0..Len(inbox') /\ Len(inbox') + 1 = Len(inbox)
        BY <1>1, <1>3
      <3>2. ReachedBy(Len(inbox)) = task.after
        BY <1>5 DEF FeedInv, InboxChained
      <3>3. ReachedBy(Len(inbox))' = ReachedBy(Len(inbox') + 1)
        BY <1>12, <3>1
      <3> QED
        BY <1>2, <3>1, <3>2, <3>3
    <2> QED
      BY <2>1, <2>2 DEF InboxChained
  <1>14. PipeChained'
    BY <1>2 DEF FeedInv, PipeChained, SentBy
  <1>15. WithinLog'
    <2>1. ASSUME NEW i \in 1..Len(inbox'), Current(i)' PROVE inbox'[i].batch[2] <= tip[screen.log]
      BY <1>3, <1>4, <1>5, <1>7, <2>1 DEF FeedInv, WithinLog
    <2> QED
      BY <1>2, <1>6, <2>1 DEF FeedInv, WithinLog
  <1> QED
    BY <1>8, <1>9, <1>10, <1>11, <1>13, <1>14, <1>15 DEF FeedInv

-----------------------------------------------------------------------------
(* the theorems                                                            *)

\* Every step keeps the invariant.
LEMMA FeedInvNext == FeedInv /\ [FeedNext]_feedVars => FeedInv'
  <1> SUFFICES ASSUME FeedInv, [FeedNext]_feedVars PROVE FeedInv'
    OBVIOUS
  <1>1. CASE UNCHANGED feedVars
    <2>1. /\ tip' = tip /\ unsent' = unsent /\ feed' = feed /\ pipe' = pipe /\ task' = task
          /\ inbox' = inbox /\ screen' = screen /\ breaks' = breaks
      BY <1>1 DEF feedVars
    <2>2. FeedTypeOK' /\ SameSession' /\ Generations' /\ WithinLog' /\ Shown'
      BY <2>1 DEF FeedInv, FeedTypeOK, SameSession, Generations, WithinLog, Shown, Current
    <2>3. InboxChained' /\ PipeChained'
      BY <2>1 DEF FeedInv, InboxChained, PipeChained, ReachedBy, SentBy, Current
    <2> QED
      BY <2>2, <2>3 DEF FeedInv
  <1>2. CASE \E s \in Logs : AppendEvent(s) \/ Notify(s) \/ ActivateSession(s)
    BY <1>2, AppendEventKeeps, NotifyKeeps, ActivateSessionKeeps
  <1>3. CASE ServeClient
    BY <1>3, ServeSubscribeKeeps, ReceiveKeeps, DrainKeeps DEF ServeClient
  <1>4. CASE FollowEvents
    BY <1>4, SubscribeLiveKeeps, NextBatchKeeps DEF FollowEvents
  <1>5. CASE EventBatch \/ Break
    BY <1>5, EventBatchKeeps, BreakKeeps
  <1> QED
    BY <1>1, <1>2, <1>3, <1>4, <1>5 DEF FeedNext

\* The invariant always holds.
LEMMA FeedInvAlways == FeedSpec => []FeedInv
  BY FeedInitInv, FeedInvNext, PTL DEF FeedSpec

\* The variables of the feed keep their types.
THEOREM FeedTypeCorrect == FeedSpec => []FeedTypeOK
  <1>1. FeedInv => FeedTypeOK
    BY DEF FeedInv
  <1> QED
    BY <1>1, FeedInvAlways, PTL

\* The screen always shows the log of the active session from its first event on, every
\* event once and in order: batches lost with a connection are sent again from the
\* task's cursor, and messages of a generation that was left are dropped.
THEOREM TimelineIsFaithful == FeedSpec => []TimelineFaithful
  <1>1. FeedInv => TimelineFaithful
    <2> SUFFICES ASSUME FeedInv PROVE TimelineFaithful
      OBVIOUS
    <2>1. screen.log # "none" => screen.last <= tip[screen.log]
      BY DEF FeedInv, SameSession, WithinLog
    <2> QED
      BY <2>1 DEF FeedInv, Shown, TimelineFaithful
  <1> QED
    BY <1>1, FeedInvAlways, PTL

=============================================================================
