----------------------------- MODULE Worktrees -----------------------------
(***************************************************************************)
(* WorktreeManager: the durable bindings of sessions to git worktrees, the *)
(* directories and git's registrations behind them, and the requests that  *)
(* create, stop, resume, switch, close, mark, clean up and salvage them.   *)
(* A request is a row read, git or file operations and a row update, with  *)
(* nothing held in between; the daemon may die and the user may interfere  *)
(* between any two of them.                                                *)
(***************************************************************************)
EXTENDS Naturals, Sequences, SequencesExt

CONSTANTS
    Owners,        \* sessions
    Agents,        \* connections
    MaxTrees,      \* bound on worktree ids
    MaxWtDeaths,   \* bound on daemon deaths
    MaxMeddling    \* bound on what the user does to directory or registration

Branches == {"own", "other"}

\* What a connection does next, when it is not creating a worktree for an owner or
\* switching to a branch.
Doing == {"idle", "stop", "resume", "remove", "closed", "salvage", "relocated", "added",
          "salvaged"}

ASSUME WorktreeConstants ==
    /\ Owners \cap (Doing \cup Branches \cup {"none"}) = {}
    /\ MaxTrees \in Nat
    /\ MaxWtDeaths \in Nat
    /\ MaxMeddling \in Nat

VARIABLES
    binding,       \* rows: owner, state and branch of each worktree id
    recent,        \* ids with a row, by updated_unix_ms
    dir,           \* ids whose directory exists
    registered,    \* ids git has a registration for
    head,          \* the branch checked out in each directory
    files,         \* ids with uncommitted files in the directory
    backup,        \* <id>.salvage-bak: "none", "clean" or "files"
    owed,          \* ids whose files nobody has asked to remove
    trees,         \* number of worktree ids handed out
    busy,          \* what each connection does next
    target,        \* the worktree it works on
    wtDeaths, meddled

wtVars == <<binding, recent, dir, registered, head, files, backup, owed, trees,
            busy, target, wtDeaths, meddled>>
disk == <<dir, registered, head, files, backup, owed>>
rows == <<binding, recent>>

Trees == 1..MaxTrees
NoBinding == [owner |-> "none", state |-> "none", branch |-> "own"]
OpenStates == {"active", "stopped", "stale"}

WtInit ==
    /\ binding = [t \in Trees |-> NoBinding]
    /\ recent = <<>>
    /\ dir = {} /\ registered = {} /\ files = {} /\ owed = {}
    /\ head = [t \in Trees |-> "own"]
    /\ backup = [t \in Trees |-> "none"]
    /\ trees = 0
    /\ busy = [a \in Agents |-> "idle"]
    /\ target = [a \in Agents |-> 0]
    /\ wtDeaths = 0 /\ meddled = 0

Proceed(a, there) == busy' = [busy EXCEPT ![a] = there]
Rest(a) ==
    /\ busy' = [busy EXCEPT ![a] = "idle"]
    /\ target' = [target EXCEPT ![a] = 0]
Aim(a, t) == target' = [target EXCEPT ![a] = t]

\* get_open_by_session: the open binding that was updated last, 0 for none.
OpenOf(s) ==
    LET open == {k \in 1..Len(recent) : binding[recent[k]].owner = s
                                        /\ binding[recent[k]].state \in OpenStates}
    IN  IF open = {} THEN 0 ELSE recent[CHOOSE k \in open : \A j \in open : j <= k]

\* set_state and set_branch: an update by id, whatever the row says by now.
Touch(t) == recent' = Append(RemoveFirst(recent, t), t)
SetWtState(t, st) == binding' = [binding EXCEPT ![t].state = st] /\ Touch(t)

-----------------------------------------------------------------------------
(* create_inner                                                            *)

\* A create that looks at active bindings only.
CreateUnlessActive(a, s) ==
    /\ busy[a] = "idle"
    /\ trees < MaxTrees
    /\ OpenOf(s) # 0 => binding[OpenOf(s)].state # "active"
    /\ busy' = [busy EXCEPT ![a] = s]
    /\ UNCHANGED <<rows, disk, trees, target, wtDeaths, meddled>>

\* Refused when the session has an open binding.
CreateCheck(a, s) ==
    /\ busy[a] = "idle"
    /\ trees < MaxTrees
    /\ OpenOf(s) = 0
    /\ busy' = [busy EXCEPT ![a] = s]
    /\ UNCHANGED <<rows, disk, trees, target, wtDeaths, meddled>>

\* git worktree add -b, or git's refusal.
CreateAdd(a, s) ==
    /\ busy[a] = s
    /\ target[a] = 0
    /\ \/ /\ trees < MaxTrees
          /\ trees' = trees + 1
          /\ dir' = dir \cup {trees + 1}
          /\ registered' = registered \cup {trees + 1}
          /\ Aim(a, trees + 1)
          /\ UNCHANGED <<head, files, backup, owed, busy>>
          /\ binding' = [binding EXCEPT ![trees + 1].owner = s]
       \/ Rest(a) /\ UNCHANGED <<binding, disk, trees>>
    /\ UNCHANGED <<recent, wtDeaths, meddled>>

\* insert_binding; when it fails the worktree stays without a row.  (The owner of an
\* id without a row is only what its creator remembers of it.)
CreateInsert(a, s) ==
    /\ busy[a] = s
    /\ target[a] # 0
    /\ SetWtState(target[a], "active") \/ UNCHANGED rows
    /\ Rest(a)
    /\ UNCHANGED <<disk, trees, wtDeaths, meddled>>

-----------------------------------------------------------------------------
(* stop, resume, switch_bound_branch                                       *)

ReadStop(a, s) ==
    /\ busy[a] = "idle"
    /\ OpenOf(s) # 0
    /\ binding[OpenOf(s)].state = "active"
    /\ Aim(a, OpenOf(s))
    /\ Proceed(a, "stop")
    /\ UNCHANGED <<rows, disk, trees, wtDeaths, meddled>>

ReadResume(a, s) ==
    /\ busy[a] = "idle"
    /\ OpenOf(s) # 0
    /\ binding[OpenOf(s)].state \in {"active", "stopped"}
    /\ OpenOf(s) \in dir
    /\ Aim(a, OpenOf(s))
    /\ Proceed(a, "resume")
    /\ UNCHANGED <<rows, disk, trees, wtDeaths, meddled>>

SetState(a) ==
    /\ busy[a] \in {"stop", "resume", "salvaged"}
    /\ SetWtState(target[a], IF busy[a] = "stop" THEN "stopped" ELSE "active")
    /\ Rest(a)
    /\ UNCHANGED <<disk, trees, wtDeaths, meddled>>

\* A checkout in the directory, refused while it has uncommitted files.
SwitchCheckout(a, s, b) ==
    /\ busy[a] = "idle"
    /\ OpenOf(s) # 0
    /\ binding[OpenOf(s)].state # "stale"
    /\ OpenOf(s) \in (dir \cap registered) \ files
    /\ head' = [head EXCEPT ![OpenOf(s)] = b]
    /\ Aim(a, OpenOf(s))
    /\ busy' = [busy EXCEPT ![a] = b]
    /\ UNCHANGED <<rows, dir, registered, files, backup, owed, trees, wtDeaths, meddled>>

\* The branch a failed request left behind: the name is not saved.
SwitchForgets(a, b) ==
    /\ busy[a] = b
    /\ Rest(a)
    /\ UNCHANGED <<rows, disk, trees, wtDeaths, meddled>>

\* set_branch with the branch asked for.
SwitchPersist(a, b) ==
    /\ busy[a] = b
    /\ binding' = [binding EXCEPT ![target[a]].branch = b]
    /\ Touch(target[a])
    /\ Rest(a)
    /\ UNCHANGED <<disk, trees, wtDeaths, meddled>>

-----------------------------------------------------------------------------
(* close and cleanup_stale                                                 *)

\* CloseWorktree names a worktree; close is given its session and takes the open
\* binding of that.
ReadClose(a, t) ==
    /\ busy[a] = "idle"
    /\ t \in Range(recent)
    /\ OpenOf(binding[t].owner) # 0
    /\ Aim(a, OpenOf(binding[t].owner))
    /\ Proceed(a, "remove")
    /\ UNCHANGED <<rows, disk, trees, wtDeaths, meddled>>

\* cleanup_stale refuses what is still there: salvage is for that.
ReadCleanup(a, t) ==
    /\ busy[a] = "idle"
    /\ binding[t].state = "stale"
    /\ t \notin dir
    /\ Aim(a, t)
    /\ Proceed(a, "remove")
    /\ UNCHANGED <<rows, disk, trees, wtDeaths, meddled>>

\* The directory is left to git, which has forgotten about it.
RemoveRegistered(a) ==
    /\ busy[a] = "remove"
    /\ dir' = dir \ ({target[a]} \cap registered)
    /\ files' = files \cap dir'
    /\ owed' = owed \ ({target[a]} \cap registered)
    /\ registered' = registered \ {target[a]}
    /\ Proceed(a, "closed")
    /\ UNCHANGED <<rows, head, backup, trees, target, wtDeaths, meddled>>

\* remove_worktree_disk: git worktree remove --force or, when git refuses,
\* remove_dir_all and a prune whose failure is ignored.  A directory that cannot
\* be removed is an error.
RemoveDisk(a) ==
    /\ busy[a] = "remove"
    /\ dir' = dir \ {target[a]}
    /\ files' = files \ {target[a]}
    /\ owed' = owed \ {target[a]}
    /\ registered' \in {registered, registered \ {target[a]}}
    /\ Proceed(a, "closed")
    /\ UNCHANGED <<rows, head, backup, trees, target, wtDeaths, meddled>>

RemoveFails(a) ==
    /\ busy[a] = "remove"
    /\ target[a] \in dir
    /\ Rest(a)
    /\ UNCHANGED <<rows, disk, trees, wtDeaths, meddled>>

SetClosed(a) ==
    /\ busy[a] = "closed"
    /\ SetWtState(target[a], "closed")
    /\ Rest(a)
    /\ UNCHANGED <<disk, trees, wtDeaths, meddled>>

-----------------------------------------------------------------------------
(* mark_stale and salvage                                                  *)

\* mark_stale for one binding: the directory or its registration is missing.
MarkStale(a, t) ==
    /\ busy[a] = "idle"
    /\ binding[t].state \in {"active", "stopped"}
    /\ t \notin dir \cap registered
    /\ SetWtState(t, "stale")
    /\ UNCHANGED <<disk, trees, busy, target, wtDeaths, meddled>>

\* A directory git still knows only needs its state.
ReadSalvage(a, t) ==
    /\ busy[a] = "idle"
    /\ binding[t].state \in OpenStates
    /\ t \in dir
    /\ Aim(a, t)
    /\ Proceed(a, IF t \in registered THEN "salvaged" ELSE "salvage")
    /\ UNCHANGED <<rows, disk, trees, wtDeaths, meddled>>

\* An old backup is deleted and the directory, if it is still there, becomes the
\* new one.
Relocate(a) ==
    /\ busy[a] = "salvage"
    /\ IF target[a] \in dir
       THEN /\ backup' = [backup EXCEPT ![target[a]] =
                            IF target[a] \in files THEN "files" ELSE "clean"]
            /\ dir' = dir \ {target[a]}
            /\ files' = files \ {target[a]}
            /\ Proceed(a, "relocated")
            /\ UNCHANGED target
       ELSE /\ backup' = [backup EXCEPT ![target[a]] = "none"]
            /\ Rest(a)
            /\ UNCHANGED <<dir, files>>
    /\ UNCHANGED <<rows, registered, head, owed, trees, wtDeaths, meddled>>

\* git worktree add with the branch of the row; when it fails the backup is moved back.
ReAdd(a) ==
    /\ busy[a] = "relocated"
    /\ dir' = dir \cup {target[a]}
    /\ \/ /\ registered' = registered \cup {target[a]}
          /\ head' = [head EXCEPT ![target[a]] = binding[target[a]].branch]
          /\ Proceed(a, "added")
          /\ UNCHANGED <<files, backup, target>>
       \/ /\ files' = IF backup[target[a]] = "files" THEN files \cup {target[a]} ELSE files
          /\ backup' = [backup EXCEPT ![target[a]] = "none"]
          /\ Rest(a)
          /\ UNCHANGED <<registered, head>>
    /\ UNCHANGED <<rows, owed, trees, wtDeaths, meddled>>

\* The backup is deleted without the overlay.
OverlaySkipped(a) ==
    /\ busy[a] = "added"
    /\ backup' = [backup EXCEPT ![target[a]] = "none"]
    /\ Proceed(a, "salvaged")
    /\ UNCHANGED <<rows, dir, registered, head, files, owed, trees, target, wtDeaths, meddled>>

\* copy_tree_overlay_skip_git; the backup goes after it.
Overlay(a) ==
    /\ busy[a] = "added"
    /\ files' = IF backup[target[a]] = "files" THEN files \cup {target[a]} ELSE files
    /\ dir' = dir \cup {target[a]}
    /\ backup' = [backup EXCEPT ![target[a]] = "none"]
    /\ Proceed(a, "salvaged")
    /\ UNCHANGED <<rows, registered, head, owed, trees, target, wtDeaths, meddled>>

-----------------------------------------------------------------------------
(* the world                                                               *)

\* An agent leaves uncommitted files in a worktree.
AgentWrites(t) ==
    /\ t \in dir \ files
    /\ binding[t].state = "active"
    /\ files' = files \cup {t}
    /\ owed' = owed \cup {t}
    /\ UNCHANGED <<rows, dir, registered, head, backup, trees, busy, target, wtDeaths, meddled>>

\* The user deletes a directory, or the registration is lost.
UserMeddles(t) ==
    /\ meddled < MaxMeddling
    /\ meddled' = meddled + 1
    /\ \/ t \in dir /\ dir' = dir \ {t} /\ files' = files \ {t} /\ owed' = owed \ {t}
          /\ UNCHANGED registered
       \/ t \in registered /\ registered' = registered \ {t} /\ UNCHANGED <<dir, files, owed>>
    /\ UNCHANGED <<rows, head, backup, trees, busy, target, wtDeaths>>

WtDies ==
    /\ wtDeaths < MaxWtDeaths
    /\ \E a \in Agents : busy[a] # "idle"
    /\ wtDeaths' = wtDeaths + 1
    /\ busy' = [a \in Agents |-> "idle"]
    /\ target' = [a \in Agents |-> 0]
    /\ UNCHANGED <<rows, disk, trees, meddled>>

WtNext ==
    \/ \E a \in Agents, s \in Owners :
         \/ CreateCheck(a, s) \/ CreateAdd(a, s) \/ CreateInsert(a, s)
         \/ ReadStop(a, s) \/ ReadResume(a, s)
         \/ \E b \in Branches : SwitchCheckout(a, s, b)
    \/ \E a \in Agents, t \in Trees :
         ReadClose(a, t) \/ ReadCleanup(a, t) \/ MarkStale(a, t) \/ ReadSalvage(a, t)
    \/ \E a \in Agents : SetState(a) \/ RemoveDisk(a) \/ RemoveFails(a) \/ SetClosed(a)
                         \/ Relocate(a) \/ ReAdd(a) \/ Overlay(a)
                         \/ \E b \in Branches : SwitchPersist(a, b)
    \/ \E t \in Trees : AgentWrites(t) \/ UserMeddles(t)
    \/ WtDies

WtSpec == WtInit /\ [][WtNext]_wtVars

-----------------------------------------------------------------------------

\* Rows, directories and registrations keep their shape.
WtTypeOK ==
    /\ binding \in [Trees -> [owner : Owners \cup {"none"},
                              state : OpenStates \cup {"none", "closed"}, branch : Branches]]
    /\ Range(recent) \subseteq 1..trees
    /\ dir \subseteq 1..trees /\ registered \subseteq 1..trees /\ files \subseteq dir
    /\ backup \in [Trees -> {"none", "clean", "files"}]

\* A session has one open worktree at a time, over stale ones, failed removals
\* and deaths of the daemon; the requests of a session come one after the other.
OneOpenBinding ==
    \A t, u \in Range(recent) :
        (binding[t].state \in OpenStates /\ binding[u].state \in OpenStates
         /\ binding[t].owner = binding[u].owner) => t = u

\* What is closed is gone: no directory is left behind a row that no request will
\* look at again, whatever git knew of it and however far a removal or a salvage
\* got before.
ClosedIsGone ==
    \A t \in Trees : binding[t].state = "closed" => t \notin dir

\* Salvage keeps files: unless a close, a cleanup or the user removed them, the
\* files an agent left are in the directory, or in a backup that a salvage under
\* way will restore.  (A death in the middle is the exception.)
FilesSurvive ==
    wtDeaths = 0 =>
        \A t \in owed \ files : backup[t] = "files" /\ \E a \in Agents :
            target[a] = t /\ busy[a] \in {"relocated", "added"}

\* The branch of the row is the one that is checked out, as merge and salvage take
\* it to be, also when checkouts fail and a salvage adds the worktree again.
BranchRecorded ==
    wtDeaths = 0 =>
        \A t \in Range(recent) :
            (t \in dir /\ head[t] # binding[t].branch) =>
                \E a \in Agents : target[a] = t /\ busy[a] = head[t]

=============================================================================
