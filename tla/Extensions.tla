----------------------------- MODULE Extensions -----------------------------
(***************************************************************************)
(* Installed extensions: the ownership records, the install states and the *)
(* file of one destination path with its sidelined twin (path.disabled).   *)
(* Commands of the CLI plan and apply installs, remove, enable, disable,   *)
(* unload and repair them; every command is a process of its own and each  *)
(* of its database and file operations is a step.  A command may die       *)
(* between two steps; the user may edit the files between commands.        *)
(***************************************************************************)
EXTENDS Naturals, Sequences

CONSTANTS
    Commands,        \* CLI processes
    Versions,        \* contents of the extension's source over time
    MaxInstalls,     \* bound on installation ids
    MaxKills,        \* bound on commands that die
    MaxUserEdits     \* bound on edits of the user

ASSUME ExtensionConstants ==
    /\ Versions \cap {"none", "user"} = {}
    /\ MaxInstalls \in Nat /\ MaxKills \in Nat /\ MaxUserEdits \in Nat

VARIABLES
    active, sided,   \* contents of path and of path.disabled
    source,          \* content of the source file
    record,          \* the ownership record of the path: digest and installation
    install,         \* install state: status of each installation id
    installs,        \* number of installation ids handed out
    cmd, goes,       \* what each command does: its request and its next step
    kills, edits

extVars == <<active, sided, source, record, install, installs, cmd, goes, kills, edits>>
store == <<record, install>>
paths == <<active, sided>>
counts == <<installs, kills, edits>>

Installs == 1..MaxInstalls
NoRecord == [digest |-> "none", inst |-> 0]
Sidelined == {"disabled", "unloaded"}
NoCommand == [op |-> "none", inst |-> 0, bytes |-> "none", force |-> FALSE]

ExtInit ==
    /\ active \in {"none", "user"}
    /\ sided = "none"
    /\ source \in Versions
    /\ record = NoRecord
    /\ install = [n \in Installs |-> "none"]
    /\ installs = 0
    /\ cmd = [c \in Commands |-> NoCommand]
    /\ goes = [c \in Commands |-> "idle"]
    /\ kills = 0 /\ edits = 0

Go(c, there) == goes' = [goes EXCEPT ![c] = there]
End(c) == goes' = [goes EXCEPT ![c] = "idle"] /\ cmd' = [cmd EXCEPT ![c] = NoCommand]

Owned(i) == record # NoRecord /\ record.inst = i

-----------------------------------------------------------------------------
(* plan_install and apply_install                                          *)

\* The plan says whether the path exists; apply draws an id and reads the source.
PlanInstall(c) ==
    /\ goes[c] = "idle"
    /\ installs < MaxInstalls
    /\ installs' = installs + 1
    /\ cmd' = [cmd EXCEPT ![c] = [op |-> "install", inst |-> installs + 1,
                                  bytes |-> source, force |-> FALSE]]
    /\ Go(c, IF active = "none" THEN "create" ELSE "check")
    /\ UNCHANGED <<paths, source, store, kills, edits>>

\* OwnershipStore::create: no record and no file; then the record is inserted.
CreateRecord(c) ==
    /\ goes[c] = "create"
    /\ IF record = NoRecord /\ active = "none"
       THEN /\ record' = [digest |-> cmd[c].bytes, inst |-> cmd[c].inst]
            /\ Go(c, "write")
            /\ UNCHANGED cmd
       ELSE End(c) /\ UNCHANGED record
    /\ UNCHANGED <<paths, source, install, counts>>

WriteNew(c) ==
    /\ goes[c] = "write"
    /\ active' = cmd[c].bytes
    /\ Go(c, "put")
    /\ UNCHANGED <<sided, source, store, cmd, counts>>

\* ensure_can_overwrite, or straight to repair: a missing record ends the command,
\* and so does a file that is not what the record says, unless forced.
RepairCheckLoose(c) ==
    /\ goes[c] = "check"
    /\ IF record # NoRecord
       THEN Go(c, "overwrite") /\ UNCHANGED cmd
       ELSE End(c)
    /\ UNCHANGED <<paths, source, store, counts>>

RepairCheck(c) ==
    /\ goes[c] = "check"
    /\ IF record # NoRecord /\ (active \in {"none", record.digest} \/ cmd[c].force)
       THEN Go(c, "overwrite") /\ UNCHANGED cmd
       ELSE End(c)
    /\ UNCHANGED <<paths, source, store, counts>>

Overwrite(c) ==
    /\ goes[c] = "overwrite"
    /\ active' = cmd[c].bytes
    /\ Go(c, "digest")
    /\ UNCHANGED <<sided, source, store, cmd, counts>>

\* update_digest; an install goes on to rebind the record, a repair of a sidelined
\* install puts the file away again.
UpdateDigest(c) ==
    /\ goes[c] = "digest"
    /\ record' = IF record = NoRecord THEN record ELSE [record EXCEPT !.digest = cmd[c].bytes]
    /\ IF cmd[c].op = "install" THEN Go(c, "rebind") /\ UNCHANGED cmd
       ELSE IF cmd[c].op = "repair sidelined" THEN Go(c, "resideline") /\ UNCHANGED cmd
       ELSE End(c)
    /\ UNCHANGED <<paths, source, install, counts>>

Rebind(c) ==
    /\ goes[c] = "rebind"
    /\ IF record = NoRecord THEN End(c) /\ UNCHANGED record
       ELSE /\ record' = [record EXCEPT !.inst = cmd[c].inst]
            /\ Go(c, "put")
            /\ UNCHANGED cmd
    /\ UNCHANGED <<paths, source, install, counts>>

PutState(c) ==
    /\ goes[c] = "put"
    /\ install' = [install EXCEPT ![cmd[c].inst] = "enabled"]
    /\ End(c)
    /\ UNCHANGED <<paths, source, record, counts>>

-----------------------------------------------------------------------------
(* remove_install                                                          *)

\* The records of the installation are listed; without one only the state goes.
BeginRemove(c, i) ==
    /\ goes[c] = "idle"
    /\ install[i] # "none"
    /\ cmd' = [cmd EXCEPT ![c] = [NoCommand EXCEPT !.op = "remove", !.inst = i]]
    /\ Go(c, IF Owned(i) THEN "unside" ELSE "forget")
    /\ UNCHANGED <<paths, source, store, counts>>

\* The sidelined twin is deleted as it is.
RemoveSidelined(c) ==
    /\ goes[c] = "unside"
    /\ sided' = "none"
    /\ Go(c, "prove")
    /\ UNCHANGED <<active, source, store, cmd, counts>>

\* A file is removed that was not compared with its record.
UninstallUnproved(c) ==
    /\ goes[c] = "prove"
    /\ IF record = NoRecord THEN End(c) /\ UNCHANGED active
       ELSE active' = "none" /\ Go(c, "delete") /\ UNCHANGED cmd
    /\ UNCHANGED <<sided, source, store, counts>>

\* uninstall: a record and a file with its digest, or no file.
Uninstall(c) ==
    /\ goes[c] = "prove"
    /\ IF record # NoRecord /\ active \in {"none", record.digest}
       THEN active' = "none" /\ Go(c, "delete") /\ UNCHANGED cmd
       ELSE End(c) /\ UNCHANGED active
    /\ UNCHANGED <<sided, source, store, counts>>

\* The file is gone and its record stays.
DeleteKeepsRecord(c) ==
    /\ goes[c] = "delete"
    /\ Go(c, "forget")
    /\ UNCHANGED <<paths, source, store, cmd, counts>>

DeleteRecord(c) ==
    /\ goes[c] = "delete"
    /\ record' = NoRecord
    /\ Go(c, "forget")
    /\ UNCHANGED <<paths, source, install, cmd, counts>>

DeleteState(c) ==
    /\ goes[c] = "forget"
    /\ install' = [install EXCEPT ![cmd[c].inst] = "none"]
    /\ End(c)
    /\ UNCHANGED <<paths, source, record, counts>>

-----------------------------------------------------------------------------
(* set_lifecycle_status                                                    *)

BeginStatus(c, i, status) ==
    /\ goes[c] = "idle"
    /\ install[i] # "none"
    /\ cmd' = [cmd EXCEPT ![c] = [NoCommand EXCEPT !.op = status, !.inst = i]]
    /\ Go(c, IF Owned(i) THEN "move" ELSE "status")
    /\ UNCHANGED <<paths, source, store, counts>>

\* Enable moves the twin back unless the path is taken; disable and unload move
\* the file away, over whatever the twin is.
MoveFile(c) ==
    /\ goes[c] = "move"
    /\ IF cmd[c].op = "enabled"
       THEN IF active = "none" THEN active' = sided /\ sided' = "none" ELSE UNCHANGED paths
       ELSE IF active # "none" THEN sided' = active /\ active' = "none" ELSE UNCHANGED paths
    /\ Go(c, "status")
    /\ UNCHANGED <<source, store, cmd, counts>>

\* The state read at the beginning is written back with the new status, if there
\* still is a row.
UpdateStatus(c) ==
    /\ goes[c] = "status"
    /\ install' = [install EXCEPT ![cmd[c].inst] = IF @ = "none" THEN @ ELSE cmd[c].op]
    /\ End(c)
    /\ UNCHANGED <<paths, source, record, counts>>

-----------------------------------------------------------------------------
(* repair_install                                                          *)

\* check_owned_path: the twin of a sidelined install if it is there.
Healthy(i) ==
    IF install[i] = "enabled" THEN active = record.digest
    ELSE IF sided # "none" THEN sided = record.digest
    ELSE active = record.digest

BeginRepair(c, i, force) ==
    /\ goes[c] = "idle"
    /\ install[i] # "none"
    /\ Owned(i) /\ ~Healthy(i)
    /\ cmd' = [cmd EXCEPT ![c] =
                 [op |-> IF install[i] = "enabled" THEN "repair" ELSE "repair sidelined",
                  inst |-> i, bytes |-> source, force |-> force]]
    /\ Go(c, "check")
    /\ UNCHANGED <<paths, source, store, counts>>

\* The old twin is removed, then the new file takes its place.
RemoveTwin(c) ==
    /\ goes[c] = "resideline"
    /\ sided' = "none"
    /\ Go(c, "aside")
    /\ UNCHANGED <<active, source, store, cmd, counts>>

Resideline(c) ==
    /\ goes[c] = "aside"
    /\ sided' = active
    /\ active' = "none"
    /\ End(c)
    /\ UNCHANGED <<source, store, counts>>

-----------------------------------------------------------------------------
(* the world                                                               *)

CommandDies(c) ==
    /\ kills < MaxKills
    /\ goes[c] # "idle"
    /\ kills' = kills + 1
    /\ End(c)
    /\ UNCHANGED <<paths, source, store, installs, edits>>

\* Between commands the user writes or deletes the file, or edits the twin.
UserEditsFile ==
    /\ edits < MaxUserEdits
    /\ \A c \in Commands : goes[c] = "idle"
    /\ edits' = edits + 1
    /\ \/ active' \in {"user", "none"} \ {active} /\ UNCHANGED sided
       \/ sided # "none" /\ sided' = "user" /\ UNCHANGED active
    /\ UNCHANGED <<source, store, cmd, goes, installs, kills>>

SourceChanges ==
    /\ source' \in Versions \ {source}
    /\ \A c \in Commands : goes[c] = "idle"
    /\ UNCHANGED <<paths, store, cmd, goes, counts>>

ExtStep(c) ==
    \/ PlanInstall(c) \/ CreateRecord(c) \/ WriteNew(c) \/ RepairCheck(c) \/ Overwrite(c)
    \/ UpdateDigest(c) \/ Rebind(c) \/ PutState(c)
    \/ RemoveSidelined(c) \/ Uninstall(c) \/ DeleteRecord(c) \/ DeleteState(c)
    \/ MoveFile(c) \/ UpdateStatus(c) \/ RemoveTwin(c) \/ Resideline(c)
    \/ CommandDies(c)
    \/ \E i \in Installs :
         \/ BeginRemove(c, i)
         \/ \E status \in {"enabled", "disabled", "unloaded"} : BeginStatus(c, i, status)
         \/ \E force \in BOOLEAN : BeginRepair(c, i, force)

ExtNext == (\E c \in Commands : ExtStep(c)) \/ UserEditsFile \/ SourceChanges

ExtSpec == ExtInit /\ [][ExtNext]_extVars

-----------------------------------------------------------------------------

\* Files, records and install states keep their shape.
ExtTypeOK ==
    /\ active \in Versions \cup {"none", "user"}
    /\ sided \in Versions \cup {"none", "user"}
    /\ record = NoRecord \/ record \in [digest : Versions, inst : 1..installs]
    /\ install \in [Installs -> {"none", "enabled"} \cup Sidelined]

\* What the user put at the path stays: over installs, removals, changes of status
\* and repairs that follow one another or die half way and are tried again, no step
\* of a command that was not forced replaces or removes it; disabling at most moves
\* it to the twin.  (With two commands at a time this is lost: an enable may move a
\* file back between the check and the write of a repair.)
UserFileKept ==
    [][\A c \in Commands :
         (active = "user" /\ ExtStep(c) /\ ~cmd[c].force)
            => active' = "user" \/ sided' = "user"]_extVars

\* What is installed can be taken apart: after any sequence of complete commands,
\* reinstalls over an older installation included, the record names an installation
\* with a state row, so remove and repair find it.  (A command that dies between its
\* record and its state leaves a record no command can remove.)
RecordHasState ==
    (kills = 0 /\ \A c \in Commands : goes[c] = "idle") =>
        (record # NoRecord => install[record.inst] # "none")

=============================================================================
