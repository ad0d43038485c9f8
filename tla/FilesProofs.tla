----------------------------- MODULE FilesProofs -----------------------------
(***************************************************************************)
(* Rows and the files they describe: extensions with their ownership       *)
(* records, and worktrees with their bindings.  The user's file and the    *)
(* agents' files survive, records can be taken apart and what is closed is *)
(* gone, for any number of paths' versions, installations, worktrees,      *)
(* owners, interferences of the user and deaths in between; commands and   *)
(* requests come one after the other.                                      *)
(***************************************************************************)
EXTENDS Worktrees, Extensions, SequenceTheorems, WellFoundedInduction, TLAPS

\* Commands, or the requests of the connections, come one after the other: there is
\* one process that makes them.
OneAtATime(S) == \A x, y \in S : x = y

-----------------------------------------------------------------------------
(* extensions                                                              *)

Contents == Versions \cup {"none", "user"}
Statuses == {"enabled"} \cup Sidelined
Records == [digest : Versions, inst : Nat]
Placing == {"create", "write", "check", "overwrite", "digest", "rebind", "put"}
Moving == {"unside", "prove", "delete", "forget", "move", "status", "resideline", "aside"}
Requests == [op : {"none", "install", "remove", "repair", "repair sidelined"} \cup Statuses,
             inst : Nat, bytes : Versions \cup {"none"}, force : BOOLEAN]

\* The types of the variables of Extensions.
ExtTypes ==
    /\ active \in Contents /\ sided \in Contents /\ source \in Versions
    /\ record = NoRecord \/ record \in Records
    /\ install \in [Installs -> Statuses \cup {"none"}]
    /\ installs \in Nat
    /\ kills \in Nat
CommandTypes ==
    /\ cmd \in [Commands -> Requests]
    /\ goes \in [Commands -> Placing \cup Moving \cup {"idle"}]

\* Ids are the ones handed out.
IdsHandedOut ==
    /\ installs <= MaxInstalls
    /\ record # NoRecord => record.inst \in 1..installs
    /\ \A i \in Installs : install[i] # "none" => i \in 1..installs
    /\ \A c \in Commands : goes[c] # "idle" => cmd[c].inst \in 1..installs

\* What a step of a command finds in its request.
ToldWhat ==
    \A c \in Commands :
        /\ goes[c] \in Placing => cmd[c].bytes \in Versions
        /\ goes[c] = "status" => cmd[c].op \in Statuses
        /\ goes[c] = "move" => cmd[c].op \in Statuses

\* The part of the invariant that any number of commands keep at a time.
ExtShape == ExtTypes /\ CommandTypes /\ IdsHandedOut /\ ToldWhat

\* A command is about to write only where it saw no file of the user.
WriteIsSafe ==
    \A c \in Commands :
        /\ goes[c] = "write" => active = "none"
        /\ goes[c] = "overwrite" /\ ~cmd[c].force => active # "user"

\* As long as no command died, a record has its state, or the command that made it, or
\* rebound it, is about to write that.
StateFollows ==
    (kills = 0 /\ record # NoRecord) =>
        \/ install[record.inst] # "none"
        \/ \E c \in Commands : goes[c] \in {"write", "put"} /\ cmd[c].inst = record.inst

\* A state is removed when its record has gone.
ForgetsLast ==
    \A c \in Commands : goes[c] = "forget" => record = NoRecord \/ record.inst # cmd[c].inst

\* The inductive invariant of Extensions.
ExtInv ==
    /\ ExtTypes
    /\ CommandTypes
    /\ IdsHandedOut
    /\ ToldWhat
    /\ WriteIsSafe
    /\ StateFollows
    /\ ForgetsLast

\* The invariant holds initially.
LEMMA ExtInitInv == ExtInit => ExtInv
  <1> SUFFICES ASSUME ExtInit PROVE ExtInv
    OBVIOUS
  <1>1. ExtTypes /\ CommandTypes
    <2>1. NoCommand \in Requests
      BY DEF NoCommand, Requests
    <2> QED
      BY <2>1 DEF ExtInit, ExtTypes, CommandTypes, Contents
  <1>2. IdsHandedOut
    BY ExtensionConstants DEF ExtInit, IdsHandedOut
  <1>3. ToldWhat /\ WriteIsSafe /\ StateFollows /\ ForgetsLast
    BY DEF ExtInit, ToldWhat, WriteIsSafe, StateFollows, ForgetsLast, Placing
  <1> QED
    BY <1>1, <1>2, <1>3 DEF ExtInv

\* The request of a new command, and none.
LEMMA RequestsOK ==
  ASSUME ExtTypes, NEW i \in Installs
  PROVE  /\ NoCommand \in Requests
         /\ [NoCommand EXCEPT !.op = "remove", !.inst = i] \in Requests
         /\ \A st \in Statuses : [NoCommand EXCEPT !.op = st, !.inst = i] \in Requests
         /\ \A f \in BOOLEAN, o \in {"install", "repair", "repair sidelined"} :
              [op |-> o, inst |-> i, bytes |-> source, force |-> f] \in Requests
  <1>1. NoCommand \in Requests
    BY DEF NoCommand, Requests
  <1>2. i \in Nat /\ source \in Versions
    BY DEF Installs, ExtTypes
  <1> QED
    BY <1>1, <1>2 DEF Requests, NoCommand

\* A command ends with no request.
LEMMA NoRequest == NoCommand \in Requests
  BY DEF NoCommand, Requests

\* Every step keeps the types of files, records and states.
LEMMA ExtTypesNext == ExtShape /\ ExtNext => ExtTypes'
  <1> SUFFICES ASSUME ExtShape, ExtNext PROVE ExtTypes'
    OBVIOUS
  <1>1. ASSUME NEW c \in Commands, PlanInstall(c) PROVE ExtTypes'
    BY <1>1 DEF PlanInstall, Go, store, paths, counts, ExtShape, ExtTypes, Contents
  <1>2. ASSUME NEW c \in Commands, CreateRecord(c) PROVE ExtTypes'
    <2>1. cmd[c].bytes \in Versions /\ cmd[c].inst \in Nat
      BY <1>2 DEF CreateRecord, ExtShape, ToldWhat, Placing, CommandTypes, Requests
    <2>2. [digest |-> cmd[c].bytes, inst |-> cmd[c].inst] \in Records
      BY <2>1 DEF Records
    <2>3. record' = NoRecord \/ record' \in Records
      BY <1>2, <2>2 DEF CreateRecord, ExtShape, ExtTypes
    <2> QED
      BY <1>2, <2>3 DEF CreateRecord, paths, counts, ExtShape, ExtTypes
  <1>3. ASSUME NEW c \in Commands, WriteNew(c) PROVE ExtTypes'
    BY <1>3 DEF WriteNew, Go, store, paths, counts, ExtShape, ExtTypes, CommandTypes,
       Contents, Statuses, Sidelined, ToldWhat, IdsHandedOut, Installs, Records,
       Requests, Placing
  <1>4. ASSUME NEW c \in Commands, RepairCheck(c) PROVE ExtTypes'
    BY <1>4 DEF RepairCheck, Go, End, store, paths, counts, ExtShape, ExtTypes, Contents
  <1>5. ASSUME NEW c \in Commands, Overwrite(c) PROVE ExtTypes'
    BY <1>5 DEF Overwrite, Go, store, paths, counts, ExtShape, ExtTypes, CommandTypes,
       Contents, Statuses, Sidelined, ToldWhat, IdsHandedOut, Installs, Records,
       Requests, Placing
  <1>6. ASSUME NEW c \in Commands, UpdateDigest(c) PROVE ExtTypes'
    BY <1>6 DEF UpdateDigest, Go, End, store, paths, counts, ExtShape, ExtTypes,
       CommandTypes, Contents, Statuses, Sidelined, ToldWhat, IdsHandedOut, Installs,
       Records, Requests, Placing
  <1>7. ASSUME NEW c \in Commands, Rebind(c) PROVE ExtTypes'
    <2>1. record' = NoRecord \/ record' \in Records
      <3>1. CASE record = NoRecord
        BY <1>7, <3>1 DEF Rebind
      <3>2. CASE record # NoRecord
        <4>1. record \in Records /\ cmd[c].inst \in Nat
          BY <3>2 DEF ExtShape, ExtTypes, CommandTypes, Requests
        <4>2. record' = [record EXCEPT !.inst = cmd[c].inst]
          BY <1>7, <3>2 DEF Rebind
        <4> QED
          BY <4>1, <4>2 DEF Records
      <3> QED
        BY <3>1, <3>2
    <2> QED
      BY <1>7, <2>1 DEF Rebind, paths, counts, ExtShape, ExtTypes
  <1>8. ASSUME NEW c \in Commands, PutState(c) PROVE ExtTypes'
    BY <1>8 DEF PutState, End, store, paths, counts, ExtShape, ExtTypes, CommandTypes,
       Contents, Statuses, Sidelined, ToldWhat, IdsHandedOut, Installs, Records,
       Requests, Placing
  <1>9. ASSUME NEW c \in Commands, RemoveSidelined(c) PROVE ExtTypes'
    BY <1>9 DEF RemoveSidelined, Go, store, paths, counts, ExtShape, ExtTypes, Contents
  <1>10. ASSUME NEW c \in Commands, Uninstall(c) PROVE ExtTypes'
    BY <1>10 DEF Uninstall, Go, End, store, paths, counts, ExtShape, ExtTypes, Contents
  <1>11. ASSUME NEW c \in Commands, DeleteRecord(c) PROVE ExtTypes'
    BY <1>11 DEF DeleteRecord, Go, store, paths, counts, ExtShape, ExtTypes, Contents
  <1>12. ASSUME NEW c \in Commands, DeleteState(c) PROVE ExtTypes'
    BY <1>12 DEF DeleteState, End, store, paths, counts, ExtShape, ExtTypes, Contents
  <1>13. ASSUME NEW c \in Commands, MoveFile(c) PROVE ExtTypes'
    BY <1>13 DEF MoveFile, Go, store, paths, counts, ExtShape, ExtTypes, Contents
  <1>14. ASSUME NEW c \in Commands, UpdateStatus(c) PROVE ExtTypes'
    BY <1>14 DEF UpdateStatus, End, store, paths, counts, ExtShape, ExtTypes,
       CommandTypes, Contents, Statuses, Sidelined, ToldWhat, IdsHandedOut, Installs,
       Records, Requests, Placing
  <1>15. ASSUME NEW c \in Commands, RemoveTwin(c) PROVE ExtTypes'
    BY <1>15 DEF RemoveTwin, Go, store, paths, counts, ExtShape, ExtTypes, Contents
  <1>16. ASSUME NEW c \in Commands, Resideline(c) PROVE ExtTypes'
    BY <1>16 DEF Resideline, End, store, paths, counts, ExtShape, ExtTypes, Contents
  <1>17. ASSUME NEW c \in Commands, CommandDies(c) PROVE ExtTypes'
    BY <1>17 DEF CommandDies, End, store, paths, counts, ExtShape, ExtTypes, Contents
  <1>18. ASSUME NEW c \in Commands, NEW i \in Installs, BeginRemove(c, i) PROVE ExtTypes'
    BY <1>18 DEF BeginRemove, Go, store, paths, counts, ExtShape, ExtTypes, Contents
  <1>19. ASSUME NEW c \in Commands, NEW i \in Installs, NEW status \in {"enabled", "disabled", "unloaded"}, BeginStatus(c, i,
                status)
         PROVE  ExtTypes'
    BY <1>19 DEF BeginStatus, Go, store, paths, counts, ExtShape, ExtTypes, Contents
  <1>20. ASSUME NEW c \in Commands, NEW i \in Installs, NEW force \in BOOLEAN, BeginRepair(c, i,
                force)
         PROVE  ExtTypes'
    BY <1>20 DEF BeginRepair, Go, store, paths, counts, ExtShape, ExtTypes, Contents
  <1>21. ASSUME UserEditsFile PROVE ExtTypes'
    BY <1>21 DEF UserEditsFile, store, paths, counts, ExtShape, ExtTypes, Contents
  <1>22. ASSUME SourceChanges PROVE ExtTypes'
    BY <1>22 DEF SourceChanges, store, paths, counts, ExtShape, ExtTypes, Contents
  <1> QED
    BY <1>1, <1>2, <1>3, <1>4, <1>5, <1>6, <1>7, <1>8, <1>9, <1>10, <1>11, <1>12, <1>13,
       <1>14, <1>15, <1>16, <1>17, <1>18, <1>19, <1>20, <1>21, <1>22 DEF ExtNext,
       ExtStep

\* Every step keeps the types of the commands.
LEMMA CommandTypesNext == ExtShape /\ ExtNext => CommandTypes'
  <1> SUFFICES ASSUME ExtShape, ExtNext PROVE CommandTypes'
    OBVIOUS
  <1>1. ASSUME NEW c \in Commands, PlanInstall(c) PROVE CommandTypes'
    <2>1. installs + 1 \in Installs
      BY <1>1, ExtensionConstants DEF PlanInstall, Installs, ExtShape, ExtTypes
    <2>2. cmd' \in [Commands -> Requests]
      BY <1>1, <2>1, RequestsOK DEF PlanInstall, ExtShape, CommandTypes
    <2>3. goes' \in [Commands -> Placing \cup Moving \cup {"idle"}]
      BY <1>1 DEF PlanInstall, Go, ExtShape, CommandTypes, Placing, Moving
    <2> QED
      BY <2>2, <2>3 DEF CommandTypes
  <1>2. ASSUME NEW c \in Commands, CreateRecord(c) PROVE CommandTypes'
    BY <1>2, NoRequest DEF CreateRecord, Go, End, store, paths, counts, ExtShape,
       CommandTypes, Placing, Moving
  <1>3. ASSUME NEW c \in Commands, WriteNew(c) PROVE CommandTypes'
    BY <1>3 DEF WriteNew, Go, store, paths, counts, ExtShape, CommandTypes, Placing,
       Moving
  <1>4. ASSUME NEW c \in Commands, RepairCheck(c) PROVE CommandTypes'
    BY <1>4, NoRequest DEF RepairCheck, Go, End, store, paths, counts, ExtShape,
       CommandTypes, Placing, Moving
  <1>5. ASSUME NEW c \in Commands, Overwrite(c) PROVE CommandTypes'
    BY <1>5 DEF Overwrite, Go, store, paths, counts, ExtShape, CommandTypes, Placing,
       Moving
  <1>6. ASSUME NEW c \in Commands, UpdateDigest(c) PROVE CommandTypes'
    BY <1>6, NoRequest DEF UpdateDigest, Go, End, store, paths, counts, ExtShape,
       CommandTypes, Placing, Moving
  <1>7. ASSUME NEW c \in Commands, Rebind(c) PROVE CommandTypes'
    BY <1>7, NoRequest DEF Rebind, Go, End, store, paths, counts, ExtShape, CommandTypes,
       Placing, Moving
  <1>8. ASSUME NEW c \in Commands, PutState(c) PROVE CommandTypes'
    BY <1>8, NoRequest DEF PutState, End, store, paths, counts, ExtShape, CommandTypes,
       Placing, Moving
  <1>9. ASSUME NEW c \in Commands, RemoveSidelined(c) PROVE CommandTypes'
    BY <1>9 DEF RemoveSidelined, Go, store, paths, counts, ExtShape, CommandTypes,
       Placing, Moving
  <1>10. ASSUME NEW c \in Commands, Uninstall(c) PROVE CommandTypes'
    BY <1>10, NoRequest DEF Uninstall, Go, End, store, paths, counts, ExtShape,
       CommandTypes, Placing, Moving
  <1>11. ASSUME NEW c \in Commands, DeleteRecord(c) PROVE CommandTypes'
    BY <1>11 DEF DeleteRecord, Go, store, paths, counts, ExtShape, CommandTypes, Placing,
       Moving
  <1>12. ASSUME NEW c \in Commands, DeleteState(c) PROVE CommandTypes'
    BY <1>12, NoRequest DEF DeleteState, End, store, paths, counts, ExtShape,
       CommandTypes, Placing, Moving
  <1>13. ASSUME NEW c \in Commands, MoveFile(c) PROVE CommandTypes'
    BY <1>13 DEF MoveFile, Go, store, paths, counts, ExtShape, CommandTypes, Placing,
       Moving
  <1>14. ASSUME NEW c \in Commands, UpdateStatus(c) PROVE CommandTypes'
    BY <1>14, NoRequest DEF UpdateStatus, End, store, paths, counts, ExtShape,
       CommandTypes, Placing, Moving
  <1>15. ASSUME NEW c \in Commands, RemoveTwin(c) PROVE CommandTypes'
    BY <1>15 DEF RemoveTwin, Go, store, paths, counts, ExtShape, CommandTypes, Placing,
       Moving
  <1>16. ASSUME NEW c \in Commands, Resideline(c) PROVE CommandTypes'
    BY <1>16, NoRequest DEF Resideline, End, store, paths, counts, ExtShape, CommandTypes,
       Placing, Moving
  <1>17. ASSUME NEW c \in Commands, CommandDies(c) PROVE CommandTypes'
    BY <1>17, NoRequest DEF CommandDies, End, store, paths, counts, ExtShape,
       CommandTypes, Placing, Moving
  <1>18. ASSUME NEW c \in Commands, NEW i \in Installs, BeginRemove(c, i)
         PROVE  CommandTypes'
    <2>1. cmd' \in [Commands -> Requests]
      BY <1>18, RequestsOK DEF BeginRemove, ExtShape, CommandTypes
    <2>2. goes' \in [Commands -> Placing \cup Moving \cup {"idle"}]
      BY <1>18 DEF BeginRemove, Go, ExtShape, CommandTypes, Placing, Moving
    <2> QED
      BY <2>1, <2>2 DEF CommandTypes
  <1>19. ASSUME NEW c \in Commands, NEW i \in Installs, NEW status \in {"enabled", "disabled", "unloaded"}, BeginStatus(c, i,
                status)
         PROVE  CommandTypes'
    <2>1. cmd' \in [Commands -> Requests]
      BY <1>19, RequestsOK DEF BeginStatus, ExtShape, CommandTypes, Statuses, Sidelined
    <2>2. goes' \in [Commands -> Placing \cup Moving \cup {"idle"}]
      BY <1>19 DEF BeginStatus, Go, ExtShape, CommandTypes, Placing, Moving
    <2> QED
      BY <2>1, <2>2 DEF CommandTypes
  <1>20. ASSUME NEW c \in Commands, NEW i \in Installs, NEW force \in BOOLEAN, BeginRepair(c, i,
                force)
         PROVE  CommandTypes'
    <2> DEFINE o == IF install[i] = "enabled" THEN "repair" ELSE "repair sidelined"
    <2>1. cmd' = [cmd EXCEPT ![c] = [op |-> o, inst |-> i, bytes |-> source, force |-> force]]
      BY <1>20 DEF BeginRepair
    <2>2. o \in {"install", "repair", "repair sidelined"}
      OBVIOUS
    <2> HIDE DEF o
    <2>3. cmd' \in [Commands -> Requests]
      BY <2>1, <2>2, RequestsOK DEF ExtShape, CommandTypes
    <2>4. goes' \in [Commands -> Placing \cup Moving \cup {"idle"}]
      BY <1>20 DEF BeginRepair, Go, ExtShape, CommandTypes, Placing, Moving
    <2> QED
      BY <2>3, <2>4 DEF CommandTypes
  <1>21. ASSUME UserEditsFile PROVE CommandTypes'
    BY <1>21 DEF UserEditsFile, store, paths, counts, ExtShape, CommandTypes, Placing,
       Moving
  <1>22. ASSUME SourceChanges PROVE CommandTypes'
    BY <1>22 DEF SourceChanges, store, paths, counts, ExtShape, CommandTypes, Placing,
       Moving
  <1> QED
    BY <1>1, <1>2, <1>3, <1>4, <1>5, <1>6, <1>7, <1>8, <1>9, <1>10, <1>11, <1>12, <1>13,
       <1>14, <1>15, <1>16, <1>17, <1>18, <1>19, <1>20, <1>21, <1>22 DEF ExtNext,
       ExtStep

\* Every step keeps IdsHandedOut.
LEMMA IdsHandedOutNext == ExtShape /\ ExtNext => IdsHandedOut'
  <1> SUFFICES ASSUME ExtShape, ExtNext PROVE IdsHandedOut'
    OBVIOUS
  <1>1. ASSUME NEW c \in Commands, PlanInstall(c) PROVE IdsHandedOut'
    BY <1>1, ExtensionConstants DEF PlanInstall, Go, store, paths, counts, ExtShape,
       ExtTypes, CommandTypes, IdsHandedOut
  <1>2. ASSUME NEW c \in Commands, CreateRecord(c) PROVE IdsHandedOut'
    BY <1>2 DEF CreateRecord, Go, End, store, paths, counts, ExtShape, ExtTypes,
       CommandTypes, IdsHandedOut
  <1>3. ASSUME NEW c \in Commands, WriteNew(c) PROVE IdsHandedOut'
    BY <1>3 DEF WriteNew, Go, store, paths, counts, ExtShape, ExtTypes, CommandTypes,
       IdsHandedOut
  <1>4. ASSUME NEW c \in Commands, RepairCheck(c) PROVE IdsHandedOut'
    BY <1>4 DEF RepairCheck, Go, End, store, paths, counts, ExtShape, ExtTypes,
       CommandTypes, IdsHandedOut
  <1>5. ASSUME NEW c \in Commands, Overwrite(c) PROVE IdsHandedOut'
    BY <1>5 DEF Overwrite, Go, store, paths, counts, ExtShape, ExtTypes, CommandTypes,
       IdsHandedOut
  <1>6. ASSUME NEW c \in Commands, UpdateDigest(c) PROVE IdsHandedOut'
    BY <1>6 DEF UpdateDigest, Go, End, store, paths, counts, ExtShape, ExtTypes,
       CommandTypes, IdsHandedOut, Requests, Records, Installs, NoCommand
  <1>7. ASSUME NEW c \in Commands, Rebind(c) PROVE IdsHandedOut'
    BY <1>7 DEF Rebind, Go, End, store, paths, counts, ExtShape, ExtTypes, CommandTypes,
       IdsHandedOut, Requests, Records, Installs, NoCommand
  <1>8. ASSUME NEW c \in Commands, PutState(c) PROVE IdsHandedOut'
    BY <1>8 DEF PutState, End, store, paths, counts, ExtShape, ExtTypes, CommandTypes,
       IdsHandedOut
  <1>9. ASSUME NEW c \in Commands, RemoveSidelined(c) PROVE IdsHandedOut'
    BY <1>9 DEF RemoveSidelined, Go, store, paths, counts, ExtShape, ExtTypes,
       CommandTypes, IdsHandedOut
  <1>10. ASSUME NEW c \in Commands, Uninstall(c) PROVE IdsHandedOut'
    BY <1>10 DEF Uninstall, Go, End, store, paths, counts, ExtShape, ExtTypes,
       CommandTypes, IdsHandedOut
  <1>11. ASSUME NEW c \in Commands, DeleteRecord(c) PROVE IdsHandedOut'
    BY <1>11 DEF DeleteRecord, Go, store, paths, counts, ExtShape, ExtTypes, CommandTypes,
       IdsHandedOut
  <1>12. ASSUME NEW c \in Commands, DeleteState(c) PROVE IdsHandedOut'
    BY <1>12 DEF DeleteState, End, store, paths, counts, ExtShape, ExtTypes, CommandTypes,
       IdsHandedOut
  <1>13. ASSUME NEW c \in Commands, MoveFile(c) PROVE IdsHandedOut'
    BY <1>13 DEF MoveFile, Go, store, paths, counts, ExtShape, ExtTypes, CommandTypes,
       IdsHandedOut
  <1>14. ASSUME NEW c \in Commands, UpdateStatus(c) PROVE IdsHandedOut'
    BY <1>14 DEF UpdateStatus, End, store, paths, counts, ExtShape, ExtTypes,
       CommandTypes, IdsHandedOut
  <1>15. ASSUME NEW c \in Commands, RemoveTwin(c) PROVE IdsHandedOut'
    BY <1>15 DEF RemoveTwin, Go, store, paths, counts, ExtShape, ExtTypes, CommandTypes,
       IdsHandedOut
  <1>16. ASSUME NEW c \in Commands, Resideline(c) PROVE IdsHandedOut'
    BY <1>16 DEF Resideline, End, store, paths, counts, ExtShape, ExtTypes, CommandTypes,
       IdsHandedOut
  <1>17. ASSUME NEW c \in Commands, CommandDies(c) PROVE IdsHandedOut'
    BY <1>17 DEF CommandDies, End, store, paths, counts, ExtShape, ExtTypes, CommandTypes,
       IdsHandedOut
  <1>18. ASSUME NEW c \in Commands, NEW i \in Installs, BeginRemove(c, i)
         PROVE  IdsHandedOut'
    BY <1>18, ExtensionConstants DEF BeginRemove, Go, store, paths, counts, ExtShape,
       ExtTypes, CommandTypes, IdsHandedOut, Requests, Records, Installs, NoCommand
  <1>19. ASSUME NEW c \in Commands, NEW i \in Installs, NEW status \in {"enabled", "disabled", "unloaded"}, BeginStatus(c, i,
                status)
         PROVE  IdsHandedOut'
    BY <1>19, ExtensionConstants DEF BeginStatus, Go, store, paths, counts, ExtShape,
       ExtTypes, CommandTypes, IdsHandedOut, Requests, Records, Installs, NoCommand
  <1>20. ASSUME NEW c \in Commands, NEW i \in Installs, NEW force \in BOOLEAN, BeginRepair(c, i,
                force)
         PROVE  IdsHandedOut'
    BY <1>20, ExtensionConstants DEF BeginRepair, Go, store, paths, counts, ExtShape,
       ExtTypes, CommandTypes, IdsHandedOut, Requests, Records, Installs, NoCommand
  <1>21. ASSUME UserEditsFile PROVE IdsHandedOut'
    BY <1>21 DEF UserEditsFile, store, paths, counts, ExtShape, ExtTypes, CommandTypes,
       IdsHandedOut
  <1>22. ASSUME SourceChanges PROVE IdsHandedOut'
    BY <1>22 DEF SourceChanges, store, paths, counts, ExtShape, ExtTypes, CommandTypes,
       IdsHandedOut
  <1> QED
    BY <1>1, <1>2, <1>3, <1>4, <1>5, <1>6, <1>7, <1>8, <1>9, <1>10, <1>11, <1>12, <1>13,
       <1>14, <1>15, <1>16, <1>17, <1>18, <1>19, <1>20, <1>21, <1>22 DEF ExtNext,
       ExtStep

\* Every step keeps ToldWhat.
LEMMA ToldWhatNext == ExtShape /\ ExtNext => ToldWhat'
  <1> SUFFICES ASSUME ExtShape, ExtNext PROVE ToldWhat'
    OBVIOUS
  <1>1. ASSUME NEW c \in Commands, PlanInstall(c) PROVE ToldWhat'
    BY <1>1 DEF PlanInstall, Go, store, paths, counts, ExtShape, ExtTypes, CommandTypes,
       ToldWhat, Placing
  <1>2. ASSUME NEW c \in Commands, CreateRecord(c) PROVE ToldWhat'
    BY <1>2 DEF CreateRecord, Go, End, store, paths, counts, ExtShape, ExtTypes,
       CommandTypes, ToldWhat, Placing
  <1>3. ASSUME NEW c \in Commands, WriteNew(c) PROVE ToldWhat'
    BY <1>3 DEF WriteNew, Go, store, paths, counts, ExtShape, ExtTypes, CommandTypes,
       ToldWhat, Placing
  <1>4. ASSUME NEW c \in Commands, RepairCheck(c) PROVE ToldWhat'
    BY <1>4 DEF RepairCheck, Go, End, store, paths, counts, ExtShape, ExtTypes,
       CommandTypes, ToldWhat, Placing
  <1>5. ASSUME NEW c \in Commands, Overwrite(c) PROVE ToldWhat'
    BY <1>5 DEF Overwrite, Go, store, paths, counts, ExtShape, ExtTypes, CommandTypes,
       ToldWhat, Placing
  <1>6. ASSUME NEW c \in Commands, UpdateDigest(c) PROVE ToldWhat'
    BY <1>6 DEF UpdateDigest, Go, End, store, paths, counts, ExtShape, ExtTypes,
       CommandTypes, ToldWhat, Placing
  <1>7. ASSUME NEW c \in Commands, Rebind(c) PROVE ToldWhat'
    BY <1>7 DEF Rebind, Go, End, store, paths, counts, ExtShape, ExtTypes, CommandTypes,
       ToldWhat, Placing
  <1>8. ASSUME NEW c \in Commands, PutState(c) PROVE ToldWhat'
    BY <1>8 DEF PutState, End, store, paths, counts, ExtShape, ExtTypes, CommandTypes,
       ToldWhat, Placing
  <1>9. ASSUME NEW c \in Commands, RemoveSidelined(c) PROVE ToldWhat'
    BY <1>9 DEF RemoveSidelined, Go, store, paths, counts, ExtShape, ExtTypes,
       CommandTypes, ToldWhat, Placing
  <1>10. ASSUME NEW c \in Commands, Uninstall(c) PROVE ToldWhat'
    BY <1>10 DEF Uninstall, Go, End, store, paths, counts, ExtShape, ExtTypes,
       CommandTypes, ToldWhat, Placing
  <1>11. ASSUME NEW c \in Commands, DeleteRecord(c) PROVE ToldWhat'
    BY <1>11 DEF DeleteRecord, Go, store, paths, counts, ExtShape, ExtTypes, CommandTypes,
       ToldWhat, Placing
  <1>12. ASSUME NEW c \in Commands, DeleteState(c) PROVE ToldWhat'
    BY <1>12 DEF DeleteState, End, store, paths, counts, ExtShape, ExtTypes, CommandTypes,
       ToldWhat, Placing
  <1>13. ASSUME NEW c \in Commands, MoveFile(c) PROVE ToldWhat'
    BY <1>13 DEF MoveFile, Go, store, paths, counts, ExtShape, ExtTypes, CommandTypes,
       ToldWhat, Placing
  <1>14. ASSUME NEW c \in Commands, UpdateStatus(c) PROVE ToldWhat'
    BY <1>14 DEF UpdateStatus, End, store, paths, counts, ExtShape, ExtTypes,
       CommandTypes, ToldWhat, Placing
  <1>15. ASSUME NEW c \in Commands, RemoveTwin(c) PROVE ToldWhat'
    BY <1>15 DEF RemoveTwin, Go, store, paths, counts, ExtShape, ExtTypes, CommandTypes,
       ToldWhat, Placing
  <1>16. ASSUME NEW c \in Commands, Resideline(c) PROVE ToldWhat'
    BY <1>16 DEF Resideline, End, store, paths, counts, ExtShape, ExtTypes, CommandTypes,
       ToldWhat, Placing
  <1>17. ASSUME NEW c \in Commands, CommandDies(c) PROVE ToldWhat'
    BY <1>17 DEF CommandDies, End, store, paths, counts, ExtShape, ExtTypes, CommandTypes,
       ToldWhat, Placing
  <1>18. ASSUME NEW c \in Commands, NEW i \in Installs, BeginRemove(c, i) PROVE ToldWhat'
    BY <1>18 DEF BeginRemove, Go, store, paths, counts, ExtShape, ExtTypes, CommandTypes,
       ToldWhat, Placing
  <1>19. ASSUME NEW c \in Commands, NEW i \in Installs, NEW status \in {"enabled", "disabled", "unloaded"}, BeginStatus(c, i,
                status)
         PROVE  ToldWhat'
    BY <1>19 DEF BeginStatus, Go, store, paths, counts, ExtShape, ExtTypes, CommandTypes,
       ToldWhat, Requests, Placing, Statuses, Sidelined, NoCommand
  <1>20. ASSUME NEW c \in Commands, NEW i \in Installs, NEW force \in BOOLEAN, BeginRepair(c, i,
                force)
         PROVE  ToldWhat'
    BY <1>20 DEF BeginRepair, Go, store, paths, counts, ExtShape, ExtTypes, CommandTypes,
       ToldWhat, Placing
  <1>21. ASSUME UserEditsFile PROVE ToldWhat'
    BY <1>21 DEF UserEditsFile, store, paths, counts, ExtShape, ExtTypes, CommandTypes,
       ToldWhat, Placing
  <1>22. ASSUME SourceChanges PROVE ToldWhat'
    BY <1>22 DEF SourceChanges, store, paths, counts, ExtShape, ExtTypes, CommandTypes,
       ToldWhat, Placing
  <1> QED
    BY <1>1, <1>2, <1>3, <1>4, <1>5, <1>6, <1>7, <1>8, <1>9, <1>10, <1>11, <1>12, <1>13,
       <1>14, <1>15, <1>16, <1>17, <1>18, <1>19, <1>20, <1>21, <1>22 DEF ExtNext,
       ExtStep

\* Every step keeps WriteIsSafe.
LEMMA WriteIsSafeNext == OneAtATime(Commands) /\ ExtInv /\ ExtNext => WriteIsSafe'
  <1> SUFFICES ASSUME OneAtATime(Commands), ExtInv, ExtNext PROVE WriteIsSafe'
    OBVIOUS
  <1>1. ASSUME NEW c \in Commands, PlanInstall(c) PROVE WriteIsSafe'
    BY <1>1 DEF PlanInstall, Go, store, paths, counts, OneAtATime, ExtInv, ExtTypes,
       CommandTypes, WriteIsSafe
  <1>2. ASSUME NEW c \in Commands, CreateRecord(c) PROVE WriteIsSafe'
    BY <1>2 DEF CreateRecord, Go, End, store, paths, counts, OneAtATime, ExtInv,
       ExtTypes, CommandTypes, WriteIsSafe
  <1>3. ASSUME NEW c \in Commands, WriteNew(c) PROVE WriteIsSafe'
    BY <1>3 DEF WriteNew, Go, store, paths, counts, OneAtATime, ExtInv, ExtTypes,
       CommandTypes, WriteIsSafe
  <1>4. ASSUME NEW c \in Commands, RepairCheck(c) PROVE WriteIsSafe'
    <2>1. active' = active /\ \A d \in Commands : d = c
      BY <1>4 DEF RepairCheck, paths, OneAtATime
    <2>2. CASE /\ record # NoRecord /\ (active \in {"none", record.digest} \/ cmd[c].force)
               /\ Go(c, "overwrite") /\ cmd' = cmd
      <3>1. record.digest # "user"
        BY <2>2, ExtensionConstants DEF ExtInv, ExtTypes, Records
      <3>2. goes'[c] = "overwrite" /\ (active # "user" \/ cmd'[c].force)
        BY <2>2, <3>1 DEF Go, ExtInv, CommandTypes
      <3> QED
        BY <2>1, <3>2 DEF WriteIsSafe
    <2>3. CASE End(c)
      <3>1. goes'[c] = "idle"
        BY <2>3 DEF End, ExtInv, CommandTypes
      <3> QED
        BY <2>1, <3>1 DEF WriteIsSafe
    <2> QED
      BY <1>4, <2>2, <2>3 DEF RepairCheck
  <1>5. ASSUME NEW c \in Commands, Overwrite(c) PROVE WriteIsSafe'
    BY <1>5 DEF Overwrite, Go, store, paths, counts, OneAtATime, ExtInv, ExtTypes,
       CommandTypes, WriteIsSafe
  <1>6. ASSUME NEW c \in Commands, UpdateDigest(c) PROVE WriteIsSafe'
    BY <1>6 DEF UpdateDigest, Go, End, store, paths, counts, OneAtATime, ExtInv,
       ExtTypes, CommandTypes, WriteIsSafe
  <1>7. ASSUME NEW c \in Commands, Rebind(c) PROVE WriteIsSafe'
    BY <1>7 DEF Rebind, Go, End, store, paths, counts, OneAtATime, ExtInv, ExtTypes,
       CommandTypes, WriteIsSafe
  <1>8. ASSUME NEW c \in Commands, PutState(c) PROVE WriteIsSafe'
    BY <1>8 DEF PutState, End, store, paths, counts, OneAtATime, ExtInv, ExtTypes,
       CommandTypes, WriteIsSafe
  <1>9. ASSUME NEW c \in Commands, RemoveSidelined(c) PROVE WriteIsSafe'
    BY <1>9 DEF RemoveSidelined, Go, store, paths, counts, OneAtATime, ExtInv, ExtTypes,
       CommandTypes, WriteIsSafe
  <1>10. ASSUME NEW c \in Commands, Uninstall(c) PROVE WriteIsSafe'
    BY <1>10 DEF Uninstall, Go, End, store, paths, counts, OneAtATime, ExtInv, ExtTypes,
       CommandTypes, WriteIsSafe
  <1>11. ASSUME NEW c \in Commands, DeleteRecord(c) PROVE WriteIsSafe'
    BY <1>11 DEF DeleteRecord, Go, store, paths, counts, OneAtATime, ExtInv, ExtTypes,
       CommandTypes, WriteIsSafe
  <1>12. ASSUME NEW c \in Commands, DeleteState(c) PROVE WriteIsSafe'
    BY <1>12 DEF DeleteState, End, store, paths, counts, OneAtATime, ExtInv, ExtTypes,
       CommandTypes, WriteIsSafe
  <1>13. ASSUME NEW c \in Commands, MoveFile(c) PROVE WriteIsSafe'
    BY <1>13 DEF MoveFile, Go, store, paths, counts, OneAtATime, ExtInv, ExtTypes,
       CommandTypes, WriteIsSafe
  <1>14. ASSUME NEW c \in Commands, UpdateStatus(c) PROVE WriteIsSafe'
    BY <1>14 DEF UpdateStatus, End, store, paths, counts, OneAtATime, ExtInv, ExtTypes,
       CommandTypes, WriteIsSafe
  <1>15. ASSUME NEW c \in Commands, RemoveTwin(c) PROVE WriteIsSafe'
    BY <1>15 DEF RemoveTwin, Go, store, paths, counts, OneAtATime, ExtInv, ExtTypes,
       CommandTypes, WriteIsSafe
  <1>16. ASSUME NEW c \in Commands, Resideline(c) PROVE WriteIsSafe'
    BY <1>16 DEF Resideline, End, store, paths, counts, OneAtATime, ExtInv, ExtTypes,
       CommandTypes, WriteIsSafe
  <1>17. ASSUME NEW c \in Commands, CommandDies(c) PROVE WriteIsSafe'
    BY <1>17 DEF CommandDies, End, store, paths, counts, OneAtATime, ExtInv, ExtTypes,
       CommandTypes, WriteIsSafe
  <1>18. ASSUME NEW c \in Commands, NEW i \in Installs, BeginRemove(c, i) PROVE WriteIsSafe'
    BY <1>18 DEF BeginRemove, Go, store, paths, counts, OneAtATime, ExtInv, ExtTypes,
       CommandTypes, WriteIsSafe
  <1>19. ASSUME NEW c \in Commands, NEW i \in Installs, NEW status \in {"enabled", "disabled", "unloaded"}, BeginStatus(c, i,
                status)
         PROVE  WriteIsSafe'
    BY <1>19 DEF BeginStatus, Go, store, paths, counts, OneAtATime, ExtInv, ExtTypes,
       CommandTypes, WriteIsSafe
  <1>20. ASSUME NEW c \in Commands, NEW i \in Installs, NEW force \in BOOLEAN, BeginRepair(c, i,
                force)
         PROVE  WriteIsSafe'
    BY <1>20 DEF BeginRepair, Go, store, paths, counts, OneAtATime, ExtInv, ExtTypes,
       CommandTypes, WriteIsSafe
  <1>21. ASSUME UserEditsFile PROVE WriteIsSafe'
    BY <1>21 DEF UserEditsFile, store, paths, counts, OneAtATime, ExtInv, ExtTypes,
       CommandTypes, WriteIsSafe
  <1>22. ASSUME SourceChanges PROVE WriteIsSafe'
    BY <1>22 DEF SourceChanges, store, paths, counts, OneAtATime, ExtInv, ExtTypes,
       CommandTypes, WriteIsSafe
  <1> QED
    BY <1>1, <1>2, <1>3, <1>4, <1>5, <1>6, <1>7, <1>8, <1>9, <1>10, <1>11, <1>12, <1>13,
       <1>14, <1>15, <1>16, <1>17, <1>18, <1>19, <1>20, <1>21, <1>22 DEF ExtNext,
       ExtStep

\* Every step keeps StateFollows.
LEMMA StateFollowsNext == OneAtATime(Commands) /\ ExtInv /\ ExtNext => StateFollows'
  <1> SUFFICES ASSUME OneAtATime(Commands), ExtInv, ExtNext PROVE StateFollows'
    OBVIOUS
  <1>1. ASSUME NEW c \in Commands, PlanInstall(c) PROVE StateFollows'
    BY <1>1 DEF PlanInstall, Go, store, paths, counts, OneAtATime, ExtInv, ExtTypes,
       CommandTypes, StateFollows
  <1>2. ASSUME NEW c \in Commands, CreateRecord(c) PROVE StateFollows'
    BY <1>2 DEF CreateRecord, Go, End, store, paths, counts, OneAtATime, ExtInv,
       ExtTypes, CommandTypes, StateFollows
  <1>3. ASSUME NEW c \in Commands, WriteNew(c) PROVE StateFollows'
    BY <1>3 DEF WriteNew, Go, store, paths, counts, OneAtATime, ExtInv, ExtTypes,
       CommandTypes, StateFollows
  <1>4. ASSUME NEW c \in Commands, RepairCheck(c) PROVE StateFollows'
    BY <1>4 DEF RepairCheck, Go, End, store, paths, counts, OneAtATime, ExtInv,
       ExtTypes, CommandTypes, StateFollows
  <1>5. ASSUME NEW c \in Commands, Overwrite(c) PROVE StateFollows'
    BY <1>5 DEF Overwrite, Go, store, paths, counts, OneAtATime, ExtInv, ExtTypes,
       CommandTypes, StateFollows
  <1>6. ASSUME NEW c \in Commands, UpdateDigest(c) PROVE StateFollows'
    BY <1>6 DEF UpdateDigest, Go, End, store, paths, counts, OneAtATime, ExtInv,
       ExtTypes, CommandTypes, StateFollows, ForgetsLast, ToldWhat, IdsHandedOut,
       Installs, Statuses, Sidelined, Records, Requests, NoRecord
  <1>7. ASSUME NEW c \in Commands, Rebind(c) PROVE StateFollows'
    <2>1. CASE record = NoRecord
      BY <1>7, <2>1 DEF Rebind, End, counts, StateFollows
    <2>2. CASE record # NoRecord
      <3>1. record \in Records /\ cmd' = cmd /\ goes' = [goes EXCEPT ![c] = "put"]
            /\ record' = [record EXCEPT !.inst = cmd[c].inst]
        BY <1>7, <2>2 DEF Rebind, Go, ExtInv, ExtTypes
      <3>2. record'.inst = cmd[c].inst
        BY <3>1 DEF Records
      <3>3. goes'[c] = "put"
        BY <3>1 DEF ExtInv, CommandTypes
      <3> QED
        BY <3>1, <3>2, <3>3 DEF StateFollows
    <2> QED
      BY <2>1, <2>2
  <1>8. ASSUME NEW c \in Commands, PutState(c) PROVE StateFollows'
    <2> SUFFICES ASSUME kills' = 0, record' # NoRecord PROVE install'[record'.inst] # "none"
      BY DEF StateFollows
    <2>1. /\ kills = 0 /\ record # NoRecord /\ record' = record
          /\ install' = [install EXCEPT ![cmd[c].inst] = "enabled"]
      BY <1>8 DEF PutState, counts
    <2>2. cmd[c].inst \in Installs
      BY <1>8, ExtensionConstants DEF PutState, ExtInv, ExtTypes, IdsHandedOut, Installs
    <2>3. install[record.inst] # "none" \/ cmd[c].inst = record.inst
      BY <2>1 DEF ExtInv, StateFollows, OneAtATime
    <2> QED
      BY <2>1, <2>2, <2>3 DEF ExtInv, ExtTypes
  <1>9. ASSUME NEW c \in Commands, RemoveSidelined(c) PROVE StateFollows'
    BY <1>9 DEF RemoveSidelined, Go, store, paths, counts, OneAtATime, ExtInv, ExtTypes,
       CommandTypes, StateFollows
  <1>10. ASSUME NEW c \in Commands, Uninstall(c) PROVE StateFollows'
    BY <1>10 DEF Uninstall, Go, End, store, paths, counts, OneAtATime, ExtInv, ExtTypes,
       CommandTypes, StateFollows
  <1>11. ASSUME NEW c \in Commands, DeleteRecord(c) PROVE StateFollows'
    BY <1>11 DEF DeleteRecord, Go, store, paths, counts, OneAtATime, ExtInv, ExtTypes,
       CommandTypes, StateFollows
  <1>12. ASSUME NEW c \in Commands, DeleteState(c) PROVE StateFollows'
    <2> SUFFICES ASSUME kills' = 0, record' # NoRecord PROVE install'[record'.inst] # "none"
      BY DEF StateFollows
    <2>1. /\ kills = 0 /\ record # NoRecord /\ record' = record /\ goes[c] = "forget"
          /\ install' = [install EXCEPT ![cmd[c].inst] = "none"]
      BY <1>12 DEF DeleteState, counts
    <2>2. install[record.inst] # "none"
      BY <2>1 DEF ExtInv, StateFollows, OneAtATime
    <2>3. record.inst # cmd[c].inst
      BY <2>1 DEF ExtInv, ForgetsLast
    <2> QED
      BY <2>1, <2>2, <2>3 DEF ExtInv, ExtTypes
  <1>13. ASSUME NEW c \in Commands, MoveFile(c) PROVE StateFollows'
    BY <1>13 DEF MoveFile, Go, store, paths, counts, OneAtATime, ExtInv, ExtTypes,
       CommandTypes, StateFollows
  <1>14. ASSUME NEW c \in Commands, UpdateStatus(c) PROVE StateFollows'
    <2> SUFFICES ASSUME kills' = 0, record' # NoRecord PROVE install'[record'.inst] # "none"
      BY DEF StateFollows
    <2>1. /\ kills = 0 /\ record # NoRecord /\ record' = record /\ goes[c] = "status"
          /\ install' = [install EXCEPT ![cmd[c].inst] = IF @ = "none" THEN @ ELSE cmd[c].op]
      BY <1>14 DEF UpdateStatus, counts
    <2>2. install[record.inst] # "none"
      BY <2>1 DEF ExtInv, StateFollows, OneAtATime
    <2>3. cmd[c].inst \in Installs
      BY <2>1, ExtensionConstants DEF ExtInv, ExtTypes, IdsHandedOut, Installs
    <2>4. cmd[c].op # "none"
      BY <2>1 DEF ExtInv, ToldWhat, Statuses, Sidelined
    <2> QED
      BY <2>1, <2>2, <2>3, <2>4 DEF ExtInv, ExtTypes
  <1>15. ASSUME NEW c \in Commands, RemoveTwin(c) PROVE StateFollows'
    BY <1>15 DEF RemoveTwin, Go, store, paths, counts, OneAtATime, ExtInv, ExtTypes,
       CommandTypes, StateFollows
  <1>16. ASSUME NEW c \in Commands, Resideline(c) PROVE StateFollows'
    BY <1>16 DEF Resideline, End, store, paths, counts, OneAtATime, ExtInv, ExtTypes,
       CommandTypes, StateFollows
  <1>17. ASSUME NEW c \in Commands, CommandDies(c) PROVE StateFollows'
    BY <1>17 DEF CommandDies, End, store, paths, counts, OneAtATime, ExtInv, ExtTypes,
       CommandTypes, StateFollows
  <1>18. ASSUME NEW c \in Commands, NEW i \in Installs, BeginRemove(c, i)
         PROVE  StateFollows'
    BY <1>18 DEF BeginRemove, Go, store, paths, counts, OneAtATime, ExtInv, ExtTypes,
       CommandTypes, StateFollows
  <1>19. ASSUME NEW c \in Commands, NEW i \in Installs, NEW status \in {"enabled", "disabled", "unloaded"}, BeginStatus(c, i,
                status)
         PROVE  StateFollows'
    BY <1>19 DEF BeginStatus, Go, store, paths, counts, OneAtATime, ExtInv, ExtTypes,
       CommandTypes, StateFollows
  <1>20. ASSUME NEW c \in Commands, NEW i \in Installs, NEW force \in BOOLEAN, BeginRepair(c, i,
                force)
         PROVE  StateFollows'
    BY <1>20 DEF BeginRepair, Go, store, paths, counts, OneAtATime, ExtInv, ExtTypes,
       CommandTypes, StateFollows
  <1>21. ASSUME UserEditsFile PROVE StateFollows'
    BY <1>21 DEF UserEditsFile, store, paths, counts, OneAtATime, ExtInv, ExtTypes,
       CommandTypes, StateFollows
  <1>22. ASSUME SourceChanges PROVE StateFollows'
    BY <1>22 DEF SourceChanges, store, paths, counts, OneAtATime, ExtInv, ExtTypes,
       CommandTypes, StateFollows
  <1> QED
    BY <1>1, <1>2, <1>3, <1>4, <1>5, <1>6, <1>7, <1>8, <1>9, <1>10, <1>11, <1>12, <1>13,
       <1>14, <1>15, <1>16, <1>17, <1>18, <1>19, <1>20, <1>21, <1>22 DEF ExtNext,
       ExtStep

\* Every step keeps ForgetsLast.
LEMMA ForgetsLastNext == OneAtATime(Commands) /\ ExtInv /\ ExtNext => ForgetsLast'
  <1> SUFFICES ASSUME OneAtATime(Commands), ExtInv, ExtNext PROVE ForgetsLast'
    OBVIOUS
  <1>1. ASSUME NEW c \in Commands, PlanInstall(c) PROVE ForgetsLast'
    BY <1>1 DEF PlanInstall, Go, store, paths, counts, OneAtATime, ExtInv, ExtTypes,
       CommandTypes, ForgetsLast
  <1>2. ASSUME NEW c \in Commands, CreateRecord(c) PROVE ForgetsLast'
    BY <1>2 DEF CreateRecord, Go, End, store, paths, counts, OneAtATime, ExtInv,
       ExtTypes, CommandTypes, ForgetsLast
  <1>3. ASSUME NEW c \in Commands, WriteNew(c) PROVE ForgetsLast'
    BY <1>3 DEF WriteNew, Go, store, paths, counts, OneAtATime, ExtInv, ExtTypes,
       CommandTypes, ForgetsLast
  <1>4. ASSUME NEW c \in Commands, RepairCheck(c) PROVE ForgetsLast'
    BY <1>4 DEF RepairCheck, Go, End, store, paths, counts, OneAtATime, ExtInv,
       ExtTypes, CommandTypes, ForgetsLast
  <1>5. ASSUME NEW c \in Commands, Overwrite(c) PROVE ForgetsLast'
    BY <1>5 DEF Overwrite, Go, store, paths, counts, OneAtATime, ExtInv, ExtTypes,
       CommandTypes, ForgetsLast
  <1>6. ASSUME NEW c \in Commands, UpdateDigest(c) PROVE ForgetsLast'
    BY <1>6 DEF UpdateDigest, Go, End, store, paths, counts, OneAtATime, ExtInv,
       ExtTypes, CommandTypes, ForgetsLast
  <1>7. ASSUME NEW c \in Commands, Rebind(c) PROVE ForgetsLast'
    BY <1>7 DEF Rebind, Go, End, store, paths, counts, OneAtATime, ExtInv, ExtTypes,
       CommandTypes, ForgetsLast
  <1>8. ASSUME NEW c \in Commands, PutState(c) PROVE ForgetsLast'
    BY <1>8 DEF PutState, End, store, paths, counts, OneAtATime, ExtInv, ExtTypes,
       CommandTypes, ForgetsLast
  <1>9. ASSUME NEW c \in Commands, RemoveSidelined(c) PROVE ForgetsLast'
    BY <1>9 DEF RemoveSidelined, Go, store, paths, counts, OneAtATime, ExtInv, ExtTypes,
       CommandTypes, ForgetsLast
  <1>10. ASSUME NEW c \in Commands, Uninstall(c) PROVE ForgetsLast'
    BY <1>10 DEF Uninstall, Go, End, store, paths, counts, OneAtATime, ExtInv, ExtTypes,
       CommandTypes, ForgetsLast
  <1>11. ASSUME NEW c \in Commands, DeleteRecord(c) PROVE ForgetsLast'
    BY <1>11 DEF DeleteRecord, Go, store, paths, counts, OneAtATime, ExtInv, ExtTypes,
       CommandTypes, ForgetsLast
  <1>12. ASSUME NEW c \in Commands, DeleteState(c) PROVE ForgetsLast'
    BY <1>12 DEF DeleteState, End, store, paths, counts, OneAtATime, ExtInv, ExtTypes,
       CommandTypes, ForgetsLast
  <1>13. ASSUME NEW c \in Commands, MoveFile(c) PROVE ForgetsLast'
    BY <1>13 DEF MoveFile, Go, store, paths, counts, OneAtATime, ExtInv, ExtTypes,
       CommandTypes, ForgetsLast
  <1>14. ASSUME NEW c \in Commands, UpdateStatus(c) PROVE ForgetsLast'
    BY <1>14 DEF UpdateStatus, End, store, paths, counts, OneAtATime, ExtInv, ExtTypes,
       CommandTypes, ForgetsLast
  <1>15. ASSUME NEW c \in Commands, RemoveTwin(c) PROVE ForgetsLast'
    BY <1>15 DEF RemoveTwin, Go, store, paths, counts, OneAtATime, ExtInv, ExtTypes,
       CommandTypes, ForgetsLast
  <1>16. ASSUME NEW c \in Commands, Resideline(c) PROVE ForgetsLast'
    BY <1>16 DEF Resideline, End, store, paths, counts, OneAtATime, ExtInv, ExtTypes,
       CommandTypes, ForgetsLast
  <1>17. ASSUME NEW c \in Commands, CommandDies(c) PROVE ForgetsLast'
    BY <1>17 DEF CommandDies, End, store, paths, counts, OneAtATime, ExtInv, ExtTypes,
       CommandTypes, ForgetsLast
  <1>18. ASSUME NEW c \in Commands, NEW i \in Installs, BeginRemove(c, i) PROVE ForgetsLast'
    <2>1. /\ record' = record /\ cmd' = [cmd EXCEPT ![c] = [NoCommand EXCEPT !.op = "remove", !.inst = i]]
          /\ goes' = [goes EXCEPT ![c] = IF Owned(i) THEN "unside" ELSE "forget"]
      BY <1>18 DEF BeginRemove, Go, store
    <2>2. cmd'[c].inst = i
      BY <2>1 DEF ExtInv, CommandTypes, NoCommand
    <2>3. goes'[c] = "forget" => ~Owned(i)
      BY <2>1 DEF ExtInv, CommandTypes
    <2> QED
      BY <2>1, <2>2, <2>3 DEF ForgetsLast, OneAtATime, Owned
  <1>19. ASSUME NEW c \in Commands, NEW i \in Installs, NEW status \in {"enabled", "disabled", "unloaded"}, BeginStatus(c, i,
                status)
         PROVE  ForgetsLast'
    BY <1>19 DEF BeginStatus, Go, store, paths, counts, OneAtATime, ExtInv, ExtTypes,
       CommandTypes, ForgetsLast
  <1>20. ASSUME NEW c \in Commands, NEW i \in Installs, NEW force \in BOOLEAN, BeginRepair(c, i,
                force)
         PROVE  ForgetsLast'
    BY <1>20 DEF BeginRepair, Go, store, paths, counts, OneAtATime, ExtInv, ExtTypes,
       CommandTypes, ForgetsLast
  <1>21. ASSUME UserEditsFile PROVE ForgetsLast'
    BY <1>21 DEF UserEditsFile, store, paths, counts, OneAtATime, ExtInv, ExtTypes,
       CommandTypes, ForgetsLast
  <1>22. ASSUME SourceChanges PROVE ForgetsLast'
    BY <1>22 DEF SourceChanges, store, paths, counts, OneAtATime, ExtInv, ExtTypes,
       CommandTypes, ForgetsLast
  <1> QED
    BY <1>1, <1>2, <1>3, <1>4, <1>5, <1>6, <1>7, <1>8, <1>9, <1>10, <1>11, <1>12, <1>13,
       <1>14, <1>15, <1>16, <1>17, <1>18, <1>19, <1>20, <1>21, <1>22 DEF ExtNext,
       ExtStep

\* Every step keeps the invariant.
LEMMA ExtInvNext == OneAtATime(Commands) /\ ExtInv /\ [ExtNext]_extVars => ExtInv'
  <1> SUFFICES ASSUME OneAtATime(Commands), ExtInv, [ExtNext]_extVars PROVE ExtInv'
    OBVIOUS
  <1>1. CASE UNCHANGED extVars
    <2>1. /\ active' = active /\ sided' = sided /\ source' = source /\ record' = record
          /\ install' = install /\ installs' = installs /\ cmd' = cmd /\ goes' = goes
          /\ kills' = kills
      BY <1>1 DEF extVars
    <2>2. ExtTypes' /\ CommandTypes' /\ IdsHandedOut' /\ ToldWhat' /\ WriteIsSafe'
      BY <2>1 DEF ExtInv, ExtTypes, CommandTypes, IdsHandedOut, ToldWhat, WriteIsSafe
    <2>3. StateFollows' /\ ForgetsLast'
      BY <2>1 DEF ExtInv, StateFollows, ForgetsLast
    <2> QED
      BY <2>2, <2>3 DEF ExtInv
  <1>2. CASE ExtNext
    BY <1>2, ExtTypesNext, CommandTypesNext, IdsHandedOutNext, ToldWhatNext, WriteIsSafeNext,
       StateFollowsNext, ForgetsLastNext DEF ExtInv, ExtShape
  <1> QED
    BY <1>1, <1>2

\* The invariant always holds, when commands come one after the other.
LEMMA ExtInvAlways == ASSUME OneAtATime(Commands) PROVE ExtSpec => []ExtInv
  <1>1. ExtInv /\ [ExtNext]_extVars => ExtInv'
    BY ExtInvNext
  <1> QED
    BY <1>1, ExtInitInv, PTL DEF ExtSpec

\* Files, records and install states keep their shape, and the record of the path names
\* an id that was handed out, whatever commands run side by side, die or meet edits of
\* the user.
THEOREM ExtTypeCorrect == ExtSpec => []ExtTypeOK
  <1>1. ExtInit => ExtShape
    BY ExtInitInv DEF ExtInv, ExtShape
  <1>2. ExtShape /\ [ExtNext]_extVars => ExtShape'
    <2> SUFFICES ASSUME ExtShape, [ExtNext]_extVars PROVE ExtShape'
      OBVIOUS
    <2>1. CASE UNCHANGED extVars
      BY <2>1 DEF extVars, ExtShape, ExtTypes, CommandTypes, IdsHandedOut, ToldWhat
    <2>2. CASE ExtNext
      BY <2>2, ExtTypesNext, CommandTypesNext, IdsHandedOutNext, ToldWhatNext DEF ExtShape
    <2> QED
      BY <2>1, <2>2
  <1>3. ASSUME ExtShape PROVE ExtTypeOK
    <2>1. record = NoRecord \/ record \in [digest : Versions, inst : 1..installs]
      BY <1>3 DEF ExtShape, ExtTypes, IdsHandedOut, Records
    <2> QED
      BY <1>3, <2>1 DEF ExtShape, ExtTypes, Contents, Statuses, ExtTypeOK
  <1> QED
    BY <1>1, <1>2, <1>3, PTL DEF ExtSpec

\* After any sequence of complete commands, installs over older installations and
\* repairs included, the record of the path names an installation with a state, so
\* that remove and repair find it.
THEOREM RecordsHaveState == ASSUME OneAtATime(Commands) PROVE ExtSpec => []RecordHasState
  <1>1. ExtInv => RecordHasState
    BY DEF ExtInv, StateFollows, RecordHasState
  <1> QED
    BY <1>1, ExtInvAlways, PTL

\* No step of a command that was not forced replaces or removes what the user put at
\* the path: at most it is moved to the twin.
THEOREM UserFilesKept == ASSUME OneAtATime(Commands) PROVE ExtSpec => UserFileKept
  <1>1. ASSUME ExtInv, NEW c \in Commands, active = "user", ExtStep(c), ~cmd[c].force
        PROVE  active' = "user" \/ sided' = "user"
    <2>1. record # NoRecord => record.digest # "user"
      <3>1. record # NoRecord => record.digest \in Versions
        BY <1>1 DEF ExtInv, ExtTypes, Records
      <3>2. "user" \notin Versions
        BY ExtensionConstants
      <3> QED
        BY <3>1, <3>2
    <2>2. CASE WriteNew(c) \/ Overwrite(c)
      BY <1>1, <2>2 DEF WriteNew, Overwrite, ExtInv, WriteIsSafe
    <2>3. CASE Uninstall(c)
      BY <1>1, <2>1, <2>3 DEF Uninstall
    <2>4. CASE MoveFile(c) \/ Resideline(c)
      BY <1>1, <2>4 DEF MoveFile, Resideline, paths
    <2>5. CASE \/ PlanInstall(c) \/ CreateRecord(c) \/ RepairCheck(c) \/ UpdateDigest(c)
               \/ Rebind(c) \/ PutState(c)
      BY <1>1, <2>5
         DEF PlanInstall, CreateRecord, RepairCheck, UpdateDigest, Rebind, PutState, paths
    <2>6. CASE \/ RemoveSidelined(c) \/ DeleteRecord(c) \/ DeleteState(c) \/ UpdateStatus(c)
               \/ RemoveTwin(c) \/ CommandDies(c)
      BY <1>1, <2>6
         DEF RemoveSidelined, DeleteRecord, DeleteState, UpdateStatus, RemoveTwin, CommandDies,
             paths
    <2>7. CASE \E i \in Installs :
                 \/ BeginRemove(c, i)
                 \/ \E status \in {"enabled", "disabled", "unloaded"} : BeginStatus(c, i, status)
                 \/ \E force \in BOOLEAN : BeginRepair(c, i, force)
      BY <1>1, <2>7 DEF BeginRemove, BeginStatus, BeginRepair, paths
    <2> QED
      BY <1>1, <2>2, <2>3, <2>4, <2>5, <2>6, <2>7 DEF ExtStep
  <1>2. ExtInv /\ [ExtNext]_extVars =>
          [\A c \in Commands : (active = "user" /\ ExtStep(c) /\ ~cmd[c].force)
             => active' = "user" \/ sided' = "user"]_extVars
    BY <1>1
  <1> QED
    BY <1>2, ExtInvAlways, PTL DEF UserFileKept, ExtSpec

-----------------------------------------------------------------------------
(* worktrees                                                               *)

Bindings == [owner : Owners \cup {"none"}, state : OpenStates \cup {"none", "closed"},
             branch : Branches]

\* The types of the variables of Worktrees: rows, disk, connections.
RowTypes ==
    /\ binding \in [Trees -> Bindings]
    /\ recent \in Seq(Trees)
    /\ trees \in Nat /\ trees <= MaxTrees
    /\ Range(recent) \subseteq 1..trees
DiskTypes ==
    /\ dir \subseteq 1..trees /\ registered \subseteq 1..trees /\ files \subseteq dir
    /\ head \in [Trees -> Branches]
    /\ backup \in [Trees -> {"none", "clean", "files"}]
BusyTypes == busy \in [Agents -> Doing \cup Owners \cup Branches] /\ wtDeaths \in Nat
TargetTypes == target \in [Agents -> Nat] /\ \A a \in Agents : target[a] <= trees

\* A row has a state and an owner; an id without a row has the branch it was made with.
RowsHaveState ==
    \A t \in Trees :
        /\ t \in Range(recent) <=> binding[t].state # "none"
        /\ t \in Range(recent) => binding[t].owner \in Owners
        /\ t \notin Range(recent) => binding[t].branch = "own" /\ head[t] = "own"

\* A connection works on a row that was open when it read it and still is.
AimsAtOpen ==
    \A a \in Agents :
        /\ busy[a] = "idle" => target[a] = 0
        /\ busy[a] \in (Doing \ {"idle"}) \cup Branches =>
             target[a] \in Range(recent) /\ binding[target[a]].state \in OpenStates

\* While a connection creates a worktree its owner has no open one, and the new one has
\* no row.
CreatesFirst ==
    \A a \in Agents : busy[a] \in Owners =>
        /\ \A t \in Range(recent) : binding[t].owner = busy[a] => binding[t].state = "closed"
        /\ target[a] # 0 => target[a] \notin Range(recent) /\ binding[target[a]].owner = busy[a]

\* What a step leaves for the next one of the request: a directory that is gone before
\* its row is closed, a branch that is checked out before it is saved, and a directory
\* that is moved away with the branch of its row checked out.
HandsOn ==
    \A a \in Agents :
        /\ busy[a] = "closed" => target[a] \notin dir
        /\ busy[a] \in Branches => head[target[a]] = busy[a]
        /\ wtDeaths = 0 /\ busy[a] \in {"relocated", "added"} =>
             head[target[a]] = binding[target[a]].branch

\* The inductive invariant of Worktrees.
WtInv ==
    /\ RowTypes
    /\ DiskTypes
    /\ BusyTypes
    /\ TargetTypes
    /\ RowsHaveState
    /\ AimsAtOpen
    /\ CreatesFirst
    /\ HandsOn
    /\ OneOpenBinding
    /\ ClosedIsGone
    /\ FilesSurvive
    /\ BranchRecorded

\* The invariant holds initially.
LEMMA WtInitInv == WtInit => WtInv
  <1> SUFFICES ASSUME WtInit PROVE WtInv
    OBVIOUS
  <1>1. Range(recent) = {} /\ recent \in Seq(Trees)
    BY DEF WtInit, Range
  <1>2. RowTypes
    BY <1>1, WorktreeConstants DEF WtInit, RowTypes, Bindings, NoBinding, Branches
  <1>3. DiskTypes /\ BusyTypes /\ TargetTypes
    BY DEF WtInit, DiskTypes, BusyTypes, TargetTypes, Branches, Doing
  <1>4. RowsHaveState
    BY <1>1 DEF WtInit, RowsHaveState, NoBinding
  <1>5. AimsAtOpen /\ CreatesFirst /\ HandsOn
    BY WorktreeConstants DEF WtInit, AimsAtOpen, CreatesFirst, HandsOn, Doing, Branches
  <1>6. OneOpenBinding /\ ClosedIsGone /\ FilesSurvive /\ BranchRecorded
    BY <1>1 DEF WtInit, OneOpenBinding, ClosedIsGone, FilesSurvive, BranchRecorded, NoBinding
  <1> QED
    BY <1>2, <1>3, <1>4, <1>5, <1>6 DEF WtInv

\* What leaves out one position of a sequence has the other ones.
LEMMA RemovedAt ==
  ASSUME NEW S, NEW r \in Seq(S), NEW i \in 1..Len(r)
  PROVE  /\ RemoveAt(r, i) \in Seq(S)
         /\ Range(RemoveAt(r, i)) \subseteq Range(r)
         /\ Range(r) \subseteq Range(RemoveAt(r, i)) \cup {r[i]}
  <1> DEFINE x == SubSeq(r, 1, i - 1)
             y == SubSeq(r, i + 1, Len(r))
             z == x \o y
  <1>1. Len(r) \in Nat /\ i \in Nat /\ 1 <= i /\ i <= Len(r) /\ DOMAIN r = 1..Len(r)
    BY LenProperties
  <1>2. \A k \in 1..Len(r) : r[k] \in S
    BY ElementOfSeq
  <1>3. /\ x \in Seq(S) /\ Len(x) = i - 1 /\ \A k \in 1..(i - 1) : x[k] = r[k]
    BY <1>1, <1>2, SubSeqProperties
  <1>4. /\ y \in Seq(S) /\ Len(y) = Len(r) - i
        /\ \A k \in 1..(Len(r) - i) : y[k] = r[k + i]
    <2>1. /\ y \in Seq(S) /\ Len(y) = IF i + 1 <= Len(r) THEN Len(r) - (i + 1) + 1 ELSE 0
          /\ \A k \in 1..(Len(r) - (i + 1) + 1) : y[k] = r[(i + 1) + k - 1]
      <3>1. i + 1 \in Int /\ Len(r) \in Int /\ \A k \in (i + 1)..Len(r) : r[k] \in S
        BY <1>1, <1>2
      <3> QED
        BY <3>1, SubSeqProperties
    <2> HIDE DEF y
    <2>2. Len(r) - (i + 1) + 1 = Len(r) - i
      BY <1>1
    <2>3. \A k \in 1..(Len(r) - i) : (i + 1) + k - 1 = k + i
      BY <1>1
    <2>4. Len(y) = Len(r) - i
      <3>1. CASE i + 1 <= Len(r)
        BY <2>1, <2>2, <3>1
      <3>2. CASE ~(i + 1 <= Len(r))
        <4>1. Len(r) - i = 0
          <5>1. \A m, n \in Nat : n <= m /\ ~(n + 1 <= m) => m - n = 0
            OBVIOUS
          <5> QED
            BY <1>1, <3>2, <5>1
        <4>2. Len(y) = 0
          BY <2>1, <3>2
        <4> QED
          BY <4>1, <4>2
      <3> QED
        BY <3>1, <3>2
    <2>5. ASSUME NEW k \in 1..(Len(r) - i) PROVE y[k] = r[k + i]
      BY <2>1, <2>2, <2>3
    <2> QED
      BY <2>1, <2>4, <2>5
  <1> HIDE DEF x, y
  <1>5. /\ z \in Seq(S) /\ Len(z) = Len(r) - 1 /\ DOMAIN z = 1..(Len(r) - 1)
        /\ \A k \in 1..(Len(r) - 1) : z[k] = IF k <= i - 1 THEN x[k] ELSE y[k - (i - 1)]
    <2>1. Len(x) + Len(y) = Len(r) - 1
      BY <1>1, <1>3, <1>4
    <2>2. /\ z \in Seq(S) /\ Len(z) = Len(x) + Len(y)
          /\ \A k \in 1..(Len(x) + Len(y)) : z[k] = IF k <= Len(x) THEN x[k] ELSE y[k - Len(x)]
      BY <1>3, <1>4, ConcatProperties
    <2> HIDE DEF z
    <2>3. DOMAIN z = 1..Len(z)
      BY <2>2, LenProperties
    <2> QED
      BY <1>3, <2>1, <2>2, <2>3
  <1>6. RemoveAt(r, i) = z
    BY DEF RemoveAt, x, y
  <1> HIDE DEF z
  <1>7. ASSUME NEW k \in 1..(Len(r) - 1) PROVE z[k] = IF k <= i - 1 THEN r[k] ELSE r[k + 1]
    <2>1. CASE k <= i - 1
      <3>1. k \in 1..(i - 1)
        BY <1>1, <2>1
      <3>2. z[k] = x[k]
        BY <1>5, <2>1
      <3> QED
        BY <1>3, <2>1, <3>1, <3>2
    <2>2. CASE ~(k <= i - 1)
      <3>1. k - (i - 1) \in 1..(Len(r) - i) /\ (k - (i - 1)) + i = k + 1
        BY <1>1, <2>2
      <3> QED
        BY <1>4, <1>5, <2>2, <3>1
    <2> QED
      BY <2>1, <2>2
  <1>8. Range(z) \subseteq Range(r)
    <2> SUFFICES ASSUME NEW k \in 1..(Len(r) - 1) PROVE z[k] \in Range(r)
      BY <1>5 DEF Range
    <2>1. k \in 1..Len(r) /\ k + 1 \in 1..Len(r)
      BY <1>1
    <2> QED
      BY <1>1, <1>7, <2>1 DEF Range
  <1>9. Range(r) \subseteq Range(z) \cup {r[i]}
    <2> SUFFICES ASSUME NEW k \in 1..Len(r), k # i PROVE r[k] \in Range(z)
      BY <1>1 DEF Range
    <2>1. CASE k < i
      <3>1. k \in 1..(Len(r) - 1) /\ k <= i - 1
        BY <1>1, <2>1
      <3> QED
        BY <1>5, <1>7, <3>1 DEF Range
    <2>2. CASE k > i
      <3>1. k - 1 \in 1..(Len(r) - 1) /\ ~(k - 1 <= i - 1) /\ (k - 1) + 1 = k
        BY <1>1, <2>2
      <3>2. z[k - 1] = r[k]
        BY <1>7, <3>1
      <3> QED
        BY <1>5, <3>1, <3>2 DEF Range
    <2> QED
      BY <1>1, <2>1, <2>2
  <1> QED
    BY <1>5, <1>6, <1>8, <1>9

\* A nonempty set of naturals has a least element.
LEMMA LeastExists ==
  ASSUME NEW T \in SUBSET Nat, T # {}
  PROVE  \E m \in T : \A n \in T : m <= n
  <1>1. PICK m \in T : \A n \in T : ~(<<n, m>> \in OpToRel(<, Nat))
    BY NatLessThanWellFounded, WFMin
  <1>2. \A n \in T : n \in Nat
    OBVIOUS
  <1>3. \A n \in T : ~(n < m)
    <2> SUFFICES ASSUME NEW n \in T, n < m PROVE FALSE
      OBVIOUS
    <2>1. <<n, m>> \in OpToRel(<, Nat)
      BY <1>2 DEF OpToRel
    <2> QED
      BY <1>1, <2>1
  <1> QED
    BY <1>2, <1>3

\* ... and a bounded one a greatest.
LEMMA GreatestExists ==
  ASSUME NEW n \in Nat, NEW T \in SUBSET (1..n), T # {}
  PROVE  \E m \in T : \A k \in T : k <= m
  <1> DEFINE U == {n - k : k \in T}
  <1>1. U \in SUBSET Nat /\ U # {}
    <2>1. \A k \in T : n - k \in Nat
      OBVIOUS
    <2> QED
      BY <2>1
  <1>2. PICK u \in U : \A v \in U : u <= v
    BY <1>1, LeastExists
  <1>3. PICK m \in T : u = n - m
    BY <1>2
  <1>4. \A k \in T : n - m <= n - k
    BY <1>2, <1>3
  <1> QED
    BY <1>3, <1>4

\* A row that is updated is a row afterwards, the others stay.
LEMMA Touched ==
  ASSUME recent \in Seq(Trees), NEW t \in Trees, Touch(t)
  PROVE  recent' \in Seq(Trees) /\ Range(recent') = Range(recent) \cup {t}
  <1> DEFINE r == RemoveFirst(recent, t)
             places == {i \in 1..Len(recent) : recent[i] = t}
  <1>1. /\ r \in Seq(Trees) /\ Range(r) \subseteq Range(recent)
        /\ Range(recent) \subseteq Range(r) \cup {t}
    <2>1. CASE \E i \in 1..Len(recent) : recent[i] = t
      <3>1. places # {} /\ places \in SUBSET Nat
        BY <2>1
      <3>2. Min(places) \in places
        BY <3>1, LeastExists DEF Min
      <3>3. r = RemoveAt(recent, Min(places))
        BY <2>1, <3>1 DEF RemoveFirst, SelectInSeq
      <3> DEFINE i == Min(places)
      <3>4. i \in 1..Len(recent) /\ recent[i] = t /\ r = RemoveAt(recent, i)
        BY <3>2, <3>3
      <3> HIDE DEF i, r
      <3> QED
        BY <3>4, RemovedAt
    <2>2. CASE ~(\E i \in 1..Len(recent) : recent[i] = t)
      BY <2>2 DEF RemoveFirst
    <2> QED
      BY <2>1, <2>2
  <1> HIDE DEF r
  <1>2. /\ recent' \in Seq(Trees) /\ Len(recent') = Len(r) + 1
        /\ \A i \in 1..Len(r) : recent'[i] = r[i]
        /\ recent'[Len(r) + 1] = t
    BY <1>1, AppendProperties DEF Touch, r
  <1>3. Len(r) \in Nat /\ DOMAIN r = 1..Len(r) /\ DOMAIN recent' = 1..(Len(r) + 1)
    BY <1>1, <1>2, LenProperties
  <1>4. Range(recent') = Range(r) \cup {t}
    BY <1>2, <1>3 DEF Range
  <1>5. t \in Range(recent') /\ \A u \in Range(recent) : u \in Range(recent')
    BY <1>1, <1>4
  <1> QED
    BY <1>1, <1>2, <1>4, <1>5

\* get_open_by_session finds an open row of the session if there is one.
LEMMA OpenOfFinds ==
  ASSUME recent \in Seq(Trees), NEW s
  PROVE  /\ OpenOf(s) # 0 => /\ OpenOf(s) \in Range(recent)
                             /\ binding[OpenOf(s)].owner = s
                             /\ binding[OpenOf(s)].state \in OpenStates
         /\ OpenOf(s) = 0 => \A t \in Range(recent) :
                               binding[t].owner = s => binding[t].state \notin OpenStates
  <1> DEFINE open == {k \in 1..Len(recent) : binding[recent[k]].owner = s
                                             /\ binding[recent[k]].state \in OpenStates}
             last == CHOOSE k \in open : \A j \in open : j <= k
  <1>1. Len(recent) \in Nat /\ DOMAIN recent = 1..Len(recent)
    BY LenProperties
  <1>2. OpenOf(s) = IF open = {} THEN 0 ELSE recent[last]
    BY DEF OpenOf
  <1>3. CASE open = {}
    BY <1>1, <1>2, <1>3 DEF Range
  <1>4. CASE open # {}
    <2>1. last \in open
      BY <1>1, <1>4, GreatestExists
    <2> HIDE DEF last
    <2>2. last \in 1..Len(recent)
      BY <2>1
    <2>3. recent[last] \in Trees
      BY <2>2, ElementOfSeq
    <2>4. recent[last] # 0
      BY <2>3 DEF Trees
    <2> QED
      BY <1>1, <1>2, <1>4, <2>1, <2>2, <2>4 DEF Range
  <1> QED
    BY <1>3, <1>4

\* A connection that is past the read of its request aims at an open row.
LEMMA AtWork ==
  ASSUME WtInv, NEW a \in Agents, busy[a] \in (Doing \ {"idle"}) \cup Branches
  PROVE  /\ target[a] \in Trees /\ target[a] \in 1..trees /\ target[a] \in Range(recent)
         /\ binding[target[a]].state \in OpenStates
  BY WorktreeConstants DEF WtInv, AimsAtOpen, RowTypes, Trees

\* A row that is updated: the update comes last, the owner and the other rows stay.
Becomes(t, st, b) ==
    /\ binding' \in [Trees -> Bindings]
    /\ binding'[t].owner = binding[t].owner
    /\ binding'[t].state = st
    /\ binding'[t].branch = b
    /\ \A u \in Trees : u # t => binding'[u] = binding[u]
    /\ recent' \in Seq(Trees)
    /\ Range(recent') = Range(recent) \cup {t}

LEMMA RowSet ==
  ASSUME RowTypes, NEW t \in Trees, NEW st \in OpenStates \cup {"closed"}, SetWtState(t, st)
  PROVE  Becomes(t, st, binding[t].branch)
  <1>1. binding \in [Trees -> Bindings] /\ recent \in Seq(Trees)
    BY DEF RowTypes
  <1>2. Touch(t) /\ binding' = [binding EXCEPT ![t].state = st]
    BY DEF SetWtState
  <1>3. recent' \in Seq(Trees) /\ Range(recent') = Range(recent) \cup {t}
    BY <1>1, <1>2, Touched
  <1> DEFINE row == [binding[t] EXCEPT !.state = st]
  <1>4. /\ row \in Bindings /\ row.owner = binding[t].owner /\ row.state = st
        /\ row.branch = binding[t].branch
    BY <1>1 DEF Bindings
  <1>5. binding' = [binding EXCEPT ![t] = row]
    BY <1>2
  <1> HIDE DEF row
  <1>6. binding' \in [Trees -> Bindings] /\ binding'[t] = row
        /\ \A u \in Trees : u # t => binding'[u] = binding[u]
    BY <1>1, <1>4, <1>5
  <1> QED
    BY <1>3, <1>4, <1>6 DEF Becomes

\* A connection is done.
Rested(a) ==
    /\ busy' = [busy EXCEPT ![a] = "idle"]
    /\ target' = [target EXCEPT ![a] = 0]
    /\ UNCHANGED <<dir, registered, head, files, backup, owed, trees, wtDeaths>>

LEMMA SetStateEffect ==
  ASSUME WtInv, NEW a \in Agents, SetState(a)
  PROVE  /\ target[a] \in Trees /\ target[a] \in Range(recent)
         /\ busy[a] \in {"stop", "resume", "salvaged"}
         /\ binding[target[a]].state \in OpenStates /\ Rested(a)
         /\ \E st \in {"active", "stopped"} :
              Becomes(target[a], st, binding[target[a]].branch)
  <1>1. target[a] \in Trees /\ target[a] \in Range(recent)
        /\ binding[target[a]].state \in OpenStates
    BY AtWork DEF SetState, Doing
  <1>2. PICK st \in {"active", "stopped"} : SetWtState(target[a], st)
    BY DEF SetState
  <1>3. Becomes(target[a], st, binding[target[a]].branch)
    BY <1>1, <1>2, RowSet DEF OpenStates, WtInv
  <1> QED
    BY <1>1, <1>3 DEF SetState, Rested, Rest, disk

LEMMA SetClosedEffect ==
  ASSUME WtInv, NEW a \in Agents, SetClosed(a)
  PROVE  /\ target[a] \in Trees /\ target[a] \in Range(recent) /\ busy[a] = "closed"
         /\ binding[target[a]].state \in OpenStates /\ Rested(a)
         /\ Becomes(target[a], "closed", binding[target[a]].branch)
  <1>1. target[a] \in Trees /\ target[a] \in Range(recent)
        /\ binding[target[a]].state \in OpenStates
    BY AtWork DEF SetClosed, Doing
  <1>2. Becomes(target[a], "closed", binding[target[a]].branch)
    BY <1>1, RowSet DEF SetClosed, WtInv
  <1> QED
    BY <1>1, <1>2 DEF SetClosed, Rested, Rest, disk

LEMMA MarkStaleEffect ==
  ASSUME WtInv, NEW a \in Agents, NEW t \in Trees, MarkStale(a, t)
  PROVE  /\ t \in Range(recent) /\ binding[t].state \in OpenStates /\ busy[a] = "idle"
         /\ Becomes(t, "stale", binding[t].branch)
         /\ UNCHANGED <<dir, registered, head, files, backup, owed, trees, busy, target,
                        wtDeaths>>
  <1>1. t \in Range(recent) /\ binding[t].state \in OpenStates
    BY DEF MarkStale, WtInv, RowsHaveState, OpenStates
  <1>2. Becomes(t, "stale", binding[t].branch)
    BY RowSet DEF MarkStale, OpenStates, WtInv
  <1> QED
    BY <1>1, <1>2 DEF MarkStale, disk

LEMMA SwitchPersistEffect ==
  ASSUME WtInv, NEW a \in Agents, NEW b \in Branches, SwitchPersist(a, b)
  PROVE  /\ target[a] \in Trees /\ target[a] \in Range(recent) /\ busy[a] = b
         /\ binding[target[a]].state \in OpenStates /\ Rested(a)
         /\ Becomes(target[a], binding[target[a]].state, b)
  <1>1. /\ target[a] \in Trees /\ target[a] \in Range(recent)
        /\ binding[target[a]].state \in OpenStates
    BY AtWork DEF SwitchPersist
  <1>2. recent' \in Seq(Trees) /\ Range(recent') = Range(recent) \cup {target[a]}
    BY <1>1, Touched DEF SwitchPersist, WtInv, RowTypes
  <1> DEFINE row == [binding[target[a]] EXCEPT !.branch = b]
  <1>3. binding \in [Trees -> Bindings]
    BY DEF WtInv, RowTypes
  <1>4. /\ row \in Bindings /\ row.owner = binding[target[a]].owner /\ row.branch = b
        /\ row.state = binding[target[a]].state
    BY <1>1, <1>3 DEF Bindings
  <1>5. binding' = [binding EXCEPT ![target[a]] = row]
    BY DEF SwitchPersist
  <1> HIDE DEF row
  <1>6. binding' \in [Trees -> Bindings] /\ binding'[target[a]] = row
        /\ \A u \in Trees : u # target[a] => binding'[u] = binding[u]
    BY <1>1, <1>3, <1>4, <1>5
  <1>7. Becomes(target[a], binding[target[a]].state, b)
    BY <1>2, <1>4, <1>6 DEF Becomes
  <1>8. busy[a] = b /\ Rested(a)
    BY DEF SwitchPersist, Rested, Rest, disk
  <1> QED
    BY <1>1, <1>7, <1>8

LEMMA CreateInsertEffect ==
  ASSUME WtInv, NEW a \in Agents, NEW s \in Owners, CreateInsert(a, s)
  PROVE  /\ target[a] \in Trees /\ target[a] \in 1..trees /\ target[a] \notin Range(recent)
         /\ binding[target[a]].owner = s /\ busy[a] = s /\ Rested(a)
         /\ \A t \in Range(recent) : binding[t].owner = s => binding[t].state = "closed"
         /\ \/ Becomes(target[a], "active", binding[target[a]].branch)
            \/ UNCHANGED <<binding, recent>>
  <1>1. busy[a] = s /\ target[a] # 0 /\ (SetWtState(target[a], "active") \/ UNCHANGED rows)
    BY DEF CreateInsert
  <1>2. target[a] \in 1..trees /\ target[a] \in Trees
    BY <1>1, WorktreeConstants DEF WtInv, TargetTypes, RowTypes, Trees
  <1>3. target[a] \notin Range(recent) /\ binding[target[a]].owner = s
        /\ \A t \in Range(recent) : binding[t].owner = s => binding[t].state = "closed"
    BY <1>1 DEF WtInv, CreatesFirst
  <1>4. CASE SetWtState(target[a], "active")
    <2>1. Becomes(target[a], "active", binding[target[a]].branch)
      BY <1>2, <1>4, RowSet DEF OpenStates, WtInv
    <2> QED
      BY <1>1, <1>2, <1>3, <2>1 DEF CreateInsert, Rested, Rest, disk
  <1>5. CASE UNCHANGED rows
    BY <1>1, <1>2, <1>3, <1>5 DEF CreateInsert, Rested, Rest, disk, rows
  <1> QED
    BY <1>1, <1>4, <1>5

LEMMA CreateAddEffect ==
  ASSUME WtInv, NEW a \in Agents, NEW s \in Owners, CreateAdd(a, s)
  PROVE  /\ busy[a] = s /\ UNCHANGED <<recent, head, wtDeaths>>
         /\ \A t \in Range(recent) : binding'[t] = binding[t]
         /\ \A t \in Trees : binding'[t].state = binding[t].state
                             /\ binding'[t].branch = binding[t].branch
         /\ binding' \in [Trees -> Bindings]
         /\ \/ /\ trees' = trees + 1 /\ trees + 1 \in Trees /\ trees + 1 \notin Range(recent)
               /\ binding'[trees + 1].owner = s
               /\ dir' = dir \cup {trees + 1} /\ busy' = busy
               /\ target' = [target EXCEPT ![a] = trees + 1]
            \/ /\ busy' = [busy EXCEPT ![a] = "idle"]
               /\ target' = [target EXCEPT ![a] = 0] /\ dir' = dir /\ trees' = trees
  <1>1. /\ trees \in Nat /\ MaxTrees \in Nat /\ Range(recent) \subseteq Trees
        /\ binding \in [Trees -> Bindings] /\ trees + 1 \notin Range(recent)
    BY WorktreeConstants DEF WtInv, RowTypes, Trees
  <1>2. CASE trees < MaxTrees /\ binding' = [binding EXCEPT ![trees + 1].owner = s]
             /\ dir' = dir \cup {trees + 1} /\ busy' = busy /\ Aim(a, trees + 1) /\ head' = head
             /\ trees' = trees + 1
    <2>1. trees + 1 \in Trees
      BY <1>1, <1>2 DEF Trees
    <2> DEFINE row == [binding[trees + 1] EXCEPT !.owner = s]
               u == trees + 1
    <2>2. /\ row \in Bindings /\ row.owner = s /\ row.state = binding[trees + 1].state
          /\ row.branch = binding[trees + 1].branch
      BY <1>1, <2>1 DEF Bindings
    <2>3. binding' = [binding EXCEPT ![u] = row]
      BY <1>2
    <2>4. u \in Trees /\ u \notin Range(recent)
      BY <1>1, <2>1
    <2> HIDE DEF row, u
    <2>5. /\ binding'[u] = row /\ binding' \in [Trees -> Bindings]
          /\ \A t \in Trees : t # u => binding'[t] = binding[t]
      BY <1>1, <2>2, <2>3, <2>4
    <2>6. /\ binding'[u].owner = s
          /\ \A t \in Range(recent) : binding'[t] = binding[t]
          /\ \A t \in Trees : binding'[t].state = binding[t].state
                              /\ binding'[t].branch = binding[t].branch
      BY <1>1, <2>2, <2>4, <2>5 DEF u
    <2>7. binding'[trees + 1].owner = s
      BY <2>6 DEF u
    <2> QED
      BY <1>1, <1>2, <2>1, <2>5, <2>6, <2>7 DEF CreateAdd, Aim
  <1>3. CASE Rest(a) /\ UNCHANGED <<binding, disk, trees>>
    BY <1>1, <1>3 DEF CreateAdd, Rest, disk
  <1> QED
    BY <1>2, <1>3 DEF CreateAdd

\* What get_open_by_session returns is a row.
LEMMA OpenIsRow ==
  ASSUME WtInv, NEW s, OpenOf(s) # 0
  PROVE  /\ OpenOf(s) \in Range(recent) /\ OpenOf(s) \in Trees
         /\ OpenOf(s) \in Nat /\ OpenOf(s) <= trees
         /\ binding[OpenOf(s)].owner = s /\ binding[OpenOf(s)].state \in OpenStates
  <1>1. OpenOf(s) \in Range(recent) /\ binding[OpenOf(s)].owner = s
        /\ binding[OpenOf(s)].state \in OpenStates
    BY OpenOfFinds DEF WtInv, RowTypes
  <1> QED
    BY <1>1, WorktreeConstants DEF WtInv, RowTypes, Trees

\* A session without an open row has closed ones only.
LEMMA NoneIsOpen ==
  ASSUME WtInv, NEW s, OpenOf(s) = 0
  PROVE  \A t \in Range(recent) : binding[t].owner = s => binding[t].state = "closed"
  <1>1. \A t \in Range(recent) : binding[t].owner = s => binding[t].state \notin OpenStates
    BY OpenOfFinds DEF WtInv, RowTypes
  <1> QED
    BY <1>1, WorktreeConstants DEF WtInv, RowTypes, RowsHaveState, Bindings, Trees

\* While no switch is under way the branch of a row is the one checked out.
LEMMA BranchIs ==
  ASSUME OneAtATime(Agents), WtInv, NEW a \in Agents, busy[a] \notin Branches, wtDeaths = 0
  PROVE  \A t \in Range(recent) : t \in dir => head[t] = binding[t].branch
  <1> SUFFICES ASSUME NEW t \in Range(recent), t \in dir, head[t] # binding[t].branch
               PROVE  FALSE
    OBVIOUS
  <1>1. PICK c \in Agents : target[c] = t /\ busy[c] = head[t]
    BY DEF WtInv, BranchRecorded
  <1>2. c = a
    BY DEF OneAtATime
  <1>3. head[t] \in Branches
    BY WorktreeConstants DEF WtInv, DiskTypes, RowTypes, Trees
  <1> QED
    BY <1>1, <1>2, <1>3

\* A change of state leaves owners and branches alone ...
LEMMA OthersStand ==
  ASSUME NEW t \in Trees, NEW st, Becomes(t, st, binding[t].branch)
  PROVE  \A u \in Trees : binding'[u].branch = binding[u].branch
                          /\ binding'[u].owner = binding[u].owner
  <1> SUFFICES ASSUME NEW u \in Trees
               PROVE  binding'[u].branch = binding[u].branch /\ binding'[u].owner = binding[u].owner
    OBVIOUS
  <1>1. CASE u = t
    BY <1>1 DEF Becomes
  <1>2. CASE u # t
    BY <1>2 DEF Becomes
  <1> QED
    BY <1>1, <1>2

\* ... and a change of an open row opens none.
LEMMA OpenKept ==
  ASSUME WtInv, NEW t \in Trees, NEW st, NEW b, Becomes(t, st, b),
         t \in Range(recent), binding[t].state \in OpenStates
  PROVE  OneOpenBinding'
  <1>1. Range(recent') = Range(recent) /\ Range(recent) \subseteq Trees
    BY WorktreeConstants DEF Becomes, WtInv, RowTypes, Trees
  <1>2. ASSUME NEW u \in Range(recent)
        PROVE  /\ binding'[u].owner = binding[u].owner
               /\ binding'[u].state \in OpenStates => binding[u].state \in OpenStates
    <2>1. CASE u = t
      BY <2>1 DEF Becomes
    <2>2. CASE u # t
      BY <1>1, <2>2 DEF Becomes
    <2> QED
      BY <2>1, <2>2
  <1> SUFFICES ASSUME NEW u \in Range(recent), NEW v \in Range(recent),
                      binding'[u].state \in OpenStates, binding'[v].state \in OpenStates,
                      binding'[u].owner = binding'[v].owner
               PROVE  u = v
    BY <1>1 DEF OneOpenBinding, OpenStates
  <1> QED
    BY <1>2 DEF WtInv, OneOpenBinding

\* A connection that goes on or is done.
LEMMA TargetKept ==
  ASSUME WtInv, NEW a \in Agents, trees' = trees, target' \in {target, [target EXCEPT ![a] = 0]}
  PROVE  TargetTypes'
  <1>1. 0 <= trees /\ target \in [Agents -> Nat] /\ \A c \in Agents : target[c] <= trees
    BY DEF WtInv, RowTypes, TargetTypes
  <1>2. CASE target' = target
    BY <1>1, <1>2 DEF TargetTypes
  <1>3. CASE target' = [target EXCEPT ![a] = 0]
    BY <1>1, <1>3 DEF TargetTypes
  <1> QED
    BY <1>2, <1>3

\* The names of what a connection does are no owners.
LEMMA Labels ==
  \A s \in Owners : s \notin Branches /\ s \notin Doing /\ s # "idle" /\ s # "none"
  BY WorktreeConstants DEF Doing


\* Every step keeps the types of the rows.
LEMMA RowTypesNext == WtInv /\ WtNext => RowTypes'
  <1> SUFFICES ASSUME WtInv, WtNext PROVE RowTypes'
    OBVIOUS
  <1>1. ASSUME NEW a \in Agents, NEW s \in Owners, CreateCheck(a, s) PROVE RowTypes'
    BY <1>1, NoneIsOpen DEF CreateCheck, rows, disk, WtInv, RowTypes, Bindings,
       OpenStates
  <1>2. ASSUME NEW a \in Agents, NEW s \in Owners, CreateAdd(a, s) PROVE RowTypes'
    <2>1. /\ trees \in Nat /\ MaxTrees \in Nat /\ Range(recent) \subseteq 1..trees
          /\ trees <= MaxTrees
      BY WorktreeConstants DEF WtInv, RowTypes
    <2>2. /\ binding' \in [Trees -> Bindings] /\ recent' = recent
          /\ trees' = trees \/ (trees' = trees + 1 /\ trees + 1 \in Trees)
      BY <1>2, CreateAddEffect
    <2>3. trees' \in Nat /\ trees' <= MaxTrees /\ 1..trees \subseteq 1..(trees')
      BY <2>1, <2>2 DEF Trees
    <2> QED
      BY <2>1, <2>2, <2>3 DEF WtInv, RowTypes
  <1>3. ASSUME NEW a \in Agents, NEW s \in Owners, CreateInsert(a, s) PROVE RowTypes'
    BY <1>3, CreateInsertEffect DEF WtInv, RowTypes, Bindings, OpenStates, Becomes,
       Rested
  <1>4. ASSUME NEW a \in Agents, NEW s \in Owners, ReadStop(a, s) PROVE RowTypes'
    BY <1>4, OpenIsRow DEF ReadStop, Aim, Proceed, rows, disk, WtInv, RowTypes,
       Bindings, OpenStates
  <1>5. ASSUME NEW a \in Agents, NEW s \in Owners, ReadResume(a, s) PROVE RowTypes'
    BY <1>5, OpenIsRow DEF ReadResume, Aim, Proceed, rows, disk, WtInv, RowTypes,
       Bindings, OpenStates
  <1>6. ASSUME NEW a \in Agents, NEW s \in Owners, NEW b \in Branches, SwitchCheckout(a, s,
               b)
        PROVE  RowTypes'
    BY <1>6, OpenIsRow DEF SwitchCheckout, Aim, rows, WtInv, RowTypes, Bindings,
       OpenStates
  <1>7. ASSUME NEW a \in Agents, NEW t \in Trees, ReadClose(a, t) PROVE RowTypes'
    BY <1>7, OpenIsRow DEF ReadClose, Aim, Proceed, rows, disk, WtInv, RowTypes,
       Bindings, OpenStates
  <1>8. ASSUME NEW a \in Agents, NEW t \in Trees, ReadCleanup(a, t) PROVE RowTypes'
    BY <1>8 DEF ReadCleanup, Aim, Proceed, rows, disk, WtInv, RowTypes, Bindings,
       OpenStates
  <1>9. ASSUME NEW a \in Agents, NEW t \in Trees, MarkStale(a, t) PROVE RowTypes'
    BY <1>9, MarkStaleEffect DEF WtInv, RowTypes, Bindings, OpenStates, Becomes, Rested
  <1>10. ASSUME NEW a \in Agents, NEW t \in Trees, ReadSalvage(a, t) PROVE RowTypes'
    BY <1>10 DEF ReadSalvage, Aim, Proceed, rows, disk, WtInv, RowTypes, Bindings,
       OpenStates
  <1>11. ASSUME NEW a \in Agents, SetState(a) PROVE RowTypes'
    BY <1>11, SetStateEffect DEF WtInv, RowTypes, Bindings, OpenStates, Becomes, Rested
  <1>12. ASSUME NEW a \in Agents, RemoveDisk(a) PROVE RowTypes'
    BY <1>12, AtWork DEF RemoveDisk, Proceed, rows, WtInv, RowTypes, Bindings,
       OpenStates
  <1>13. ASSUME NEW a \in Agents, RemoveFails(a) PROVE RowTypes'
    BY <1>13, AtWork DEF RemoveFails, Rest, rows, disk, WtInv, RowTypes, Bindings,
       OpenStates
  <1>14. ASSUME NEW a \in Agents, SetClosed(a) PROVE RowTypes'
    BY <1>14, SetClosedEffect DEF WtInv, RowTypes, Bindings, OpenStates, Becomes, Rested
  <1>15. ASSUME NEW a \in Agents, Relocate(a) PROVE RowTypes'
    BY <1>15, AtWork DEF Relocate, Proceed, Rest, rows, WtInv, RowTypes, Bindings,
       OpenStates
  <1>16. ASSUME NEW a \in Agents, ReAdd(a) PROVE RowTypes'
    BY <1>16, AtWork DEF ReAdd, Proceed, Rest, rows, WtInv, RowTypes, Bindings,
       OpenStates
  <1>17. ASSUME NEW a \in Agents, Overlay(a) PROVE RowTypes'
    BY <1>17, AtWork DEF Overlay, Proceed, rows, WtInv, RowTypes, Bindings, OpenStates
  <1>18. ASSUME NEW a \in Agents, NEW b \in Branches, SwitchPersist(a, b) PROVE RowTypes'
    BY <1>18, SwitchPersistEffect DEF WtInv, RowTypes, Bindings, OpenStates, Becomes,
       Rested
  <1>19. ASSUME NEW t \in Trees, AgentWrites(t) PROVE RowTypes'
    BY <1>19 DEF AgentWrites, rows, WtInv, RowTypes, Bindings, OpenStates
  <1>20. ASSUME NEW t \in Trees, UserMeddles(t) PROVE RowTypes'
    BY <1>20 DEF UserMeddles, rows, WtInv, RowTypes, Bindings, OpenStates
  <1>21. ASSUME WtDies PROVE RowTypes'
    BY <1>21 DEF WtDies, rows, disk, WtInv, RowTypes, Bindings, OpenStates
  <1> QED
    BY <1>1, <1>2, <1>3, <1>4, <1>5, <1>6, <1>7, <1>8, <1>9, <1>10, <1>11, <1>12, <1>13,
       <1>14, <1>15, <1>16, <1>17, <1>18, <1>19, <1>20, <1>21 DEF WtNext

\* Every step keeps the types of what is on disk.
LEMMA DiskTypesNext == WtInv /\ WtNext => DiskTypes'
  <1> SUFFICES ASSUME WtInv, WtNext PROVE DiskTypes'
    OBVIOUS
  <1>1. ASSUME NEW a \in Agents, NEW s \in Owners, CreateCheck(a, s) PROVE DiskTypes'
    BY <1>1, NoneIsOpen DEF CreateCheck, rows, disk, WtInv, DiskTypes, RowTypes
  <1>2. ASSUME NEW a \in Agents, NEW s \in Owners, CreateAdd(a, s) PROVE DiskTypes'
    BY <1>2 DEF CreateAdd, Aim, Rest, disk, WtInv, DiskTypes, RowTypes
  <1>3. ASSUME NEW a \in Agents, NEW s \in Owners, CreateInsert(a, s) PROVE DiskTypes'
    BY <1>3, CreateInsertEffect DEF WtInv, DiskTypes, RowTypes, Becomes, Rested
  <1>4. ASSUME NEW a \in Agents, NEW s \in Owners, ReadStop(a, s) PROVE DiskTypes'
    BY <1>4, OpenIsRow DEF ReadStop, Aim, Proceed, rows, disk, WtInv, DiskTypes,
       RowTypes
  <1>5. ASSUME NEW a \in Agents, NEW s \in Owners, ReadResume(a, s) PROVE DiskTypes'
    BY <1>5, OpenIsRow DEF ReadResume, Aim, Proceed, rows, disk, WtInv, DiskTypes,
       RowTypes
  <1>6. ASSUME NEW a \in Agents, NEW s \in Owners, NEW b \in Branches, SwitchCheckout(a, s,
               b)
        PROVE  DiskTypes'
    BY <1>6, OpenIsRow DEF SwitchCheckout, Aim, rows, WtInv, DiskTypes, RowTypes
  <1>7. ASSUME NEW a \in Agents, NEW t \in Trees, ReadClose(a, t) PROVE DiskTypes'
    BY <1>7, OpenIsRow DEF ReadClose, Aim, Proceed, rows, disk, WtInv, DiskTypes,
       RowTypes
  <1>8. ASSUME NEW a \in Agents, NEW t \in Trees, ReadCleanup(a, t) PROVE DiskTypes'
    BY <1>8 DEF ReadCleanup, Aim, Proceed, rows, disk, WtInv, DiskTypes, RowTypes
  <1>9. ASSUME NEW a \in Agents, NEW t \in Trees, MarkStale(a, t) PROVE DiskTypes'
    BY <1>9, MarkStaleEffect DEF WtInv, DiskTypes, RowTypes, Becomes, Rested
  <1>10. ASSUME NEW a \in Agents, NEW t \in Trees, ReadSalvage(a, t) PROVE DiskTypes'
    BY <1>10 DEF ReadSalvage, Aim, Proceed, rows, disk, WtInv, DiskTypes, RowTypes
  <1>11. ASSUME NEW a \in Agents, SetState(a) PROVE DiskTypes'
    BY <1>11, SetStateEffect DEF WtInv, DiskTypes, RowTypes, Becomes, Rested
  <1>12. ASSUME NEW a \in Agents, RemoveDisk(a) PROVE DiskTypes'
    BY <1>12, AtWork DEF RemoveDisk, Proceed, rows, WtInv, DiskTypes, RowTypes
  <1>13. ASSUME NEW a \in Agents, RemoveFails(a) PROVE DiskTypes'
    BY <1>13, AtWork DEF RemoveFails, Rest, rows, disk, WtInv, DiskTypes, RowTypes
  <1>14. ASSUME NEW a \in Agents, SetClosed(a) PROVE DiskTypes'
    BY <1>14, SetClosedEffect DEF WtInv, DiskTypes, RowTypes, Becomes, Rested
  <1>15. ASSUME NEW a \in Agents, Relocate(a) PROVE DiskTypes'
    BY <1>15, AtWork DEF Relocate, Proceed, Rest, rows, WtInv, DiskTypes, RowTypes
  <1>16. ASSUME NEW a \in Agents, ReAdd(a) PROVE DiskTypes'
    <2>1. /\ target[a] \in Trees /\ target[a] \in 1..trees /\ binding[target[a]].branch \in Branches
      <3>1. target[a] \in Trees /\ target[a] \in 1..trees
        BY <1>16, AtWork DEF ReAdd, Doing
      <3> QED
        BY <3>1 DEF WtInv, RowTypes, Bindings
    <2>2. dir' = dir \cup {target[a]} /\ files' \subseteq files \cup {target[a]} /\ trees' = trees
          /\ registered' \subseteq registered \cup {target[a]}
      BY <1>16 DEF ReAdd
    <2>3. head' \in [Trees -> Branches] /\ backup' \in [Trees -> {"none", "clean", "files"}]
      BY <1>16, <2>1 DEF ReAdd, WtInv, DiskTypes
    <2> QED
      BY <2>1, <2>2, <2>3 DEF WtInv, DiskTypes
  <1>17. ASSUME NEW a \in Agents, Overlay(a) PROVE DiskTypes'
    <2>1. /\ target[a] \in Trees /\ target[a] \in 1..trees /\ binding[target[a]].branch \in Branches
      <3>1. target[a] \in Trees /\ target[a] \in 1..trees
        BY <1>17, AtWork DEF Overlay, Doing
      <3> QED
        BY <3>1 DEF WtInv, RowTypes, Bindings
    <2>2. dir' = dir \cup {target[a]} /\ files' \subseteq files \cup {target[a]} /\ trees' = trees
          /\ registered' \subseteq registered \cup {target[a]}
      BY <1>17 DEF Overlay
    <2>3. head' \in [Trees -> Branches] /\ backup' \in [Trees -> {"none", "clean", "files"}]
      BY <1>17, <2>1 DEF Overlay, WtInv, DiskTypes
    <2> QED
      BY <2>1, <2>2, <2>3 DEF WtInv, DiskTypes
  <1>18. ASSUME NEW a \in Agents, NEW b \in Branches, SwitchPersist(a, b) PROVE DiskTypes'
    BY <1>18, SwitchPersistEffect DEF WtInv, DiskTypes, RowTypes, Becomes, Rested
  <1>19. ASSUME NEW t \in Trees, AgentWrites(t) PROVE DiskTypes'
    BY <1>19 DEF AgentWrites, rows, WtInv, DiskTypes, RowTypes
  <1>20. ASSUME NEW t \in Trees, UserMeddles(t) PROVE DiskTypes'
    BY <1>20 DEF UserMeddles, rows, WtInv, DiskTypes, RowTypes
  <1>21. ASSUME WtDies PROVE DiskTypes'
    BY <1>21 DEF WtDies, rows, disk, WtInv, DiskTypes, RowTypes
  <1> QED
    BY <1>1, <1>2, <1>3, <1>4, <1>5, <1>6, <1>7, <1>8, <1>9, <1>10, <1>11, <1>12, <1>13,
       <1>14, <1>15, <1>16, <1>17, <1>18, <1>19, <1>20, <1>21 DEF WtNext

\* Every step keeps the types of what the connections do.
LEMMA BusyTypesNext == WtInv /\ WtNext => BusyTypes'
  <1> SUFFICES ASSUME WtInv, WtNext PROVE BusyTypes'
    OBVIOUS
  <1>1. ASSUME NEW a \in Agents, NEW s \in Owners, CreateCheck(a, s) PROVE BusyTypes'
    BY <1>1, NoneIsOpen DEF CreateCheck, rows, disk, WtInv, BusyTypes, Doing
  <1>2. ASSUME NEW a \in Agents, NEW s \in Owners, CreateAdd(a, s) PROVE BusyTypes'
    BY <1>2 DEF CreateAdd, Aim, Rest, disk, WtInv, BusyTypes, Doing
  <1>3. ASSUME NEW a \in Agents, NEW s \in Owners, CreateInsert(a, s) PROVE BusyTypes'
    BY <1>3, CreateInsertEffect DEF WtInv, BusyTypes, Doing, Becomes, Rested
  <1>4. ASSUME NEW a \in Agents, NEW s \in Owners, ReadStop(a, s) PROVE BusyTypes'
    BY <1>4, OpenIsRow DEF ReadStop, Aim, Proceed, rows, disk, WtInv, BusyTypes, Doing
  <1>5. ASSUME NEW a \in Agents, NEW s \in Owners, ReadResume(a, s) PROVE BusyTypes'
    BY <1>5, OpenIsRow DEF ReadResume, Aim, Proceed, rows, disk, WtInv, BusyTypes, Doing
  <1>6. ASSUME NEW a \in Agents, NEW s \in Owners, NEW b \in Branches, SwitchCheckout(a, s,
               b)
        PROVE  BusyTypes'
    BY <1>6, OpenIsRow DEF SwitchCheckout, Aim, rows, WtInv, BusyTypes, Doing
  <1>7. ASSUME NEW a \in Agents, NEW t \in Trees, ReadClose(a, t) PROVE BusyTypes'
    BY <1>7, OpenIsRow DEF ReadClose, Aim, Proceed, rows, disk, WtInv, BusyTypes, Doing
  <1>8. ASSUME NEW a \in Agents, NEW t \in Trees, ReadCleanup(a, t) PROVE BusyTypes'
    BY <1>8 DEF ReadCleanup, Aim, Proceed, rows, disk, WtInv, BusyTypes, Doing
  <1>9. ASSUME NEW a \in Agents, NEW t \in Trees, MarkStale(a, t) PROVE BusyTypes'
    BY <1>9, MarkStaleEffect DEF WtInv, BusyTypes, Doing, Becomes, Rested
  <1>10. ASSUME NEW a \in Agents, NEW t \in Trees, ReadSalvage(a, t) PROVE BusyTypes'
    BY <1>10 DEF ReadSalvage, Aim, Proceed, rows, disk, WtInv, BusyTypes, Doing
  <1>11. ASSUME NEW a \in Agents, SetState(a) PROVE BusyTypes'
    BY <1>11, SetStateEffect DEF WtInv, BusyTypes, Doing, Becomes, Rested
  <1>12. ASSUME NEW a \in Agents, RemoveDisk(a) PROVE BusyTypes'
    BY <1>12, AtWork DEF RemoveDisk, Proceed, rows, WtInv, BusyTypes, Doing
  <1>13. ASSUME NEW a \in Agents, RemoveFails(a) PROVE BusyTypes'
    BY <1>13, AtWork DEF RemoveFails, Rest, rows, disk, WtInv, BusyTypes, Doing
  <1>14. ASSUME NEW a \in Agents, SetClosed(a) PROVE BusyTypes'
    BY <1>14, SetClosedEffect DEF WtInv, BusyTypes, Doing, Becomes, Rested
  <1>15. ASSUME NEW a \in Agents, Relocate(a) PROVE BusyTypes'
    BY <1>15, AtWork DEF Relocate, Proceed, Rest, rows, WtInv, BusyTypes, Doing
  <1>16. ASSUME NEW a \in Agents, ReAdd(a) PROVE BusyTypes'
    BY <1>16, AtWork DEF ReAdd, Proceed, Rest, rows, WtInv, BusyTypes, Doing
  <1>17. ASSUME NEW a \in Agents, Overlay(a) PROVE BusyTypes'
    BY <1>17, AtWork DEF Overlay, Proceed, rows, WtInv, BusyTypes, Doing
  <1>18. ASSUME NEW a \in Agents, NEW b \in Branches, SwitchPersist(a, b) PROVE BusyTypes'
    BY <1>18, SwitchPersistEffect DEF WtInv, BusyTypes, Doing, Becomes, Rested
  <1>19. ASSUME NEW t \in Trees, AgentWrites(t) PROVE BusyTypes'
    BY <1>19 DEF AgentWrites, rows, WtInv, BusyTypes, Doing
  <1>20. ASSUME NEW t \in Trees, UserMeddles(t) PROVE BusyTypes'
    BY <1>20 DEF UserMeddles, rows, WtInv, BusyTypes, Doing
  <1>21. ASSUME WtDies PROVE BusyTypes'
    BY <1>21 DEF WtDies, rows, disk, WtInv, BusyTypes, Doing
  <1> QED
    BY <1>1, <1>2, <1>3, <1>4, <1>5, <1>6, <1>7, <1>8, <1>9, <1>10, <1>11, <1>12, <1>13,
       <1>14, <1>15, <1>16, <1>17, <1>18, <1>19, <1>20, <1>21 DEF WtNext

\* Every step keeps the types of the targets.
LEMMA TargetTypesNext == WtInv /\ WtNext => TargetTypes'
  <1> SUFFICES ASSUME WtInv, WtNext PROVE TargetTypes'
    OBVIOUS
  <1>1. ASSUME NEW a \in Agents, NEW s \in Owners, CreateCheck(a, s) PROVE TargetTypes'
    BY <1>1, NoneIsOpen DEF CreateCheck, rows, disk, WtInv, TargetTypes, RowTypes
  <1>2. ASSUME NEW a \in Agents, NEW s \in Owners, CreateAdd(a, s) PROVE TargetTypes'
    <2>1. trees \in Nat /\ target \in [Agents -> Nat] /\ \A c \in Agents : target[c] <= trees
      BY DEF WtInv, RowTypes, TargetTypes
    <2>2. CASE trees' = trees + 1 /\ target' = [target EXCEPT ![a] = trees + 1]
      BY <2>1, <2>2 DEF TargetTypes
    <2>3. CASE trees' = trees /\ target' = [target EXCEPT ![a] = 0]
      BY <2>1, <2>3 DEF TargetTypes
    <2> QED
      BY <1>2, <2>2, <2>3, CreateAddEffect
  <1>3. ASSUME NEW a \in Agents, NEW s \in Owners, CreateInsert(a, s) PROVE TargetTypes'
    <2>1. trees' = trees /\ target' \in {target, [target EXCEPT ![a] = 0]}
      BY <1>3 DEF CreateInsert, Rest, disk
    <2> QED
      BY <2>1, TargetKept
  <1>4. ASSUME NEW a \in Agents, NEW s \in Owners, ReadStop(a, s) PROVE TargetTypes'
    BY <1>4, OpenIsRow DEF ReadStop, Aim, Proceed, rows, disk, WtInv, TargetTypes,
       RowTypes
  <1>5. ASSUME NEW a \in Agents, NEW s \in Owners, ReadResume(a, s) PROVE TargetTypes'
    BY <1>5, OpenIsRow DEF ReadResume, Aim, Proceed, rows, disk, WtInv, TargetTypes,
       RowTypes
  <1>6. ASSUME NEW a \in Agents, NEW s \in Owners, NEW b \in Branches, SwitchCheckout(a, s,
               b)
        PROVE  TargetTypes'
    BY <1>6, OpenIsRow DEF SwitchCheckout, Aim, rows, WtInv, TargetTypes, RowTypes
  <1>7. ASSUME NEW a \in Agents, NEW t \in Trees, ReadClose(a, t) PROVE TargetTypes'
    BY <1>7, OpenIsRow DEF ReadClose, Aim, Proceed, rows, disk, WtInv, TargetTypes,
       RowTypes
  <1>8. ASSUME NEW a \in Agents, NEW t \in Trees, ReadCleanup(a, t) PROVE TargetTypes'
    BY <1>8 DEF ReadCleanup, Aim, Proceed, rows, disk, WtInv, TargetTypes, RowTypes,
       RowsHaveState, Trees
  <1>9. ASSUME NEW a \in Agents, NEW t \in Trees, MarkStale(a, t) PROVE TargetTypes'
    BY <1>9, MarkStaleEffect DEF WtInv, TargetTypes, RowTypes, Becomes, Rested
  <1>10. ASSUME NEW a \in Agents, NEW t \in Trees, ReadSalvage(a, t) PROVE TargetTypes'
    <2>1. t \in Range(recent)
      BY <1>10 DEF ReadSalvage, WtInv, RowsHaveState, OpenStates
    <2>2. t \in Nat /\ t <= trees /\ trees' = trees
      BY <1>10, <2>1 DEF ReadSalvage, WtInv, RowTypes
    <2> QED
      BY <1>10, <2>2 DEF ReadSalvage, Aim, WtInv, TargetTypes
  <1>11. ASSUME NEW a \in Agents, SetState(a) PROVE TargetTypes'
    <2>1. trees' = trees /\ target' \in {target, [target EXCEPT ![a] = 0]}
      BY <1>11 DEF SetState, Rest, disk
    <2> QED
      BY <2>1, TargetKept
  <1>12. ASSUME NEW a \in Agents, RemoveDisk(a) PROVE TargetTypes'
    BY <1>12, AtWork DEF RemoveDisk, Proceed, rows, WtInv, TargetTypes, RowTypes
  <1>13. ASSUME NEW a \in Agents, RemoveFails(a) PROVE TargetTypes'
    BY <1>13, AtWork DEF RemoveFails, Rest, rows, disk, WtInv, TargetTypes, RowTypes
  <1>14. ASSUME NEW a \in Agents, SetClosed(a) PROVE TargetTypes'
    <2>1. trees' = trees /\ target' \in {target, [target EXCEPT ![a] = 0]}
      BY <1>14 DEF SetClosed, Rest, disk
    <2> QED
      BY <2>1, TargetKept
  <1>15. ASSUME NEW a \in Agents, Relocate(a) PROVE TargetTypes'
    <2>1. trees' = trees /\ target' \in {target, [target EXCEPT ![a] = 0]}
      BY <1>15 DEF Relocate, Rest
    <2> QED
      BY <2>1, TargetKept
  <1>16. ASSUME NEW a \in Agents, ReAdd(a) PROVE TargetTypes'
    <2>1. trees' = trees /\ target' \in {target, [target EXCEPT ![a] = 0]}
      BY <1>16 DEF ReAdd, Rest
    <2> QED
      BY <2>1, TargetKept
  <1>17. ASSUME NEW a \in Agents, Overlay(a) PROVE TargetTypes'
    BY <1>17, AtWork DEF Overlay, Proceed, rows, WtInv, TargetTypes, RowTypes
  <1>18. ASSUME NEW a \in Agents, NEW b \in Branches, SwitchPersist(a, b) PROVE TargetTypes'
    <2>1. trees' = trees /\ target' \in {target, [target EXCEPT ![a] = 0]}
      BY <1>18 DEF SwitchPersist, Rest, disk
    <2> QED
      BY <2>1, TargetKept
  <1>19. ASSUME NEW t \in Trees, AgentWrites(t) PROVE TargetTypes'
    BY <1>19 DEF AgentWrites, rows, WtInv, TargetTypes, RowTypes
  <1>20. ASSUME NEW t \in Trees, UserMeddles(t) PROVE TargetTypes'
    BY <1>20 DEF UserMeddles, rows, WtInv, TargetTypes, RowTypes
  <1>21. ASSUME WtDies PROVE TargetTypes'
    BY <1>21 DEF WtDies, rows, disk, WtInv, TargetTypes, RowTypes
  <1> QED
    BY <1>1, <1>2, <1>3, <1>4, <1>5, <1>6, <1>7, <1>8, <1>9, <1>10, <1>11, <1>12, <1>13,
       <1>14, <1>15, <1>16, <1>17, <1>18, <1>19, <1>20, <1>21 DEF WtNext

\* Every step keeps RowsHaveState.
LEMMA RowsHaveStateNext == WtInv /\ WtNext => RowsHaveState'
  <1> SUFFICES ASSUME WtInv, WtNext PROVE RowsHaveState'
    OBVIOUS
  <1>1. ASSUME NEW a \in Agents, NEW s \in Owners, CreateCheck(a, s) PROVE RowsHaveState'
    BY <1>1, NoneIsOpen DEF CreateCheck, rows, disk, WtInv, RowsHaveState, RowTypes
  <1>2. ASSUME NEW a \in Agents, NEW s \in Owners, CreateAdd(a, s) PROVE RowsHaveState'
    BY <1>2, CreateAddEffect DEF WtInv, RowsHaveState, RowTypes
  <1>3. ASSUME NEW a \in Agents, NEW s \in Owners, CreateInsert(a, s) PROVE RowsHaveState'
    BY <1>3, CreateInsertEffect DEF WtInv, RowsHaveState, RowTypes, Becomes, Rested
  <1>4. ASSUME NEW a \in Agents, NEW s \in Owners, ReadStop(a, s) PROVE RowsHaveState'
    BY <1>4, OpenIsRow DEF ReadStop, Aim, Proceed, rows, disk, WtInv, RowsHaveState,
       RowTypes
  <1>5. ASSUME NEW a \in Agents, NEW s \in Owners, ReadResume(a, s) PROVE RowsHaveState'
    BY <1>5, OpenIsRow DEF ReadResume, Aim, Proceed, rows, disk, WtInv, RowsHaveState,
       RowTypes
  <1>6. ASSUME NEW a \in Agents, NEW s \in Owners, NEW b \in Branches, SwitchCheckout(a, s,
               b)
        PROVE  RowsHaveState'
    BY <1>6, OpenIsRow DEF SwitchCheckout, Aim, rows, WtInv, RowsHaveState, RowTypes
  <1>7. ASSUME NEW a \in Agents, NEW t \in Trees, ReadClose(a, t) PROVE RowsHaveState'
    BY <1>7, OpenIsRow DEF ReadClose, Aim, Proceed, rows, disk, WtInv, RowsHaveState,
       RowTypes
  <1>8. ASSUME NEW a \in Agents, NEW t \in Trees, ReadCleanup(a, t) PROVE RowsHaveState'
    BY <1>8 DEF ReadCleanup, Aim, Proceed, rows, disk, WtInv, RowsHaveState, RowTypes
  <1>9. ASSUME NEW a \in Agents, NEW t \in Trees, MarkStale(a, t) PROVE RowsHaveState'
    BY <1>9, MarkStaleEffect DEF WtInv, RowsHaveState, RowTypes, Becomes, Rested
  <1>10. ASSUME NEW a \in Agents, NEW t \in Trees, ReadSalvage(a, t) PROVE RowsHaveState'
    BY <1>10 DEF ReadSalvage, Aim, Proceed, rows, disk, WtInv, RowsHaveState, RowTypes
  <1>11. ASSUME NEW a \in Agents, SetState(a) PROVE RowsHaveState'
    BY <1>11, SetStateEffect DEF WtInv, RowsHaveState, RowTypes, Becomes, Rested
  <1>12. ASSUME NEW a \in Agents, RemoveDisk(a) PROVE RowsHaveState'
    BY <1>12, AtWork DEF RemoveDisk, Proceed, rows, WtInv, RowsHaveState, RowTypes
  <1>13. ASSUME NEW a \in Agents, RemoveFails(a) PROVE RowsHaveState'
    BY <1>13, AtWork DEF RemoveFails, Rest, rows, disk, WtInv, RowsHaveState, RowTypes
  <1>14. ASSUME NEW a \in Agents, SetClosed(a) PROVE RowsHaveState'
    BY <1>14, SetClosedEffect DEF WtInv, RowsHaveState, RowTypes, Becomes, Rested
  <1>15. ASSUME NEW a \in Agents, Relocate(a) PROVE RowsHaveState'
    BY <1>15, AtWork DEF Relocate, Proceed, Rest, rows, WtInv, RowsHaveState, RowTypes
  <1>16. ASSUME NEW a \in Agents, ReAdd(a) PROVE RowsHaveState'
    BY <1>16, WorktreeConstants, AtWork DEF ReAdd, Proceed, Rest, rows, WtInv,
       RowsHaveState, RowTypes, DiskTypes, Bindings, OpenStates, Trees
  <1>17. ASSUME NEW a \in Agents, Overlay(a) PROVE RowsHaveState'
    BY <1>17, AtWork DEF Overlay, Proceed, rows, WtInv, RowsHaveState, RowTypes
  <1>18. ASSUME NEW a \in Agents, NEW b \in Branches, SwitchPersist(a, b)
         PROVE  RowsHaveState'
    BY <1>18, SwitchPersistEffect DEF WtInv, RowsHaveState, RowTypes, Becomes, Rested
  <1>19. ASSUME NEW t \in Trees, AgentWrites(t) PROVE RowsHaveState'
    BY <1>19 DEF AgentWrites, rows, WtInv, RowsHaveState, RowTypes
  <1>20. ASSUME NEW t \in Trees, UserMeddles(t) PROVE RowsHaveState'
    BY <1>20 DEF UserMeddles, rows, WtInv, RowsHaveState, RowTypes
  <1>21. ASSUME WtDies PROVE RowsHaveState'
    BY <1>21 DEF WtDies, rows, disk, WtInv, RowsHaveState, RowTypes
  <1> QED
    BY <1>1, <1>2, <1>3, <1>4, <1>5, <1>6, <1>7, <1>8, <1>9, <1>10, <1>11, <1>12, <1>13,
       <1>14, <1>15, <1>16, <1>17, <1>18, <1>19, <1>20, <1>21 DEF WtNext

\* Every step keeps AimsAtOpen.
LEMMA AimsAtOpenNext == OneAtATime(Agents) /\ WtInv /\ WtNext => AimsAtOpen'
  <1> SUFFICES ASSUME OneAtATime(Agents), WtInv, WtNext PROVE AimsAtOpen'
    OBVIOUS
  <1>1. ASSUME NEW a \in Agents, NEW s \in Owners, CreateCheck(a, s) PROVE AimsAtOpen'
    BY <1>1, Labels, NoneIsOpen DEF CreateCheck, rows, disk, OneAtATime, WtInv,
       AimsAtOpen, RowTypes, BusyTypes, TargetTypes, Doing, Branches
  <1>2. ASSUME NEW a \in Agents, NEW s \in Owners, CreateAdd(a, s) PROVE AimsAtOpen'
    BY <1>2, Labels DEF CreateAdd, Aim, Rest, disk, OneAtATime, WtInv, AimsAtOpen,
       RowTypes, BusyTypes, TargetTypes, Doing, Branches
  <1>3. ASSUME NEW a \in Agents, NEW s \in Owners, CreateInsert(a, s) PROVE AimsAtOpen'
    BY <1>3, Labels, CreateInsertEffect DEF OneAtATime, WtInv, AimsAtOpen, RowTypes,
       BusyTypes, TargetTypes, Doing, Branches, Becomes, Rested
  <1>4. ASSUME NEW a \in Agents, NEW s \in Owners, ReadStop(a, s) PROVE AimsAtOpen'
    BY <1>4, Labels, OpenIsRow DEF ReadStop, Aim, Proceed, rows, disk, OneAtATime,
       WtInv, AimsAtOpen, RowTypes, BusyTypes, TargetTypes, Doing, Branches
  <1>5. ASSUME NEW a \in Agents, NEW s \in Owners, ReadResume(a, s) PROVE AimsAtOpen'
    BY <1>5, Labels, OpenIsRow DEF ReadResume, Aim, Proceed, rows, disk, OneAtATime,
       WtInv, AimsAtOpen, RowTypes, BusyTypes, TargetTypes, Doing, Branches
  <1>6. ASSUME NEW a \in Agents, NEW s \in Owners, NEW b \in Branches, SwitchCheckout(a, s,
               b)
        PROVE  AimsAtOpen'
    BY <1>6, Labels, OpenIsRow DEF SwitchCheckout, Aim, rows, OneAtATime, WtInv,
       AimsAtOpen, RowTypes, BusyTypes, TargetTypes, Doing, Branches
  <1>7. ASSUME NEW a \in Agents, NEW t \in Trees, ReadClose(a, t) PROVE AimsAtOpen'
    BY <1>7, Labels, OpenIsRow DEF ReadClose, Aim, Proceed, rows, disk, OneAtATime,
       WtInv, AimsAtOpen, RowTypes, BusyTypes, TargetTypes, Doing, Branches
  <1>8. ASSUME NEW a \in Agents, NEW t \in Trees, ReadCleanup(a, t) PROVE AimsAtOpen'
    BY <1>8, Labels DEF ReadCleanup, Aim, Proceed, rows, disk, OneAtATime, WtInv,
       AimsAtOpen, RowTypes, BusyTypes, TargetTypes, RowsHaveState, Doing, Branches,
       OpenStates, Bindings, Trees
  <1>9. ASSUME NEW a \in Agents, NEW t \in Trees, MarkStale(a, t) PROVE AimsAtOpen'
    BY <1>9, Labels, MarkStaleEffect DEF OneAtATime, WtInv, AimsAtOpen, RowTypes,
       BusyTypes, TargetTypes, Doing, Branches, Becomes, Rested
  <1>10. ASSUME NEW a \in Agents, NEW t \in Trees, ReadSalvage(a, t) PROVE AimsAtOpen'
    BY <1>10, Labels DEF ReadSalvage, Aim, Proceed, rows, disk, OneAtATime, WtInv,
       AimsAtOpen, RowTypes, BusyTypes, TargetTypes, RowsHaveState, Doing, Branches,
       OpenStates, Bindings, Trees
  <1>11. ASSUME NEW a \in Agents, SetState(a) PROVE AimsAtOpen'
    BY <1>11, Labels, SetStateEffect DEF OneAtATime, WtInv, AimsAtOpen, RowTypes,
       BusyTypes, TargetTypes, Doing, Branches, Becomes, Rested
  <1>12. ASSUME NEW a \in Agents, RemoveDisk(a) PROVE AimsAtOpen'
    BY <1>12, Labels, AtWork DEF RemoveDisk, Proceed, rows, OneAtATime, WtInv,
       AimsAtOpen, RowTypes, BusyTypes, TargetTypes, Doing, Branches
  <1>13. ASSUME NEW a \in Agents, RemoveFails(a) PROVE AimsAtOpen'
    BY <1>13, Labels, AtWork DEF RemoveFails, Rest, rows, disk, OneAtATime, WtInv,
       AimsAtOpen, RowTypes, BusyTypes, TargetTypes, Doing, Branches
  <1>14. ASSUME NEW a \in Agents, SetClosed(a) PROVE AimsAtOpen'
    BY <1>14, Labels, SetClosedEffect DEF OneAtATime, WtInv, AimsAtOpen, RowTypes,
       BusyTypes, TargetTypes, Doing, Branches, Becomes, Rested
  <1>15. ASSUME NEW a \in Agents, Relocate(a) PROVE AimsAtOpen'
    BY <1>15, Labels, AtWork DEF Relocate, Proceed, Rest, rows, OneAtATime, WtInv,
       AimsAtOpen, RowTypes, BusyTypes, TargetTypes, Doing, Branches
  <1>16. ASSUME NEW a \in Agents, ReAdd(a) PROVE AimsAtOpen'
    BY <1>16, Labels, AtWork DEF ReAdd, Proceed, Rest, rows, OneAtATime, WtInv,
       AimsAtOpen, RowTypes, BusyTypes, TargetTypes, Doing, Branches
  <1>17. ASSUME NEW a \in Agents, Overlay(a) PROVE AimsAtOpen'
    BY <1>17, Labels, AtWork DEF Overlay, Proceed, rows, OneAtATime, WtInv, AimsAtOpen,
       RowTypes, BusyTypes, TargetTypes, Doing, Branches
  <1>18. ASSUME NEW a \in Agents, NEW b \in Branches, SwitchPersist(a, b) PROVE AimsAtOpen'
    BY <1>18, Labels, SwitchPersistEffect DEF OneAtATime, WtInv, AimsAtOpen, RowTypes,
       BusyTypes, TargetTypes, Doing, Branches, Becomes, Rested
  <1>19. ASSUME NEW t \in Trees, AgentWrites(t) PROVE AimsAtOpen'
    BY <1>19, Labels DEF AgentWrites, rows, OneAtATime, WtInv, AimsAtOpen, RowTypes,
       BusyTypes, TargetTypes, Doing, Branches
  <1>20. ASSUME NEW t \in Trees, UserMeddles(t) PROVE AimsAtOpen'
    BY <1>20, Labels DEF UserMeddles, rows, OneAtATime, WtInv, AimsAtOpen, RowTypes,
       BusyTypes, TargetTypes, Doing, Branches
  <1>21. ASSUME WtDies PROVE AimsAtOpen'
    BY <1>21, Labels DEF WtDies, rows, disk, OneAtATime, WtInv, AimsAtOpen, RowTypes,
       BusyTypes, TargetTypes, Doing, Branches
  <1> QED
    BY <1>1, <1>2, <1>3, <1>4, <1>5, <1>6, <1>7, <1>8, <1>9, <1>10, <1>11, <1>12, <1>13,
       <1>14, <1>15, <1>16, <1>17, <1>18, <1>19, <1>20, <1>21 DEF WtNext

\* Every step keeps CreatesFirst.
LEMMA CreatesFirstNext == OneAtATime(Agents) /\ WtInv /\ WtNext => CreatesFirst'
  <1> SUFFICES ASSUME OneAtATime(Agents), WtInv, WtNext PROVE CreatesFirst'
    OBVIOUS
  <1>1. ASSUME NEW a \in Agents, NEW s \in Owners, CreateCheck(a, s) PROVE CreatesFirst'
    BY <1>1, Labels, NoneIsOpen DEF CreateCheck, rows, disk, OneAtATime, WtInv,
       CreatesFirst, RowTypes, AimsAtOpen, BusyTypes, TargetTypes, RowsHaveState, Doing,
       Branches, OpenStates, Bindings, Trees
  <1>2. ASSUME NEW a \in Agents, NEW s \in Owners, CreateAdd(a, s) PROVE CreatesFirst'
    BY <1>2, Labels, CreateAddEffect DEF OneAtATime, WtInv, CreatesFirst, RowTypes,
       BusyTypes, TargetTypes, Doing, Branches
  <1>3. ASSUME NEW a \in Agents, NEW s \in Owners, CreateInsert(a, s) PROVE CreatesFirst'
    BY <1>3, Labels, CreateInsertEffect DEF OneAtATime, WtInv, CreatesFirst, RowTypes,
       BusyTypes, TargetTypes, Doing, Branches, Becomes, Rested
  <1>4. ASSUME NEW a \in Agents, NEW s \in Owners, ReadStop(a, s) PROVE CreatesFirst'
    BY <1>4, Labels, OpenIsRow DEF ReadStop, Aim, Proceed, rows, disk, OneAtATime,
       WtInv, CreatesFirst, RowTypes, BusyTypes, TargetTypes, Doing, Branches
  <1>5. ASSUME NEW a \in Agents, NEW s \in Owners, ReadResume(a, s) PROVE CreatesFirst'
    BY <1>5, Labels, OpenIsRow DEF ReadResume, Aim, Proceed, rows, disk, OneAtATime,
       WtInv, CreatesFirst, RowTypes, BusyTypes, TargetTypes, Doing, Branches
  <1>6. ASSUME NEW a \in Agents, NEW s \in Owners, NEW b \in Branches, SwitchCheckout(a, s,
               b)
        PROVE  CreatesFirst'
    BY <1>6, Labels, OpenIsRow DEF SwitchCheckout, Aim, rows, OneAtATime, WtInv,
       CreatesFirst, RowTypes, BusyTypes, TargetTypes, Doing, Branches
  <1>7. ASSUME NEW a \in Agents, NEW t \in Trees, ReadClose(a, t) PROVE CreatesFirst'
    BY <1>7, Labels, OpenIsRow DEF ReadClose, Aim, Proceed, rows, disk, OneAtATime,
       WtInv, CreatesFirst, RowTypes, BusyTypes, TargetTypes, Doing, Branches
  <1>8. ASSUME NEW a \in Agents, NEW t \in Trees, ReadCleanup(a, t) PROVE CreatesFirst'
    BY <1>8, Labels DEF ReadCleanup, Aim, Proceed, rows, disk, OneAtATime, WtInv,
       CreatesFirst, RowTypes, BusyTypes, TargetTypes, Doing, Branches
  <1>9. ASSUME NEW a \in Agents, NEW t \in Trees, MarkStale(a, t) PROVE CreatesFirst'
    BY <1>9, Labels, MarkStaleEffect DEF OneAtATime, WtInv, CreatesFirst, RowTypes,
       BusyTypes, TargetTypes, Doing, Branches, Becomes, Rested
  <1>10. ASSUME NEW a \in Agents, NEW t \in Trees, ReadSalvage(a, t) PROVE CreatesFirst'
    BY <1>10, Labels DEF ReadSalvage, Aim, Proceed, rows, disk, OneAtATime, WtInv,
       CreatesFirst, RowTypes, BusyTypes, TargetTypes, Doing, Branches
  <1>11. ASSUME NEW a \in Agents, SetState(a) PROVE CreatesFirst'
    BY <1>11, Labels, SetStateEffect DEF OneAtATime, WtInv, CreatesFirst, RowTypes,
       BusyTypes, TargetTypes, Doing, Branches, Becomes, Rested
  <1>12. ASSUME NEW a \in Agents, RemoveDisk(a) PROVE CreatesFirst'
    BY <1>12, Labels, AtWork DEF RemoveDisk, Proceed, rows, OneAtATime, WtInv,
       CreatesFirst, RowTypes, BusyTypes, TargetTypes, Doing, Branches
  <1>13. ASSUME NEW a \in Agents, RemoveFails(a) PROVE CreatesFirst'
    BY <1>13, Labels, AtWork DEF RemoveFails, Rest, rows, disk, OneAtATime, WtInv,
       CreatesFirst, RowTypes, BusyTypes, TargetTypes, Doing, Branches
  <1>14. ASSUME NEW a \in Agents, SetClosed(a) PROVE CreatesFirst'
    BY <1>14, Labels, SetClosedEffect DEF OneAtATime, WtInv, CreatesFirst, RowTypes,
       BusyTypes, TargetTypes, Doing, Branches, Becomes, Rested
  <1>15. ASSUME NEW a \in Agents, Relocate(a) PROVE CreatesFirst'
    BY <1>15, Labels, AtWork DEF Relocate, Proceed, Rest, rows, OneAtATime, WtInv,
       CreatesFirst, RowTypes, BusyTypes, TargetTypes, Doing, Branches
  <1>16. ASSUME NEW a \in Agents, ReAdd(a) PROVE CreatesFirst'
    BY <1>16, Labels, AtWork DEF ReAdd, Proceed, Rest, rows, OneAtATime, WtInv,
       CreatesFirst, RowTypes, BusyTypes, TargetTypes, Doing, Branches
  <1>17. ASSUME NEW a \in Agents, Overlay(a) PROVE CreatesFirst'
    BY <1>17, Labels, AtWork DEF Overlay, Proceed, rows, OneAtATime, WtInv,
       CreatesFirst, RowTypes, BusyTypes, TargetTypes, Doing, Branches
  <1>18. ASSUME NEW a \in Agents, NEW b \in Branches, SwitchPersist(a, b)
         PROVE  CreatesFirst'
    BY <1>18, Labels, SwitchPersistEffect DEF OneAtATime, WtInv, CreatesFirst, RowTypes,
       BusyTypes, TargetTypes, Doing, Branches, Becomes, Rested
  <1>19. ASSUME NEW t \in Trees, AgentWrites(t) PROVE CreatesFirst'
    BY <1>19, Labels DEF AgentWrites, rows, OneAtATime, WtInv, CreatesFirst, RowTypes,
       BusyTypes, TargetTypes, Doing, Branches
  <1>20. ASSUME NEW t \in Trees, UserMeddles(t) PROVE CreatesFirst'
    BY <1>20, Labels DEF UserMeddles, rows, OneAtATime, WtInv, CreatesFirst, RowTypes,
       BusyTypes, TargetTypes, Doing, Branches
  <1>21. ASSUME WtDies PROVE CreatesFirst'
    BY <1>21, Labels DEF WtDies, rows, disk, OneAtATime, WtInv, CreatesFirst, RowTypes,
       BusyTypes, TargetTypes, Doing, Branches
  <1> QED
    BY <1>1, <1>2, <1>3, <1>4, <1>5, <1>6, <1>7, <1>8, <1>9, <1>10, <1>11, <1>12, <1>13,
       <1>14, <1>15, <1>16, <1>17, <1>18, <1>19, <1>20, <1>21 DEF WtNext

\* Every step keeps HandsOn.
LEMMA HandsOnNext == OneAtATime(Agents) /\ WtInv /\ WtNext => HandsOn'
  <1> SUFFICES ASSUME OneAtATime(Agents), WtInv, WtNext PROVE HandsOn'
    OBVIOUS
  <1>1. ASSUME NEW a \in Agents, NEW s \in Owners, CreateCheck(a, s) PROVE HandsOn'
    BY <1>1, Labels, NoneIsOpen DEF CreateCheck, rows, disk, OneAtATime, WtInv, HandsOn,
       BusyTypes, TargetTypes, Doing, Branches
  <1>2. ASSUME NEW a \in Agents, NEW s \in Owners, CreateAdd(a, s) PROVE HandsOn'
    BY <1>2, Labels DEF CreateAdd, Aim, Rest, disk, OneAtATime, WtInv, HandsOn,
       BusyTypes, TargetTypes, Doing, Branches
  <1>3. ASSUME NEW a \in Agents, NEW s \in Owners, CreateInsert(a, s) PROVE HandsOn'
    BY <1>3, Labels, CreateInsertEffect DEF OneAtATime, WtInv, HandsOn, BusyTypes,
       TargetTypes, Doing, Branches, Becomes, Rested
  <1>4. ASSUME NEW a \in Agents, NEW s \in Owners, ReadStop(a, s) PROVE HandsOn'
    BY <1>4, Labels, OpenIsRow DEF ReadStop, Aim, Proceed, rows, disk, OneAtATime,
       WtInv, HandsOn, BusyTypes, TargetTypes, Doing, Branches
  <1>5. ASSUME NEW a \in Agents, NEW s \in Owners, ReadResume(a, s) PROVE HandsOn'
    BY <1>5, Labels, OpenIsRow DEF ReadResume, Aim, Proceed, rows, disk, OneAtATime,
       WtInv, HandsOn, BusyTypes, TargetTypes, Doing, Branches
  <1>6. ASSUME NEW a \in Agents, NEW s \in Owners, NEW b \in Branches, SwitchCheckout(a, s,
               b)
        PROVE  HandsOn'
    BY <1>6, Labels, OpenIsRow DEF SwitchCheckout, Aim, rows, OneAtATime, WtInv,
       HandsOn, RowTypes, DiskTypes, BusyTypes, TargetTypes, BranchRecorded, Doing,
       Branches, Bindings, Trees
  <1>7. ASSUME NEW a \in Agents, NEW t \in Trees, ReadClose(a, t) PROVE HandsOn'
    BY <1>7, Labels, OpenIsRow DEF ReadClose, Aim, Proceed, rows, disk, OneAtATime,
       WtInv, HandsOn, BusyTypes, TargetTypes, Doing, Branches
  <1>8. ASSUME NEW a \in Agents, NEW t \in Trees, ReadCleanup(a, t) PROVE HandsOn'
    BY <1>8, Labels DEF ReadCleanup, Aim, Proceed, rows, disk, OneAtATime, WtInv,
       HandsOn, BusyTypes, TargetTypes, Doing, Branches
  <1>9. ASSUME NEW a \in Agents, NEW t \in Trees, MarkStale(a, t) PROVE HandsOn'
    BY <1>9, Labels, MarkStaleEffect DEF OneAtATime, WtInv, HandsOn, BusyTypes,
       TargetTypes, Doing, Branches, Becomes, Rested
  <1>10. ASSUME NEW a \in Agents, NEW t \in Trees, ReadSalvage(a, t) PROVE HandsOn'
    BY <1>10, Labels DEF ReadSalvage, Aim, Proceed, rows, disk, OneAtATime, WtInv,
       HandsOn, BusyTypes, TargetTypes, Doing, Branches
  <1>11. ASSUME NEW a \in Agents, SetState(a) PROVE HandsOn'
    BY <1>11, Labels, SetStateEffect DEF OneAtATime, WtInv, HandsOn, BusyTypes,
       TargetTypes, Doing, Branches, Becomes, Rested
  <1>12. ASSUME NEW a \in Agents, RemoveDisk(a) PROVE HandsOn'
    BY <1>12, Labels, AtWork DEF RemoveDisk, Proceed, rows, OneAtATime, WtInv, HandsOn,
       BusyTypes, TargetTypes, Doing, Branches
  <1>13. ASSUME NEW a \in Agents, RemoveFails(a) PROVE HandsOn'
    BY <1>13, Labels, AtWork DEF RemoveFails, Rest, rows, disk, OneAtATime, WtInv,
       HandsOn, BusyTypes, TargetTypes, Doing, Branches
  <1>14. ASSUME NEW a \in Agents, SetClosed(a) PROVE HandsOn'
    BY <1>14, Labels, SetClosedEffect DEF OneAtATime, WtInv, HandsOn, BusyTypes,
       TargetTypes, Doing, Branches, Becomes, Rested
  <1>15. ASSUME NEW a \in Agents, Relocate(a) PROVE HandsOn'
    BY <1>15, Labels, AtWork DEF Relocate, Proceed, Rest, rows, OneAtATime, WtInv,
       HandsOn, RowTypes, DiskTypes, BusyTypes, TargetTypes, BranchRecorded, Doing,
       Branches, Bindings, Trees
  <1>16. ASSUME NEW a \in Agents, ReAdd(a) PROVE HandsOn'
    <2>1. target[a] \in Trees /\ busy[a] = "relocated" /\ \A c \in Agents : c = a
      BY <1>16, AtWork DEF ReAdd, Doing, OneAtATime
    <2>2. CASE /\ busy' = [busy EXCEPT ![a] = "added"] /\ target' = target /\ binding' = binding
               /\ head' = [head EXCEPT ![target[a]] = binding[target[a]].branch]
      <3>1. busy'[a] = "added" /\ head'[target[a]] = binding[target[a]].branch
        BY <2>1, <2>2 DEF WtInv, DiskTypes, BusyTypes
      <3> QED
        BY <2>1, <2>2, <3>1 DEF HandsOn, Branches
    <2>3. CASE busy' = [busy EXCEPT ![a] = "idle"]
      <3>1. busy'[a] = "idle"
        BY <2>3 DEF WtInv, BusyTypes
      <3> QED
        BY <2>1, <3>1 DEF HandsOn, Branches
    <2> QED
      BY <1>16, <2>2, <2>3 DEF ReAdd, Proceed, Rest, rows
  <1>17. ASSUME NEW a \in Agents, Overlay(a) PROVE HandsOn'
    BY <1>17, Labels, AtWork DEF Overlay, Proceed, rows, OneAtATime, WtInv, HandsOn,
       BusyTypes, TargetTypes, Doing, Branches
  <1>18. ASSUME NEW a \in Agents, NEW b \in Branches, SwitchPersist(a, b) PROVE HandsOn'
    BY <1>18, Labels, SwitchPersistEffect DEF OneAtATime, WtInv, HandsOn, BusyTypes,
       TargetTypes, Doing, Branches, Becomes, Rested
  <1>19. ASSUME NEW t \in Trees, AgentWrites(t) PROVE HandsOn'
    BY <1>19, Labels DEF AgentWrites, rows, OneAtATime, WtInv, HandsOn, BusyTypes,
       TargetTypes, Doing, Branches
  <1>20. ASSUME NEW t \in Trees, UserMeddles(t) PROVE HandsOn'
    BY <1>20, Labels DEF UserMeddles, rows, OneAtATime, WtInv, HandsOn, BusyTypes,
       TargetTypes, Doing, Branches
  <1>21. ASSUME WtDies PROVE HandsOn'
    BY <1>21, Labels DEF WtDies, rows, disk, OneAtATime, WtInv, HandsOn, BusyTypes,
       TargetTypes, Doing, Branches
  <1> QED
    BY <1>1, <1>2, <1>3, <1>4, <1>5, <1>6, <1>7, <1>8, <1>9, <1>10, <1>11, <1>12, <1>13,
       <1>14, <1>15, <1>16, <1>17, <1>18, <1>19, <1>20, <1>21 DEF WtNext

\* Every step keeps OneOpenBinding.
LEMMA OneOpenBindingNext == OneAtATime(Agents) /\ WtInv /\ WtNext => OneOpenBinding'
  <1> SUFFICES ASSUME OneAtATime(Agents), WtInv, WtNext PROVE OneOpenBinding'
    OBVIOUS
  <1>1. ASSUME NEW a \in Agents, NEW s \in Owners, CreateCheck(a, s) PROVE OneOpenBinding'
    BY <1>1, NoneIsOpen DEF CreateCheck, rows, disk, WtInv, OneOpenBinding, RowTypes
  <1>2. ASSUME NEW a \in Agents, NEW s \in Owners, CreateAdd(a, s) PROVE OneOpenBinding'
    BY <1>2, CreateAddEffect DEF WtInv, OneOpenBinding, RowTypes
  <1>3. ASSUME NEW a \in Agents, NEW s \in Owners, CreateInsert(a, s) PROVE OneOpenBinding'
    <2>1. /\ target[a] \in Trees /\ binding[target[a]].owner = s
          /\ \A v \in Range(recent) : binding[v].owner = s => binding[v].state = "closed"
      BY <1>3, CreateInsertEffect
    <2>2. CASE UNCHANGED <<binding, recent>>
      BY <2>2 DEF WtInv, OneOpenBinding
    <2>3. CASE Becomes(target[a], "active", binding[target[a]].branch)
      <3>1. Range(recent) \subseteq Trees /\ Range(recent') = Range(recent) \cup {target[a]}
        BY <2>3, WorktreeConstants DEF Becomes, WtInv, RowTypes, Trees
      <3>2. \A v \in Range(recent') : binding'[v].owner = binding[v].owner
        BY <2>1, <2>3, <3>1, OthersStand
      <3>3. \A v \in Range(recent') : v # target[a] =>
              v \in Range(recent) /\ binding'[v].state = binding[v].state
        BY <2>3, <3>1 DEF Becomes
      <3> SUFFICES ASSUME NEW v \in Range(recent'), NEW w \in Range(recent'), v # w,
                          binding'[v].state \in OpenStates, binding'[w].state \in OpenStates,
                          binding'[v].owner = binding'[w].owner
                   PROVE  FALSE
        BY DEF OneOpenBinding, OpenStates
      <3>4. CASE v = target[a] \/ w = target[a]
        BY <2>1, <3>2, <3>3, <3>4 DEF OpenStates
      <3>5. CASE v # target[a] /\ w # target[a]
        BY <3>2, <3>3, <3>5 DEF WtInv, OneOpenBinding
      <3> QED
        BY <3>4, <3>5
    <2> QED
      BY <1>3, <2>2, <2>3, CreateInsertEffect
  <1>4. ASSUME NEW a \in Agents, NEW s \in Owners, ReadStop(a, s) PROVE OneOpenBinding'
    BY <1>4, OpenIsRow DEF ReadStop, Aim, Proceed, rows, disk, WtInv, OneOpenBinding,
       RowTypes
  <1>5. ASSUME NEW a \in Agents, NEW s \in Owners, ReadResume(a, s) PROVE OneOpenBinding'
    BY <1>5, OpenIsRow DEF ReadResume, Aim, Proceed, rows, disk, WtInv, OneOpenBinding,
       RowTypes
  <1>6. ASSUME NEW a \in Agents, NEW s \in Owners, NEW b \in Branches, SwitchCheckout(a, s,
               b)
        PROVE  OneOpenBinding'
    BY <1>6, OpenIsRow DEF SwitchCheckout, Aim, rows, WtInv, OneOpenBinding, RowTypes
  <1>7. ASSUME NEW a \in Agents, NEW t \in Trees, ReadClose(a, t) PROVE OneOpenBinding'
    BY <1>7, OpenIsRow DEF ReadClose, Aim, Proceed, rows, disk, WtInv, OneOpenBinding,
       RowTypes
  <1>8. ASSUME NEW a \in Agents, NEW t \in Trees, ReadCleanup(a, t) PROVE OneOpenBinding'
    BY <1>8 DEF ReadCleanup, Aim, Proceed, rows, disk, WtInv, OneOpenBinding, RowTypes
  <1>9. ASSUME NEW a \in Agents, NEW t \in Trees, MarkStale(a, t) PROVE OneOpenBinding'
    BY <1>9, MarkStaleEffect, OpenKept
  <1>10. ASSUME NEW a \in Agents, NEW t \in Trees, ReadSalvage(a, t) PROVE OneOpenBinding'
    BY <1>10 DEF ReadSalvage, Aim, Proceed, rows, disk, WtInv, OneOpenBinding, RowTypes
  <1>11. ASSUME NEW a \in Agents, SetState(a) PROVE OneOpenBinding'
    BY <1>11, SetStateEffect, OpenKept
  <1>12. ASSUME NEW a \in Agents, RemoveDisk(a) PROVE OneOpenBinding'
    BY <1>12, AtWork DEF RemoveDisk, Proceed, rows, WtInv, OneOpenBinding, RowTypes
  <1>13. ASSUME NEW a \in Agents, RemoveFails(a) PROVE OneOpenBinding'
    BY <1>13, AtWork DEF RemoveFails, Rest, rows, disk, WtInv, OneOpenBinding, RowTypes
  <1>14. ASSUME NEW a \in Agents, SetClosed(a) PROVE OneOpenBinding'
    BY <1>14, SetClosedEffect, OpenKept
  <1>15. ASSUME NEW a \in Agents, Relocate(a) PROVE OneOpenBinding'
    BY <1>15, AtWork DEF Relocate, Proceed, Rest, rows, WtInv, OneOpenBinding, RowTypes
  <1>16. ASSUME NEW a \in Agents, ReAdd(a) PROVE OneOpenBinding'
    BY <1>16, AtWork DEF ReAdd, Proceed, Rest, rows, WtInv, OneOpenBinding, RowTypes
  <1>17. ASSUME NEW a \in Agents, Overlay(a) PROVE OneOpenBinding'
    BY <1>17, AtWork DEF Overlay, Proceed, rows, WtInv, OneOpenBinding, RowTypes
  <1>18. ASSUME NEW a \in Agents, NEW b \in Branches, SwitchPersist(a, b)
         PROVE  OneOpenBinding'
    BY <1>18, SwitchPersistEffect, OpenKept
  <1>19. ASSUME NEW t \in Trees, AgentWrites(t) PROVE OneOpenBinding'
    BY <1>19 DEF AgentWrites, rows, WtInv, OneOpenBinding, RowTypes
  <1>20. ASSUME NEW t \in Trees, UserMeddles(t) PROVE OneOpenBinding'
    BY <1>20 DEF UserMeddles, rows, WtInv, OneOpenBinding, RowTypes
  <1>21. ASSUME WtDies PROVE OneOpenBinding'
    BY <1>21 DEF WtDies, rows, disk, WtInv, OneOpenBinding, RowTypes
  <1> QED
    BY <1>1, <1>2, <1>3, <1>4, <1>5, <1>6, <1>7, <1>8, <1>9, <1>10, <1>11, <1>12, <1>13,
       <1>14, <1>15, <1>16, <1>17, <1>18, <1>19, <1>20, <1>21 DEF WtNext

\* Every step keeps ClosedIsGone.
LEMMA ClosedIsGoneNext == OneAtATime(Agents) /\ WtInv /\ WtNext => ClosedIsGone'
  <1> SUFFICES ASSUME OneAtATime(Agents), WtInv, WtNext PROVE ClosedIsGone'
    OBVIOUS
  <1>1. ASSUME NEW a \in Agents, NEW s \in Owners, CreateCheck(a, s) PROVE ClosedIsGone'
    BY <1>1, NoneIsOpen DEF CreateCheck, rows, disk, WtInv, ClosedIsGone, RowTypes
  <1>2. ASSUME NEW a \in Agents, NEW s \in Owners, CreateAdd(a, s) PROVE ClosedIsGone'
    BY <1>2, WorktreeConstants DEF CreateAdd, Aim, Rest, disk, OneAtATime, WtInv,
       ClosedIsGone, HandsOn, RowsHaveState, RowTypes, OpenStates, Bindings, Trees
  <1>3. ASSUME NEW a \in Agents, NEW s \in Owners, CreateInsert(a, s) PROVE ClosedIsGone'
    BY <1>3, CreateInsertEffect DEF WtInv, ClosedIsGone, RowTypes, Becomes, Rested
  <1>4. ASSUME NEW a \in Agents, NEW s \in Owners, ReadStop(a, s) PROVE ClosedIsGone'
    BY <1>4, OpenIsRow DEF ReadStop, Aim, Proceed, rows, disk, WtInv, ClosedIsGone,
       RowTypes
  <1>5. ASSUME NEW a \in Agents, NEW s \in Owners, ReadResume(a, s) PROVE ClosedIsGone'
    BY <1>5, OpenIsRow DEF ReadResume, Aim, Proceed, rows, disk, WtInv, ClosedIsGone,
       RowTypes
  <1>6. ASSUME NEW a \in Agents, NEW s \in Owners, NEW b \in Branches, SwitchCheckout(a, s,
               b)
        PROVE  ClosedIsGone'
    BY <1>6, OpenIsRow DEF SwitchCheckout, Aim, rows, WtInv, ClosedIsGone, RowTypes
  <1>7. ASSUME NEW a \in Agents, NEW t \in Trees, ReadClose(a, t) PROVE ClosedIsGone'
    BY <1>7, OpenIsRow DEF ReadClose, Aim, Proceed, rows, disk, WtInv, ClosedIsGone,
       RowTypes
  <1>8. ASSUME NEW a \in Agents, NEW t \in Trees, ReadCleanup(a, t) PROVE ClosedIsGone'
    BY <1>8 DEF ReadCleanup, Aim, Proceed, rows, disk, WtInv, ClosedIsGone, RowTypes
  <1>9. ASSUME NEW a \in Agents, NEW t \in Trees, MarkStale(a, t) PROVE ClosedIsGone'
    BY <1>9, MarkStaleEffect DEF WtInv, ClosedIsGone, RowTypes, Becomes, Rested
  <1>10. ASSUME NEW a \in Agents, NEW t \in Trees, ReadSalvage(a, t) PROVE ClosedIsGone'
    BY <1>10 DEF ReadSalvage, Aim, Proceed, rows, disk, WtInv, ClosedIsGone, RowTypes
  <1>11. ASSUME NEW a \in Agents, SetState(a) PROVE ClosedIsGone'
    BY <1>11, SetStateEffect DEF WtInv, ClosedIsGone, RowTypes, Becomes, Rested
  <1>12. ASSUME NEW a \in Agents, RemoveDisk(a) PROVE ClosedIsGone'
    BY <1>12, AtWork DEF RemoveDisk, Proceed, rows, WtInv, ClosedIsGone, RowTypes
  <1>13. ASSUME NEW a \in Agents, RemoveFails(a) PROVE ClosedIsGone'
    BY <1>13, AtWork DEF RemoveFails, Rest, rows, disk, WtInv, ClosedIsGone, RowTypes
  <1>14. ASSUME NEW a \in Agents, SetClosed(a) PROVE ClosedIsGone'
    <2>1. busy[a] = "closed" /\ Rested(a) /\ Becomes(target[a], "closed", binding[target[a]].branch)
      BY <1>14, SetClosedEffect
    <2>2. target[a] \notin dir
      BY <2>1 DEF WtInv, HandsOn
    <2> QED
      BY <2>1, <2>2 DEF WtInv, ClosedIsGone, Becomes, Rested
  <1>15. ASSUME NEW a \in Agents, Relocate(a) PROVE ClosedIsGone'
    BY <1>15, AtWork DEF Relocate, Proceed, Rest, rows, WtInv, ClosedIsGone, RowTypes
  <1>16. ASSUME NEW a \in Agents, ReAdd(a) PROVE ClosedIsGone'
    <2>1. binding[target[a]].state # "closed" /\ dir' = dir \cup {target[a]} /\ binding' = binding
      BY <1>16, AtWork DEF ReAdd, Doing, OpenStates, rows
    <2> QED
      BY <2>1 DEF WtInv, ClosedIsGone
  <1>17. ASSUME NEW a \in Agents, Overlay(a) PROVE ClosedIsGone'
    <2>1. binding[target[a]].state # "closed" /\ dir' = dir \cup {target[a]} /\ binding' = binding
      BY <1>17, AtWork DEF Overlay, Doing, OpenStates, rows
    <2> QED
      BY <2>1 DEF WtInv, ClosedIsGone
  <1>18. ASSUME NEW a \in Agents, NEW b \in Branches, SwitchPersist(a, b)
         PROVE  ClosedIsGone'
    BY <1>18, SwitchPersistEffect DEF WtInv, ClosedIsGone, RowTypes, Becomes, Rested
  <1>19. ASSUME NEW t \in Trees, AgentWrites(t) PROVE ClosedIsGone'
    BY <1>19 DEF AgentWrites, rows, WtInv, ClosedIsGone, RowTypes
  <1>20. ASSUME NEW t \in Trees, UserMeddles(t) PROVE ClosedIsGone'
    BY <1>20 DEF UserMeddles, rows, WtInv, ClosedIsGone, RowTypes
  <1>21. ASSUME WtDies PROVE ClosedIsGone'
    BY <1>21 DEF WtDies, rows, disk, WtInv, ClosedIsGone, RowTypes
  <1> QED
    BY <1>1, <1>2, <1>3, <1>4, <1>5, <1>6, <1>7, <1>8, <1>9, <1>10, <1>11, <1>12, <1>13,
       <1>14, <1>15, <1>16, <1>17, <1>18, <1>19, <1>20, <1>21 DEF WtNext

\* Every step keeps FilesSurvive.
LEMMA FilesSurviveNext == OneAtATime(Agents) /\ WtInv /\ WtNext => FilesSurvive'
  <1> SUFFICES ASSUME OneAtATime(Agents), WtInv, WtNext PROVE FilesSurvive'
    OBVIOUS
  <1>1. ASSUME NEW a \in Agents, NEW s \in Owners, CreateCheck(a, s) PROVE FilesSurvive'
    BY <1>1, NoneIsOpen DEF CreateCheck, rows, disk, OneAtATime, WtInv, FilesSurvive,
       BusyTypes, TargetTypes, DiskTypes, Branches
  <1>2. ASSUME NEW a \in Agents, NEW s \in Owners, CreateAdd(a, s) PROVE FilesSurvive'
    BY <1>2, Labels DEF CreateAdd, Aim, Rest, disk, OneAtATime, WtInv, FilesSurvive,
       BusyTypes, TargetTypes, DiskTypes, Doing, Branches
  <1>3. ASSUME NEW a \in Agents, NEW s \in Owners, CreateInsert(a, s) PROVE FilesSurvive'
    BY <1>3, Labels, CreateInsertEffect DEF OneAtATime, WtInv, FilesSurvive, BusyTypes,
       TargetTypes, DiskTypes, Doing, Branches, Becomes, Rested
  <1>4. ASSUME NEW a \in Agents, NEW s \in Owners, ReadStop(a, s) PROVE FilesSurvive'
    BY <1>4, OpenIsRow DEF ReadStop, Aim, Proceed, rows, disk, OneAtATime, WtInv,
       FilesSurvive, BusyTypes, TargetTypes, DiskTypes, Branches
  <1>5. ASSUME NEW a \in Agents, NEW s \in Owners, ReadResume(a, s) PROVE FilesSurvive'
    BY <1>5, OpenIsRow DEF ReadResume, Aim, Proceed, rows, disk, OneAtATime, WtInv,
       FilesSurvive, BusyTypes, TargetTypes, DiskTypes, Branches
  <1>6. ASSUME NEW a \in Agents, NEW s \in Owners, NEW b \in Branches, SwitchCheckout(a, s,
               b)
        PROVE  FilesSurvive'
    BY <1>6, OpenIsRow DEF SwitchCheckout, Aim, rows, OneAtATime, WtInv, FilesSurvive,
       BusyTypes, TargetTypes, DiskTypes, Branches
  <1>7. ASSUME NEW a \in Agents, NEW t \in Trees, ReadClose(a, t) PROVE FilesSurvive'
    BY <1>7, OpenIsRow DEF ReadClose, Aim, Proceed, rows, disk, OneAtATime, WtInv,
       FilesSurvive, BusyTypes, TargetTypes, DiskTypes, Branches
  <1>8. ASSUME NEW a \in Agents, NEW t \in Trees, ReadCleanup(a, t) PROVE FilesSurvive'
    BY <1>8 DEF ReadCleanup, Aim, Proceed, rows, disk, OneAtATime, WtInv, FilesSurvive,
       BusyTypes, TargetTypes, DiskTypes, Branches
  <1>9. ASSUME NEW a \in Agents, NEW t \in Trees, MarkStale(a, t) PROVE FilesSurvive'
    BY <1>9, MarkStaleEffect DEF OneAtATime, WtInv, FilesSurvive, BusyTypes,
       TargetTypes, DiskTypes, Branches, Becomes, Rested
  <1>10. ASSUME NEW a \in Agents, NEW t \in Trees, ReadSalvage(a, t) PROVE FilesSurvive'
    BY <1>10 DEF ReadSalvage, Aim, Proceed, rows, disk, OneAtATime, WtInv, FilesSurvive,
       BusyTypes, TargetTypes, DiskTypes, Branches
  <1>11. ASSUME NEW a \in Agents, SetState(a) PROVE FilesSurvive'
    BY <1>11, SetStateEffect DEF OneAtATime, WtInv, FilesSurvive, BusyTypes,
       TargetTypes, DiskTypes, Branches, Becomes, Rested
  <1>12. ASSUME NEW a \in Agents, RemoveDisk(a) PROVE FilesSurvive'
    BY <1>12, AtWork DEF RemoveDisk, Proceed, rows, OneAtATime, WtInv, FilesSurvive,
       BusyTypes, TargetTypes, DiskTypes, Branches
  <1>13. ASSUME NEW a \in Agents, RemoveFails(a) PROVE FilesSurvive'
    BY <1>13, AtWork DEF RemoveFails, Rest, rows, disk, OneAtATime, WtInv, FilesSurvive,
       BusyTypes, TargetTypes, DiskTypes, Branches
  <1>14. ASSUME NEW a \in Agents, SetClosed(a) PROVE FilesSurvive'
    BY <1>14, SetClosedEffect DEF OneAtATime, WtInv, FilesSurvive, BusyTypes,
       TargetTypes, DiskTypes, Branches, Becomes, Rested
  <1>15. ASSUME NEW a \in Agents, Relocate(a) PROVE FilesSurvive'
    BY <1>15, AtWork DEF Relocate, Proceed, Rest, rows, OneAtATime, WtInv, FilesSurvive,
       BusyTypes, TargetTypes, DiskTypes, Doing, Branches
  <1>16. ASSUME NEW a \in Agents, ReAdd(a) PROVE FilesSurvive'
    BY <1>16, AtWork DEF ReAdd, Proceed, Rest, rows, OneAtATime, WtInv, FilesSurvive,
       BusyTypes, TargetTypes, DiskTypes, Branches
  <1>17. ASSUME NEW a \in Agents, Overlay(a) PROVE FilesSurvive'
    BY <1>17, AtWork DEF Overlay, Proceed, rows, OneAtATime, WtInv, FilesSurvive,
       BusyTypes, TargetTypes, DiskTypes, Branches
  <1>18. ASSUME NEW a \in Agents, NEW b \in Branches, SwitchPersist(a, b)
         PROVE  FilesSurvive'
    BY <1>18, SwitchPersistEffect DEF OneAtATime, WtInv, FilesSurvive, BusyTypes,
       TargetTypes, DiskTypes, Branches, Becomes, Rested
  <1>19. ASSUME NEW t \in Trees, AgentWrites(t) PROVE FilesSurvive'
    BY <1>19 DEF AgentWrites, rows, OneAtATime, WtInv, FilesSurvive, BusyTypes,
       TargetTypes, DiskTypes, Branches
  <1>20. ASSUME NEW t \in Trees, UserMeddles(t) PROVE FilesSurvive'
    BY <1>20 DEF UserMeddles, rows, OneAtATime, WtInv, FilesSurvive, BusyTypes,
       TargetTypes, DiskTypes, Branches
  <1>21. ASSUME WtDies PROVE FilesSurvive'
    BY <1>21 DEF WtDies, rows, disk, OneAtATime, WtInv, FilesSurvive, BusyTypes,
       TargetTypes, DiskTypes, Branches
  <1> QED
    BY <1>1, <1>2, <1>3, <1>4, <1>5, <1>6, <1>7, <1>8, <1>9, <1>10, <1>11, <1>12, <1>13,
       <1>14, <1>15, <1>16, <1>17, <1>18, <1>19, <1>20, <1>21 DEF WtNext

\* Every step keeps BranchRecorded.
LEMMA BranchRecordedNext == OneAtATime(Agents) /\ WtInv /\ WtNext => BranchRecorded'
  <1> SUFFICES ASSUME OneAtATime(Agents), WtInv, WtNext PROVE BranchRecorded'
    OBVIOUS
  <1>1. ASSUME NEW a \in Agents, NEW s \in Owners, CreateCheck(a, s) PROVE BranchRecorded'
    <2> SUFFICES ASSUME wtDeaths = 0
                 PROVE  \A u \in Range(recent') : u \in dir' => head'[u] = binding'[u].branch
      BY <1>1 DEF BranchRecorded, CreateCheck
    <2>1. \A u \in Range(recent) : u \in dir => head[u] = binding[u].branch
      BY <1>1, BranchIs, Labels DEF CreateCheck, Branches, Doing
    <2> QED
      BY <1>1, <2>1 DEF CreateCheck, rows, disk
  <1>2. ASSUME NEW a \in Agents, NEW s \in Owners, CreateAdd(a, s) PROVE BranchRecorded'
    <2> SUFFICES ASSUME wtDeaths = 0, NEW u \in Range(recent), u \in dir'
                 PROVE  head'[u] = binding'[u].branch
      BY <1>2, CreateAddEffect DEF BranchRecorded
    <2>1. busy[a] \notin Branches
      BY <1>2, CreateAddEffect, Labels
    <2>2. u \in dir /\ binding'[u] = binding[u] /\ head' = head
      BY <1>2, CreateAddEffect
    <2> QED
      BY <2>1, <2>2, BranchIs
  <1>3. ASSUME NEW a \in Agents, NEW s \in Owners, CreateInsert(a, s) PROVE BranchRecorded'
    <2>1. busy[a] \notin Branches /\ wtDeaths' = wtDeaths /\ dir' = dir /\ head' = head
      BY <1>3, CreateInsertEffect, Labels DEF Rested
    <2> SUFFICES ASSUME wtDeaths = 0, NEW u \in Range(recent'), u \in dir
                 PROVE  head[u] = binding'[u].branch
      BY <2>1 DEF BranchRecorded
    <2>2. \A v \in Range(recent) : v \in dir => head[v] = binding[v].branch
      BY <2>1, BranchIs
    <2>3. /\ Range(recent') \subseteq Range(recent) \cup {target[a]}
          /\ Range(recent) \subseteq Trees
          /\ target[a] \in Trees /\ \A v \in Trees : binding'[v].branch = binding[v].branch
      <3>1. Range(recent) \subseteq Trees
        BY WorktreeConstants DEF WtInv, RowTypes, Trees
      <3>2. CASE Becomes(target[a], "active", binding[target[a]].branch)
        BY <1>3, <3>1, <3>2, CreateInsertEffect, OthersStand DEF Becomes
      <3>3. CASE UNCHANGED <<binding, recent>>
        BY <1>3, <3>1, <3>3, CreateInsertEffect
      <3> QED
        BY <1>3, <3>2, <3>3, CreateInsertEffect
    <2>4. head[target[a]] = "own" /\ binding[target[a]].branch = "own"
      BY <1>3, CreateInsertEffect DEF WtInv, RowsHaveState
    <2> QED
      BY <2>2, <2>3, <2>4
  <1>4. ASSUME NEW a \in Agents, NEW s \in Owners, ReadStop(a, s) PROVE BranchRecorded'
    <2> SUFFICES ASSUME wtDeaths = 0
                 PROVE  \A u \in Range(recent') : u \in dir' => head'[u] = binding'[u].branch
      BY <1>4 DEF BranchRecorded, ReadStop
    <2>1. \A u \in Range(recent) : u \in dir => head[u] = binding[u].branch
      BY <1>4, BranchIs, Labels DEF ReadStop, Branches, Doing
    <2> QED
      BY <1>4, <2>1 DEF ReadStop, rows, disk
  <1>5. ASSUME NEW a \in Agents, NEW s \in Owners, ReadResume(a, s) PROVE BranchRecorded'
    <2> SUFFICES ASSUME wtDeaths = 0
                 PROVE  \A u \in Range(recent') : u \in dir' => head'[u] = binding'[u].branch
      BY <1>5 DEF BranchRecorded, ReadResume
    <2>1. \A u \in Range(recent) : u \in dir => head[u] = binding[u].branch
      BY <1>5, BranchIs, Labels DEF ReadResume, Branches, Doing
    <2> QED
      BY <1>5, <2>1 DEF ReadResume, rows, disk
  <1>6. ASSUME NEW a \in Agents, NEW s \in Owners, NEW b \in Branches, SwitchCheckout(a, s,
               b)
        PROVE  BranchRecorded'
    <2>1. /\ OpenOf(s) \in Range(recent) /\ OpenOf(s) \in Trees /\ busy[a] = "idle"
          /\ busy' = [busy EXCEPT ![a] = b] /\ target' = [target EXCEPT ![a] = OpenOf(s)]
          /\ head' = [head EXCEPT ![OpenOf(s)] = b] /\ wtDeaths' = wtDeaths /\ dir' = dir
          /\ binding' = binding /\ recent' = recent
      BY <1>6, OpenIsRow DEF SwitchCheckout, Aim, rows
    <2>2. busy'[a] = b /\ target'[a] = OpenOf(s) /\ head'[OpenOf(s)] = b
          /\ \A u \in Trees : u # OpenOf(s) => head'[u] = head[u]
      BY <2>1 DEF WtInv, BusyTypes, TargetTypes, DiskTypes
    <2>3. Range(recent) \subseteq Trees
      BY WorktreeConstants DEF WtInv, RowTypes, Trees
    <2>4. wtDeaths = 0 => \A u \in Range(recent) : u \in dir => head[u] = binding[u].branch
      BY <2>1, BranchIs DEF Branches
    <2> QED
      BY <2>1, <2>2, <2>3, <2>4 DEF BranchRecorded
  <1>7. ASSUME NEW a \in Agents, NEW t \in Trees, ReadClose(a, t) PROVE BranchRecorded'
    <2> SUFFICES ASSUME wtDeaths = 0
                 PROVE  \A u \in Range(recent') : u \in dir' => head'[u] = binding'[u].branch
      BY <1>7 DEF BranchRecorded, ReadClose
    <2>1. \A u \in Range(recent) : u \in dir => head[u] = binding[u].branch
      BY <1>7, BranchIs, Labels DEF ReadClose, Branches, Doing
    <2> QED
      BY <1>7, <2>1 DEF ReadClose, rows, disk
  <1>8. ASSUME NEW a \in Agents, NEW t \in Trees, ReadCleanup(a, t) PROVE BranchRecorded'
    <2> SUFFICES ASSUME wtDeaths = 0
                 PROVE  \A u \in Range(recent') : u \in dir' => head'[u] = binding'[u].branch
      BY <1>8 DEF BranchRecorded, ReadCleanup
    <2>1. \A u \in Range(recent) : u \in dir => head[u] = binding[u].branch
      BY <1>8, BranchIs, Labels DEF ReadCleanup, Branches, Doing
    <2> QED
      BY <1>8, <2>1 DEF ReadCleanup, rows, disk
  <1>9. ASSUME NEW a \in Agents, NEW t \in Trees, MarkStale(a, t) PROVE BranchRecorded'
    <2>1. busy[a] \notin Branches /\ wtDeaths' = wtDeaths /\ dir' = dir /\ head' = head
      BY <1>9, MarkStaleEffect, Labels DEF Rested, Branches, Doing
    <2> SUFFICES ASSUME wtDeaths = 0, NEW u \in Range(recent'), u \in dir
                 PROVE  head[u] = binding'[u].branch
      BY <2>1 DEF BranchRecorded
    <2>2. \A v \in Range(recent) : v \in dir => head[v] = binding[v].branch
      BY <2>1, BranchIs
    <2>3. Range(recent') = Range(recent) /\ Range(recent) \subseteq Trees
          /\ \A v \in Trees : binding'[v].branch = binding[v].branch
      <3>1. Range(recent) \subseteq Trees
        BY WorktreeConstants DEF WtInv, RowTypes, Trees
      <3> QED
        BY <1>9, <3>1, MarkStaleEffect, OthersStand DEF Becomes
    <2> QED
      BY <2>2, <2>3
  <1>10. ASSUME NEW a \in Agents, NEW t \in Trees, ReadSalvage(a, t) PROVE BranchRecorded'
    <2> SUFFICES ASSUME wtDeaths = 0
                 PROVE  \A u \in Range(recent') : u \in dir' => head'[u] = binding'[u].branch
      BY <1>10 DEF BranchRecorded, ReadSalvage
    <2>1. \A u \in Range(recent) : u \in dir => head[u] = binding[u].branch
      BY <1>10, BranchIs, Labels DEF ReadSalvage, Branches, Doing
    <2> QED
      BY <1>10, <2>1 DEF ReadSalvage, rows, disk
  <1>11. ASSUME NEW a \in Agents, SetState(a) PROVE BranchRecorded'
    <2>1. busy[a] \notin Branches /\ wtDeaths' = wtDeaths /\ dir' = dir /\ head' = head
      BY <1>11, SetStateEffect, Labels DEF Rested, Branches, Doing
    <2> SUFFICES ASSUME wtDeaths = 0, NEW u \in Range(recent'), u \in dir
                 PROVE  head[u] = binding'[u].branch
      BY <2>1 DEF BranchRecorded
    <2>2. \A v \in Range(recent) : v \in dir => head[v] = binding[v].branch
      BY <2>1, BranchIs
    <2>3. Range(recent') = Range(recent) /\ Range(recent) \subseteq Trees
          /\ \A v \in Trees : binding'[v].branch = binding[v].branch
      <3>1. Range(recent) \subseteq Trees
        BY WorktreeConstants DEF WtInv, RowTypes, Trees
      <3> QED
        BY <1>11, <3>1, SetStateEffect, OthersStand DEF Becomes
    <2> QED
      BY <2>2, <2>3
  <1>12. ASSUME NEW a \in Agents, RemoveDisk(a) PROVE BranchRecorded'
    BY <1>12, AtWork DEF RemoveDisk, Proceed, rows, OneAtATime, WtInv, BranchRecorded,
       RowTypes, DiskTypes, BusyTypes, TargetTypes, Branches, Doing
  <1>13. ASSUME NEW a \in Agents, RemoveFails(a) PROVE BranchRecorded'
    BY <1>13, AtWork DEF RemoveFails, Rest, rows, disk, OneAtATime, WtInv,
       BranchRecorded, RowTypes, DiskTypes, BusyTypes, TargetTypes, Branches, Doing
  <1>14. ASSUME NEW a \in Agents, SetClosed(a) PROVE BranchRecorded'
    <2>1. busy[a] \notin Branches /\ wtDeaths' = wtDeaths /\ dir' = dir /\ head' = head
      BY <1>14, SetClosedEffect, Labels DEF Rested, Branches, Doing
    <2> SUFFICES ASSUME wtDeaths = 0, NEW u \in Range(recent'), u \in dir
                 PROVE  head[u] = binding'[u].branch
      BY <2>1 DEF BranchRecorded
    <2>2. \A v \in Range(recent) : v \in dir => head[v] = binding[v].branch
      BY <2>1, BranchIs
    <2>3. Range(recent') = Range(recent) /\ Range(recent) \subseteq Trees
          /\ \A v \in Trees : binding'[v].branch = binding[v].branch
      <3>1. Range(recent) \subseteq Trees
        BY WorktreeConstants DEF WtInv, RowTypes, Trees
      <3> QED
        BY <1>14, <3>1, SetClosedEffect, OthersStand DEF Becomes
    <2> QED
      BY <2>2, <2>3
  <1>15. ASSUME NEW a \in Agents, Relocate(a) PROVE BranchRecorded'
    BY <1>15, AtWork DEF Relocate, Proceed, Rest, rows, OneAtATime, WtInv,
       BranchRecorded, RowTypes, DiskTypes, BusyTypes, TargetTypes, Branches, Doing
  <1>16. ASSUME NEW a \in Agents, ReAdd(a) PROVE BranchRecorded'
    <2>1. /\ target[a] \in Trees /\ busy[a] = "relocated" /\ busy[a] \notin Branches
          /\ wtDeaths' = wtDeaths /\ dir' = dir \cup {target[a]} /\ binding' = binding
          /\ recent' = recent
      BY <1>16, AtWork DEF ReAdd, Doing, rows, Branches
    <2> SUFFICES ASSUME wtDeaths = 0, NEW u \in Range(recent), u \in dir'
                 PROVE  head'[u] = binding[u].branch
      BY <2>1 DEF BranchRecorded
    <2>2. \A v \in Range(recent) : v \in dir => head[v] = binding[v].branch
      BY <2>1, BranchIs
    <2>3. head[target[a]] = binding[target[a]].branch
      BY <2>1 DEF WtInv, HandsOn
    <2>4. head' = head \/ head' = [head EXCEPT ![target[a]] = binding[target[a]].branch]
      BY <1>16 DEF ReAdd
    <2>5. u \in Trees /\ head \in [Trees -> Branches]
      BY WorktreeConstants DEF WtInv, RowTypes, DiskTypes, Trees
    <2> QED
      BY <2>1, <2>2, <2>3, <2>4, <2>5
  <1>17. ASSUME NEW a \in Agents, Overlay(a) PROVE BranchRecorded'
    BY <1>17, AtWork DEF Overlay, Proceed, rows, OneAtATime, WtInv, BranchRecorded,
       HandsOn, RowsHaveState, RowTypes, DiskTypes, BusyTypes, TargetTypes, Bindings,
       Branches, Doing, Trees
  <1>18. ASSUME NEW a \in Agents, NEW b \in Branches, SwitchPersist(a, b)
         PROVE  BranchRecorded'
    <2>1. /\ Rested(a) /\ busy[a] = b /\ target[a] \in Trees /\ target[a] \in Range(recent)
          /\ Becomes(target[a], binding[target[a]].state, b)
      BY <1>18, SwitchPersistEffect
    <2> SUFFICES ASSUME wtDeaths = 0, NEW u \in Range(recent), u \in dir
                 PROVE  head[u] = binding'[u].branch
      BY <2>1 DEF BranchRecorded, Rested, Becomes
    <2>2. head[target[a]] = b
      BY <2>1 DEF WtInv, HandsOn
    <2>3. CASE u = target[a]
      BY <2>1, <2>2, <2>3 DEF Becomes
    <2>4. CASE u # target[a]
      <3>1. u \in Trees /\ \A c \in Agents : c = a
        BY WorktreeConstants DEF WtInv, RowTypes, Trees, OneAtATime
      <3>2. head[u] = binding[u].branch
        BY <2>4, <3>1 DEF WtInv, BranchRecorded
      <3> QED
        BY <2>1, <2>4, <3>1, <3>2 DEF Becomes
    <2> QED
      BY <2>3, <2>4
  <1>19. ASSUME NEW t \in Trees, AgentWrites(t) PROVE BranchRecorded'
    BY <1>19 DEF AgentWrites, rows, OneAtATime, WtInv, BranchRecorded, RowTypes,
       DiskTypes, BusyTypes, TargetTypes, Branches, Doing
  <1>20. ASSUME NEW t \in Trees, UserMeddles(t) PROVE BranchRecorded'
    BY <1>20 DEF UserMeddles, rows, OneAtATime, WtInv, BranchRecorded, RowTypes,
       DiskTypes, BusyTypes, TargetTypes, Branches, Doing
  <1>21. ASSUME WtDies PROVE BranchRecorded'
    BY <1>21 DEF WtDies, rows, disk, OneAtATime, WtInv, BranchRecorded, RowTypes,
       DiskTypes, BusyTypes, TargetTypes, Branches, Doing
  <1> QED
    BY <1>1, <1>2, <1>3, <1>4, <1>5, <1>6, <1>7, <1>8, <1>9, <1>10, <1>11, <1>12, <1>13,
       <1>14, <1>15, <1>16, <1>17, <1>18, <1>19, <1>20, <1>21 DEF WtNext

\* Every step keeps the invariant.
LEMMA WtInvNext == OneAtATime(Agents) /\ WtInv /\ [WtNext]_wtVars => WtInv'
  <1> SUFFICES ASSUME OneAtATime(Agents), WtInv, [WtNext]_wtVars PROVE WtInv'
    OBVIOUS
  <1>1. CASE WtNext
    BY <1>1, RowTypesNext, DiskTypesNext, BusyTypesNext, TargetTypesNext,
       RowsHaveStateNext, AimsAtOpenNext, CreatesFirstNext, HandsOnNext,
       OneOpenBindingNext, ClosedIsGoneNext, FilesSurviveNext, BranchRecordedNext DEF
       WtInv
  <1>2. CASE UNCHANGED wtVars
    BY <1>2 DEF WtInv, wtVars, RowTypes, DiskTypes, BusyTypes, TargetTypes,
       RowsHaveState, AimsAtOpen, CreatesFirst, HandsOn, OneOpenBinding, ClosedIsGone,
       FilesSurvive, BranchRecorded
  <1> QED
    BY <1>1, <1>2

LEMMA WtInvAlways == ASSUME OneAtATime(Agents) PROVE WtSpec => []WtInv
  BY WtInitInv, WtInvNext, PTL DEF WtSpec

-----------------------------------------------------------------------------
(* worktrees, any number of requests at a time                             *)

\* A row and the target of a request have an id that was handed out.
RowsReached == \A t \in Trees : binding[t].state # "none" => t \in 1..trees
Aimed == \A a \in Agents : busy[a] \in (Doing \ {"idle"}) \cup Branches => target[a] # 0

\* What requests side by side keep of the invariant.
WtShape == RowTypes /\ DiskTypes /\ BusyTypes /\ TargetTypes /\ RowsReached /\ Aimed

\* The ids and the numbers of them.
LEMMA ShapeIds ==
  ASSUME WtShape
  PROVE  /\ trees \in Nat /\ MaxTrees \in Nat /\ trees <= MaxTrees /\ 1..trees \subseteq Trees
         /\ Range(recent) \subseteq 1..trees
         /\ \A s : OpenOf(s) # 0 => OpenOf(s) \in 1..trees
         /\ \A a \in Agents : target[a] # 0 => target[a] \in 1..trees
  <1>1. /\ trees \in Nat /\ MaxTrees \in Nat /\ trees <= MaxTrees /\ recent \in Seq(Trees)
        /\ Range(recent) \subseteq 1..trees
    BY WorktreeConstants DEF WtShape, RowTypes
  <1>2. 1..trees \subseteq Trees
    BY <1>1 DEF Trees
  <1>3. \A s : OpenOf(s) # 0 => OpenOf(s) \in 1..trees
    BY <1>1, OpenOfFinds
  <1>4. \A a \in Agents : target[a] # 0 => target[a] \in 1..trees
    BY <1>1 DEF WtShape, TargetTypes
  <1> QED
    BY <1>1, <1>2, <1>3, <1>4

\* A request that reads goes on with an id, or takes its next step.
LEMMA Takes ==
  ASSUME WtShape, NEW a \in Agents, NEW x \in Doing \cup Owners \cup Branches,
         NEW t \in 1..trees,
         busy' = [busy EXCEPT ![a] = x], target' = [target EXCEPT ![a] = t],
         binding' = binding, recent' = recent, trees' = trees, wtDeaths' = wtDeaths
  PROVE  RowTypes' /\ RowsReached' /\ BusyTypes' /\ TargetTypes' /\ Aimed'
  <1>1. trees \in Nat /\ t \in Nat /\ t # 0 /\ t <= trees
    BY ShapeIds
  <1>2. RowTypes' /\ RowsReached'
    BY DEF WtShape, RowTypes, RowsReached
  <1>3. BusyTypes'
    BY DEF WtShape, BusyTypes
  <1>4. TargetTypes'
    BY <1>1 DEF WtShape, TargetTypes
  <1>5. Aimed'
    BY <1>1 DEF WtShape, BusyTypes, TargetTypes, Aimed
  <1> QED
    BY <1>2, <1>3, <1>4, <1>5

\* A request that ends.
LEMMA Rests ==
  ASSUME WtShape, NEW a \in Agents, Rest(a), trees' = trees, wtDeaths' = wtDeaths
  PROVE  BusyTypes' /\ TargetTypes' /\ Aimed'
  <1>1. trees \in Nat /\ busy' = [busy EXCEPT ![a] = "idle"] /\ target' = [target EXCEPT ![a] = 0]
    BY ShapeIds DEF Rest
  <1>2. BusyTypes'
    BY <1>1 DEF WtShape, BusyTypes, Doing
  <1>3. TargetTypes'
    BY <1>1 DEF WtShape, TargetTypes
  <1>4. Aimed'
    BY <1>1 DEF WtShape, BusyTypes, TargetTypes, Aimed, Branches
  <1> QED
    BY <1>2, <1>3, <1>4

\* A row that is updated, or made.
LEMMA RowKeeps ==
  ASSUME WtShape, NEW t \in 1..trees, NEW st, NEW b, Becomes(t, st, b), trees' = trees
  PROVE  RowTypes' /\ RowsReached'
  <1>1. t \in Trees
    BY ShapeIds
  <1>2. RowTypes'
    BY DEF WtShape, RowTypes, Becomes
  <1>3. RowsReached'
    BY <1>1 DEF WtShape, RowsReached, Becomes
  <1> QED
    BY <1>2, <1>3

\* The rows as they are.
LEMMA RowsStay ==
  ASSUME WtShape, binding' = binding, recent' = recent, trees' = trees
  PROVE  RowTypes' /\ RowsReached'
  BY DEF WtShape, RowTypes, RowsReached

\* The disk as it is.
LEMMA DiskStays ==
  ASSUME WtShape, UNCHANGED disk, trees' = trees
  PROVE  DiskTypes'
  BY DEF WtShape, DiskTypes, disk

\* The requests that only read.
LEMMA ReadsKeepShape ==
  ASSUME WtShape, NEW a \in Agents
  PROVE  /\ \A s \in Owners : CreateCheck(a, s) \/ ReadStop(a, s) \/ ReadResume(a, s) => WtShape'
         /\ \A t \in Trees : ReadClose(a, t) \/ ReadCleanup(a, t) \/ ReadSalvage(a, t) => WtShape'
         /\ \A s \in Owners, b \in Branches : SwitchCheckout(a, s, b) => WtShape'
  <1>1. ASSUME NEW s \in Owners, CreateCheck(a, s) PROVE WtShape'
    <2>1. /\ busy' = [busy EXCEPT ![a] = s] /\ binding' = binding /\ recent' = recent
          /\ UNCHANGED disk /\ trees' = trees /\ target' = target /\ wtDeaths' = wtDeaths
      BY <1>1 DEF CreateCheck, rows
    <2>2. BusyTypes' /\ TargetTypes'
      BY <2>1 DEF WtShape, BusyTypes, TargetTypes
    <2>3. Aimed'
      BY <2>1, Labels DEF WtShape, Aimed, BusyTypes
    <2> QED
      BY <2>1, <2>2, <2>3, RowsStay, DiskStays DEF WtShape
  <1>2. ASSUME NEW s \in Owners, ReadStop(a, s) \/ ReadResume(a, s) PROVE WtShape'
    <2>1. PICK x \in {"stop", "resume"} :
            /\ OpenOf(s) # 0 /\ busy' = [busy EXCEPT ![a] = x]
            /\ target' = [target EXCEPT ![a] = OpenOf(s)] /\ UNCHANGED disk
            /\ binding' = binding /\ recent' = recent /\ trees' = trees /\ wtDeaths' = wtDeaths
      BY <1>2 DEF ReadStop, ReadResume, Aim, Proceed, rows
    <2>2. x \in Doing /\ OpenOf(s) \in 1..trees
      BY <2>1, ShapeIds DEF Doing
    <2> QED
      BY <2>1, <2>2, Takes, DiskStays DEF WtShape
  <1>3. ASSUME NEW t \in Trees, ReadClose(a, t) \/ ReadCleanup(a, t) \/ ReadSalvage(a, t)
        PROVE  WtShape'
    <2>1. \E x \in {"remove", "salvaged", "salvage"}, u \in 1..trees :
            /\ busy' = [busy EXCEPT ![a] = x]
            /\ target' = [target EXCEPT ![a] = u] /\ UNCHANGED disk
            /\ binding' = binding /\ recent' = recent /\ trees' = trees /\ wtDeaths' = wtDeaths
      <3>1. CASE ReadClose(a, t)
        <4>1. OpenOf(binding[t].owner) \in 1..trees
          BY <3>1, ShapeIds DEF ReadClose
        <4> QED
          BY <3>1, <4>1 DEF ReadClose, Aim, Proceed, rows
      <3>2. CASE ReadCleanup(a, t) \/ ReadSalvage(a, t)
        <4>1. t \in 1..trees
          BY <3>2 DEF WtShape, RowsReached, ReadCleanup, ReadSalvage, OpenStates
        <4> QED
          BY <3>2, <4>1 DEF ReadCleanup, ReadSalvage, Aim, Proceed, rows
      <3> QED
        BY <1>3, <3>1, <3>2
    <2>2. PICK x \in {"remove", "salvaged", "salvage"}, u \in 1..trees :
            /\ busy' = [busy EXCEPT ![a] = x]
            /\ target' = [target EXCEPT ![a] = u] /\ UNCHANGED disk
            /\ binding' = binding /\ recent' = recent /\ trees' = trees /\ wtDeaths' = wtDeaths
      BY <2>1
    <2>3. x \in Doing
      BY DEF Doing
    <2> QED
      BY <2>2, <2>3, Takes, DiskStays DEF WtShape
  <1>4. ASSUME NEW s \in Owners, NEW b \in Branches, SwitchCheckout(a, s, b) PROVE WtShape'
    <2>1. /\ OpenOf(s) # 0 /\ busy' = [busy EXCEPT ![a] = b]
          /\ target' = [target EXCEPT ![a] = OpenOf(s)]
          /\ head' = [head EXCEPT ![OpenOf(s)] = b]
          /\ UNCHANGED <<dir, registered, files, backup>>
          /\ binding' = binding /\ recent' = recent /\ trees' = trees /\ wtDeaths' = wtDeaths
      BY <1>4 DEF SwitchCheckout, Aim, rows
    <2>2. OpenOf(s) \in 1..trees
      BY <2>1, ShapeIds
    <2>3. DiskTypes'
      BY <2>1 DEF WtShape, DiskTypes
    <2>4. RowTypes' /\ RowsReached' /\ BusyTypes' /\ TargetTypes' /\ Aimed'
      BY <2>1, <2>2, Takes
    <2> QED
      BY <2>3, <2>4 DEF WtShape
  <1> QED
    BY <1>1, <1>2, <1>3, <1>4

\* The requests that write rows.
LEMMA RowWritesKeepShape ==
  ASSUME WtShape, NEW a \in Agents
  PROVE  /\ \A s \in Owners : CreateAdd(a, s) \/ CreateInsert(a, s) => WtShape'
         /\ \A t \in Trees : MarkStale(a, t) => WtShape'
         /\ SetState(a) \/ SetClosed(a) => WtShape'
         /\ \A b \in Branches : SwitchPersist(a, b) => WtShape'
  <1>0. RowTypes /\ 1..trees \subseteq Trees
    BY ShapeIds DEF WtShape
  <1>1. ASSUME NEW s \in Owners, CreateAdd(a, s) PROVE WtShape'
    <2>1. CASE Rest(a) /\ UNCHANGED <<binding, disk, trees>>
      <3>1. recent' = recent /\ wtDeaths' = wtDeaths
        BY <1>1 DEF CreateAdd
      <3> QED
        BY <2>1, <3>1, Rests, RowsStay, DiskStays DEF WtShape
    <2>2. CASE /\ trees < MaxTrees /\ trees' = trees + 1
               /\ dir' = dir \cup {trees + 1} /\ registered' = registered \cup {trees + 1}
               /\ Aim(a, trees + 1)
               /\ UNCHANGED <<head, files, backup, owed, busy>>
               /\ binding' = [binding EXCEPT ![trees + 1].owner = s]
      <3> DEFINE u == trees + 1
                 row == [binding[u] EXCEPT !.owner = s]
      <3>0. recent' = recent /\ wtDeaths' = wtDeaths
        BY <1>1 DEF CreateAdd
      <3>1. /\ u \in Trees /\ u \in Nat /\ u # 0 /\ u \in 1..u /\ 1..trees \subseteq 1..u
            /\ u <= MaxTrees /\ trees <= u
        BY <2>2, ShapeIds DEF Trees
      <3>2. row \in Bindings /\ row.state = binding[u].state
        BY <1>0, <3>1 DEF RowTypes, Bindings
      <3>3. binding' = [binding EXCEPT ![u] = row] /\ trees' = u
        BY <2>2
      <3>4. target' = [target EXCEPT ![a] = u] /\ busy' = busy
        BY <2>2 DEF Aim
      <3>5. DiskTypes'
        BY <2>2, <3>1, <3>3 DEF WtShape, DiskTypes
      <3> HIDE DEF u, row
      <3>6. RowTypes'
        BY <1>0, <3>0, <3>1, <3>2, <3>3 DEF RowTypes
      <3>7. RowsReached'
        BY <1>0, <3>1, <3>2, <3>3 DEF WtShape, RowsReached, RowTypes
      <3>8. BusyTypes' /\ Aimed'
        BY <3>0, <3>1, <3>4 DEF WtShape, BusyTypes, Aimed, TargetTypes
      <3>9. TargetTypes'
        <4>1. \A c \in Agents : target[c] \in Nat /\ target[c] <= trees /\ trees \in Nat
          BY ShapeIds DEF WtShape, TargetTypes
        <4>2. \A c \in Agents : target[c] <= u
          BY <3>1, <4>1
        <4> QED
          BY <3>1, <3>3, <3>4, <4>2 DEF WtShape, TargetTypes
      <3> QED
        BY <3>5, <3>6, <3>7, <3>8, <3>9 DEF WtShape
    <2> QED
      BY <1>1, <2>1, <2>2 DEF CreateAdd
  <1>2. ASSUME NEW s \in Owners, CreateInsert(a, s) PROVE WtShape'
    <2>1. /\ target[a] \in 1..trees /\ Rest(a) /\ UNCHANGED disk /\ trees' = trees
          /\ wtDeaths' = wtDeaths /\ (SetWtState(target[a], "active") \/ UNCHANGED rows)
      BY <1>2, ShapeIds DEF CreateInsert
    <2>2. RowTypes' /\ RowsReached'
      <3>1. CASE SetWtState(target[a], "active")
        <4>1. Becomes(target[a], "active", binding[target[a]].branch)
          BY <1>0, <2>1, <3>1, RowSet DEF OpenStates
        <4> QED
          BY <2>1, <4>1, RowKeeps
      <3>2. CASE UNCHANGED rows
        BY <2>1, <3>2, RowsStay DEF rows
      <3> QED
        BY <2>1, <3>1, <3>2
    <2> QED
      BY <2>1, <2>2, Rests, DiskStays DEF WtShape
  <1>3. ASSUME NEW t \in Trees, MarkStale(a, t) PROVE WtShape'
    <2>1. /\ t \in 1..trees /\ UNCHANGED disk /\ trees' = trees /\ busy' = busy
          /\ target' = target /\ wtDeaths' = wtDeaths /\ SetWtState(t, "stale")
      BY <1>3 DEF MarkStale, WtShape, RowsReached
    <2>2. Becomes(t, "stale", binding[t].branch)
      BY <1>0, <2>1, RowSet DEF OpenStates
    <2>3. BusyTypes' /\ TargetTypes' /\ Aimed'
      BY <2>1 DEF WtShape, BusyTypes, TargetTypes, Aimed
    <2> QED
      BY <2>1, <2>2, <2>3, RowKeeps, DiskStays DEF WtShape
  <1>4. ASSUME SetState(a) \/ SetClosed(a) PROVE WtShape'
    <2>1. busy[a] \in Doing \ {"idle"}
      BY <1>4 DEF SetState, SetClosed, Doing
    <2>2. PICK st \in {"active", "stopped", "closed"} :
            /\ target[a] \in 1..trees /\ Rest(a) /\ UNCHANGED disk /\ trees' = trees
            /\ wtDeaths' = wtDeaths /\ SetWtState(target[a], st)
      BY <1>4, <2>1, ShapeIds DEF SetState, SetClosed, WtShape, Aimed
    <2>3. Becomes(target[a], st, binding[target[a]].branch)
      BY <1>0, <2>2, RowSet DEF OpenStates
    <2> QED
      BY <2>2, <2>3, RowKeeps, Rests, DiskStays DEF WtShape
  <1>5. ASSUME NEW b \in Branches, SwitchPersist(a, b) PROVE WtShape'
    <2>1. /\ target[a] \in 1..trees /\ Rest(a) /\ UNCHANGED disk /\ trees' = trees
          /\ wtDeaths' = wtDeaths /\ Touch(target[a])
          /\ binding' = [binding EXCEPT ![target[a]].branch = b]
      BY <1>5, ShapeIds DEF SwitchPersist, WtShape, Aimed
    <2>2. PICK t \in 1..trees : t = target[a]
      BY <2>1
    <2> DEFINE row == [binding[t] EXCEPT !.branch = b]
    <2>3. row \in Bindings /\ row.state = binding[t].state
      BY <1>0, <2>2 DEF RowTypes, Bindings
    <2>4. binding' = [binding EXCEPT ![t] = row]
      BY <2>1, <2>2
    <2>5. recent' \in Seq(Trees) /\ Range(recent') = Range(recent) \cup {t}
      BY <1>0, <2>1, <2>2, Touched DEF RowTypes
    <2> HIDE DEF row
    <2>6. RowTypes'
      BY <1>0, <2>1, <2>3, <2>4, <2>5 DEF RowTypes
    <2>7. RowsReached'
      BY <1>0, <2>1, <2>3, <2>4 DEF WtShape, RowsReached, RowTypes
    <2> QED
      BY <2>1, <2>6, <2>7, Rests, DiskStays DEF WtShape
  <1> QED
    BY <1>1, <1>2, <1>3, <1>4, <1>5

\* The requests that touch the disk.
LEMMA DiskWritesKeepShape ==
  ASSUME WtShape, NEW a \in Agents
  PROVE  RemoveDisk(a) \/ RemoveFails(a) \/ Relocate(a) \/ ReAdd(a) \/ Overlay(a) => WtShape'
  <1> SUFFICES ASSUME RemoveDisk(a) \/ RemoveFails(a) \/ Relocate(a) \/ ReAdd(a) \/ Overlay(a)
               PROVE  WtShape'
    OBVIOUS
  <1>1. busy[a] \in Doing \ {"idle"}
    BY DEF RemoveDisk, RemoveFails, Relocate, ReAdd, Overlay, Doing
  <1>2. target[a] \in 1..trees /\ target[a] \in Trees
    BY <1>1, ShapeIds DEF WtShape, Aimed
  <1>3. RowTypes' /\ RowsReached' /\ trees' = trees /\ wtDeaths' = wtDeaths
    BY RowsStay DEF RemoveDisk, RemoveFails, Relocate, ReAdd, Overlay, rows
  <1>4. DiskTypes'
    <2>0. binding[target[a]].branch \in Branches
      BY <1>2 DEF WtShape, RowTypes, Bindings
    <2>1. CASE RemoveDisk(a) \/ RemoveFails(a)
      BY <1>3, <2>1 DEF RemoveDisk, RemoveFails, disk, WtShape, DiskTypes
    <2>2. CASE Relocate(a)
      BY <1>2, <1>3, <2>2 DEF Relocate, WtShape, DiskTypes
    <2>3. CASE ReAdd(a)
      BY <1>2, <1>3, <2>0, <2>3 DEF ReAdd, WtShape, DiskTypes
    <2>4. CASE Overlay(a)
      BY <1>2, <1>3, <2>4 DEF Overlay, WtShape, DiskTypes
    <2> QED
      BY <2>1, <2>2, <2>3, <2>4
  <1>5. BusyTypes' /\ TargetTypes' /\ Aimed'
    <2>1. CASE Rest(a)
      BY <1>3, <2>1, Rests
    <2>2. CASE \E x \in Doing : Proceed(a, x) /\ target' = target
      <3>1. PICK x \in Doing : busy' = [busy EXCEPT ![a] = x] /\ target' = target
        BY <2>2 DEF Proceed
      <3>2. target[a] # 0
        BY <1>2
      <3> QED
        BY <1>3, <3>1, <3>2 DEF WtShape, BusyTypes, TargetTypes, Aimed
    <2> QED
      BY <2>1, <2>2 DEF RemoveDisk, RemoveFails, Relocate, ReAdd, Overlay, Doing
  <1> QED
    BY <1>3, <1>4, <1>5 DEF WtShape

\* The agents, the user and the death of the daemon.
LEMMA WorldKeepsShape ==
  ASSUME WtShape
  PROVE  /\ \A t \in Trees : AgentWrites(t) \/ UserMeddles(t) => WtShape'
         /\ WtDies => WtShape'
  <1>1. ASSUME NEW t \in Trees, AgentWrites(t) \/ UserMeddles(t) PROVE WtShape'
    <2>1. /\ binding' = binding /\ recent' = recent /\ trees' = trees /\ busy' = busy
          /\ target' = target /\ wtDeaths' = wtDeaths
      BY <1>1 DEF AgentWrites, UserMeddles, rows
    <2>2. DiskTypes'
      BY <1>1, <2>1 DEF AgentWrites, UserMeddles, WtShape, DiskTypes
    <2>3. BusyTypes' /\ TargetTypes' /\ Aimed'
      BY <2>1 DEF WtShape, BusyTypes, TargetTypes, Aimed
    <2> QED
      BY <2>1, <2>2, <2>3, RowsStay DEF WtShape
  <1>2. ASSUME WtDies PROVE WtShape'
    <2>1. /\ binding' = binding /\ recent' = recent /\ trees' = trees /\ UNCHANGED disk
          /\ busy' = [a \in Agents |-> "idle"] /\ target' = [a \in Agents |-> 0]
          /\ wtDeaths' = wtDeaths + 1
      BY <1>2 DEF WtDies, rows
    <2>2. BusyTypes' /\ TargetTypes' /\ Aimed'
      BY <2>1, ShapeIds DEF WtShape, BusyTypes, TargetTypes, Aimed, Doing, Branches
    <2> QED
      BY <2>1, <2>2, RowsStay, DiskStays DEF WtShape
  <1> QED
    BY <1>1, <1>2

\* Rows, directories and registrations keep their shape, whatever is asked of the manager
\* by any number of connections at a time, and wherever the daemon dies.
THEOREM WtTypeCorrect == WtSpec => []WtTypeOK
  <1>1. WtInit => WtShape
    <2>1. WtInit => WtInv /\ RowsReached /\ Aimed
      BY WtInitInv DEF WtInit, RowsReached, Aimed, NoBinding, Branches
    <2> QED
      BY <2>1 DEF WtInv, WtShape
  <1>2. WtShape /\ [WtNext]_wtVars => WtShape'
    <2> SUFFICES ASSUME WtShape, [WtNext]_wtVars PROVE WtShape'
      OBVIOUS
    <2>1. CASE UNCHANGED wtVars
      <3>1. /\ binding' = binding /\ recent' = recent /\ trees' = trees /\ busy' = busy
            /\ target' = target /\ wtDeaths' = wtDeaths /\ UNCHANGED disk
        BY <2>1 DEF wtVars, disk
      <3>2. BusyTypes' /\ TargetTypes' /\ Aimed'
        BY <3>1 DEF WtShape, BusyTypes, TargetTypes, Aimed
      <3> QED
        BY <3>1, <3>2, RowsStay, DiskStays DEF WtShape
    <2>2. CASE WtNext
      BY <2>2, ReadsKeepShape, RowWritesKeepShape, DiskWritesKeepShape, WorldKeepsShape DEF WtNext
    <2> QED
      BY <2>1, <2>2
  <1>3. WtShape => WtTypeOK
    BY DEF WtShape, RowTypes, DiskTypes, WtTypeOK, Bindings
  <1> QED
    BY <1>1, <1>2, <1>3, PTL DEF WtSpec

-----------------------------------------------------------------------------
(* worktrees, one request at a time                                        *)

\* A session has one open worktree at a time: create_inner's look at the open binding and
\* its insert are apart, and no request, failure, death or salvage between them opens one.
THEOREM OneOpenWorktree == ASSUME OneAtATime(Agents) PROVE WtSpec => []OneOpenBinding
  <1>1. WtInv => OneOpenBinding
    BY DEF WtInv
  <1> QED
    BY <1>1, WtInvAlways, PTL

\* A closed row has no directory: close and cleanup_stale set it after remove_worktree_disk,
\* and no salvage brings the directory of a closed row back.
THEOREM ClosedAreGone == ASSUME OneAtATime(Agents) PROVE WtSpec => []ClosedIsGone
  <1>1. WtInv => ClosedIsGone
    BY DEF WtInv
  <1> QED
    BY <1>1, WtInvAlways, PTL

\* Files an agent left are in the directory or in the backup a salvage under way will
\* restore, until a close, a cleanup or the user removes them or the daemon dies.
THEOREM FilesAreKept == ASSUME OneAtATime(Agents) PROVE WtSpec => []FilesSurvive
  <1>1. WtInv => FilesSurvive
    BY DEF WtInv
  <1> QED
    BY <1>1, WtInvAlways, PTL

\* The branch of a row is the one checked out, but for the switch under way.
THEOREM BranchesAreRecorded == ASSUME OneAtATime(Agents) PROVE WtSpec => []BranchRecorded
  <1>1. WtInv => BranchRecorded
    BY DEF WtInv
  <1> QED
    BY <1>1, WtInvAlways, PTL

=============================================================================
