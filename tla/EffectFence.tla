---------------------------- MODULE EffectFence ----------------------------
(***************************************************************************)
(* The write-ahead effect fence of one session: EffectFenceLedger          *)
(* (effect_fence.rs) and the code that runs an effect under it             *)
(* (EffectSeam::fence_prepare and run_under_fence in effects.rs, and the   *)
(* call sites that fence an asynchronous effect).                          *)
(*                                                                         *)
(* The ledger is a view of the session's event log: an effect is the       *)
(* position of its Prepared event, its record holds the digest of what is  *)
(* done and the last state written.  The digest is made of capability,     *)
(* action kind, origin, target and version only.  Callers are the threads  *)
(* that run effects of the session (ResolveApproval, agent loops, PTY and  *)
(* extension requests); nothing serialises them.  Every access to the log  *)
(* is a step of its own and every append may fail.                         *)
(***************************************************************************)
EXTENDS Integers, Sequences, FiniteSets

CONSTANTS
    Callers,        \* threads that run effects
    Digests,        \* args_digest values
    None,           \* no digest
    MaxEffects,     \* bound: effects prepared
    MaxCrashes,     \* bound: crashes of the daemon
    StoreFails      \* TRUE when an append to the log may fail

ASSUME FenceAssumption ==
    /\ None \notin Digests
    /\ MaxEffects \in Nat /\ MaxCrashes \in Nat
    /\ StoreFails \in BOOLEAN

VARIABLES
    records,        \* durable: records[e] of effect e
    pc,             \* what a caller does next
    digest,         \* the digest of the effect a caller runs
    effect,         \* the effect a caller runs, 0 before it is prepared
    ran,            \* effects whose side effect was started
    crashes

caller == <<pc, digest, effect>>
fenceVars == <<records, caller, ran, crashes>>

Effects == DOMAIN records
RecordsOf(d) == {e \in Effects : records[e].digest = d}

\* Callers that were let through and have not prepared their effect yet.
Preparing == {c \in Callers : pc[c] = "prepare"}

-----------------------------------------------------------------------------
Done(c) ==
    /\ pc' = [pc EXCEPT ![c] = "idle"]
    /\ digest' = [digest EXCEPT ![c] = None]
    /\ effect' = [effect EXCEPT ![c] = 0]

Goto(c, point) == pc' = [pc EXCEPT ![c] = point] /\ UNCHANGED <<digest, effect>>

\* A fence event is appended for the effect of caller c, or the store refuses it.
Written(c, state) == records' = [records EXCEPT ![effect[c]].state = state]
NotWritten == StoreFails /\ UNCHANGED records

-----------------------------------------------------------------------------
\* Mutant: an unfinished effect may be run again.
ReplaySafeUnfinished(state) == state \in {"prepared", "started"}

\* reconcile_for_replay = AllowFresh: the side effect was never started.
ReplaySafe(state) == state = "prepared"

\* fence_prepare, check_replay_safe: nothing is recorded for the digest, or the
\* record latest_for_digest ends up with, whichever of them the iteration over a
\* HashMap gives last, is safe.
Admit(c, d) ==
    /\ pc[c] = "idle"
    /\ Len(records) + Cardinality(Preparing) < MaxEffects
    /\ RecordsOf(d) = {} \/ \E e \in RecordsOf(d) : ReplaySafe(records[e].state)
    /\ pc' = [pc EXCEPT ![c] = "prepare"]
    /\ digest' = [digest EXCEPT ![c] = d]
    /\ UNCHANGED <<records, effect, ran, crashes>>

\* Any other record makes the fence refuse, an Observed or Failed one included.
Refuse(c, d) ==
    /\ pc[c] = "idle"
    /\ \E e \in RecordsOf(d) : ~ReplaySafe(records[e].state)
    /\ UNCHANGED fenceVars

\* prepare_and_start: the Prepared event, under a new effect id ...
Prepare(c) ==
    /\ pc[c] = "prepare"
    /\ \/ /\ records' = Append(records, [digest |-> digest[c], state |-> "prepared"])
          /\ effect' = [effect EXCEPT ![c] = Len(records) + 1]
          /\ pc' = [pc EXCEPT ![c] = "start"]
          /\ UNCHANGED digest
       \/ NotWritten /\ Done(c)
    /\ UNCHANGED <<ran, crashes>>

\* Mutant: the effect is run although Started could not be written.
StartUnchecked(c) ==
    /\ pc[c] = "start"
    /\ Written(c, "started") \/ NotWritten
    /\ Goto(c, "execute")
    /\ UNCHANGED <<ran, crashes>>

\* ... then Started.
Start(c) ==
    /\ pc[c] = "start"
    /\ \/ Written(c, "started") /\ Goto(c, "execute")
       \/ NotWritten /\ Done(c)
    /\ UNCHANGED <<ran, crashes>>

\* The side effect, with a result, an error or (MCP) an unknown outcome.
Execute(c) ==
    /\ pc[c] = "execute"
    /\ ran' = ran \cup {effect[c]}
    /\ \E point \in {"observe", "fail", "unknown"} : Goto(c, point)
    /\ UNCHANGED <<records, crashes>>

\* Observed; when it cannot be written the effect is marked Unknown (the MCP site
\* leaves it Started, as a refused MarkUnknown does).
Observe(c) ==
    /\ pc[c] = "observe"
    /\ \/ Written(c, "observed") /\ Done(c)
       \/ NotWritten /\ Goto(c, "unknown")
    /\ UNCHANGED <<ran, crashes>>

\* mark_failed and mark_unknown ignore an error of the store.
MarkFailed(c) ==
    /\ pc[c] = "fail"
    /\ Written(c, "failed") \/ NotWritten
    /\ Done(c)
    /\ UNCHANGED <<ran, crashes>>

MarkUnknown(c) ==
    /\ pc[c] = "unknown"
    /\ Written(c, "unknown") \/ NotWritten
    /\ Done(c)
    /\ UNCHANGED <<ran, crashes>>

\* The daemon dies and is started again: the log is left.
Crash ==
    /\ crashes < MaxCrashes
    /\ crashes' = crashes + 1
    /\ pc' = [c \in Callers |-> "idle"]
    /\ digest' = [c \in Callers |-> None]
    /\ effect' = [c \in Callers |-> 0]
    /\ UNCHANGED <<records, ran>>

FenceInit ==
    /\ records = <<>>
    /\ pc = [c \in Callers |-> "idle"]
    /\ digest = [c \in Callers |-> None]
    /\ effect = [c \in Callers |-> 0]
    /\ ran = {} /\ crashes = 0

Step(c) ==
    \/ \E d \in Digests : Admit(c, d) \/ Refuse(c, d)
    \/ Prepare(c) \/ Start(c) \/ Execute(c) \/ Observe(c) \/ MarkFailed(c) \/ MarkUnknown(c)

FenceNext == (\E c \in Callers : Step(c)) \/ Crash

FenceSpec == FenceInit /\ [][FenceNext]_fenceVars

-----------------------------------------------------------------------------
(* Properties                                                               *)

States == {"prepared", "started", "observed", "failed", "unknown"}
Points == {"idle", "prepare", "start", "execute", "observe", "fail", "unknown"}
Record == [digest : Digests, state : States]

\* Every variable has the shape of the state it stands for.
FenceTypeOK ==
    /\ records \in Seq(Record)
    /\ pc \in [Callers -> Points]
    /\ digest \in [Callers -> Digests \cup {None}]
    /\ effect \in [Callers -> Nat]
    /\ ran \subseteq Nat /\ crashes \in Nat

\* Write-ahead: whatever the store refuses and wherever the daemon dies, a side
\* effect that was started has a record in the log that is past Prepared, so it
\* cannot be taken for one that never began.
RanIsRecorded == \A e \in ran : e \in Effects /\ records[e].state # "prepared"

\* The digest is settled: something is recorded for it, nothing of it is Prepared
\* and no caller is on its way with it.
Settled(d) ==
    /\ RecordsOf(d) # {}
    /\ \A e \in RecordsOf(d) : records[e].state # "prepared"
    /\ \A c \in Callers : digest[c] # d

\* An effect with a settled digest is never run again: it stays settled and no
\* further effect with that digest is started, retries and restarts included.
SettledStaysSettled ==
    [][\A d \in Digests :
          Settled(d) => Settled(d)' /\ ran' \cap RecordsOf(d)' = ran \cap RecordsOf(d)]_fenceVars

\* No two callers work on the same effect, and the effect a caller works on is in
\* the log under the digest it was admitted with, in the state its step expects.
CallersOwnEffects ==
    /\ \A c \in Callers : pc[c] \in {"execute", "observe", "fail", "unknown", "start"} =>
          /\ effect[c] \in RecordsOf(digest[c])
          /\ records[effect[c]].state = IF pc[c] = "start" THEN "prepared" ELSE "started"
    /\ \A b, c \in Callers : (effect[b] = effect[c] /\ effect[b] # 0) => b = c

\* "Prior Unknown/Started with same args_digest refuses blind replay": no effect is
\* about to run while another effect with the same digest was started.
NoBlindReplay ==
    \A c \in Callers : pc[c] = "execute" => ran \cap RecordsOf(digest[c]) = {}
=============================================================================
