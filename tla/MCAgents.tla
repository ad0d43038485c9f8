------------------------------ MODULE MCAgents ------------------------------
(***************************************************************************)
(* What agents do for TLC: fenced effects, workflows with their children,  *)
(* worktrees, and the extensions agents are given.  They share no state    *)
(* that any of them tells apart, so they are checked side by side: a       *)
(* behaviour belongs to the one that focus names.                          *)
(***************************************************************************)
EXTENDS EffectFence, Workflow, Worktrees, Extensions, TLC

CONSTANTS t1, t2, t3, d1, d2, Focus

VARIABLE focus

agentVars == <<focus, fenceVars, wfVars, wtVars, extVars>>

Threads == {t1, t2, t3}
AgentSymmetry == Permutations(Threads) \cup Permutations({d1, d2})

\* All kinds of step in one chain.
MixedRecipe == <<"Explore", "Research", "none", "Build">>

AgentInit ==
    /\ focus \in Focus
    /\ FenceInit
    /\ WfInit
    /\ WtInit
    /\ ExtInit
    /\ focus # "extension" => active = "none" /\ source = "v1"

FenceMoves == focus = "fence" /\ FenceNext /\ UNCHANGED <<focus, wfVars, wtVars, extVars>>
WfMoves == focus = "workflow" /\ WfNext /\ UNCHANGED <<focus, fenceVars, wtVars, extVars>>
WtMoves == focus = "worktree" /\ WtNext /\ UNCHANGED <<focus, fenceVars, wfVars, extVars>>
ExtMoves == focus = "extension" /\ ExtNext /\ UNCHANGED <<focus, fenceVars, wfVars, wtVars>>

AgentNext == FenceMoves \/ WfMoves \/ WtMoves \/ ExtMoves

\* Ledger, workflows, worktrees and extensions keep their shape.
AgentTypeOK == FenceTypeOK /\ WfTypeOK /\ WtTypeOK /\ ExtTypeOK

AgentSpec == AgentInit /\ [][AgentNext]_agentVars

=============================================================================
