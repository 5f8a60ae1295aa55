----------------------------- MODULE MCOrchestrator ----------------------------
(* Small instances of Orchestrator.                                        *)
EXTENDS Orchestrator, TLC

MCFiber == Caller \cup AgentId

NoPatch == [status |-> None, owner |-> None, blockedBy |-> None,
            result |-> None, error |-> None]

\* The parent closes a task itself.
MCPatches == {[NoPatch EXCEPT !.status = "completed", !.result = Parent]}

AllTypes == {"Explore", "GeneralPurpose"}

Symmetric == Permutations(AgentId) \cup Permutations(TaskId)
=============================================================================
