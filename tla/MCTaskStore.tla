------------------------------ MODULE MCTaskStore ------------------------------
(* Small instances of TaskStore.                                           *)
EXTENDS TaskStoreInv, TLC

NoPatch == [status |-> None, owner |-> None, blockedBy |-> None,
            result |-> None, error |-> None]

\* The parent closes a task itself, opens it again, or takes it over.
MCPatches == {[NoPatch EXCEPT !.status = "completed", !.result = Parent],
              [NoPatch EXCEPT !.status = "in_progress"],
              [NoPatch EXCEPT !.owner = Parent]}

Symmetric == Permutations(Fiber) \cup Permutations(AgentId) \cup Permutations(TaskId)
=============================================================================
