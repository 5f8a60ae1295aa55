------------------------------- MODULE TaskGraph -------------------------------
(***************************************************************************)
(* The session task graph of packages/core/src/tasks.ts as a value: what   *)
(* each operation of the store computes from the map it reads.  Subjects,  *)
(* descriptions and timestamps are left out; the text of a result or an    *)
(* error is abstracted to its author, and a retained worktree to the agent *)
(* it was created for.                                                     *)
(***************************************************************************)
CONSTANTS
    TaskId,    \* the ids crypto.randomUUID() may hand out
    AgentId,   \* the ids of delegated subagents
    Parent,    \* the main loop, the author of what TaskUpdate writes
    None       \* an undefined optional field

ASSUME NoneIsNotAnId == None \notin AgentId \cup TaskId /\ None # Parent

Status    == {"absent", "pending", "in_progress", "completed", "failed"}
AgentType == {"Explore", "Plan", "GeneralPurpose"}
Author    == AgentId \cup {Parent}

Task == [status    : Status,
         owner     : Author \cup {None},
         agentType : AgentType \cup {None},
         blockedBy : SUBSET TaskId,
         result    : Author \cup {None},
         error     : Author \cup {None},
         worktree  : AgentId \cup {None},
         notified  : BOOLEAN]

\* updateTask's argument: an undefined field leaves the task's field alone.
Patch == [status    : (Status \ {"absent"}) \cup {None},
          owner     : Author \cup {None},
          blockedBy : (SUBSET TaskId) \cup {None},
          result    : Author \cup {None},
          error     : Author \cup {None}]

\* What Map.get answers for an id that is not in the map.
NoTask == [status |-> "absent", owner |-> None, agentType |-> None,
           blockedBy |-> {}, result |-> None, error |-> None,
           worktree |-> None, notified |-> FALSE]

Graphs == [TaskId -> Task]
EmptyGraph == [t \in TaskId |-> NoTask]

Known(g) == {t \in TaskId : g[t].status # "absent"}

-----------------------------------------------------------------------------

\* Dependencies that are missing or not completed.
BlockingDeps(g, t) == {d \in g[t].blockedBy : g[d].status # "completed"}

\* createTask: a pending task nobody owns.
Created(deps) == [NoTask EXCEPT !.status = "pending", !.blockedBy = deps]

\* claimTask without a taskId: created and owned at once.
ClaimedNew(a, type, wt) ==
    [NoTask EXCEPT !.status = "in_progress", !.owner = a,
                   !.agentType = type, !.worktree = wt]

\* Mutant: an owned task can be claimed again.
ClaimableOwned(g, t) == t \in Known(g) /\ BlockingDeps(g, t) = {}

\* claimTask refuses an unknown, an owned and a blocked task.
Claimable(g, t) ==
    /\ t \in Known(g)
    /\ g[t].owner = None
    /\ BlockingDeps(g, t) = {}

Claimed(task, a, type, wt) ==
    [task EXCEPT !.status = "in_progress", !.owner = a, !.agentType = type,
                 !.worktree = IF wt = None THEN @ ELSE wt]

\* definedOnly: an undefined field of a patch leaves the old value.
Defined(new, old) == IF new = None THEN old ELSE new

\* Mutant: an undefined status is spread over the task.
PatchedRaw(task, p) ==
    [task EXCEPT !.status    = p.status,
                 !.owner     = Defined(p.owner, @),
                 !.blockedBy = Defined(p.blockedBy, @),
                 !.result    = Defined(p.result, @),
                 !.error     = Defined(p.error, @)]

\* updateTask: any field, whatever the status was.
Patched(task, p) ==
    [task EXCEPT !.status    = Defined(p.status, @),
                 !.owner     = Defined(p.owner, @),
                 !.blockedBy = Defined(p.blockedBy, @),
                 !.result    = Defined(p.result, @),
                 !.error     = Defined(p.error, @)]

\* Mutant: the worktree recorded at the claim is kept.
CompletedInPlace(task, a, wt) == [task EXCEPT !.status = "completed", !.result = a]

\* completeTask and failTask: the worktree field is overwritten, the owner and
\* the notification mark are kept.
Completed(task, a, wt) ==
    [task EXCEPT !.status = "completed", !.result = a, !.worktree = wt]

Failed(task, a, wt) ==
    [task EXCEPT !.status = "failed", !.error = a, !.worktree = wt]

\* Delegated, finished, with something to tell and not told yet.
Untold(task) ==
    /\ task.owner # None
    /\ task.status \in {"completed", "failed"}
    /\ task.result # None \/ task.error # None
    /\ ~task.notified

PendingParentNotifications(g) == {t \in TaskId : Untold(g[t])}

\* Mutant: every task is marked.
NotifiedAll(g, S) ==
    [t \in TaskId |->
        IF t \in Known(g) THEN [g[t] EXCEPT !.notified = TRUE] ELSE g[t]]

Notified(g, S) ==
    [t \in TaskId |->
        IF t \in S \cap Known(g) THEN [g[t] EXCEPT !.notified = TRUE] ELSE g[t]]

\* In progress for an owner that did not survive.
Dangling(g) ==
    {t \in TaskId : g[t].status = "in_progress" /\ g[t].owner # None}

\* resetDanglingTasks keeps the agent type, and everything else.
Reset(g) ==
    [t \in TaskId |->
        IF t \in Dangling(g)
        THEN [g[t] EXCEPT !.status = "pending", !.owner = None, !.worktree = None]
        ELSE g[t]]
=============================================================================
