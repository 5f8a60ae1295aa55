------------------------------ MODULE Orchestrator -----------------------------
(***************************************************************************)
(* Delegation in packages/core/src/orchestrator.ts: spawn (cap check,      *)
(* worktree, claim, register), the finalize fiber of every child (run,     *)
(* clean the worktree, record the result, ring), interruptAll and          *)
(* recoverDangling, together with the other callers of the task store in   *)
(* the same session.  The store is TaskStore, interleaved at every awaited *)
(* file-system call; git commands are awaited too.                         *)
(***************************************************************************)
EXTENDS TaskStore

CONSTANTS
    Caller,          \* parent turns: the fibers that run the parent's tools
    Cap,             \* maxConcurrentSubagents
    Types,           \* the agent types spawned in this instance
    Defects,         \* may a child die of a defect instead of a typed failure?
    Teardowns,       \* is interruptAll called while the process goes on?
    RacingRecovery,  \* may a turn spawn before startSession has reset the graph?
    Crashes          \* may the process die?

ASSUME OrchestratorAssumption ==
    /\ Fiber = Caller \cup AgentId
    /\ Caller \cap AgentId = {}
    /\ Cap \in Nat \ {0}
    /\ Types \subseteq AgentType
    /\ {Defects, Teardowns, RacingRecovery, Crashes} \subseteq BOOLEAN

VARIABLES
    at,         \* per caller, where it is
    job,        \* per caller, the spawn or the recovery it is working on
    child,      \* per agent, where its finalize fiber is
    taskOf,     \* per agent, the task it was given
    active,     \* the Ref of live fibers
    bells,      \* the completions queue, counted since the process started
    worktrees,  \* the worktrees on disk
    stopping,   \* the fibers interruptAll has still to interrupt
    fresh,      \* startSession has not run yet
    owed        \* history, per agent: is its outcome owed to the parent, and
                \* has its record been acknowledged?

orchVars == <<at, job, child, taskOf, active, bells, worktrees, stopping, fresh, owed>>
Live == {"running", "cleaning", "recording"}

allVars == <<storeVars, orchVars>>

NoTaskId == None
NoJob == [agent |-> None, task |-> NoTaskId, type |-> None,
          todo |-> {}, stale |-> {}]

OrchInit ==
    /\ StoreInit
    /\ at = [c \in Caller |-> "ready"]
    /\ job = [c \in Caller |-> NoJob]
    /\ child = [a \in AgentId |-> "none"]
    /\ taskOf = [a \in AgentId |-> NoTaskId]
    /\ active = {}
    /\ bells = 0
    /\ worktrees = {}
    /\ stopping = {}
    /\ fresh = TRUE
    /\ owed = [a \in AgentId |-> "no"]

\* The worktree a child of this type works in, named after the agent.
WorktreeOf(type, a) == IF type = "GeneralPurpose" THEN a ELSE None

Go(c, place) == at' = [at EXCEPT ![c] = place]

\* The id of a spawn that came to nothing is not drawn again.
GiveUpSpawn(c) ==
    /\ Go(c, "ready")
    /\ job' = [job EXCEPT ![c] = NoJob]
    /\ child' = [child EXCEPT ![job[c].agent] = "void"]

-----------------------------------------------------------------------------
(* spawn.                                                                  *)

\* An agent id nobody has used: crypto.randomUUID().
Unused(a) == child[a] = "none" /\ \A c \in Caller : job[c].agent # a

\* Mutant: one too many.
SlotOffByOne == Cardinality(active) <= Cap

\* The cap counts the fibers in the map, not the spawns underway.
Slot == Cardinality(active) < Cap

\* claimTask for the job: its update of memory, or its refusal.
Claim(c, j) ==
    \/ /\ j.task = NoTaskId
       /\ \E t \in TaskId :
            /\ ClaimNewTask(c, t, j.agent, j.type, WorktreeOf(j.type, j.agent))
            /\ job' = [job EXCEPT ![c] = [j EXCEPT !.task = t]]
       /\ Go(c, "claiming")
    \/ /\ j.task # NoTaskId
       /\ ClaimTask(c, j.task, j.agent, j.type, WorktreeOf(j.type, j.agent))
       /\ job' = [job EXCEPT ![c] = j]
       /\ Go(c, "claiming")

Refused(j) == j.task # NoTaskId /\ ~Claimable(tasks, j.task)

\* The cap is read, the worktree not yet created.  Without a worktree the
\* claim follows in the same stretch; a claim that is refused changes nothing.
\* recoverDangling spawns its own tasks, and stops at the first refusal.
Spawn(c, a, type, t) ==
    /\ at[c] = "ready"
    /\ fresh => RacingRecovery
    /\ Slot
    /\ Unused(a)
    /\ IF job[c].todo = {} THEN t \in TaskId \cup {NoTaskId}
       ELSE t \in job[c].todo /\ type = tasks[t].agentType
    /\ LET j == [job[c] EXCEPT !.agent = a, !.task = t, !.type = type, !.todo = @ \ {t}]
       IN  \/ /\ type = "GeneralPurpose"
              /\ job' = [job EXCEPT ![c] = j]
              /\ Go(c, "worktree")
              /\ UNCHANGED storeVars
           \/ /\ type # "GeneralPurpose"
              /\ Claim(c, j)
    /\ UNCHANGED <<child, taskOf, active, bells, worktrees, stopping, fresh, owed>>

\* recoverDangling: the cap, or a refused claim, ends it.
RecoveryStops(c) ==
    /\ at[c] = "ready"
    /\ job[c].todo # {}
    /\ \/ ~Slot
       \/ \E t \in job[c].todo : ~Claimable(tasks, t)
    /\ job' = [job EXCEPT ![c] = NoJob]
    /\ UNCHANGED <<storeVars, at, child, taskOf, active, bells, worktrees,
                   stopping, fresh, owed>>

\* git worktree add succeeded; the claim follows in the same stretch.
WorktreeReady(c) ==
    /\ at[c] = "worktree"
    /\ worktrees' = worktrees \cup {job[c].agent}
    /\ \/ Claim(c, job[c])
       \/ /\ Refused(job[c])
          /\ Go(c, "undo")
          /\ UNCHANGED <<storeVars, job>>
    /\ UNCHANGED <<child, taskOf, active, bells, stopping, fresh, owed>>

\* Not a repository, no commit, or git worktree add failed: a ToolError.
WorktreeFails(c) ==
    /\ at[c] = "worktree"
    /\ GiveUpSpawn(c)
    /\ UNCHANGED <<storeVars, taskOf, active, bells, worktrees,
                   stopping, fresh, owed>>

\* The claim is on disk: the child is forked and registered, and spawn returns.
Register(c) ==
    /\ at[c] = "claiming"
    /\ io[c] = "ok"
    /\ Return(c)
    /\ LET a == job[c].agent
       IN  /\ child' = [child EXCEPT ![a] = "running"]
           /\ taskOf' = [taskOf EXCEPT ![a] = job[c].task]
           /\ active' = active \cup {a}
    /\ Go(c, "ready")
    /\ job' = [job EXCEPT ![c] = [NoJob EXCEPT !.todo = job[c].todo]]
    /\ UNCHANGED <<bells, worktrees, stopping, fresh, owed>>

\* The claim could not be written: the tool fails, its worktree is cleaned.
ClaimFails(c) ==
    /\ at[c] = "claiming"
    /\ io[c] = "failed"
    /\ Return(c)
    /\ IF job[c].type = "GeneralPurpose"
       THEN Go(c, "undo") /\ UNCHANGED <<job, child>>
       ELSE GiveUpSpawn(c)
    /\ UNCHANGED <<taskOf, active, bells, worktrees, stopping, fresh, owed>>

\* cleanupAgentWorktree: nothing has changed, or git cannot tell and it stays.
UndoWorktree(c, kept) ==
    /\ at[c] = "undo"
    /\ worktrees' = IF kept THEN worktrees ELSE worktrees \ {job[c].agent}
    /\ GiveUpSpawn(c)
    /\ UNCHANGED <<storeVars, taskOf, active, bells, stopping, fresh, owed>>

-----------------------------------------------------------------------------
(* finalize, the fiber of a child.                                         *)

\* Mutant: the outcome stays in memory.
RecordUnpersisted(a, wt) ==
    /\ tasks' = [tasks EXCEPT ![taskOf[a]] = Completed(@, a, wt)]
    /\ UNCHANGED <<file, lock, snap, io, abandoned,
                   rev, fileRev, snapRev, need, lostRev, faults>>
    /\ child' = [child EXCEPT ![a] = "recording"]
    /\ owed' = [owed EXCEPT ![a] = "recorded"]

\* completeTask or failTask with the final state of the worktree.
Record(a, wt) ==
    /\ CompleteTask(a, taskOf[a], a, wt) \/ FailTask(a, taskOf[a], a, wt)
    /\ child' = [child EXCEPT ![a] = "recording"]
    /\ owed' = [owed EXCEPT ![a] = "recorded"]

\* The child session ends, with a text or a typed failure.
RunEnds(a) ==
    /\ child[a] = "running"
    /\ IF a \in worktrees
       THEN child' = [child EXCEPT ![a] = "cleaning"] /\ UNCHANGED <<storeVars, owed>>
       ELSE Record(a, None)
    /\ UNCHANGED <<at, job, taskOf, active, bells, worktrees, stopping, fresh>>

\* The worktree stays when it has changes, or when git cannot tell.
CleanupEnds(a, kept) ==
    /\ child[a] = "cleaning"
    /\ worktrees' = IF kept THEN worktrees ELSE worktrees \ {a}
    /\ Record(a, IF kept THEN a ELSE None)
    /\ UNCHANGED <<at, job, taskOf, active, bells, stopping, fresh>>

\* Mutant: rung by the finalizer and by the event handler.
OfferTwice == bells' = bells + 2

\* Queue.offer.
Offer == bells' = bells + 1

\* The record is on disk, or its failure is logged: the bell, then the fiber
\* leaves the map.
Ring(a) ==
    /\ child[a] = "recording"
    /\ io[a] \in {"ok", "failed"}
    /\ owed' = [owed EXCEPT ![a] =
                  IF @ = "recorded" /\ io[a] = "ok" THEN "announced" ELSE @]
    /\ Return(a)
    /\ Offer
    /\ active' = active \ {a}
    /\ child' = [child EXCEPT ![a] = "gone"]
    /\ UNCHANGED <<at, job, taskOf, worktrees, stopping, fresh>>

\* A throw inside a tool or a provider is no typed failure: catchAll does not
\* see it, the fiber dies and only ensuring still runs.
Defect(a) ==
    /\ Defects
    /\ child[a] = "running"
    /\ child' = [child EXCEPT ![a] = "dead"]
    /\ active' = active \ {a}
    /\ UNCHANGED <<storeVars, at, job, taskOf, bells, worktrees, stopping, fresh, owed>>

-----------------------------------------------------------------------------
(* interruptAll reads the map once, interrupts each fiber in turn, waiting *)
(* for it to end, and then forgets every fiber.                            *)

InterruptAll ==
    /\ Teardowns
    /\ stopping = {}
    /\ active # {}
    /\ stopping' = active
    /\ UNCHANGED <<storeVars, at, job, child, taskOf, active, bells, worktrees,
                   fresh, owed>>

InterruptChild(a) ==
    /\ a \in stopping
    /\ IF io[a] \in InFlight THEN Interrupt(a) ELSE UNCHANGED storeVars
    /\ io[a] \notin {"ok", "failed"}
    /\ child' = [child EXCEPT ![a] = IF @ \in Live THEN "dead" ELSE @]
    /\ stopping' = stopping \ {a}
    /\ active' = IF stopping = {a} THEN {} ELSE active \ {a}
    /\ UNCHANGED <<at, job, taskOf, bells, worktrees, fresh, owed>>

\* The parent turn is interrupted; a git command underway may still finish.
InterruptCaller(c) ==
    /\ \/ at[c] = "worktree" /\ faults < MaxFaults /\ UNCHANGED storeVars
       \/ at[c] = "claiming" /\ Interrupt(c)
    /\ worktrees' \in {worktrees, worktrees \cup
                          (IF at[c] = "worktree" THEN {job[c].agent} ELSE {})}
    /\ GiveUpSpawn(c)
    /\ UNCHANGED <<taskOf, active, bells, stopping, fresh, owed>>

-----------------------------------------------------------------------------
(* Everybody else who calls the store.                                     *)

\* The task tools of the parent.
TaskTool(c) ==
    /\ at[c] = "ready" /\ job[c].todo = {}
    /\ \E t \in TaskId :
        \/ \E deps \in SUBSET (Known(tasks)) : CreateTask(c, t, deps)
        \/ \E p \in Patches : UpdateTask(c, t, p)
    /\ Go(c, "writing")
    /\ UNCHANGED <<job, child, taskOf, active, bells, worktrees, stopping, fresh, owed>>

\* The controller has shown the parent every pending result.
TellParent(c) ==
    /\ at[c] = "ready" /\ job[c].todo = {}
    /\ PendingParentNotifications(tasks) # {}
    /\ MarkParentNotified(c, PendingParentNotifications(tasks))
    /\ owed' = [a \in AgentId |->
                  IF taskOf[a] \in PendingParentNotifications(tasks) THEN "no"
                  ELSE owed[a]]
    /\ Go(c, "writing")
    /\ UNCHANGED <<job, child, taskOf, active, bells, worktrees, stopping, fresh>>

Written(c) ==
    /\ at[c] = "writing"
    /\ Return(c)
    /\ Go(c, "ready")
    /\ UNCHANGED <<job, child, taskOf, active, bells, worktrees, stopping, fresh, owed>>

-----------------------------------------------------------------------------
(* startSession and recoverDangling, at the start of a session.            *)

\* The worktrees removeTaskWorktrees will remove are those of the tasks as
\* they were before the reset.
Stale == {tasks[t].worktree : t \in Dangling(tasks)} \ {None}

\* startSession resets and removes; recoverDangling spawns again as well.
Recover(c, respawn) ==
    /\ fresh
    /\ at[c] = "ready" /\ job[c].todo = {}
    /\ fresh' = FALSE
    /\ \/ /\ ResetDanglingTasks(c)
          /\ job' = [job EXCEPT ![c] = [NoJob EXCEPT
               !.stale = Stale, !.todo = IF respawn THEN Dangling(tasks) ELSE {}]]
          /\ Go(c, "resetting")
       \/ /\ Dangling(tasks) = {}
          /\ UNCHANGED <<storeVars, job, at>>
    /\ UNCHANGED <<child, taskOf, active, bells, worktrees, stopping, owed>>

\* removeTaskWorktrees runs only when the reset could be written.
RemoveStale(c) ==
    /\ at[c] = "resetting"
    /\ worktrees' = IF io[c] = "ok" THEN worktrees \ job[c].stale ELSE worktrees
    /\ Return(c)
    /\ job' = [job EXCEPT ![c] = [NoJob EXCEPT !.todo =
                                    IF io[c] = "ok" THEN job[c].todo ELSE {}]]
    /\ Go(c, "ready")
    /\ UNCHANGED <<child, taskOf, active, bells, stopping, fresh, owed>>

\* The process dies and is started again.
Crash ==
    /\ Crashes
    /\ Restart
    /\ at' = [c \in Caller |-> "ready"]
    /\ job' = [c \in Caller |-> NoJob]
    /\ child' = [a \in AgentId |->
                   IF child[a] \in Live THEN "dead"
                   ELSE IF child[a] = "none" /\ ~Unused(a) THEN "void"
                   ELSE child[a]]
    /\ active' = {} /\ stopping' = {} /\ bells' = 0
    /\ fresh' = TRUE
    /\ owed' = [a \in AgentId |-> IF owed[a] = "recorded" THEN "no" ELSE owed[a]]
    /\ UNCHANGED <<taskOf, worktrees>>

-----------------------------------------------------------------------------
SpawnStep(c) ==
    \/ \E a \in AgentId, type \in Types, t \in TaskId \cup {NoTaskId} : Spawn(c, a, type, t)
    \/ WorktreeReady(c) \/ WorktreeFails(c)
    \/ Register(c) \/ ClaimFails(c)
    \/ \E kept \in BOOLEAN : UndoWorktree(c, kept)
    \/ InterruptCaller(c)

ParentStep(c) == TaskTool(c) \/ TellParent(c) \/ Written(c)

RecoverStep(c) ==
    \/ \E respawn \in BOOLEAN : Recover(c, respawn)
    \/ RemoveStale(c)
    \/ RecoveryStops(c)

\* What a child does without being told to.
ChildStep(a) ==
    RunEnds(a) \/ (\E kept \in BOOLEAN : CleanupEnds(a, kept)) \/ Ring(a)

Persist(f) == PersistStep(f) /\ UNCHANGED orchVars

RenameLands == AbandonedRenameLands /\ UNCHANGED orchVars

OrchNext ==
    \/ \E c \in Caller : SpawnStep(c) \/ ParentStep(c) \/ RecoverStep(c)
    \/ \E a \in AgentId : ChildStep(a) \/ Defect(a) \/ InterruptChild(a)
    \/ \E f \in Fiber : Persist(f)
    \/ InterruptAll
    \/ RenameLands
    \/ Crash

OrchSpec == OrchInit /\ [][OrchNext]_allVars

\* Every fiber that can run is scheduled, the semaphore queues its waiters,
\* file-system and git calls answer, and a child's run ends: its loop is bounded
\* by 20 iterations and its model stream by the idle timeout.
OrchFairSpec ==
    /\ OrchSpec
    /\ \A a \in AgentId : WF_allVars(ChildStep(a))
    /\ \A f \in Fiber : SF_allVars(TakeLock(f) /\ UNCHANGED orchVars) /\ WF_allVars(Persist(f))

-----------------------------------------------------------------------------
(* Properties.                                                             *)

OrchTypeOK ==
    /\ at \in [Caller -> {"ready", "worktree", "claiming", "undo", "writing", "resetting"}]
    /\ job \in [Caller -> [agent : AgentId \cup {None}, task : TaskId \cup {None},
                           type : AgentType \cup {None}, todo : SUBSET TaskId,
                           stale : SUBSET AgentId]]
    /\ child \in [AgentId -> Live \cup {"none", "void", "gone", "dead"}]
    /\ taskOf \in [AgentId -> TaskId \cup {None}]
    /\ active \subseteq AgentId /\ stopping \subseteq AgentId
    /\ worktrees \subseteq AgentId
    /\ owed \in [AgentId -> {"no", "recorded", "announced"}]
    /\ bells \in Nat /\ fresh \in BOOLEAN

LiveChildren == {a \in AgentId : child[a] \in Live}

\* claimTask "structurally prevents double-delegation": whatever is created,
\* recovered or retried, no two live children work on one task.
OneChildPerTask ==
    \A a, b \in LiveChildren : taskOf[a] = taskOf[b] => a = b

\* The children the map knows.  interruptAll ends by forgetting every fiber, one
\* registered while it waited for the others included; without it the map knows
\* all that live.
Counted == IF Teardowns THEN LiveChildren \cap active ELSE LiveChildren

\* With one parent turn at a time the cap bounds the children that live,
\* although it is read long before the child is registered.
CapHolds == Cardinality(Counted) <= Cap

\* A child that lives owns its task, and the task says so.
LiveOwnsItsTask ==
    \A a \in AgentId :
        child[a] \in {"running", "cleaning"} =>
            tasks[taskOf[a]].owner = a /\ tasks[taskOf[a]].status = "in_progress"

\* A result a child recorded is there for the parent until the parent has been
\* told, and through crashes and recoveries once its record was acknowledged.
ResultsStayPending ==
    \A a \in AgentId :
        owed[a] # "no" => taskOf[a] \in PendingParentNotifications(tasks)

\* A finished task never points at a worktree that was removed, in memory or
\* after a restart.
FinishedWorktreeExists ==
    \A t \in TaskId : \A g \in {tasks, file} :
        g[t].status \in {"completed", "failed"} /\ g[t].worktree # None
            => g[t].worktree \in worktrees

\* Not so: a spawn interrupted between the worktree and the claim leaves one.
\* Every worktree on disk is in the hands of a spawn or a child, or recorded on
\* a task where startSession or the user can find it.
NoOrphanWorktree ==
    \A w \in worktrees :
        \/ child[w] \in {"running", "cleaning"}
        \/ \E c \in Caller : job[c].agent = w \/ w \in job[c].stale
        \/ \E t \in TaskId : tasks[t].worktree = w

\* A child's fiber gets past its writes, to its bell or to its death; one that
\* has nothing recorded yet may be out of the updates this instance is bounded to.
EveryChildEnds ==
    \A a \in AgentId :
        child[a] = "running" ~> \/ child[a] \in {"gone", "dead"}
                                \/ rev = MaxRev /\ child[a] # "recording"

\* The orchestrator only ever uses the store as TaskStore describes it.
UsesTheStore == StoreSpec

\* To the parent, all of this is Delegation.
Stage(place) ==
    CASE place \in {"none", "void"}        -> "none"
      [] place \in {"running", "cleaning"} -> "live"
      [] place = "recording"               -> "recorded"
      [] OTHER                             -> place

Life == [a \in AgentId |-> Stage(child[a])]

Delegated == INSTANCE Delegation WITH life <- Life

ImplementsDelegation == Delegated!DelegationSpec
=============================================================================
