-------------------------- MODULE Orchestrator_proofs --------------------------
(***************************************************************************)
(* The orchestrator uses the task store only through the operations of     *)
(* TaskStore, so everything proved of the store holds under delegation,    *)
(* for any number of agents, parent turns and tasks.  And what it promises *)
(* of the children it starts: that it implements Delegation, and that the  *)
(* cap bounds them.                                                        *)
(*                                                                         *)
(* And of the tasks its children work on: no task has two children, a live *)
(* child owns its task, a worktree that is recorded exists, and a result   *)
(* is kept until the parent has it.                                        *)
(***************************************************************************)
EXTENDS OrchestratorInv, TaskStore_proofs, FiniteSetTheorems

OrchInv == StoreInv /\ OrchTypeOK /\ SpawnHasAgent

StoreStep == [StoreNext]_storeVars

Kept == StoreStep /\ OrchTypeOK' /\ SpawnHasAgent'

-----------------------------------------------------------------------------
(* The composed steps are steps of the store.                              *)

\* Callers and children are fibers of the store.
LEMMA FibersAre ==
  /\ \A c \in Caller : c \in Fiber
  /\ \A a \in AgentId : a \in Fiber
  BY OrchestratorAssumption

\* A claim is one of the two claims of the store.
LEMMA ClaimIsOperation ==
  ASSUME NEW c \in Caller, NEW j, j.agent \in AgentId, j.type \in AgentType,
         j.task \in TaskId \cup {None}, Claim(c, j)
  PROVE  StoreStep
<1> DEFINE wt == IF j.type = "GeneralPurpose" THEN j.agent ELSE None
<1>1. \E t \in TaskId : \/ ClaimNewTask(c, t, j.agent, j.type, wt)
                        \/ ClaimTask(c, t, j.agent, j.type, wt)
  BY DEF Claim, WorktreeOf, NoTaskId
<1>2. Operation(c)
  BY <1>1 DEF Operation
<1>. QED BY <1>2, FibersAre DEF StoreStep, StoreNext

\* What a child writes at its end is a completion or a failure.
LEMMA RecordIsOperation ==
  ASSUME NEW a \in AgentId, NEW wt \in AgentId \cup {None}, Record(a, wt)
  PROVE  StoreStep
<1>1. taskOf[a] \in TaskId
  BY DEF Record, CompleteTask, FailTask, Known
<1>2. Operation(a)
  BY <1>1 DEF Record, Operation
<1>. QED BY <1>2, FibersAre DEF StoreStep, StoreNext

\* Returning to a caller is a step of the store.
LEMMA ReturnIsStep ==
  ASSUME NEW f \in Fiber, Return(f)
  PROVE  StoreStep
  BY DEF StoreStep, StoreNext

\* So is an interruption.
LEMMA InterruptIsStep ==
  ASSUME NEW f \in Fiber, Interrupt(f)
  PROVE  StoreStep
  BY DEF StoreStep, StoreNext

-----------------------------------------------------------------------------
(* spawn.                                                                  *)

\* A spawn begins: nothing is written yet, or the claim is.
LEMMA SpawnKept ==
  ASSUME OrchInv, NEW c \in Caller, NEW a \in AgentId, NEW type \in Types,
         NEW t \in TaskId \cup {NoTaskId}, Spawn(c, a, type, t)
  PROVE  Kept
<1> DEFINE j == [job[c] EXCEPT !.agent = a, !.task = t, !.type = type, !.todo = @ \ {t}]
<1>1. type \in AgentType
  BY OrchestratorAssumption
<1>2. job[c] \in [agent : AgentId \cup {None}, task : TaskId \cup {None},
                  type : AgentType \cup {None}, todo : SUBSET TaskId,
                  stale : SUBSET AgentId]
  BY DEF OrchInv, OrchTypeOK
<1>3. /\ j \in [agent : AgentId \cup {None}, task : TaskId \cup {None},
                type : AgentType \cup {None}, todo : SUBSET TaskId,
                stale : SUBSET AgentId]
      /\ j.agent = a /\ j.type = type /\ j.task = t
  BY <1>1, <1>2 DEF NoTaskId
<1>. HIDE DEF j
<1>4. \/ job' = [job EXCEPT ![c] = j] /\ Go(c, "worktree") /\ UNCHANGED storeVars
      \/ Claim(c, j)
  BY DEF Spawn, j
<1>5. StoreStep
  <2>1. CASE Claim(c, j)
    BY <1>1, <1>3, <2>1, ClaimIsOperation DEF NoTaskId
  <2>. QED BY <1>4, <2>1 DEF StoreStep
<1>6. \E k : /\ k \in [agent : AgentId \cup {None}, task : TaskId \cup {None},
                       type : AgentType \cup {None}, todo : SUBSET TaskId,
                       stale : SUBSET AgentId]
             /\ k.agent = a /\ k.type = type
             /\ job' = [job EXCEPT ![c] = k]
  <2>1. CASE Claim(c, j)
    <3>1. CASE job' = [job EXCEPT ![c] = j]
      BY <1>3, <3>1
    <3>2. CASE \E u \in TaskId : job' = [job EXCEPT ![c] = [j EXCEPT !.task = u]]
      <4>1. PICK u \in TaskId : job' = [job EXCEPT ![c] = [j EXCEPT !.task = u]]
        BY <3>2
      <4>. QED BY <1>3, <4>1
    <3>. QED BY <2>1, <3>1, <3>2 DEF Claim
  <2>. QED BY <1>3, <1>4, <2>1
<1>7. at' \in {[at EXCEPT ![c] = "worktree"], [at EXCEPT ![c] = "claiming"]}
  BY <1>4 DEF Claim, Go
<1>8. UNCHANGED <<child, taskOf, active, bells, worktrees, stopping, fresh, owed>>
  BY DEF Spawn
<1>9. OrchTypeOK'
  BY <1>6, <1>7, <1>8 DEF OrchInv, OrchTypeOK
<1>10. SpawnHasAgent'
  BY <1>1, <1>6, <1>7 DEF OrchInv, OrchTypeOK, SpawnHasAgent
<1>. QED BY <1>5, <1>9, <1>10 DEF Kept

\* The record a caller works on has the fields spawn gives it.
Job == [agent : AgentId \cup {None}, task : TaskId \cup {None},
        type : AgentType \cup {None}, todo : SUBSET TaskId, stale : SUBSET AgentId]

\* Giving up a spawn leaves an idle caller behind.
LEMMA GiveUpKeeps ==
  ASSUME OrchInv, NEW c \in Caller, GiveUpSpawn(c), job[c].agent \in AgentId
  PROVE  /\ at' \in [Caller -> {"ready", "worktree", "claiming", "undo", "writing",
                                "resetting"}]
         /\ job' \in [Caller -> Job]
         /\ child' \in [AgentId -> Live \cup {"none", "void", "gone", "dead"}]
         /\ SpawnHasAgent'
<1> USE DEF GiveUpSpawn, Go, OrchInv, OrchTypeOK
<1>1. NoJob \in Job
  BY DEF NoJob, NoTaskId, Job
<1>2. job \in [Caller -> Job]
  BY DEF Job
<1>3. job' \in [Caller -> Job]
  BY <1>1, <1>2
<1>4. SpawnHasAgent'
  BY DEF SpawnHasAgent
<1>. QED BY <1>3, <1>4

\* The worktree exists and the claim is made, or refused.
LEMMA WorktreeReadyKept ==
  ASSUME OrchInv, NEW c \in Caller, WorktreeReady(c)
  PROVE  Kept
<1>0. /\ at[c] = "worktree"
      /\ worktrees' = worktrees \cup {job[c].agent}
      /\ \/ Claim(c, job[c])
         \/ Go(c, "undo") /\ UNCHANGED <<storeVars, job>>
      /\ UNCHANGED <<child, taskOf, active, bells, stopping, fresh, owed>>
  BY DEF WorktreeReady
<1>1. job[c].agent \in AgentId /\ job[c].type \in AgentType /\ job[c] \in Job
  BY <1>0 DEF OrchInv, OrchTypeOK, SpawnHasAgent, Job
<1>2. StoreStep
  <2>1. CASE Claim(c, job[c])
    BY <1>1, <2>1, ClaimIsOperation DEF Job
  <2>. QED BY <1>0, <2>1 DEF StoreStep
<1>3. /\ at' \in {[at EXCEPT ![c] = "claiming"], [at EXCEPT ![c] = "undo"]}
      /\ \/ job' = job
         \/ job' = [job EXCEPT ![c] = job[c]]
         \/ \E t \in TaskId : job' = [job EXCEPT ![c] = [job[c] EXCEPT !.task = t]]
  BY <1>0 DEF Claim, Go
<1>4. job' \in [Caller -> Job] /\ job'[c].agent = job[c].agent /\ job'[c].type = job[c].type
      /\ \A d \in Caller \ {c} : job'[d] = job[d]
  <2>1. job \in [Caller -> Job]
    BY DEF OrchInv, OrchTypeOK, Job
  <2>2. CASE \E t \in TaskId : job' = [job EXCEPT ![c] = [job[c] EXCEPT !.task = t]]
    <3>1. PICK t \in TaskId : job' = [job EXCEPT ![c] = [job[c] EXCEPT !.task = t]]
      BY <2>2
    <3>2. /\ [job[c] EXCEPT !.task = t] \in Job
          /\ [job[c] EXCEPT !.task = t].agent = job[c].agent
          /\ [job[c] EXCEPT !.task = t].type = job[c].type
      BY <1>1 DEF Job
    <3>. QED BY <2>1, <3>1, <3>2
  <2>. QED BY <1>3, <2>1, <2>2
<1>5. OrchTypeOK'
  BY <1>0, <1>1, <1>3, <1>4 DEF OrchInv, OrchTypeOK, Job
<1>6. SpawnHasAgent'
  BY <1>1, <1>3, <1>4 DEF OrchInv, OrchTypeOK, SpawnHasAgent
<1>. QED BY <1>2, <1>5, <1>6 DEF Kept

\* Without a worktree nothing was claimed.
LEMMA WorktreeFailsKept ==
  ASSUME OrchInv, NEW c \in Caller, WorktreeFails(c)
  PROVE  Kept
<1>1. job[c].agent \in AgentId
  BY DEF WorktreeFails, OrchInv, SpawnHasAgent
<1>2. GiveUpSpawn(c) /\ StoreStep
  BY DEF WorktreeFails, StoreStep
<1>3. OrchTypeOK' /\ SpawnHasAgent'
  BY <1>1, <1>2, GiveUpKeeps DEF WorktreeFails, OrchInv, OrchTypeOK, Job
<1>. QED BY <1>2, <1>3 DEF Kept

\* The registered child is the agent the claim named.
LEMMA RegisterKept ==
  ASSUME OrchInv, NEW c \in Caller, Register(c)
  PROVE  Kept
<1> DEFINE a == job[c].agent
           k == [NoJob EXCEPT !.todo = job[c].todo]
<1>1. a \in AgentId /\ job[c] \in Job
  BY DEF Register, OrchInv, OrchTypeOK, SpawnHasAgent, Job
<1>2. k \in Job
  BY <1>1 DEF NoJob, NoTaskId, Job
<1>3. StoreStep
  BY FibersAre, ReturnIsStep DEF Register
<1>4. /\ at' = [at EXCEPT ![c] = "ready"]
      /\ job' = [job EXCEPT ![c] = k]
      /\ child' = [child EXCEPT ![a] = "running"]
      /\ taskOf' = [taskOf EXCEPT ![a] = job[c].task]
      /\ active' = active \cup {a}
      /\ UNCHANGED <<bells, worktrees, stopping, fresh, owed>>
  BY DEF Register, Go
<1>. HIDE DEF a, k
<1>5. job' \in [Caller -> Job]
  BY <1>2, <1>4 DEF OrchInv, OrchTypeOK, Job
<1>6. OrchTypeOK'
  BY <1>1, <1>4, <1>5 DEF OrchInv, OrchTypeOK, Job, Live
<1>7. SpawnHasAgent'
  BY <1>4 DEF OrchInv, OrchTypeOK, SpawnHasAgent
<1>. QED BY <1>3, <1>6, <1>7 DEF Kept

\* A claim that could not be written goes back to its worktree or ends.
LEMMA ClaimFailsKept ==
  ASSUME OrchInv, NEW c \in Caller, ClaimFails(c)
  PROVE  Kept
<1>1. job[c].agent \in AgentId /\ job[c].type \in AgentType
  BY DEF ClaimFails, OrchInv, SpawnHasAgent
<1>2. StoreStep
  BY FibersAre, ReturnIsStep DEF ClaimFails
<1>3. CASE Go(c, "undo") /\ UNCHANGED <<job, child>>
  <2>1. OrchTypeOK'
    BY <1>3 DEF ClaimFails, Go, OrchInv, OrchTypeOK
  <2>2. SpawnHasAgent'
    BY <1>1, <1>3 DEF Go, OrchInv, OrchTypeOK, SpawnHasAgent
  <2>. QED BY <1>2, <2>1, <2>2 DEF Kept
<1>4. CASE GiveUpSpawn(c)
  <2>1. OrchTypeOK' /\ SpawnHasAgent'
    BY <1>1, <1>4, GiveUpKeeps DEF ClaimFails, OrchInv, OrchTypeOK, Job
  <2>. QED BY <1>2, <2>1 DEF Kept
<1>. QED BY <1>3, <1>4 DEF ClaimFails

\* Cleaning the unused worktree ends the spawn.
LEMMA UndoWorktreeKept ==
  ASSUME OrchInv, NEW c \in Caller, NEW kept \in BOOLEAN, UndoWorktree(c, kept)
  PROVE  Kept
<1>1. job[c].agent \in AgentId
  BY DEF UndoWorktree, OrchInv, SpawnHasAgent
<1>2. GiveUpSpawn(c) /\ StoreStep
  BY DEF UndoWorktree, StoreStep
<1>3. OrchTypeOK' /\ SpawnHasAgent'
  BY <1>1, <1>2, GiveUpKeeps DEF UndoWorktree, OrchInv, OrchTypeOK, Job
<1>. QED BY <1>2, <1>3 DEF Kept

\* An interrupted spawn leaves at most its worktree.
LEMMA InterruptCallerKept ==
  ASSUME OrchInv, NEW c \in Caller, InterruptCaller(c)
  PROVE  Kept
<1>1. job[c].agent \in AgentId
  BY DEF InterruptCaller, OrchInv, SpawnHasAgent
<1>2. GiveUpSpawn(c)
  BY DEF InterruptCaller
<1>3. StoreStep
  BY FibersAre, InterruptIsStep DEF InterruptCaller, StoreStep
<1>4. worktrees' \subseteq AgentId
  BY <1>1 DEF InterruptCaller, OrchInv, OrchTypeOK
<1>5. OrchTypeOK' /\ SpawnHasAgent'
  BY <1>1, <1>2, <1>4, GiveUpKeeps DEF InterruptCaller, OrchInv, OrchTypeOK, Job
<1>. QED BY <1>3, <1>5 DEF Kept

-----------------------------------------------------------------------------
(* The children.                                                           *)

\* What no caller's place or job is touched by leaves spawns as they were.
LEMMA SpawnsUntouched ==
  ASSUME SpawnHasAgent, UNCHANGED <<at, job>>
  PROVE  SpawnHasAgent'
  BY DEF SpawnHasAgent

\* A child that ends cleans its worktree or writes its outcome.
LEMMA RunEndsKept ==
  ASSUME OrchInv, NEW a \in AgentId, RunEnds(a)
  PROVE  Kept
<1>1. \/ child' = [child EXCEPT ![a] = "cleaning"] /\ UNCHANGED <<storeVars, owed>>
      \/ Record(a, None)
  BY DEF RunEnds
<1>2. StoreStep
  BY <1>1, RecordIsOperation DEF StoreStep
<1>3. OrchTypeOK'
  BY <1>1 DEF RunEnds, Record, OrchInv, OrchTypeOK, Live
<1>4. SpawnHasAgent'
  BY SpawnsUntouched DEF RunEnds, OrchInv
<1>. QED BY <1>2, <1>3, <1>4 DEF Kept

\* The outcome carries the worktree only when it was kept.
LEMMA CleanupEndsKept ==
  ASSUME OrchInv, NEW a \in AgentId, NEW kept \in BOOLEAN, CleanupEnds(a, kept)
  PROVE  Kept
<1> DEFINE wt == IF kept THEN a ELSE None
<1>1. wt \in AgentId \cup {None} /\ Record(a, wt)
  BY DEF CleanupEnds
<1>. HIDE DEF wt
<1>2. StoreStep
  BY <1>1, RecordIsOperation
<1>3. OrchTypeOK'
  BY <1>1 DEF CleanupEnds, Record, OrchInv, OrchTypeOK, Live
<1>4. SpawnHasAgent'
  BY SpawnsUntouched DEF CleanupEnds, OrchInv
<1>. QED BY <1>2, <1>3, <1>4 DEF Kept

\* The bell follows the acknowledged or failed write.
LEMMA RingKept ==
  ASSUME OrchInv, NEW a \in AgentId, Ring(a)
  PROVE  Kept
<1>1. StoreStep
  BY FibersAre, ReturnIsStep DEF Ring
<1>2. owed' \in [AgentId -> {"no", "recorded", "announced"}]
  BY DEF Ring, OrchInv, OrchTypeOK
<1>3. OrchTypeOK'
  BY <1>2 DEF Ring, Offer, OrchInv, OrchTypeOK, Live
<1>4. SpawnHasAgent'
  BY SpawnsUntouched DEF Ring, OrchInv
<1>. QED BY <1>1, <1>3, <1>4 DEF Kept

\* A defect writes nothing.
LEMMA DefectKept ==
  ASSUME OrchInv, NEW a \in AgentId, Defect(a)
  PROVE  Kept
<1>1. StoreStep
  BY DEF Defect, StoreStep
<1>2. OrchTypeOK'
  BY DEF Defect, OrchInv, OrchTypeOK, Live
<1>3. SpawnHasAgent'
  BY SpawnsUntouched DEF Defect, OrchInv
<1>. QED BY <1>1, <1>2, <1>3 DEF Kept

\* interruptAll begins by reading the map.
LEMMA InterruptAllKept ==
  ASSUME OrchInv, InterruptAll
  PROVE  Kept
<1>1. StoreStep
  BY DEF InterruptAll, StoreStep
<1>2. OrchTypeOK'
  BY DEF InterruptAll, OrchInv, OrchTypeOK
<1>3. SpawnHasAgent'
  BY SpawnsUntouched DEF InterruptAll, OrchInv
<1>. QED BY <1>1, <1>2, <1>3 DEF Kept

\* An interrupted child gives up its write.
LEMMA InterruptChildKept ==
  ASSUME OrchInv, NEW a \in AgentId, InterruptChild(a)
  PROVE  Kept
<1>1. StoreStep
  BY FibersAre, InterruptIsStep DEF InterruptChild, StoreStep
<1>2. /\ child' \in [AgentId -> Live \cup {"none", "void", "gone", "dead"}]
      /\ active' \subseteq AgentId
  BY DEF InterruptChild, OrchInv, OrchTypeOK
<1>3. OrchTypeOK'
  BY <1>2 DEF InterruptChild, OrchInv, OrchTypeOK
<1>4. SpawnHasAgent'
  BY SpawnsUntouched DEF InterruptChild, OrchInv
<1>. QED BY <1>1, <1>3, <1>4 DEF Kept

-----------------------------------------------------------------------------
(* The parent's own use of the store, recovery and crash.                  *)

\* TaskCreate and TaskUpdate are operations of the store.
LEMMA TaskToolKept ==
  ASSUME OrchInv, NEW c \in Caller, TaskTool(c)
  PROVE  Kept
<1>1. Operation(c)
  <2>1. PICK t \in TaskId :
            \/ \E deps \in SUBSET (Known(tasks)) : CreateTask(c, t, deps)
            \/ \E p \in Patches : UpdateTask(c, t, p)
    BY DEF TaskTool
  <2>2. Known(tasks) \subseteq TaskId
    BY DEF Known
  <2>3. \/ \E deps \in SUBSET TaskId : CreateTask(c, t, deps)
        \/ \E p \in Patches : UpdateTask(c, t, p)
    BY <2>1, <2>2
  <2>. QED BY <2>3 DEF Operation
<1>2. StoreStep
  BY <1>1, FibersAre DEF StoreStep, StoreNext
<1>3. OrchTypeOK' /\ SpawnHasAgent'
  BY DEF TaskTool, Go, OrchInv, OrchTypeOK, SpawnHasAgent
<1>. QED BY <1>2, <1>3 DEF Kept

\* Marking the pending results is an operation of the store.
LEMMA TellParentKept ==
  ASSUME OrchInv, NEW c \in Caller, TellParent(c)
  PROVE  Kept
<1>1. Operation(c)
  BY DEF TellParent, Operation
<1>2. StoreStep
  BY <1>1, FibersAre DEF StoreStep, StoreNext
<1>3. owed' \in [AgentId -> {"no", "recorded", "announced"}]
  BY DEF TellParent, OrchInv, OrchTypeOK
<1>4. OrchTypeOK' /\ SpawnHasAgent'
  BY <1>3 DEF TellParent, Go, OrchInv, OrchTypeOK, SpawnHasAgent
<1>. QED BY <1>2, <1>4 DEF Kept

\* A task tool returns.
LEMMA WrittenKept ==
  ASSUME OrchInv, NEW c \in Caller, Written(c)
  PROVE  Kept
<1>1. StoreStep
  BY FibersAre, ReturnIsStep DEF Written
<1>2. OrchTypeOK' /\ SpawnHasAgent'
  BY DEF Written, Go, OrchInv, OrchTypeOK, SpawnHasAgent
<1>. QED BY <1>1, <1>2 DEF Kept

\* The worktrees of dangling tasks are named after agents.
LEMMA StaleAreAgents == StoreTypeOK => Stale \subseteq AgentId
  BY DEF StoreTypeOK, Graphs, Task, Stale, Dangling

\* Recovery resets what is dangling and remembers its worktrees.
LEMMA RecoverKept ==
  ASSUME OrchInv, NEW c \in Caller, NEW respawn \in BOOLEAN, Recover(c, respawn)
  PROVE  Kept
<1> DEFINE k == [NoJob EXCEPT !.stale = Stale,
                              !.todo = IF respawn THEN Dangling(tasks) ELSE {}]
<1>1. k \in Job
  <2>1. Stale \subseteq AgentId /\ Dangling(tasks) \subseteq TaskId
    BY StaleAreAgents DEF OrchInv, StoreInv, Dangling
  <2>. QED BY <2>1 DEF NoJob, NoTaskId, Job
<1>2. \/ ResetDanglingTasks(c) /\ job' = [job EXCEPT ![c] = k] /\ Go(c, "resetting")
      \/ UNCHANGED <<storeVars, job, at>>
  BY DEF Recover
<1>. HIDE DEF k
<1>3. StoreStep
  BY <1>2, FibersAre DEF StoreStep, StoreNext, Operation
<1>4. job' \in [Caller -> Job]
  BY <1>1, <1>2 DEF OrchInv, OrchTypeOK, Job
<1>5. OrchTypeOK'
  BY <1>2, <1>4 DEF Recover, Go, OrchInv, OrchTypeOK, Job
<1>6. SpawnHasAgent'
  BY <1>2 DEF Go, OrchInv, OrchTypeOK, SpawnHasAgent
<1>. QED BY <1>3, <1>5, <1>6 DEF Kept

\* Removing them writes nothing.
LEMMA RemoveStaleKept ==
  ASSUME OrchInv, NEW c \in Caller, RemoveStale(c)
  PROVE  Kept
<1> DEFINE k == [NoJob EXCEPT !.todo = IF io[c] = "ok" THEN job[c].todo ELSE {}]
<1>1. k \in Job
  BY DEF OrchInv, OrchTypeOK, NoJob, NoTaskId, Job
<1>2. job' = [job EXCEPT ![c] = k] /\ Go(c, "ready")
  BY DEF RemoveStale
<1>. HIDE DEF k
<1>3. StoreStep
  BY FibersAre, ReturnIsStep DEF RemoveStale
<1>4. job' \in [Caller -> Job]
  BY <1>1, <1>2 DEF OrchInv, OrchTypeOK, Job
<1>5. OrchTypeOK'
  BY <1>2, <1>4 DEF RemoveStale, Go, OrchInv, OrchTypeOK, Job
<1>6. SpawnHasAgent'
  BY <1>2 DEF Go, OrchInv, OrchTypeOK, SpawnHasAgent
<1>. QED BY <1>3, <1>5, <1>6 DEF Kept

\* recoverDangling ends at a refusal.
LEMMA RecoveryStopsKept ==
  ASSUME OrchInv, NEW c \in Caller, RecoveryStops(c)
  PROVE  Kept
<1>1. NoJob \in Job
  BY DEF NoJob, NoTaskId, Job
<1>2. StoreStep
  BY DEF RecoveryStops, StoreStep
<1>3. job' \in [Caller -> Job]
  BY <1>1 DEF RecoveryStops, OrchInv, OrchTypeOK, Job
<1>4. OrchTypeOK'
  BY <1>3 DEF RecoveryStops, OrchInv, OrchTypeOK, Job
<1>5. SpawnHasAgent'
  BY DEF RecoveryStops, OrchInv, OrchTypeOK, SpawnHasAgent
<1>. QED BY <1>2, <1>4, <1>5 DEF Kept

\* A crash restarts the store and forgets the callers.
LEMMA CrashKept ==
  ASSUME OrchInv, Crash
  PROVE  Kept
<1>1. NoJob \in Job
  BY DEF NoJob, NoTaskId, Job
<1>2. StoreStep
  BY DEF Crash, StoreStep, StoreNext
<1>3. /\ child' \in [AgentId -> Live \cup {"none", "void", "gone", "dead"}]
      /\ owed' \in [AgentId -> {"no", "recorded", "announced"}]
  BY DEF Crash, OrchInv, OrchTypeOK
<1>4. job' \in [Caller -> Job]
  BY <1>1 DEF Crash
<1>5. OrchTypeOK'
  BY <1>3, <1>4 DEF Crash, OrchInv, OrchTypeOK, Job
<1>6. SpawnHasAgent'
  BY DEF Crash, SpawnHasAgent
<1>. QED BY <1>2, <1>5, <1>6 DEF Kept

-----------------------------------------------------------------------------
(* The theorems.                                                           *)

\* The first session starts empty.
LEMMA InitOrch == OrchInit => OrchInv
<1>. SUFFICES ASSUME OrchInit PROVE OrchInv
  OBVIOUS
<1>1. StoreInv
  BY InitInv DEF OrchInit, OrderInv
<1>2. NoJob \in Job
  BY DEF NoJob, NoTaskId, Job
<1>3. OrchTypeOK /\ SpawnHasAgent
  BY <1>2 DEF OrchInit, OrchTypeOK, SpawnHasAgent, NoTaskId, Job
<1>. QED BY <1>1, <1>3 DEF OrchInv

\* Every step of the orchestrator is a step of the store, or leaves it alone.
LEMMA NextKept == OrchInv /\ [OrchNext]_allVars => StoreStep /\ OrchInv'
<1>. SUFFICES ASSUME OrchInv, [OrchNext]_allVars PROVE Kept
  BY StoreNextInv DEF OrchInv, Kept, StoreStep
<1>1. ASSUME NEW c \in Caller, SpawnStep(c) PROVE Kept
  BY <1>1, SpawnKept, WorktreeReadyKept, WorktreeFailsKept, RegisterKept,
     ClaimFailsKept, UndoWorktreeKept, InterruptCallerKept DEF SpawnStep
<1>2. ASSUME NEW c \in Caller, ParentStep(c) PROVE Kept
  BY <1>2, TaskToolKept, TellParentKept, WrittenKept DEF ParentStep
<1>3. ASSUME NEW c \in Caller, RecoverStep(c) PROVE Kept
  BY <1>3, RecoverKept, RemoveStaleKept, RecoveryStopsKept DEF RecoverStep
<1>4. ASSUME NEW a \in AgentId, ChildStep(a) \/ Defect(a) \/ InterruptChild(a)
      PROVE  Kept
  BY <1>4, RunEndsKept, CleanupEndsKept, RingKept, DefectKept, InterruptChildKept
     DEF ChildStep
<1>5. ASSUME StoreStep, UNCHANGED orchVars PROVE Kept
  BY <1>5 DEF orchVars, Kept, OrchInv, OrchTypeOK, SpawnHasAgent
<1>6. ASSUME NEW f \in Fiber, Persist(f) PROVE Kept
  BY <1>5, <1>6 DEF Persist, StoreStep, StoreNext
<1>7. CASE RenameLands
  BY <1>5, <1>7 DEF RenameLands, StoreStep, StoreNext
<1>8. CASE UNCHANGED allVars
  BY <1>5, <1>8 DEF allVars, StoreStep
<1>. QED
  BY <1>1, <1>2, <1>3, <1>4, <1>6, <1>7, <1>8, InterruptAllKept, CrashKept DEF OrchNext

\* The joint invariant of store and orchestrator.
LEMMA OrchInvariant == OrchSpec => []OrchInv
  BY InitOrch, NextKept, PTL DEF OrchSpec

\* Type correctness of the orchestrator's own state (orchestrator.ts).
THEOREM OrchTypeCorrect == OrchSpec => []OrchTypeOK
<1>1. OrchInv => OrchTypeOK
  BY DEF OrchInv
<1>. QED BY <1>1, OrchInvariant, PTL

\* spawn, finalize, interruptAll, recoverDangling and the task tools use the
\* store only as TaskStore describes it.
THEOREM OrchUsesTheStore == OrchSpec => UsesTheStore
<1>1. OrchInit => StoreInit
  BY DEF OrchInit
<1>2. OrchInv /\ [OrchNext]_allVars => [StoreNext]_storeVars
  BY NextKept DEF StoreStep
<1>. QED BY <1>1, <1>2, OrchInvariant, PTL DEF OrchSpec, UsesTheStore, StoreSpec

\* Hence a child's outcome that was acknowledged is on disk, however many
\* children and parent turns write at once.
THEOREM DelegatedResultsDurable ==
  ~LateRenames => (OrchSpec => []AckedIsDurable /\ NoStaleOverwrite)
  BY OrchUsesTheStore, AckedDurable, NoStale, PTL DEF UsesTheStore

-----------------------------------------------------------------------------
(* The ids of spawns, and the lives of children.                           *)

\* A step that leaves the spawns alone, and starts no child.
LEMMA DrawnStays ==
  ASSUME OrchInv, Drawn, UNCHANGED job,
         \A c \in Caller : job[c].agent # None => at'[c] = at[c],
         \A a \in AgentId : child[a] = "none" => child'[a] = "none"
  PROVE  Drawn'
<1>1. \A c \in Caller : job[c].agent \in AgentId \cup {None}
  BY DEF OrchInv, OrchTypeOK
<1>. QED BY <1>1 DEF Drawn

\* A spawn that came to nothing: its id is void, those of the others are theirs.
LEMMA DrawnGivesUp ==
  ASSUME OrchInv, Drawn, NEW c \in Caller, GiveUpSpawn(c)
  PROVE  Drawn'
<1> USE DEF GiveUpSpawn, Go, NoJob
<1>1. /\ job \in [Caller -> Job] /\ at' = [at EXCEPT ![c] = "ready"]
      /\ child \in [AgentId -> Live \cup {"none", "void", "gone", "dead"}]
  BY DEF OrchInv, OrchTypeOK, Job
<1>2. job'[c].agent = None
  BY <1>1
<1>3. ASSUME NEW d \in Caller, job'[d].agent # None
      PROVE  /\ at'[d] \in {"worktree", "claiming", "undo"}
             /\ child'[job'[d].agent] = "none"
             /\ \A e \in Caller : job'[e].agent = job'[d].agent => e = d
  <2>1. d # c /\ job'[d] = job[d] /\ job[d].agent \in AgentId
    BY <1>1, <1>2, <1>3 DEF Job
  <2>2. job[d].agent # job[c].agent
    BY <2>1, <1>3 DEF Drawn
  <2>3. at'[d] = at[d] /\ child'[job[d].agent] = child[job[d].agent]
    BY <1>1, <2>1, <2>2 DEF OrchInv, OrchTypeOK
  <2>4. \A e \in Caller : job'[e].agent = job'[d].agent => job[e].agent = job[d].agent
    BY <1>1, <1>2, <1>3, <2>1
  <2>. QED BY <1>3, <2>1, <2>3, <2>4 DEF Drawn
<1>. QED BY <1>3 DEF Drawn

\* A spawn takes an id nobody has, or goes on with the one it has.
LEMMA DrawnGoesOn ==
  ASSUME OrchInv, Drawn, NEW c \in Caller, NEW j \in Job,
         job' = [job EXCEPT ![c] = j], UNCHANGED child,
         NEW place \in {"worktree", "claiming", "undo"}, Go(c, place),
         j.agent \in AgentId, Unused(j.agent) \/ j.agent = job[c].agent
  PROVE  Drawn'
<1>1. job \in [Caller -> Job] /\ at' = [at EXCEPT ![c] = place]
  BY DEF OrchInv, OrchTypeOK, Job, Go
<1>2. at \in [Caller -> {"ready", "worktree", "claiming", "undo", "writing", "resetting"}]
  BY DEF OrchInv, OrchTypeOK
<1>3. child[j.agent] = "none" /\ \A d \in Caller : job[d].agent = j.agent => d = c
  BY NoneIsNotAnId DEF Unused, Drawn
<1>4. ASSUME NEW d \in Caller, job'[d].agent # None
      PROVE  /\ at'[d] \in {"worktree", "claiming", "undo"}
             /\ child'[job'[d].agent] = "none"
             /\ \A e \in Caller : job'[e].agent = job'[d].agent => e = d
  <2>1. CASE d = c
    BY <1>1, <1>2, <1>3, <2>1
  <2>2. CASE d # c
    <3>1. job'[d] = job[d] /\ at'[d] = at[d]
      BY <1>1, <1>2, <2>2
    <3>2. \A e \in Caller : e # c => job'[e] = job[e]
      BY <1>1
    <3>3. job'[c] = j
      BY <1>1
    <3>. QED BY <1>3, <1>4, <2>2, <3>1, <3>2, <3>3 DEF Drawn
  <2>. QED BY <2>1, <2>2
<1>. QED BY <1>4 DEF Drawn

Allowed == Delegated!DelegationNext \/ UNCHANGED <<Life, bells>>

\* One child's place moves: its life moves, or stays.
LEMMA LifeMoves ==
  ASSUME OrchTypeOK, NEW a \in AgentId, NEW place, child' = [child EXCEPT ![a] = place]
  PROVE  /\ Life' = [Life EXCEPT ![a] = Stage(place)]
         /\ Life[a] = Stage(child[a])
         /\ Stage(place) = Stage(child[a]) => Life' = Life
<1>1. child \in [AgentId -> Live \cup {"none", "void", "gone", "dead"}]
  BY DEF OrchTypeOK
<1>2. Life = [b \in AgentId |-> Stage(child[b])] /\ Life' = [b \in AgentId |-> Stage(child'[b])]
  BY DEF Life
<1>3. \A b \in AgentId : child'[b] = IF b = a THEN place ELSE child[b]
  BY <1>1
<1>4. Life' = [Life EXCEPT ![a] = Stage(place)]
  BY <1>2, <1>3
<1>. QED BY <1>2, <1>3, <1>4

\* A step that leaves the store, the children and the places of the spawns alone
\* is a stutter of Delegation.
LEMMA LifeStays ==
  ASSUME UNCHANGED <<child, bells>>
  PROVE  Allowed
  BY DEF Allowed, Life

\* The lives of the places.
LEMMA LivesOfPlaces ==
  /\ Stage("none") = "none" /\ Stage("void") = "none"
  /\ Stage("running") = "live" /\ Stage("cleaning") = "live"
  /\ Stage("recording") = "recorded" /\ Stage("gone") = "gone" /\ Stage("dead") = "dead"
  BY DEF Stage

\* A spawn that came to nothing was no life.
LEMMA GivingUpIsAllowed ==
  ASSUME OrchInv, Drawn, NEW c \in Caller, job[c].agent \in AgentId, GiveUpSpawn(c),
         UNCHANGED bells
  PROVE  Allowed
<1> DEFINE a == job[c].agent
<1>1. a \in AgentId /\ child[a] = "none" /\ OrchTypeOK
  BY NoneIsNotAnId DEF Drawn, OrchInv
<1>2. child' = [child EXCEPT ![a] = "void"] /\ Stage("void") = Stage(child[a])
  BY <1>1, LivesOfPlaces DEF GiveUpSpawn
<1>. HIDE DEF a
<1>3. Life' = Life
  BY <1>1, <1>2, LifeMoves
<1>. QED BY <1>3 DEF Allowed

\* The step of one child from one life to another is one of Delegation.
LEMMA OneLifeMoves ==
  ASSUME OrchTypeOK, NEW a \in AgentId,
         NEW place \in {"running", "cleaning", "recording", "gone", "dead"},
         child' = [child EXCEPT ![a] = place],
         \/ child[a] = "none" /\ place = "running" /\ UNCHANGED bells
         \/ child[a] = "running" /\ place = "cleaning" /\ UNCHANGED bells
         \/ child[a] \in {"running", "cleaning"} /\ place = "recording" /\ UNCHANGED bells
         \/ child[a] = "recording" /\ place = "gone" /\ bells' = bells + 1
         \/ child[a] \in Live /\ place = "dead" /\ UNCHANGED bells
  PROVE  Allowed
<1>1. /\ Life' = [Life EXCEPT ![a] = Stage(place)] /\ Life[a] = Stage(child[a])
      /\ Stage(place) = Stage(child[a]) => Life' = Life
  BY LifeMoves
<1>2. CASE child[a] = "none" /\ place = "running" /\ UNCHANGED bells
  <2>1. Delegated!Start(a)
    BY <1>1, <1>2, LivesOfPlaces DEF Delegated!Start, Delegated!Becomes
  <2>. QED BY <2>1 DEF Allowed, Delegated!DelegationNext
<1>3. CASE child[a] = "running" /\ place = "cleaning" /\ UNCHANGED bells
  <2>1. Life' = Life
    BY <1>1, <1>3, LivesOfPlaces
  <2>. QED BY <1>3, <2>1 DEF Allowed
<1>4. CASE child[a] \in {"running", "cleaning"} /\ place = "recording" /\ UNCHANGED bells
  <2>1. Delegated!Record(a)
    BY <1>1, <1>4, LivesOfPlaces DEF Delegated!Record, Delegated!Becomes
  <2>. QED BY <2>1 DEF Allowed, Delegated!DelegationNext
<1>5. CASE child[a] = "recording" /\ place = "gone" /\ bells' = bells + 1
  <2>1. Delegated!Bell(a)
    BY <1>1, <1>5, LivesOfPlaces DEF Delegated!Bell, Delegated!Becomes
  <2>. QED BY <2>1 DEF Allowed, Delegated!DelegationNext
<1>6. CASE child[a] \in Live /\ place = "dead" /\ UNCHANGED bells
  <2>1. Delegated!Die(a)
    BY <1>1, <1>6, LivesOfPlaces DEF Delegated!Die, Live
  <2>. QED BY <2>1 DEF Allowed, Delegated!DelegationNext
<1>. QED BY <1>2, <1>3, <1>4, <1>5, <1>6

\* A crash ends every life.
LEMMA CrashIsAllowed ==
  ASSUME OrchTypeOK, Crash
  PROVE  Allowed
<1>1. \A a \in AgentId : child[a] \in Live \cup {"none", "void", "gone", "dead"}
  BY DEF OrchTypeOK
<1>2. \A a \in AgentId :
        Stage(child'[a]) = IF Stage(child[a]) \in {"live", "recorded"} THEN "dead"
                           ELSE Stage(child[a])
  BY <1>1, LivesOfPlaces DEF Crash, Live
<1>3. Delegated!AllDie
  BY <1>2 DEF Delegated!AllDie, Life, Crash
<1>. QED BY <1>3 DEF Allowed, Delegated!DelegationNext

-----------------------------------------------------------------------------
(* Each step of the orchestrator.                                          *)

DrawnStep == Drawn' /\ Allowed

\* A claim goes on with the spawn's id.
LEMMA ClaimGoesOn ==
  ASSUME NEW c \in Caller, NEW j \in Job, Claim(c, j)
  PROVE  \E k \in Job : /\ k.agent = j.agent /\ k.type = j.type
                        /\ job' = [job EXCEPT ![c] = k] /\ Go(c, "claiming")
<1>1. CASE job' = [job EXCEPT ![c] = j]
  BY <1>1 DEF Claim
<1>2. CASE \E t \in TaskId : job' = [job EXCEPT ![c] = [j EXCEPT !.task = t]]
  <2>1. PICK t \in TaskId : job' = [job EXCEPT ![c] = [j EXCEPT !.task = t]]
    BY <1>2
  <2>2. /\ [j EXCEPT !.task = t] \in Job /\ [j EXCEPT !.task = t].agent = j.agent
        /\ [j EXCEPT !.task = t].type = j.type
    BY DEF Job
  <2>. QED BY <2>1, <2>2 DEF Claim
<1>. QED BY <1>1, <1>2 DEF Claim

\* What a spawn does keeps the ids of spawns apart, and is a step of Delegation or a stutter.
LEMMA SpawnDraws ==
  ASSUME OrchInv, Drawn, NEW c \in Caller, SpawnStep(c)
  PROVE  DrawnStep
<1>0. OrchTypeOK /\ job \in [Caller -> Job]
  BY DEF OrchInv, OrchTypeOK, Job
<1>1. ASSUME NEW a \in AgentId, NEW type \in Types, NEW t \in TaskId \cup {NoTaskId},
             Spawn(c, a, type, t)
      PROVE  DrawnStep
  <2> DEFINE j == [job[c] EXCEPT !.agent = a, !.task = t, !.type = type, !.todo = @ \ {t}]
  <2>1. j \in Job /\ j.agent = a /\ Unused(a) /\ UNCHANGED <<child, bells>>
    BY <1>0, <1>1, OrchestratorAssumption DEF Job, Spawn, NoTaskId
  <2>2. \/ job' = [job EXCEPT ![c] = j] /\ Go(c, "worktree")
        \/ Claim(c, j)
    BY <1>1 DEF Spawn
  <2>. HIDE DEF j
  <2>3. CASE Claim(c, j)
    <3>1. PICK k \in Job : /\ k.agent = j.agent /\ job' = [job EXCEPT ![c] = k]
                           /\ Go(c, "claiming")
      BY <2>1, <2>3, ClaimGoesOn
    <3>. QED BY <2>1, <3>1, DrawnGoesOn, LifeStays DEF DrawnStep
  <2>. QED BY <2>1, <2>2, <2>3, DrawnGoesOn, LifeStays DEF DrawnStep
<1>2. CASE WorktreeReady(c)
  <2>1. /\ job[c] \in Job /\ job[c].agent \in AgentId /\ UNCHANGED <<child, bells>>
        /\ job' = job => job' = [job EXCEPT ![c] = job[c]]
    BY <1>0, <1>2 DEF WorktreeReady, OrchInv, SpawnHasAgent
  <2>2. CASE Claim(c, job[c])
    <3>1. PICK k \in Job : /\ k.agent = job[c].agent /\ job' = [job EXCEPT ![c] = k]
                           /\ Go(c, "claiming")
      BY <2>1, <2>2, ClaimGoesOn
    <3>. QED BY <2>1, <3>1, DrawnGoesOn, LifeStays DEF DrawnStep
  <2>3. CASE Go(c, "undo") /\ UNCHANGED job
    BY <2>1, <2>3, DrawnGoesOn, LifeStays DEF DrawnStep
  <2>. QED BY <1>2, <2>2, <2>3 DEF WorktreeReady
<1>3. CASE Register(c)
  <2> DEFINE a == job[c].agent
  <2>1. a \in AgentId /\ a # None
    BY <1>3, NoneIsNotAnId DEF Register, OrchInv, SpawnHasAgent
  <2>2. child[a] = "none"
    BY <2>1 DEF Drawn
  <2>3. Allowed
    BY <1>0, <1>3, <2>1, <2>2, OneLifeMoves DEF Register
  <2>4. /\ \A d \in Caller : d # c => job'[d] = job[d] /\ at'[d] = at[d]
        /\ job'[c].agent = None
    BY <1>0, <1>3 DEF Register, Go, NoJob, OrchTypeOK
  <2>5. \A b \in AgentId : b # a => child'[b] = child[b]
    BY <1>0, <1>3 DEF Register, OrchTypeOK
  <2>6. \A d \in Caller : job[d].agent \in AgentId \cup {None}
    BY <1>0 DEF Job
  <2>. HIDE DEF a
  <2>7. ASSUME NEW d \in Caller, job'[d].agent # None
        PROVE  /\ at'[d] \in {"worktree", "claiming", "undo"}
               /\ child'[job'[d].agent] = "none"
               /\ \A e \in Caller : job'[e].agent = job'[d].agent => e = d
    <3>1. d # c /\ job'[d] = job[d] /\ job[d].agent # a
      BY <2>1, <2>4, <2>7 DEF Drawn, a
    <3>2. job[d].agent \in AgentId
      BY <2>6, <2>7, <3>1
    <3>. QED BY <2>4, <2>5, <2>7, <3>1, <3>2 DEF Drawn
  <2>8. Drawn'
    BY <2>7 DEF Drawn
  <2>. QED BY <2>3, <2>8 DEF DrawnStep
<1>4. ASSUME GiveUpSpawn(c), UNCHANGED bells, job[c].agent \in AgentId
      PROVE  DrawnStep
  BY <1>4, DrawnGivesUp, GivingUpIsAllowed DEF DrawnStep
<1>5. at[c] \in {"worktree", "claiming", "undo"} => job[c].agent \in AgentId
  BY DEF OrchInv, SpawnHasAgent
<1>6. CASE ClaimFails(c)
  <2>1. CASE Go(c, "undo") /\ UNCHANGED <<job, child>>
    <3>1. job[c] \in Job /\ job' = [job EXCEPT ![c] = job[c]] /\ UNCHANGED <<child, bells>>
      BY <1>0, <1>6, <2>1 DEF ClaimFails
    <3>. QED BY <1>5, <1>6, <2>1, <3>1, DrawnGoesOn, LifeStays DEF DrawnStep, ClaimFails
  <2>. QED BY <1>4, <1>5, <1>6, <2>1 DEF ClaimFails
<1>. QED BY <1>1, <1>2, <1>3, <1>4, <1>5, <1>6
         DEF SpawnStep, WorktreeFails, UndoWorktree, InterruptCaller

\* A caller that works on no spawn has no id; a new job of its has none either.
LEMMA DrawnWithoutSpawn ==
  ASSUME OrchInv, Drawn, NEW c \in Caller,
         at[c] \notin {"worktree", "claiming", "undo"},
         NEW j \in Job, j.agent = None, job' = [job EXCEPT ![c] = j],
         \A d \in Caller : d # c => at'[d] = at[d], UNCHANGED child
  PROVE  Drawn'
<1>1. job \in [Caller -> Job]
  BY DEF OrchInv, OrchTypeOK, Job
<1>2. job'[c].agent = None /\ \A d \in Caller : d # c => job'[d] = job[d]
  BY <1>1
<1>. QED BY <1>1, <1>2 DEF Drawn

\* So is what the parent does between its spawns,
LEMMA ParentDraws ==
  ASSUME OrchInv, Drawn, NEW c \in Caller, ParentStep(c)
  PROVE  DrawnStep
<1>1. /\ UNCHANGED <<job, child, bells>>
      /\ at[c] \in {"ready", "writing"}
      /\ \A d \in Caller : d # c => at'[d] = at[d]
  BY DEF ParentStep, TaskTool, TellParent, Written, Go, OrchInv, OrchTypeOK
<1>2. \A d \in Caller : job[d].agent # None => at'[d] = at[d]
  BY <1>1 DEF Drawn
<1>. QED BY <1>1, <1>2, DrawnStays, LifeStays DEF DrawnStep

\* what the recovery does,
LEMMA RecoverDraws ==
  ASSUME OrchInv, Drawn, NEW c \in Caller, RecoverStep(c)
  PROVE  DrawnStep
<1>0. job \in [Caller -> Job] /\ NoJob \in Job /\ NoJob.agent = None
  BY DEF OrchInv, OrchTypeOK, Job, NoJob, NoTaskId
<1>1. /\ UNCHANGED <<child, bells>>
      /\ at[c] \in {"ready", "resetting"}
      /\ \A d \in Caller : d # c => at'[d] = at[d]
  BY DEF RecoverStep, Recover, RemoveStale, RecoveryStops, Go, OrchInv, OrchTypeOK
<1>2. Stale \subseteq AgentId /\ Dangling(tasks) \subseteq TaskId
  BY StaleAreAgents DEF OrchInv, StoreInv, Dangling
<1>3. \/ \E j \in Job : j.agent = None /\ job' = [job EXCEPT ![c] = j]
      \/ UNCHANGED job
  <2>1. ASSUME NEW respawn \in BOOLEAN, Recover(c, respawn)
        PROVE  \/ \E j \in Job : j.agent = None /\ job' = [job EXCEPT ![c] = j]
               \/ UNCHANGED job
    <3> DEFINE j == [NoJob EXCEPT !.stale = Stale,
                                  !.todo = IF respawn THEN Dangling(tasks) ELSE {}]
    <3>1. j \in Job /\ j.agent = None
      BY <1>0, <1>2 DEF Job
    <3>2. job' = [job EXCEPT ![c] = j] \/ UNCHANGED job
      BY <2>1 DEF Recover
    <3>. QED BY <3>1, <3>2
  <2>2. CASE RemoveStale(c)
    <3> DEFINE j == [NoJob EXCEPT !.todo = IF io[c] = "ok" THEN job[c].todo ELSE {}]
    <3>1. j \in Job /\ j.agent = None
      BY <1>0 DEF Job
    <3>2. job' = [job EXCEPT ![c] = j]
      BY <2>2 DEF RemoveStale
    <3>. QED BY <3>1, <3>2
  <2>3. CASE RecoveryStops(c)
    BY <1>0, <2>3 DEF RecoveryStops
  <2>. QED BY <2>1, <2>2, <2>3 DEF RecoverStep
<1>4. \A d \in Caller : job[d].agent # None => at'[d] = at[d]
  BY <1>1 DEF Drawn
<1>5. Drawn'
  <2>1. CASE UNCHANGED job
    BY <1>1, <1>4, <2>1, DrawnStays
  <2>2. CASE \E j \in Job : j.agent = None /\ job' = [job EXCEPT ![c] = j]
    BY <1>1, <2>2, DrawnWithoutSpawn
  <2>. QED BY <1>3, <2>1, <2>2
<1>. QED BY <1>1, <1>5, LifeStays DEF DrawnStep

\* what a child does,
LEMMA ChildDraws ==
  ASSUME OrchInv, Drawn, NEW a \in AgentId,
         ChildStep(a) \/ Defect(a) \/ InterruptChild(a)
  PROVE  DrawnStep
<1>0. OrchTypeOK /\ UNCHANGED <<at, job>>
  BY DEF OrchInv, ChildStep, RunEnds, CleanupEnds, Ring, Defect, InterruptChild
<1>1. ASSUME NEW place, child' = [child EXCEPT ![a] = place], child[a] # "none"
      PROVE  Drawn'
  <2>1. \A b \in AgentId : child[b] = "none" => child'[b] = "none"
    BY <1>0, <1>1 DEF OrchTypeOK
  <2>. QED BY <1>0, <2>1, DrawnStays
<1>2. CASE RunEnds(a)
  <2>1. PICK place \in {"cleaning", "recording"} :
            child' = [child EXCEPT ![a] = place]
    BY <1>2 DEF RunEnds, Record
  <2>2. child[a] = "running" /\ UNCHANGED bells
    BY <1>2 DEF RunEnds
  <2>. QED BY <1>0, <1>1, <2>1, <2>2, OneLifeMoves DEF DrawnStep
<1>3. ASSUME NEW kept \in BOOLEAN, CleanupEnds(a, kept) PROVE DrawnStep
  <2>1. child' = [child EXCEPT ![a] = "recording"] /\ child[a] = "cleaning" /\ UNCHANGED bells
    BY <1>3 DEF CleanupEnds, Record
  <2>. QED BY <1>0, <1>1, <2>1, OneLifeMoves DEF DrawnStep
<1>4. CASE Ring(a)
  <2>1. /\ child' = [child EXCEPT ![a] = "gone"] /\ child[a] = "recording"
        /\ bells' = bells + 1
    BY <1>4 DEF Ring, Offer
  <2>. QED BY <1>0, <1>1, <2>1, OneLifeMoves DEF DrawnStep
<1>5. CASE Defect(a)
  <2>1. child' = [child EXCEPT ![a] = "dead"] /\ child[a] = "running" /\ UNCHANGED bells
    BY <1>5 DEF Defect
  <2>. QED BY <1>0, <1>1, <2>1, OneLifeMoves DEF DrawnStep, Live
<1>6. CASE InterruptChild(a)
  <2>1. CASE child[a] \in Live
    <3>1. child' = [child EXCEPT ![a] = "dead"] /\ child[a] # "none" /\ UNCHANGED bells
      BY <1>6, <2>1 DEF InterruptChild, Live
    <3>. QED BY <1>0, <1>1, <2>1, <3>1, OneLifeMoves DEF DrawnStep
  <2>2. CASE child[a] \notin Live
    <3>1. UNCHANGED <<child, bells>>
      BY <1>0, <1>6, <2>2 DEF InterruptChild, OrchTypeOK
    <3>. QED BY <1>0, <3>1, DrawnStays, LifeStays DEF DrawnStep
  <2>. QED BY <2>1, <2>2
<1>. QED BY <1>2, <1>3, <1>4, <1>5, <1>6 DEF ChildStep

\* and the end of the process.
LEMMA CrashDraws ==
  ASSUME OrchInv, Drawn, Crash
  PROVE  DrawnStep
<1>1. \A c \in Caller : job'[c].agent = None
  BY DEF Crash, NoJob
<1>2. Drawn'
  BY <1>1 DEF Drawn
<1>. QED BY <1>2, CrashIsAllowed DEF DrawnStep, OrchInv

\* Every step is a step of Delegation or a stutter.
LEMMA NextDraws == OrchInv /\ Drawn /\ [OrchNext]_allVars => DrawnStep
<1> SUFFICES ASSUME OrchInv, Drawn, [OrchNext]_allVars PROVE DrawnStep
  OBVIOUS
<1>1. ASSUME UNCHANGED <<at, job, child, bells>> PROVE DrawnStep
  BY <1>1, DrawnStays, LifeStays DEF DrawnStep
<1>2. ASSUME NEW f \in Fiber, Persist(f) PROVE DrawnStep
  BY <1>1, <1>2 DEF Persist, orchVars
<1>3. CASE RenameLands
  BY <1>1, <1>3 DEF RenameLands, orchVars
<1>4. CASE InterruptAll
  BY <1>1, <1>4 DEF InterruptAll
<1>5. CASE UNCHANGED allVars
  BY <1>1, <1>5 DEF allVars, orchVars
<1>. QED BY <1>2, <1>3, <1>4, <1>5, SpawnDraws, ParentDraws, RecoverDraws, ChildDraws,
            CrashDraws DEF OrchNext

\* The process starts with no spawn under way.
LEMMA InitDrawn == OrchInit => Drawn /\ Delegated!DelegationInit
<1> SUFFICES ASSUME OrchInit PROVE Drawn /\ Delegated!DelegationInit
  OBVIOUS
<1>1. Drawn
  BY DEF OrchInit, NoJob, Drawn
<1>2. Delegated!DelegationInit
  BY LivesOfPlaces DEF OrchInit, Delegated!DelegationInit, Life
<1>. QED BY <1>1, <1>2

\* The ids of spawns under way are apart from each other and from the children started.
LEMMA DrawnInvariant == OrchSpec => []Drawn
<1>1. OrchInv /\ Drawn /\ [OrchNext]_allVars => Drawn'
  BY NextDraws DEF DrawnStep
<1>. QED BY <1>1, InitDrawn, OrchInvariant, PTL DEF OrchSpec

\* To the parent the orchestrator is Delegation, whatever is interrupted or
\* crashes and however the spawns interleave: a child runs once, its outcome is
\* in the store before its bell rings, the bell rings at most once, and a child
\* that ended never comes back (spawn, finalize and interruptAll of
\* orchestrator.ts).
THEOREM OrchestratorDelegates == OrchSpec => ImplementsDelegation
<1>1. OrchInv /\ Drawn /\ [OrchNext]_allVars =>
          [Delegated!DelegationNext]_(Delegated!delegationVars)
  BY NextDraws DEF DrawnStep, Allowed, Delegated!delegationVars
<1>2. OrchInit => Delegated!DelegationInit
  BY InitDrawn
<1>. QED BY <1>1, <1>2, OrchInvariant, DrawnInvariant, PTL
         DEF OrchSpec, ImplementsDelegation, Delegated!DelegationSpec

-----------------------------------------------------------------------------
(* The cap.                                                                *)

Passed(c) == at[c] \in {"worktree", "claiming"}

\* A step that registers nobody and lets nobody pass the check.
LEMMA CapShrinks ==
  ASSUME CapInv, active' \subseteq active,
         \A c \in Caller : Passed(c)' => Passed(c),
         ~Teardowns => stopping' = {} /\ LiveChildren' \subseteq active'
  PROVE  CapInv'
<1>1. IsFiniteSet(active') /\ Cardinality(active') <= Cardinality(active)
  BY FS_Subset DEF CapInv
<1>2. Cardinality(active') \in Nat /\ Cardinality(active) \in Nat /\ Cap \in Nat
  BY <1>1, FS_CardinalityType, OrchestratorAssumption DEF CapInv
<1>. QED BY <1>1, <1>2 DEF CapInv, Passed

\* The steps of a spawn keep within the cap: one is registered only when a slot is free.
LEMMA SpawnStepCap ==
  ASSUME OneCaller, OrchInv, CapInv, NEW c \in Caller, SpawnStep(c)
  PROVE  CapInv'
<1>0. OrchTypeOK /\ at[c] \in {"ready", "worktree", "claiming", "undo", "writing", "resetting"}
  BY DEF OrchInv, OrchTypeOK
<1>1. Cardinality(active) \in Nat /\ Cap \in Nat
  BY FS_CardinalityType, OrchestratorAssumption DEF CapInv
<1>2. \A d \in Caller : d = c
  BY DEF OneCaller
<1>3. ASSUME NEW a \in AgentId, NEW type \in Types, NEW t \in TaskId \cup {NoTaskId},
             Spawn(c, a, type, t)
      PROVE  CapInv'
  <2>1. Cardinality(active) < Cap /\ UNCHANGED <<active, stopping, child>>
    BY <1>3 DEF Spawn, Slot
  <2>. QED BY <1>1, <2>1 DEF CapInv, LiveChildren
<1>4. ASSUME UNCHANGED <<active, stopping, child>>, Passed(c) => Cardinality(active) < Cap,
             Passed(c)
      PROVE  CapInv'
  BY <1>2, <1>4 DEF CapInv, LiveChildren, Passed
<1>5. CASE WorktreeReady(c)
  BY <1>4, <1>5 DEF WorktreeReady, Passed, CapInv
<1>6. ASSUME UNCHANGED <<active, stopping>>, GiveUpSpawn(c) PROVE CapInv'
  <2>1. ~Passed(c)'
    BY <1>0, <1>6 DEF GiveUpSpawn, Go, Passed, OrchTypeOK
  <2>2. LiveChildren' \subseteq LiveChildren
    BY <1>0, <1>6 DEF LiveChildren, GiveUpSpawn, OrchTypeOK, Live
  <2>. QED BY <1>2, <1>6, <2>1, <2>2, CapShrinks DEF CapInv
<1>7. CASE Register(c)
  <2> DEFINE a == job[c].agent
  <2>1. /\ a \in AgentId /\ Cardinality(active) < Cap /\ active' = active \cup {a}
        /\ child' = [child EXCEPT ![a] = "running"] /\ UNCHANGED stopping
        /\ ~Passed(c)'
    BY <1>0, <1>7 DEF Register, OrchInv, SpawnHasAgent, CapInv, Go, Passed, OrchTypeOK
  <2>. HIDE DEF a
  <2>0. /\ IsFiniteSet(active \cup {a})
        /\ Cardinality(active \cup {a}) = IF a \in active THEN Cardinality(active)
                                                        ELSE Cardinality(active) + 1
    BY FS_AddElement DEF CapInv
  <2>2. /\ IsFiniteSet(active') /\ Cardinality(active') <= Cardinality(active) + 1
        /\ Cardinality(active') \in Nat
    BY <1>1, <2>0, <2>1
  <2>3. LiveChildren' \subseteq LiveChildren \cup {a}
    BY <1>0, <2>1 DEF LiveChildren, OrchTypeOK
  <2>4. \A d \in Caller : ~Passed(d)'
    BY <1>2, <2>1
  <2>5. ~Teardowns => stopping' = {} /\ LiveChildren' \subseteq active'
    BY <2>1, <2>3 DEF CapInv
  <2>6. Cardinality(active') <= Cap
    BY <1>1, <2>1, <2>2
  <2>. QED BY <2>2, <2>4, <2>5, <2>6 DEF CapInv, Passed
<1>8. CASE ClaimFails(c)
  BY <1>4, <1>6, <1>8 DEF ClaimFails, Passed, CapInv
<1>9. CASE WorktreeFails(c) \/ (\E kept \in BOOLEAN : UndoWorktree(c, kept)) \/ InterruptCaller(c)
  BY <1>6, <1>9 DEF WorktreeFails, UndoWorktree, InterruptCaller
<1>. QED BY <1>3, <1>5, <1>7, <1>8, <1>9 DEF SpawnStep

\* The steps of a child keep within the cap: none adds a child.
LEMMA ChildStepCap ==
  ASSUME OrchInv, CapInv, NEW a \in AgentId,
         ChildStep(a) \/ Defect(a) \/ InterruptChild(a)
  PROVE  CapInv'
<1>0. OrchTypeOK /\ UNCHANGED at
  BY DEF OrchInv, ChildStep, RunEnds, CleanupEnds, Ring, Defect, InterruptChild
<1>1. ASSUME active' \subseteq active, UNCHANGED stopping,
             LiveChildren' \subseteq LiveChildren,
             active' = active \/ (active' = active \ {a} /\ a \notin LiveChildren')
      PROVE  CapInv'
  <2>1. ~Teardowns => stopping' = {} /\ LiveChildren' \subseteq active'
    BY <1>1 DEF CapInv
  <2>2. \A c \in Caller : Passed(c)' => Passed(c)
    BY <1>0 DEF Passed
  <2>3. active' \subseteq active
    BY <1>1
  <2>. QED BY <2>1, <2>2, <2>3, CapShrinks
<1>2. CASE RunEnds(a) \/ (\E kept \in BOOLEAN : CleanupEnds(a, kept))
  <2>1. active' = active /\ stopping' = stopping /\ child[a] \in Live
    BY <1>2 DEF RunEnds, CleanupEnds, Live
  <2>2. \A b \in AgentId : b # a => child'[b] = child[b]
    BY <1>0, <1>2 DEF RunEnds, CleanupEnds, Record, OrchTypeOK
  <2>3. LiveChildren' \subseteq LiveChildren
    BY <2>1, <2>2 DEF LiveChildren
  <2>4. active' \subseteq active
    BY <2>1
  <2>5. ~Teardowns => stopping' = {} /\ LiveChildren' \subseteq active'
    BY <2>1, <2>3 DEF CapInv
  <2>6. \A c \in Caller : Passed(c)' => Passed(c)
    BY <1>0 DEF Passed
  <2>. QED BY <2>4, <2>5, <2>6, CapShrinks
<1>3. CASE Ring(a) \/ Defect(a)
  <2>1. /\ UNCHANGED stopping /\ active' = active \ {a}
        /\ \E place \in {"gone", "dead"} : child' = [child EXCEPT ![a] = place]
    BY <1>3 DEF Ring, Defect
  <2>2. LiveChildren' \subseteq LiveChildren /\ a \notin LiveChildren'
    BY <1>0, <2>1 DEF LiveChildren, Live, OrchTypeOK
  <2>. QED BY <1>1, <2>1, <2>2
<1>4. CASE InterruptChild(a)
  <2>1. active' \subseteq active /\ stopping # {}
    BY <1>4 DEF InterruptChild
  <2>2. Teardowns
    BY <2>1 DEF CapInv
  <2>. QED BY <1>0, <2>1, <2>2, CapShrinks DEF Passed
<1>. QED BY <1>2, <1>3, <1>4 DEF ChildStep

\* Every step keeps within the cap.
LEMMA NextCap == OneCaller /\ OrchInv /\ CapInv /\ [OrchNext]_allVars => CapInv'
<1> SUFFICES ASSUME OneCaller, OrchInv, CapInv, [OrchNext]_allVars PROVE CapInv'
  OBVIOUS
<1>0. OrchTypeOK
  BY DEF OrchInv
<1>1. ASSUME UNCHANGED <<child, active, stopping>>,
             \A c \in Caller : Passed(c)' => Passed(c)
      PROVE  CapInv'
  BY <1>1, CapShrinks DEF CapInv, LiveChildren
<1>2. ASSUME NEW c \in Caller, ParentStep(c) \/ RecoverStep(c) PROVE CapInv'
  <2>1. UNCHANGED <<child, active, stopping>>
    BY <1>2 DEF ParentStep, TaskTool, TellParent, Written, RecoverStep, Recover,
                RemoveStale, RecoveryStops
  <2>2. \A d \in Caller : Passed(d)' => Passed(d)
    BY <1>0, <1>2 DEF Passed, OrchTypeOK, ParentStep, TaskTool, TellParent, Written,
                      RecoverStep, Recover, RemoveStale, RecoveryStops, Go
  <2>. QED BY <1>1, <2>1, <2>2
<1>3. ASSUME NEW f \in Fiber, Persist(f) PROVE CapInv'
  BY <1>1, <1>3 DEF Persist, orchVars, Passed
<1>4. CASE RenameLands \/ UNCHANGED allVars
  BY <1>1, <1>4 DEF RenameLands, allVars, orchVars, Passed
<1>5. CASE InterruptAll
  <2>1. Teardowns /\ UNCHANGED <<active, at>>
    BY <1>5 DEF InterruptAll
  <2>. QED BY <2>1 DEF CapInv
<1>6. CASE Crash
  <2>1. active' = {} /\ stopping' = {} /\ LiveChildren' = {}
    BY <1>0, <1>6 DEF Crash, LiveChildren, Live, OrchTypeOK
  <2>2. \A c \in Caller : ~Passed(c)'
    BY <1>6 DEF Crash, Passed
  <2>. QED BY <2>1, <2>2, CapShrinks DEF CapInv
<1>. QED BY <1>2, <1>3, <1>4, <1>5, <1>6, SpawnStepCap, ChildStepCap DEF OrchNext

\* No child is counted at the start.
LEMMA InitCap == OrchInit => CapInv
<1> SUFFICES ASSUME OrchInit PROVE CapInv
  OBVIOUS
<1>1. active = {} /\ stopping = {} /\ LiveChildren = {}
  BY DEF OrchInit, LiveChildren, Live
<1>. QED BY <1>1, FS_EmptySet, OrchestratorAssumption DEF CapInv

\* With one parent turn at a time there are never more children than the cap,
\* although it is read before git makes the worktree and the claim is written
\* (spawn, orchestrator.ts:208).
THEOREM TheCapHolds == OneCaller => (OrchSpec => []CapHolds)
<1>1. CapInv => CapHolds
  <2> SUFFICES ASSUME CapInv PROVE Cardinality(Counted) <= Cap
    BY DEF CapHolds
  <2>1. Counted \subseteq active
    BY DEF Counted, CapInv
  <2>2. IsFiniteSet(Counted) /\ Cardinality(Counted) <= Cardinality(active)
    BY <2>1, FS_Subset DEF CapInv
  <2>3. Cardinality(Counted) \in Nat /\ Cardinality(active) \in Nat /\ Cap \in Nat
    BY <2>2, FS_CardinalityType, OrchestratorAssumption DEF CapInv
  <2>. QED BY <2>2, <2>3 DEF CapInv
<1>2. SUFFICES ASSUME OneCaller PROVE OrchSpec => []CapHolds
  OBVIOUS
<1>3. OrchInv /\ CapInv /\ [OrchNext]_allVars => CapInv'
  BY <1>2, NextCap
<1>. QED BY <1>1, <1>3, InitCap, OrchInvariant, PTL DEF OrchSpec
-----------------------------------------------------------------------------
(* One child per task.                                                     *)

\* What an agent owns stays its own.
OwnersStay == \A t \in TaskId, a \in AgentId : Owns(a, t) => Owns(a, t)'

\* Every operation but the reset leaves the owners alone: a claim takes a task
\* nobody owns, a patch sets no owner.
LEMMA OperationKeepsOwners ==
  ASSUME OwnersKept, StoreTypeOK, NEW f, NEW t \in TaskId,
         \/ \E deps : CreateTask(f, t, deps)
         \/ \E p \in Patches : UpdateTask(f, t, p)
         \/ \E a, type, wt : ClaimNewTask(f, t, a, type, wt) \/ ClaimTask(f, t, a, type, wt)
         \/ \E a, wt : CompleteTask(f, t, a, wt) \/ FailTask(f, t, a, wt)
  PROVE  OwnersStay
<1>1. PICK task : /\ tasks' = [tasks EXCEPT ![t] = task]
                  /\ \A a \in AgentId :
                        Owns(a, t) => task.owner = a /\ task.status # "absent"
  <2>0. tasks[t] \in Task
    BY DEF StoreTypeOK, Graphs
  <2>1. CASE \E deps : CreateTask(f, t, deps)
    BY <2>1 DEF CreateTask, Mutate, Known, Owns
  <2>2. ASSUME NEW p \in Patches, UpdateTask(f, t, p)
        PROVE  \E task : /\ tasks' = [tasks EXCEPT ![t] = task]
                         /\ \A a \in AgentId :
                               Owns(a, t) => task.owner = a /\ task.status # "absent"
    <3>1. p.owner = None /\ (p.status # None => p.status # "absent")
      BY StoreAssumption, <2>2 DEF OwnersKept, Patch
    <3>2. \A a \in AgentId : Owns(a, t) => /\ Patched(tasks[t], p).owner = a
                                           /\ Patched(tasks[t], p).status # "absent"
      BY <2>0, <3>1 DEF Patched, Defined, Owns, Task
    <3>. QED BY <2>2, <3>2 DEF UpdateTask, Mutate
  <2>3. ASSUME NEW b, NEW type, NEW wt, ClaimNewTask(f, t, b, type, wt)
        PROVE  \E task : /\ tasks' = [tasks EXCEPT ![t] = task]
                         /\ \A a \in AgentId :
                               Owns(a, t) => task.owner = a /\ task.status # "absent"
    BY <2>3 DEF ClaimNewTask, Mutate, Known, Owns
  <2>4. ASSUME NEW b, NEW type, NEW wt, ClaimTask(f, t, b, type, wt)
        PROVE  \E task : /\ tasks' = [tasks EXCEPT ![t] = task]
                         /\ \A a \in AgentId :
                               Owns(a, t) => task.owner = a /\ task.status # "absent"
    BY <2>4, NoneIsNotAnId DEF ClaimTask, Claimable, Mutate, Owns
  <2>5. ASSUME NEW b, NEW wt, CompleteTask(f, t, b, wt) \/ FailTask(f, t, b, wt)
        PROVE  \E task : /\ tasks' = [tasks EXCEPT ![t] = task]
                         /\ \A a \in AgentId :
                               Owns(a, t) => task.owner = a /\ task.status # "absent"
    <3>1. \A a \in AgentId : Owns(a, t) =>
              /\ Completed(tasks[t], b, wt).owner = a
              /\ Completed(tasks[t], b, wt).status # "absent"
              /\ Failed(tasks[t], b, wt).owner = a
              /\ Failed(tasks[t], b, wt).status # "absent"
      BY <2>0 DEF Completed, Failed, Owns, Task
    <3>. QED BY <2>5, <3>1 DEF CompleteTask, FailTask, Mutate
  <2>. QED BY <2>1, <2>2, <2>3, <2>4, <2>5
<1>2. tasks \in [TaskId -> Task]
  BY DEF StoreTypeOK, Graphs
<1>. QED BY <1>1, <1>2 DEF OwnersStay, Owns

\* Telling the parent of results changes no owner.
LEMMA TellingKeepsOwners ==
  ASSUME StoreTypeOK, NEW f, NEW S, MarkParentNotified(f, S)
  PROVE  OwnersStay
<1>1. tasks \in [TaskId -> Task] /\ tasks' = Notified(tasks, S)
  BY DEF StoreTypeOK, Graphs, MarkParentNotified, Mutate
<1>2. \A t \in TaskId : tasks'[t] \in {tasks[t], [tasks[t] EXCEPT !.notified = TRUE]}
  BY <1>1 DEF Notified
<1>3. \A t \in TaskId : tasks'[t].owner = tasks[t].owner /\ tasks'[t].status = tasks[t].status
  BY <1>1, <1>2 DEF Task
<1>. QED BY <1>3 DEF OwnersStay, Owns

\* A claim leaves its agent the owner.
LEMMA ClaimOwns ==
  ASSUME OwnersKept, StoreTypeOK, NEW c \in Caller, NEW j \in Job, Claim(c, j),
         j.agent \in AgentId
  PROVE  OwnersStay /\ \E k \in Job : /\ k.agent = j.agent /\ Owns(k.agent, k.task)'
                                      /\ job' = [job EXCEPT ![c] = k]
<1>0. tasks \in [TaskId -> Task]
  BY DEF StoreTypeOK, Graphs
<1>1. ASSUME NEW t \in TaskId,
             ClaimNewTask(c, t, j.agent, j.type, WorktreeOf(j.type, j.agent)),
             job' = [job EXCEPT ![c] = [j EXCEPT !.task = t]]
      PROVE  OwnersStay /\ \E k \in Job : /\ k.agent = j.agent /\ Owns(k.agent, k.task)'
                                          /\ job' = [job EXCEPT ![c] = k]
  <2>1. OwnersStay
    BY <1>1, OperationKeepsOwners
  <2>2. /\ [j EXCEPT !.task = t] \in Job /\ [j EXCEPT !.task = t].agent = j.agent
        /\ [j EXCEPT !.task = t].task = t
    BY DEF Job
  <2>3. Owns(j.agent, t)'
    BY <1>0, <1>1 DEF ClaimNewTask, Mutate, ClaimedNew, NoTask, Owns
  <2>. QED BY <1>1, <2>1, <2>2, <2>3
<1>2. ASSUME ClaimTask(c, j.task, j.agent, j.type, WorktreeOf(j.type, j.agent)),
             job' = [job EXCEPT ![c] = j]
      PROVE  OwnersStay /\ \E k \in Job : /\ k.agent = j.agent /\ Owns(k.agent, k.task)'
                                          /\ job' = [job EXCEPT ![c] = k]
  <2>0. j.task \in TaskId
    BY <1>2 DEF ClaimTask, Claimable, Known
  <2>1. OwnersStay
    BY <1>2, <2>0, OperationKeepsOwners
  <2>2. Owns(j.agent, j.task)'
    BY <1>0, <1>2, <2>0 DEF ClaimTask, Mutate, Claimed, Owns, Task
  <2>. QED BY <1>2, <2>1, <2>2
<1>. QED BY <1>1, <1>2 DEF Claim

Placed == {"worktree", "claiming", "undo"}

\* A step that keeps the owners, and starts neither a claim nor a child.
LEMMA OwnKept ==
  ASSUME OwnInv, OwnersStay, OrchTypeOK, SpawnHasAgent, fresh' => fresh,
         \A a \in AgentId : child'[a] \in Live => child[a] \in Live /\ taskOf'[a] = taskOf[a],
         \A c \in Caller : at'[c] \in Placed => at[c] \in Placed,
         \A c \in Caller : at'[c] = "claiming" => at[c] = "claiming" /\ job'[c] = job[c]
  PROVE  OwnInv'
<1>1. FreshIsQuiet'
  BY DEF OwnInv, FreshIsQuiet, Placed
<1>2. ASSUME NEW a \in AgentId, child'[a] \in Live PROVE Owns(a, taskOf[a])'
  <2>1. Owns(a, taskOf[a]) /\ taskOf'[a] = taskOf[a]
    BY <1>2 DEF OwnInv
  <2>. QED BY <2>1 DEF OwnersStay, Owns
<1>3. ASSUME NEW c \in Caller, at'[c] = "claiming" PROVE Owns(job[c].agent, job[c].task)'
  <2>1. Owns(job[c].agent, job[c].task) /\ job'[c] = job[c] /\ job[c].agent \in AgentId
    BY <1>3 DEF OwnInv, SpawnHasAgent
  <2>. QED BY <2>1 DEF OwnersStay, Owns
<1>. QED BY <1>1, <1>2, <1>3 DEF OwnInv

\* The steps of a spawn keep a child with its task.
LEMMA SpawnStepOwns ==
  ASSUME ~RacingRecovery, OwnersKept, OrchInv, Drawn, OwnInv,
         NEW c \in Caller, SpawnStep(c)
  PROVE  OwnInv'
<1>0. /\ OrchTypeOK /\ StoreTypeOK /\ job \in [Caller -> Job] /\ SpawnHasAgent
      /\ at \in [Caller -> {"ready", "worktree", "claiming", "undo", "writing", "resetting"}]
  BY DEF OrchInv, OrchTypeOK, StoreInv, Job
<1>1. ASSUME NEW j \in Job, j.agent \in AgentId, Claim(c, j), ~fresh',
             UNCHANGED <<child, taskOf>>
      PROVE  OwnInv'
  <2>1. PICK k \in Job : /\ k.agent = j.agent /\ Owns(k.agent, k.task)'
                         /\ job' = [job EXCEPT ![c] = k]
    BY <1>0, <1>1, ClaimOwns
  <2>2. OwnersStay /\ at' = [at EXCEPT ![c] = "claiming"]
    BY <1>0, <1>1, ClaimOwns DEF Claim, Go
  <2>3. \A d \in Caller : at'[d] = "claiming" => Owns(job[d].agent, job[d].task)'
    BY <1>0, <2>1, <2>2 DEF OwnInv, OwnersStay, SpawnHasAgent, Owns
  <2>4. \A a \in AgentId : child'[a] \in Live => Owns(a, taskOf[a])'
    BY <1>1, <2>2 DEF OwnInv, OwnersStay, Owns
  <2>. QED BY <1>1, <2>3, <2>4 DEF OwnInv, FreshIsQuiet, Owns
<1>2. ASSUME OwnersStay, UNCHANGED <<taskOf, fresh>>,
             \A d \in Caller : d # c => at'[d] = at[d] /\ job'[d] = job[d],
             at[c] \in Placed, at'[c] # "claiming",
             \A a \in AgentId : child'[a] \in Live => child[a] \in Live
      PROVE  OwnInv'
  BY <1>0, <1>2, OwnKept DEF Placed
<1>3. UNCHANGED <<tasks>> => OwnersStay
  BY DEF OwnersStay, Owns
<1>4. ASSUME OwnersStay, GiveUpSpawn(c), at[c] \in Placed, UNCHANGED <<taskOf, fresh>>
      PROVE  OwnInv'
  <2>1. /\ \A d \in Caller : d # c => at'[d] = at[d] /\ job'[d] = job[d]
        /\ at'[c] # "claiming"
    BY <1>0, <1>4 DEF GiveUpSpawn, Go
  <2>2. \A a \in AgentId : child'[a] \in Live => child[a] \in Live
    BY <1>0, <1>4 DEF GiveUpSpawn, OrchTypeOK, Live
  <2>. QED BY <1>2, <1>4, <2>1, <2>2
<1>5. ASSUME NEW a \in AgentId, NEW type \in Types, NEW t \in TaskId \cup {NoTaskId},
             Spawn(c, a, type, t)
      PROVE  OwnInv'
  <2> DEFINE j == [job[c] EXCEPT !.agent = a, !.task = t, !.type = type, !.todo = @ \ {t}]
  <2>1. j \in Job /\ j.agent = a /\ ~fresh /\ UNCHANGED <<child, taskOf, fresh>>
    BY <1>0, <1>5, OrchestratorAssumption DEF Job, Spawn, NoTaskId
  <2>2. \/ Go(c, "worktree") /\ UNCHANGED storeVars /\ job' = [job EXCEPT ![c] = j]
        \/ Claim(c, j)
    BY <1>5 DEF Spawn
  <2>. HIDE DEF j
  <2>3. CASE Go(c, "worktree") /\ UNCHANGED storeVars /\ job' = [job EXCEPT ![c] = j]
    <3>1. \A d \in Caller : at'[d] = "claiming" => at[d] = "claiming" /\ job'[d] = job[d]
      BY <1>0, <2>3 DEF Go
    <3>. QED BY <2>1, <2>3, <3>1 DEF OwnInv, FreshIsQuiet, Owns, storeVars
  <2>. QED BY <1>1, <2>1, <2>2, <2>3
<1>6. CASE WorktreeReady(c)
  <2>1. CASE Claim(c, job[c])
    <3>1. ~fresh' /\ UNCHANGED <<child, taskOf>> /\ job[c] \in Job /\ job[c].agent \in AgentId
      BY <1>0, <1>6 DEF WorktreeReady, OwnInv, FreshIsQuiet, SpawnHasAgent
    <3>. QED BY <1>1, <2>1, <3>1
  <2>2. CASE Go(c, "undo") /\ UNCHANGED <<storeVars, job>>
    <3>1. /\ \A d \in Caller : d # c => at'[d] = at[d] /\ job'[d] = job[d]
          /\ at'[c] # "claiming" /\ at[c] \in Placed /\ UNCHANGED <<child, taskOf, fresh, tasks>>
      BY <1>0, <1>6, <2>2 DEF WorktreeReady, Go, Placed, storeVars
    <3>. QED BY <1>2, <1>3, <3>1
  <2>. QED BY <1>6, <2>1, <2>2 DEF WorktreeReady
<1>7. CASE Register(c)
  <2> DEFINE a == job[c].agent
  <2>1. a \in AgentId /\ Owns(a, job[c].task) /\ ~fresh
    BY <1>0, <1>7 DEF Register, SpawnHasAgent, OwnInv, FreshIsQuiet
  <2>2. /\ child' = [child EXCEPT ![a] = "running"] /\ UNCHANGED <<tasks, fresh>>
        /\ taskOf' = [taskOf EXCEPT ![a] = job[c].task]
        /\ at' = [at EXCEPT ![c] = "ready"]
        /\ \A d \in Caller : d # c => job'[d] = job[d]
    BY <1>0, <1>7 DEF Register, Go, Return
  <2>. HIDE DEF a
  <2>3. \A b \in AgentId : child'[b] \in Live => Owns(b, taskOf'[b])
    BY <1>0, <2>1, <2>2 DEF OwnInv, OrchTypeOK
  <2>4. \A d \in Caller : at'[d] = "claiming" => Owns(job'[d].agent, job'[d].task)
    BY <1>0, <2>2 DEF OwnInv
  <2>. QED BY <2>1, <2>2, <2>3, <2>4 DEF OwnInv, FreshIsQuiet, Owns
<1>8. CASE WorktreeFails(c) \/ (\E kept \in BOOLEAN : UndoWorktree(c, kept)) \/ InterruptCaller(c)
  <2>1. /\ GiveUpSpawn(c) /\ UNCHANGED <<taskOf, fresh, tasks>> /\ at[c] \in Placed
    BY <1>8 DEF WorktreeFails, UndoWorktree, InterruptCaller, Interrupt, storeVars, Placed
  <2>. QED BY <1>3, <1>4, <2>1
<1>9. CASE ClaimFails(c)
  <2>1. UNCHANGED <<taskOf, fresh, tasks>> /\ at[c] \in Placed
    BY <1>9 DEF ClaimFails, Return, Placed
  <2>2. CASE Go(c, "undo") /\ UNCHANGED <<job, child>>
    <3>1. /\ \A d \in Caller : d # c => at'[d] = at[d] /\ job'[d] = job[d]
          /\ at'[c] # "claiming" /\ UNCHANGED child
      BY <1>0, <2>2 DEF Go
    <3>. QED BY <1>2, <1>3, <2>1, <3>1
  <2>. QED BY <1>3, <1>4, <1>9, <2>1, <2>2 DEF ClaimFails
<1>. QED BY <1>5, <1>6, <1>7, <1>8, <1>9 DEF SpawnStep

\* The parent's tools, and telling it, reset nothing.
LEMMA ParentKeepsOwners ==
  ASSUME OwnersKept, StoreTypeOK, NEW c \in Caller, ParentStep(c)
  PROVE  OwnersStay
<1>1. CASE TaskTool(c)
  BY <1>1, OperationKeepsOwners DEF TaskTool
<1>2. CASE TellParent(c)
  BY <1>2, TellingKeepsOwners DEF TellParent
<1>3. CASE Written(c)
  BY <1>3 DEF Written, Return, OwnersStay, Owns
<1>. QED BY <1>1, <1>2, <1>3 DEF ParentStep

\* So does every step.
LEMMA NextOwns ==
  ~RacingRecovery /\ OwnersKept /\ OrchInv /\ Drawn /\ OwnInv /\ [OrchNext]_allVars => OwnInv'
<1> SUFFICES ASSUME ~RacingRecovery, OwnersKept, OrchInv, Drawn, OwnInv, [OrchNext]_allVars
             PROVE  OwnInv'
  OBVIOUS
<1>0. /\ OrchTypeOK /\ StoreTypeOK /\ SpawnHasAgent
      /\ at \in [Caller -> {"ready", "worktree", "claiming", "undo", "writing", "resetting"}]
      /\ child \in [AgentId -> Live \cup {"none", "void", "gone", "dead"}]
  BY DEF OrchInv, OrchTypeOK, StoreInv
<1>1. UNCHANGED <<tasks>> => OwnersStay
  BY DEF OwnersStay, Owns
<1>2. ASSUME OwnersStay, UNCHANGED <<at, job, child, taskOf, fresh>> PROVE OwnInv'
  BY <1>0, <1>2, OwnKept
<1>3. ASSUME NEW c \in Caller, ParentStep(c) PROVE OwnInv'
  <2>1. UNCHANGED <<child, taskOf, fresh, job>>
    BY <1>3 DEF ParentStep, TaskTool, TellParent, Written
  <2>2. \A d \in Caller : at'[d] \in Placed => at[d] = at'[d]
    BY <1>0, <1>3 DEF ParentStep, TaskTool, TellParent, Written, Go, Placed
  <2>3. OwnersStay
    BY <1>0, <1>3, ParentKeepsOwners
  <2>. QED BY <1>0, <2>1, <2>2, <2>3, OwnKept DEF Placed
<1>4. ASSUME NEW c \in Caller, NEW respawn \in BOOLEAN, Recover(c, respawn) PROVE OwnInv'
  <2>1. fresh /\ ~fresh' /\ UNCHANGED child
    BY <1>4 DEF Recover
  <2>2. \A d \in Caller : at'[d] # "claiming"
    BY <1>0, <1>4, <2>1 DEF Recover, Go, OwnInv, FreshIsQuiet
  <2>3. \A a \in AgentId : child'[a] \notin Live
    BY <2>1 DEF OwnInv, FreshIsQuiet
  <2>. QED BY <2>1, <2>2, <2>3 DEF OwnInv, FreshIsQuiet
<1>5. ASSUME NEW c \in Caller, RemoveStale(c) \/ RecoveryStops(c) PROVE OwnInv'
  <2>1. UNCHANGED <<child, taskOf, fresh, tasks>> /\ at[c] \in {"ready", "resetting"}
    BY <1>5 DEF RemoveStale, RecoveryStops, Return, storeVars
  <2>2. \A d \in Caller : at'[d] \in Placed => at[d] = at'[d] /\ job'[d] = job[d]
    BY <1>0, <1>5, <2>1 DEF RemoveStale, RecoveryStops, Go, Placed, OrchTypeOK
  <2>. QED BY <1>0, <1>1, <2>1, <2>2, OwnKept DEF Placed
<1>6. ASSUME NEW a \in AgentId, ChildStep(a) \/ Defect(a) \/ InterruptChild(a) PROVE OwnInv'
  <2>1. UNCHANGED <<at, job, taskOf, fresh>>
    BY <1>6 DEF ChildStep, RunEnds, CleanupEnds, Ring, Defect, InterruptChild
  <2>2. \A b \in AgentId : child'[b] \in Live => child[b] \in Live
    BY <1>0, <1>6 DEF ChildStep, RunEnds, CleanupEnds, Ring, Defect, InterruptChild, Record, Live
  <2>3. OwnersStay
    <3>1. ASSUME NEW wt, Record(a, wt) PROVE OwnersStay
      BY <1>0, <3>1, OperationKeepsOwners DEF Record, CompleteTask, FailTask, Known
    <3>. QED BY <1>1, <1>6, <3>1 DEF ChildStep, RunEnds, CleanupEnds, Ring, Defect,
                   InterruptChild, Return, Interrupt, storeVars
  <2>. QED BY <1>0, <2>1, <2>2, <2>3, OwnKept
<1>7. ASSUME NEW f \in Fiber, Persist(f) PROVE OwnInv'
  BY <1>1, <1>2, <1>7 DEF Persist, orchVars, PersistStep, TakeLock, WriteTemp, Rename, PersistFails
<1>8. CASE RenameLands \/ InterruptAll \/ UNCHANGED allVars
  BY <1>1, <1>2, <1>8 DEF RenameLands, InterruptAll, allVars, orchVars, storeVars,
                          AbandonedRenameLands
<1>9. CASE Crash
  <2>1. /\ \A a \in AgentId : child'[a] \notin Live
        /\ \A c \in Caller : at'[c] = "ready"
    BY <1>0, <1>9 DEF Crash, Live
  <2>. QED BY <2>1 DEF OwnInv, FreshIsQuiet
<1>. QED BY <1>3, <1>4, <1>5, <1>6, <1>7, <1>8, <1>9, SpawnStepOwns DEF OrchNext, RecoverStep

\* It holds at the start.
LEMMA InitOwns == OrchInit => OwnInv
  BY DEF OrchInit, OwnInv, FreshIsQuiet, Live

\* A live child owns the task it was started for.
LEMMA OwnInvariant == ~RacingRecovery /\ OwnersKept => (OrchSpec => []OwnInv)
<1> SUFFICES ASSUME ~RacingRecovery, OwnersKept PROVE OrchSpec => []OwnInv
  OBVIOUS
<1>1. OrchInv /\ Drawn /\ OwnInv /\ [OrchNext]_allVars => OwnInv'
  BY NextOwns
<1>. QED BY <1>1, InitOwns, OrchInvariant, DrawnInvariant, PTL DEF OrchSpec

\* However spawns, retries, recoveries, interruptions and crashes interleave, two
\* children that live never work on one task (claimTask, tasks.ts:183), as long as
\* startSession resets the graph before anybody spawns and TaskUpdate leaves the
\* owners alone.
THEOREM NoDoubleDelegation ==
  ~RacingRecovery /\ OwnersKept => (OrchSpec => []OneChildPerTask)
<1> SUFFICES ASSUME ~RacingRecovery, OwnersKept PROVE OrchSpec => []OneChildPerTask
  OBVIOUS
<1>1. OwnInv => OneChildPerTask
  BY DEF OwnInv, Owns, OneChildPerTask, LiveChildren
<1>. QED BY <1>1, OwnInvariant, PTL

-----------------------------------------------------------------------------
(* The owner of a task, and the worktree of a finished one.                *)

\* A task as its owner, its state and its outcome go on to be.
Same(old, new) ==
    /\ new.owner = old.owner /\ new.status = old.status /\ new.worktree = old.worktree
    /\ old.result # None => new.result # None
    /\ old.error # None => new.error # None
    /\ new.notified => old.notified \/ Finished(old)

\* What creating, patching, claiming and telling do to a task: an owned one goes
\* on as it was, one without an owner is not finished by it.
Gentle(t) ==
    /\ tasks[t].owner # None => Same(tasks[t], tasks'[t])
    /\ tasks[t].owner = None =>
          /\ ~Finished(tasks'[t]) /\ ~tasks'[t].notified
          /\ tasks'[t].worktree \in {None, tasks'[t].owner}
          /\ tasks'[t].owner # None => tasks'[t].status # "absent"

\* A task that got an owner got one that claimed it.
Entrusted ==
    \A t \in TaskId : tasks'[t].owner \notin {None, tasks[t].owner} =>
        ClaimedBy(tasks[t].owner, t)'

ClaimedStays == \A a \in AgentId, t \in TaskId : ClaimedBy(a, t) => ClaimedBy(a, t)'

GraphsAre == StoreGraphs' \subseteq StoreGraphs \cup {tasks', EmptyGraph}

\* Whatever a step of the store writes is in memory or was underway before.
LEMMA StoreWrites == StoreTypeOK /\ StoreStep => GraphsAre
<1> SUFFICES ASSUME StoreTypeOK, StoreStep, NEW g \in StoreGraphs'
             PROVE  g \in StoreGraphs \cup {tasks', EmptyGraph}
  BY DEF GraphsAre
<1>0. /\ \/ g = tasks' \/ g = file'
         \/ \E f \in Fiber : g = snap'[f]
         \/ \E r \in abandoned' : g = r.graph
      /\ tasks \in StoreGraphs /\ file \in StoreGraphs
      /\ \A f \in Fiber : snap[f] \in StoreGraphs
      /\ \A r \in abandoned : r.graph \in StoreGraphs
  BY DEF StoreGraphs
<1>1. snap \in [Fiber -> Graphs]
  BY DEF StoreTypeOK
<1>2. ASSUME UNCHANGED <<file, snap, abandoned>> PROVE g \in StoreGraphs \cup {tasks', EmptyGraph}
  BY <1>0, <1>2
<1>3. ASSUME NEW f \in Fiber, Operation(f) PROVE g \in StoreGraphs \cup {tasks', EmptyGraph}
  BY <1>2, <1>3 DEF Operation, CreateTask, UpdateTask, ClaimNewTask, ClaimTask, CompleteTask,
              FailTask, MarkParentNotified, ResetDanglingTasks, Mutate
<1>4. ASSUME NEW f \in Fiber, TakeLock(f) PROVE g \in StoreGraphs \cup {tasks', EmptyGraph}
  BY <1>0, <1>1, <1>4 DEF TakeLock, Snapshot
<1>5. ASSUME NEW f \in Fiber, Rename(f) PROVE g \in StoreGraphs \cup {tasks', EmptyGraph}
  BY <1>0, <1>1, <1>5 DEF Rename, Forget
<1>6. ASSUME NEW f \in Fiber, PersistFails(f) PROVE g \in StoreGraphs \cup {tasks', EmptyGraph}
  BY <1>0, <1>1, <1>6 DEF PersistFails, Forget
<1>7. ASSUME NEW f \in Fiber, Interrupt(f) PROVE g \in StoreGraphs \cup {tasks', EmptyGraph}
  <2>1. \A r \in abandoned' : r \in abandoned \/ r.graph = snap[f]
    BY <1>7 DEF Interrupt
  <2>. QED BY <1>0, <1>1, <1>7, <2>1 DEF Interrupt, Forget
<1>8. CASE AbandonedRenameLands
  BY <1>0, <1>8 DEF AbandonedRenameLands
<1>9. CASE Restart
  BY <1>0, <1>9 DEF Restart
<1>10. ASSUME NEW f \in Fiber, WriteTemp(f) \/ Return(f)
       PROVE  g \in StoreGraphs \cup {tasks', EmptyGraph}
  BY <1>2, <1>10 DEF WriteTemp, Return
<1>11. CASE UNCHANGED storeVars
  BY <1>2, <1>11 DEF storeVars
<1>. QED BY <1>3, <1>4, <1>5, <1>6, <1>7, <1>8, <1>9, <1>10, <1>11
         DEF StoreStep, StoreNext, PersistStep

\* So what holds of memory holds of all of it, once what was written stays true.
LEMMA GraphsKept ==
  ASSUME StoreTypeOK, \A g \in StoreGraphs : WellOwned(g) /\ FinishedStays(g),
         GraphsAre, ClaimedStays, WellOwned(tasks)',
         \A t \in TaskId : Finished(tasks[t]) =>
             Finished(tasks'[t]) /\ tasks'[t].worktree = tasks[t].worktree
  PROVE  (\A g \in StoreGraphs : WellOwned(g) /\ FinishedStays(g))'
<1> SUFFICES ASSUME NEW g \in StoreGraphs' PROVE WellOwned(g)' /\ FinishedStays(g)'
  OBVIOUS
<1>1. CASE g = tasks'
  BY <1>1 DEF FinishedStays, WellOwned
<1>2. CASE g = EmptyGraph
  BY <1>2 DEF EmptyGraph, NoTask, Finished, WellOwned, FinishedStays
<1>3. CASE g \in StoreGraphs
  <2>1. WellOwned(g) /\ FinishedStays(g)
    BY <1>3
  <2>2. WellOwned(g)'
    BY <2>1 DEF WellOwned, ClaimedStays, ClaimedBy
  <2>. QED BY <2>1, <2>2 DEF FinishedStays
<1>. QED BY <1>1, <1>2, <1>3 DEF GraphsAre

\* The tasks after creating, patching, claiming or telling.
LEMMA GentleKeeps ==
  ASSUME StoreTypeOK, WellOwned(tasks), ClaimedStays, Entrusted,
         \A t \in TaskId : Gentle(t)
  PROVE  /\ WellOwned(tasks)'
         /\ \A t \in TaskId : Finished(tasks[t]) =>
                Finished(tasks'[t]) /\ tasks'[t].worktree = tasks[t].worktree
         /\ \A t \in TaskId : Finished(tasks'[t]) =>
                Finished(tasks[t]) /\ tasks'[t].worktree = tasks[t].worktree
<1>1. ASSUME NEW t \in TaskId, Finished(tasks[t])
      PROVE  Finished(tasks'[t]) /\ tasks'[t].worktree = tasks[t].worktree
  BY <1>1 DEF WellOwned, Gentle, Same, Finished
<1>2. ASSUME NEW t \in TaskId, Finished(tasks'[t])
      PROVE  Finished(tasks[t]) /\ tasks'[t].worktree = tasks[t].worktree
  BY <1>2 DEF Gentle, Same, Finished
<1>3. ASSUME NEW t \in TaskId
      PROVE  /\ tasks'[t].owner # None => tasks'[t].status # "absent"
             /\ tasks'[t].worktree \in {None, tasks'[t].owner}
             /\ Finished(tasks'[t]) => tasks'[t].owner # None
             /\ tasks'[t].notified => Finished(tasks'[t])
  BY DEF WellOwned, Gentle, Same, Finished
<1>4. ASSUME NEW t \in TaskId, tasks'[t].owner # None PROVE ClaimedBy(tasks[t].owner, t)'
  <2>1. CASE tasks'[t].owner = tasks[t].owner
    <3>1. PICK a \in AgentId : a = tasks[t].owner /\ ClaimedBy(a, t)
      BY <1>4, <2>1 DEF WellOwned, ClaimedBy
    <3>2. ClaimedBy(a, t)' /\ tasks'[t].owner = a
      BY <2>1, <3>1 DEF ClaimedStays
    <3>. QED BY <3>2 DEF ClaimedBy
  <2>. QED BY <1>4, <2>1 DEF Entrusted
<1>5. WellOwned(tasks)'
  BY <1>3, <1>4 DEF WellOwned
<1>. QED BY <1>1, <1>2, <1>5

\* The tools of the parent are gentle with a task that has an owner.
LEMMA ToolIsGentle ==
  ASSUME OwnersKept, StatusKept, StoreTypeOK, WellOwned(tasks), NEW f, NEW t \in TaskId,
         \/ \E deps : CreateTask(f, t, deps)
         \/ \E p \in Patches : UpdateTask(f, t, p)
  PROVE  /\ \A u \in TaskId : Gentle(u)
         /\ \A u \in TaskId : tasks'[u].owner \in {None, tasks[u].owner}
         /\ \A u \in TaskId : tasks'[u].notified => tasks[u].notified
<1>0. tasks \in [TaskId -> Task] /\ \A u \in TaskId : tasks[u] \in Task
  BY DEF StoreTypeOK, Graphs
<1>1. ASSUME NEW u \in TaskId, tasks'[u] = tasks[u]
      PROVE  /\ Gentle(u) /\ tasks'[u].owner \in {None, tasks[u].owner}
             /\ tasks'[u].notified => tasks[u].notified
  BY <1>1 DEF WellOwned, Gentle, Same, Finished
<1>2. ASSUME NEW deps, CreateTask(f, t, deps)
      PROVE  /\ Gentle(t) /\ tasks'[t].owner \in {None, tasks[t].owner}
             /\ tasks'[t].notified => tasks[t].notified
             /\ \A u \in TaskId : u # t => tasks'[u] = tasks[u]
  <2>1. /\ tasks'[t] = Created(deps) /\ tasks[t].owner = None
        /\ \A u \in TaskId : u # t => tasks'[u] = tasks[u]
    BY <1>0, <1>2 DEF CreateTask, Mutate, Known, WellOwned
  <2>. QED BY <2>1 DEF Created, NoTask, Gentle, Finished
<1>3. ASSUME NEW p \in Patches, UpdateTask(f, t, p)
      PROVE  /\ Gentle(t) /\ tasks'[t].owner \in {None, tasks[t].owner}
             /\ tasks'[t].notified => tasks[t].notified
             /\ \A u \in TaskId : u # t => tasks'[u] = tasks[u]
  <2>1. /\ tasks'[t] = Patched(tasks[t], p)
        /\ \A u \in TaskId : u # t => tasks'[u] = tasks[u]
    BY <1>0, <1>3 DEF UpdateTask, Mutate
  <2>2. p.owner = None /\ p.status = None
    BY DEF OwnersKept, StatusKept
  <2>3. /\ tasks'[t].owner = tasks[t].owner /\ tasks'[t].status = tasks[t].status
        /\ tasks'[t].worktree = tasks[t].worktree /\ tasks'[t].notified = tasks[t].notified
        /\ tasks[t].result # None => tasks'[t].result # None
        /\ tasks[t].error # None => tasks'[t].error # None
    BY <1>0, <2>1, <2>2 DEF Patched, Defined, Task
  <2>. QED BY <2>1, <2>3 DEF WellOwned, Gentle, Same, Finished
<1>. QED BY <1>1, <1>2, <1>3

\* A claim is: it takes a task without an owner.
LEMMA ClaimIsGentle ==
  ASSUME StoreTypeOK, WellOwned(tasks), NEW f, NEW t \in TaskId, NEW a \in AgentId, NEW type,
         \/ ClaimNewTask(f, t, a, type, WorktreeOf(type, a))
         \/ ClaimTask(f, t, a, type, WorktreeOf(type, a))
  PROVE  /\ \A u \in TaskId : Gentle(u)
         /\ \A u \in TaskId : u # t => tasks'[u].owner = tasks[u].owner
         /\ tasks'[t].owner = a /\ tasks'[t].status = "in_progress"
         /\ \A u \in TaskId : tasks'[u].notified => tasks[u].notified
<1>0. tasks \in [TaskId -> Task] /\ \A u \in TaskId : tasks[u] \in Task
  BY DEF StoreTypeOK, Graphs
<1>1. tasks[t].owner = None /\ \A u \in TaskId : u # t => tasks'[u] = tasks[u]
  BY <1>0 DEF ClaimNewTask, ClaimTask, Claimable, Mutate, Known, WellOwned
<1>2. ASSUME NEW u \in TaskId, tasks'[u] = tasks[u] PROVE Gentle(u)
  BY <1>2 DEF WellOwned, Gentle, Same, Finished
<1>3. \/ tasks'[t] = ClaimedNew(a, type, WorktreeOf(type, a))
      \/ tasks'[t] = Claimed(tasks[t], a, type, WorktreeOf(type, a))
  BY <1>0 DEF ClaimNewTask, ClaimTask, Mutate
<1>4. tasks[t].worktree = None /\ ~tasks[t].notified
  BY <1>1 DEF WellOwned
<1>5. /\ tasks'[t].owner = a /\ tasks'[t].status = "in_progress"
      /\ ~tasks'[t].notified /\ tasks'[t].worktree \in {None, a}
  BY <1>0, <1>3, <1>4 DEF ClaimedNew, Claimed, NoTask, Task, WorktreeOf
<1>6. Gentle(t)
  BY <1>1, <1>5 DEF Gentle, Finished
<1>. QED BY <1>1, <1>2, <1>5, <1>6

\* Telling is: it marks tasks that are finished.
LEMMA TellingIsGentle ==
  ASSUME StoreTypeOK, WellOwned(tasks), NEW f,
         MarkParentNotified(f, PendingParentNotifications(tasks))
  PROVE  /\ \A u \in TaskId : Gentle(u)
         /\ \A u \in TaskId : tasks'[u].owner \in {None, tasks[u].owner}
<1> SUFFICES ASSUME NEW u \in TaskId
             PROVE  Gentle(u) /\ tasks'[u].owner \in {None, tasks[u].owner}
  OBVIOUS
<1>0. tasks[u] \in Task /\ tasks' = Notified(tasks, PendingParentNotifications(tasks))
  BY DEF StoreTypeOK, Graphs, MarkParentNotified, Mutate
<1>1. CASE tasks'[u] = tasks[u]
  BY <1>1 DEF WellOwned, Gentle, Same, Finished
<1>2. CASE tasks'[u] # tasks[u]
  <2>1. Untold(tasks[u]) /\ tasks'[u] = [tasks[u] EXCEPT !.notified = TRUE]
    BY <1>0, <1>2 DEF Notified, PendingParentNotifications
  <2>2. tasks[u].owner # None /\ Finished(tasks[u])
    BY <2>1 DEF Untold, Finished
  <2>3. Same(tasks[u], tasks'[u])
    BY <1>0, <2>1, <2>2 DEF Same, Task
  <2>. QED BY <2>2, <2>3 DEF Gentle, Same
<1>. QED BY <1>1, <1>2

\* So is a step that changes no task.
LEMMA NothingIsGentle ==
  ASSUME WellOwned(tasks), UNCHANGED tasks
  PROVE  (\A u \in TaskId : Gentle(u)) /\ Entrusted
  BY DEF WellOwned, Gentle, Same, Finished, Entrusted

-----------------------------------------------------------------------------
(* Who claimed what.                                                       *)

\* A step that gives up no spawn and starts no child.
LEMMA ClaimsStay ==
  ASSUME \A a \in AgentId : child[a] = "none" => child'[a] = "none",
         \A a \in AgentId : child[a] = "void" => child'[a] = "void",
         \A a \in AgentId : child[a] \notin {"none", "void"} =>
             child'[a] \notin {"none", "void"} /\ taskOf'[a] = taskOf[a],
         \A c \in Caller : job[c].agent # None =>
             /\ job'[c].agent = job[c].agent
             /\ job[c].task \in TaskId => job'[c].task = job[c].task
  PROVE  ClaimedStays
  BY NoneIsNotAnId DEF ClaimedStays, ClaimedBy

\* A spawn that is given up leaves its agent void: what it claimed stays claimed by it.
LEMMA ClaimsAreGivenUp ==
  ASSUME OrchInv, NEW c \in Caller, GiveUpSpawn(c), job[c].agent \in AgentId, UNCHANGED taskOf,
         Drawn
  PROVE  ClaimedStays
<1> DEFINE b == job[c].agent
<1>1. /\ child' = [child EXCEPT ![b] = "void"] /\ b \in AgentId
      /\ \A d \in Caller : d # c => job'[d] = job[d]
      /\ child \in [AgentId -> Live \cup {"none", "void", "gone", "dead"}]
      /\ child[b] = "none"
  BY NoneIsNotAnId DEF GiveUpSpawn, OrchInv, OrchTypeOK, Drawn
<1>2. \A d \in Caller : job[d].agent # b => job'[d] = job[d]
  BY <1>1
<1>. HIDE DEF b
<1>. QED BY <1>1, <1>2 DEF ClaimedStays, ClaimedBy

\* A spawn whose child is registered has handed its claim to the child.
LEMMA ClaimIsRegistered ==
  ASSUME OrchInv, Drawn, NEW c \in Caller, Register(c)
  PROVE  ClaimedStays
<1> DEFINE b == job[c].agent
<1>1. /\ child' = [child EXCEPT ![b] = "running"] /\ b \in AgentId
      /\ taskOf' = [taskOf EXCEPT ![b] = job[c].task]
      /\ \A d \in Caller : d # c => job'[d] = job[d]
      /\ child \in [AgentId -> Live \cup {"none", "void", "gone", "dead"}]
      /\ taskOf \in [AgentId -> TaskId \cup {None}]
      /\ \A d \in Caller : job[d].agent = b => d = c
      /\ child[b] = "none"
  BY NoneIsNotAnId DEF Register, OrchInv, OrchTypeOK, Drawn, SpawnHasAgent
<1>2. \A d \in Caller : job[d].agent # b => job'[d] = job[d]
  BY <1>1
<1>3. \A d \in Caller, t \in TaskId : job[d].agent = b /\ job[d].task = t => taskOf'[b] = t
  BY <1>1
<1>. HIDE DEF b
<1>4. ASSUME NEW a \in AgentId, NEW t \in TaskId, ClaimedBy(a, t), a # b PROVE ClaimedBy(a, t)'
  BY <1>1, <1>2, <1>4 DEF ClaimedBy
<1>5. ASSUME NEW a \in AgentId, NEW t \in TaskId, ClaimedBy(a, t), a = b
      PROVE  ClaimedBy(a, t)'
  BY <1>1, <1>3, <1>5 DEF ClaimedBy
<1>. QED BY <1>4, <1>5 DEF ClaimedStays

\* The end of the process leaves the claims to the dead and the void.
LEMMA ClaimsCrash ==
  ASSUME Crash
  PROVE  ClaimedStays
<1>1. \A a \in AgentId : child'[a] = IF child[a] \in Live THEN "dead"
                                     ELSE IF child[a] = "none" /\ ~Unused(a) THEN "void"
                                     ELSE child[a]
  BY DEF Crash
<1>2. UNCHANGED taskOf
  BY DEF Crash
<1>3. ASSUME NEW a \in AgentId, NEW t \in TaskId, ClaimedBy(a, t) PROVE ClaimedBy(a, t)'
  <2>1. CASE child[a] = "none"
    <3>1. ~Unused(a)
      BY <1>3, <2>1 DEF ClaimedBy, Unused
    <3>2. child'[a] = "void"
      BY <1>1, <2>1, <3>1 DEF Live
    <3>. QED BY <3>2 DEF ClaimedBy
  <2>2. CASE child[a] = "void"
    BY <1>1, <2>2 DEF ClaimedBy, Live
  <2>3. CASE child[a] \notin {"none", "void"}
    <3>1. child'[a] \notin {"none", "void"} /\ taskOf'[a] = t
      BY <1>1, <1>2, <1>3, <2>3 DEF ClaimedBy
    <3>. QED BY <3>1 DEF ClaimedBy
  <2>. QED BY <2>1, <2>2, <2>3
<1>. QED BY <1>3 DEF ClaimedStays

-----------------------------------------------------------------------------
(* The tree of tasks, owners and worktrees.                                *)

Recorded == {"recording", "gone", "dead"}
Over == {"void", "gone", "dead"}

\* Where a child is after a step, and where a claim is.
StaysOrWorks(a) ==
    child'[a] \in Live =>
        \/ child'[a] = child[a] /\ taskOf'[a] = taskOf[a]
        \/ /\ child'[a] \in {"running", "cleaning"}
           /\ tasks'[taskOf'[a]].status = "in_progress"
           /\ child'[a] = "cleaning" => a \in worktrees'

StaysOrClaims(c) ==
    at'[c] = "claiming" =>
        \/ at[c] = "claiming" /\ job'[c] = job[c]
        \/ tasks'[job'[c].task].status = "in_progress"

\* A step that records nothing.
LEMMA StagesGo ==
  ASSUME OwnInv, SpawnHasAgent, Stages, \A t \in TaskId : Gentle(t),
         \A a \in AgentId : StaysOrWorks(a),
         \A a \in AgentId : child[a] = "cleaning" /\ a \in worktrees => a \in worktrees',
         \A c \in Caller : StaysOrClaims(c)
  PROVE  Stages'
<1>1. ASSUME NEW a \in AgentId, NEW t, Owns(a, t)
      PROVE  t \in TaskId /\ tasks'[t].status = tasks[t].status
  BY <1>1, NoneIsNotAnId DEF Owns, Gentle, Same
<1>2. ASSUME NEW a \in AgentId, child'[a] \in Live
      PROVE  /\ child'[a] \in {"running", "cleaning"} =>
                    tasks'[taskOf'[a]].status = "in_progress"
             /\ child'[a] = "cleaning" => a \in worktrees'
             /\ child'[a] = "recording" => Finished(tasks'[taskOf'[a]])
  <2>1. CASE child'[a] = child[a] /\ taskOf'[a] = taskOf[a]
    <3>1. Owns(a, taskOf[a])
      BY <1>2, <2>1 DEF OwnInv
    <3>. QED BY <1>1, <2>1, <3>1 DEF Stages, Finished
  <2>. QED BY <1>2, <2>1 DEF StaysOrWorks
<1>3. ASSUME NEW c \in Caller, at'[c] = "claiming"
      PROVE  tasks'[job'[c].task].status = "in_progress"
  <2>1. CASE at[c] = "claiming" /\ job'[c] = job[c]
    <3>1. Owns(job[c].agent, job[c].task) /\ job[c].agent \in AgentId
      BY <2>1 DEF OwnInv, SpawnHasAgent
    <3>. QED BY <1>1, <2>1, <3>1 DEF Stages
  <2>. QED BY <1>3, <2>1 DEF StaysOrClaims
<1>. QED BY <1>2, <1>3 DEF Stages, Live

\* A step that finishes nothing.
LEMMA TreeGently ==
  ASSUME OrchInv, TreeInv, GraphsAre, ClaimedStays, Entrusted,
         \A t \in TaskId : Gentle(t), Stages',
         \A w \in AgentId : child[w] \in Recorded =>
             /\ child'[w] \in Recorded
             /\ w \in worktrees /\ (\A c \in Caller : w \notin job[c].stale) => w \in worktrees',
         \A w \in AgentId : child[w] \in Over => child'[w] \in Over,
         \A c \in Caller : job'[c].stale \subseteq job[c].stale
  PROVE  TreeInv'
<1>0. StoreTypeOK /\ WellOwned(tasks) /\ \A t \in TaskId : tasks[t] \in Task
  BY DEF OrchInv, StoreInv, StoreTypeOK, Graphs, TreeInv, StoreGraphs
<1>1. (\A g \in StoreGraphs : WellOwned(g) /\ FinishedStays(g))'
  <2>1. \A g \in StoreGraphs : WellOwned(g) /\ FinishedStays(g)
    BY DEF TreeInv
  <2>. QED BY <1>0, <2>1, GentleKeeps, GraphsKept
<1>2. KeptByItsChild'
  <2> SUFFICES ASSUME NEW t \in TaskId, Finished(tasks'[t]), tasks'[t].worktree # None
               PROVE  /\ tasks'[t].worktree \in worktrees'
                      /\ child'[tasks'[t].worktree] \in Recorded
                      /\ \A c \in Caller : tasks'[t].worktree \notin job'[c].stale
    BY DEF KeptByItsChild, Recorded
  <2>1. Finished(tasks[t]) /\ tasks'[t].worktree = tasks[t].worktree
    BY <1>0, GentleKeeps
  <2>2. PICK w \in AgentId : w = tasks[t].worktree
    BY <1>0, <2>1 DEF Task
  <2>3. w \in worktrees /\ child[w] \in Recorded /\ \A c \in Caller : w \notin job[c].stale
    BY <2>1, <2>2 DEF TreeInv, KeptByItsChild, Recorded
  <2>. QED BY <2>1, <2>2, <2>3
<1>3. StaleAreDead'
  <2>1. \A c \in Caller : job[c].stale \subseteq AgentId
    BY DEF OrchInv, OrchTypeOK
  <2>. QED BY <2>1 DEF TreeInv, StaleAreDead, Over
<1>. QED BY <1>1, <1>2, <1>3 DEF TreeInv

\* A step that leaves the graph alone, and ends at most some children.
LEMMA TreeStays ==
  ASSUME OrchInv, OwnInv, TreeInv, GraphsAre, ClaimedStays, UNCHANGED tasks,
         \A a \in AgentId : StaysOrWorks(a), \A c \in Caller : StaysOrClaims(c),
         \A w \in AgentId :
             /\ child[w] \in {"cleaning"} \cup Recorded
             /\ w \in worktrees
             /\ \A c \in Caller : w \notin job[c].stale
             => w \in worktrees',
         \A w \in AgentId : child[w] \in Recorded => child'[w] \in Recorded,
         \A w \in AgentId : child[w] \in Over => child'[w] \in Over,
         \A c \in Caller : job'[c].stale \subseteq job[c].stale
  PROVE  TreeInv'
<1>1. WellOwned(tasks)
  BY DEF TreeInv, StoreGraphs
<1>2. (\A t \in TaskId : Gentle(t)) /\ Entrusted
  BY <1>1, NothingIsGentle
<1>3. \A a \in AgentId : child[a] = "cleaning" /\ a \in worktrees => a \in worktrees'
  BY DEF TreeInv, StaleAreDead
<1>5. Stages'
  BY <1>2, <1>3, StagesGo DEF TreeInv, OrchInv
<1>. QED BY <1>2, <1>5, TreeGently

\* A claim.
LEMMA ClaimGrows ==
  ASSUME OrchInv, Drawn, OwnInv, TreeInv, GraphsAre, NEW c \in Caller, NEW j \in Job,
         Claim(c, j), j.agent \in AgentId, child[j.agent] = "none", j.stale = job[c].stale,
         job[c].agent = None \/ (job[c].agent = j.agent /\ job[c].task = j.task),
         UNCHANGED <<child, taskOf>>, worktrees \subseteq worktrees'
  PROVE  TreeInv'
<1>0. /\ StoreTypeOK /\ SpawnHasAgent /\ WellOwned(tasks) /\ job \in [Caller -> Job]
      /\ at \in [Caller -> {"ready", "worktree", "claiming", "undo", "writing", "resetting"}]
  BY DEF OrchInv, StoreInv, OrchTypeOK, TreeInv, StoreGraphs, Job
<1>1. PICK k \in Job, t \in TaskId :
          /\ k.agent = j.agent /\ k.task = t /\ k.stale = j.stale
          /\ j.task = None \/ j.task = t
          /\ job' = [job EXCEPT ![c] = k]
          /\ \/ ClaimNewTask(c, t, j.agent, j.type, WorktreeOf(j.type, j.agent))
             \/ ClaimTask(c, t, j.agent, j.type, WorktreeOf(j.type, j.agent))
  <2>1. ASSUME NEW t \in TaskId, j.task = NoTaskId,
               ClaimNewTask(c, t, j.agent, j.type, WorktreeOf(j.type, j.agent)),
               job' = [job EXCEPT ![c] = [j EXCEPT !.task = t]]
        PROVE  \E k \in Job : /\ k.agent = j.agent /\ k.task = t /\ k.stale = j.stale
                              /\ j.task = None
                              /\ job' = [job EXCEPT ![c] = k]
    <3>1. /\ [j EXCEPT !.task = t] \in Job /\ [j EXCEPT !.task = t].agent = j.agent
          /\ [j EXCEPT !.task = t].task = t /\ [j EXCEPT !.task = t].stale = j.stale
      BY DEF Job
    <3>. QED BY <2>1, <3>1 DEF NoTaskId
  <2>2. ASSUME ClaimTask(c, j.task, j.agent, j.type, WorktreeOf(j.type, j.agent))
        PROVE  j.task \in TaskId
    BY <2>2 DEF ClaimTask, Claimable, Known
  <2>. QED BY <2>1, <2>2 DEF Claim
<1>2. /\ \A u \in TaskId : Gentle(u)
      /\ \A u \in TaskId : u # t => tasks'[u].owner = tasks[u].owner
      /\ tasks'[t].owner = j.agent /\ tasks'[t].status = "in_progress"
  BY <1>0, <1>1, ClaimIsGentle
<1>3. job'[c] = k /\ at'[c] = "claiming"
      /\ \A d \in Caller : d # c => job'[d] = job[d] /\ at'[d] = at[d]
  BY <1>0, <1>1 DEF Claim, Go
<1>4. Entrusted
  <2>1. ClaimedBy(j.agent, t)'
    <3>1. PICK a \in AgentId : a = j.agent
      OBVIOUS
    <3>2. ClaimedBy(a, t)'
      BY <1>1, <1>3, <3>1 DEF ClaimedBy
    <3>. QED BY <3>1, <3>2
  <2>. QED BY <1>2, <2>1 DEF Entrusted, ClaimedBy
<1>5. ClaimedStays
  <2>1. \A d \in Caller : job[d].agent # None =>
            /\ job'[d].agent = job[d].agent
            /\ job[d].task \in TaskId => job'[d].task = job[d].task
    BY <1>1, <1>3, NoneIsNotAnId
  <2>. QED BY <2>1, ClaimsStay
<1>6. Stages'
  <2>1. \A a \in AgentId : StaysOrWorks(a)
    BY DEF StaysOrWorks
  <2>2. \A d \in Caller : StaysOrClaims(d)
    BY <1>1, <1>2, <1>3 DEF StaysOrClaims
  <2>. QED BY <1>0, <1>2, <2>1, <2>2, StagesGo DEF TreeInv
<1>7. \A d \in Caller : job'[d].stale \subseteq job[d].stale
  BY <1>1, <1>3
<1>. QED BY <1>2, <1>4, <1>5, <1>6, <1>7, TreeGently

\* The steps of a spawn keep the tree of owners,
LEMMA SpawnStepTree ==
  ASSUME OrchInv, Drawn, OwnInv, TreeInv, GraphsAre, NEW c \in Caller, SpawnStep(c)
  PROVE  TreeInv'
<1>0. /\ OrchTypeOK /\ SpawnHasAgent /\ job \in [Caller -> Job]
      /\ at \in [Caller -> {"ready", "worktree", "claiming", "undo", "writing", "resetting"}]
      /\ child \in [AgentId -> Live \cup {"none", "void", "gone", "dead"}]
      /\ at[c] = "ready" => job[c].agent = None
      /\ at[c] \in Placed => job[c].agent \in AgentId /\ child[job[c].agent] = "none"
  BY NoneIsNotAnId DEF OrchInv, OrchTypeOK, Job, Drawn, SpawnHasAgent, Placed
<1>1. ASSUME NEW a \in AgentId, NEW type \in Types, NEW t \in TaskId \cup {NoTaskId},
             Spawn(c, a, type, t)
      PROVE  TreeInv'
  <2> DEFINE j == [job[c] EXCEPT !.agent = a, !.task = t, !.type = type, !.todo = @ \ {t}]
  <2>0. /\ child[a] = "none" /\ at[c] = "ready" /\ UNCHANGED <<child, taskOf, worktrees>>
        /\ t \in TaskId \cup {None} /\ type \in AgentType /\ job[c] \in Job
    BY <1>0, <1>1, OrchestratorAssumption DEF Spawn, NoTaskId, Unused
  <2>1. /\ j \in Job /\ j.agent = a /\ j.stale = job[c].stale /\ child[a] = "none"
        /\ at[c] = "ready" /\ UNCHANGED <<child, taskOf, worktrees>>
    BY <2>0 DEF Job
  <2>2. \/ Go(c, "worktree") /\ UNCHANGED storeVars /\ job' = [job EXCEPT ![c] = j]
        \/ Claim(c, j)
    BY <1>1 DEF Spawn
  <2>. HIDE DEF j
  <2>3. CASE Go(c, "worktree") /\ UNCHANGED storeVars /\ job' = [job EXCEPT ![c] = j]
    <3>1. UNCHANGED tasks
      BY <2>3 DEF storeVars
    <3>2. /\ job'[c] = j /\ at'[c] = "worktree"
          /\ \A d \in Caller : d # c => job'[d] = job[d] /\ at'[d] = at[d]
      BY <1>0, <2>3 DEF Go
    <3>3. ClaimedStays
      <4>1. \A d \in Caller : job[d].agent # None =>
                /\ job'[d].agent = job[d].agent
                /\ job[d].task \in TaskId => job'[d].task = job[d].task
        BY <1>0, <2>1, <3>2
      <4>. QED BY <2>1, <4>1, ClaimsStay
    <3>4. /\ \A b \in AgentId : StaysOrWorks(b)
          /\ \A d \in Caller : StaysOrClaims(d)
          /\ \A d \in Caller : job'[d].stale \subseteq job[d].stale
      BY <2>1, <3>2 DEF StaysOrWorks, StaysOrClaims
    <3>. QED BY <2>1, <3>1, <3>3, <3>4, TreeStays
  <2>. QED BY <1>0, <2>1, <2>2, <2>3, ClaimGrows
<1>2. CASE WorktreeReady(c)
  <2>0. /\ at[c] \in Placed /\ UNCHANGED <<child, taskOf>> /\ worktrees \subseteq worktrees'
        /\ job[c] \in Job
    BY <1>0, <1>2 DEF WorktreeReady, Placed
  <2>1. CASE Claim(c, job[c])
    BY <1>0, <2>0, <2>1, ClaimGrows
  <2>2. CASE Go(c, "undo") /\ UNCHANGED <<storeVars, job>>
    <3>1. UNCHANGED <<tasks, job>>
      BY <2>2 DEF storeVars
    <3>2. ClaimedStays
      BY <2>0, <3>1, ClaimsStay
    <3>3. /\ \A b \in AgentId : StaysOrWorks(b)
          /\ \A d \in Caller : StaysOrClaims(d)
      BY <1>0, <2>0, <2>2 DEF StaysOrWorks, StaysOrClaims, Go
    <3>. QED BY <2>0, <3>1, <3>2, <3>3, TreeStays
  <2>. QED BY <1>2, <2>1, <2>2 DEF WorktreeReady
<1>3. CASE Register(c)
  <2> DEFINE b == job[c].agent
  <2>1. /\ b \in AgentId /\ child[b] = "none" /\ UNCHANGED <<tasks, worktrees>>
        /\ child' = [child EXCEPT ![b] = "running"]
        /\ taskOf' = [taskOf EXCEPT ![b] = job[c].task]
        /\ taskOf \in [AgentId -> TaskId \cup {None}]
        /\ tasks[job[c].task].status = "in_progress"
    BY <1>0, <1>3 DEF Register, Return, Placed, TreeInv, Stages, OrchTypeOK
  <2>2. /\ at'[c] = "ready" /\ job'[c].stale = {}
        /\ \A d \in Caller : d # c => job'[d] = job[d] /\ at'[d] = at[d]
    BY <1>0, <1>3 DEF Register, Go, NoJob
  <2>3. ClaimedStays
    BY <1>3, ClaimIsRegistered
  <2>. HIDE DEF b
  <2>4. \A a \in AgentId : StaysOrWorks(a)
    BY <1>0, <2>1 DEF StaysOrWorks
  <2>5. \A d \in Caller : StaysOrClaims(d)
    BY <2>2 DEF StaysOrClaims
  <2>6. /\ \A w \in AgentId : child[w] \in Recorded => child'[w] \in Recorded
        /\ \A w \in AgentId : child[w] \in Over => child'[w] \in Over
        /\ \A d \in Caller : job'[d].stale \subseteq job[d].stale
    BY <1>0, <2>1, <2>2 DEF Recorded, Over
  <2>. QED BY <2>1, <2>3, <2>4, <2>5, <2>6, TreeStays
<1>4. ASSUME GiveUpSpawn(c), at[c] \in Placed, UNCHANGED <<taskOf, tasks>>,
             \A w \in worktrees : w # job[c].agent => w \in worktrees'
      PROVE  TreeInv'
  <2> DEFINE b == job[c].agent
  <2>1. /\ b \in AgentId /\ child[b] = "none"
        /\ child' = [child EXCEPT ![b] = "void"]
    BY <1>0, <1>4 DEF GiveUpSpawn
  <2>2. /\ at'[c] = "ready" /\ job'[c].stale = {}
        /\ \A d \in Caller : d # c => job'[d] = job[d] /\ at'[d] = at[d]
    BY <1>0, <1>4 DEF GiveUpSpawn, Go, NoJob
  <2>3. ClaimedStays
    BY <1>0, <1>4, ClaimsAreGivenUp
  <2>4. \A w \in worktrees : w # b => w \in worktrees'
    BY <1>4
  <2>. HIDE DEF b
  <2>5. \A a \in AgentId : StaysOrWorks(a)
    BY <1>0, <1>4, <2>1 DEF StaysOrWorks, Live
  <2>6. \A d \in Caller : StaysOrClaims(d)
    BY <2>2 DEF StaysOrClaims
  <2>7. /\ \A w \in AgentId : child[w] \in Recorded => child'[w] \in Recorded
        /\ \A w \in AgentId : child[w] \in Over => child'[w] \in Over
        /\ \A d \in Caller : job'[d].stale \subseteq job[d].stale
        /\ \A w \in AgentId : child[w] \in {"cleaning"} \cup Recorded => w # b
    BY <1>0, <2>1, <2>2 DEF Recorded, Over
  <2>. QED BY <1>4, <2>3, <2>4, <2>5, <2>6, <2>7, TreeStays
<1>5. CASE ClaimFails(c)
  <2>1. CASE Go(c, "undo") /\ UNCHANGED <<job, child>>
    <3>1. UNCHANGED <<tasks, job, child, taskOf, worktrees>>
      BY <1>5, <2>1 DEF ClaimFails, Return
    <3>2. ClaimedStays
      BY <3>1, ClaimsStay
    <3>3. /\ \A b \in AgentId : StaysOrWorks(b)
          /\ \A d \in Caller : StaysOrClaims(d)
      BY <1>0, <2>1, <3>1 DEF StaysOrWorks, StaysOrClaims, Go
    <3>. QED BY <3>1, <3>2, <3>3, TreeStays
  <2>2. CASE GiveUpSpawn(c)
    <3>1. at[c] \in Placed /\ UNCHANGED <<tasks, taskOf, worktrees>>
      BY <1>5 DEF ClaimFails, Return, Placed
    <3>. QED BY <1>4, <2>2, <3>1
  <2>. QED BY <1>5, <2>1, <2>2 DEF ClaimFails
<1>6. CASE WorktreeFails(c) \/ (\E kept \in BOOLEAN : UndoWorktree(c, kept)) \/ InterruptCaller(c)
  <2>1. /\ GiveUpSpawn(c) /\ at[c] \in Placed /\ UNCHANGED <<taskOf, tasks>>
        /\ \A w \in worktrees : w # job[c].agent => w \in worktrees'
    BY <1>6 DEF WorktreeFails, UndoWorktree, InterruptCaller, Interrupt, storeVars, Placed
  <2>. QED BY <1>4, <2>1
<1>. QED BY <1>1, <1>2, <1>3, <1>5, <1>6 DEF SpawnStep

\* those of the parent,
LEMMA ParentStepTree ==
  ASSUME OwnersKept, StatusKept, OrchInv, Drawn, OwnInv, TreeInv, GraphsAre,
         NEW c \in Caller, ParentStep(c)
  PROVE  TreeInv'
<1>0. /\ StoreTypeOK /\ WellOwned(tasks) /\ SpawnHasAgent
      /\ at \in [Caller -> {"ready", "worktree", "claiming", "undo", "writing", "resetting"}]
  BY DEF OrchInv, StoreInv, OrchTypeOK, TreeInv, StoreGraphs
<1>1. (\A u \in TaskId : Gentle(u)) /\ Entrusted
  <2>1. CASE TaskTool(c)
    BY <1>0, <2>1, ToolIsGentle DEF TaskTool, Entrusted
  <2>2. CASE TellParent(c)
    BY <1>0, <2>2, TellingIsGentle DEF TellParent, Entrusted
  <2>3. CASE Written(c)
    BY <1>0, <2>3, NothingIsGentle DEF Written, Return
  <2>. QED BY <2>1, <2>2, <2>3 DEF ParentStep
<1>2. UNCHANGED <<job, child, taskOf, worktrees>>
  BY DEF ParentStep, TaskTool, TellParent, Written
<1>3. \A d \in Caller : at'[d] = "claiming" => at[d] = "claiming"
  BY <1>0 DEF ParentStep, TaskTool, TellParent, Written, Go
<1>4. ClaimedStays
  BY <1>2, ClaimsStay
<1>5. Stages'
  <2>1. /\ \A a \in AgentId : StaysOrWorks(a)
        /\ \A d \in Caller : StaysOrClaims(d)
    BY <1>2, <1>3 DEF StaysOrWorks, StaysOrClaims
  <2>. QED BY <1>0, <1>1, <1>2, <2>1, StagesGo DEF TreeInv
<1>. QED BY <1>1, <1>2, <1>4, <1>5, TreeGently

\* A child records its outcome on the task it owns.
LEMMA RecordTree ==
  ASSUME OrchInv, Drawn, OwnInv, TreeInv, GraphsAre, NEW a \in AgentId, NEW wt \in {None, a},
         Record(a, wt), child[a] \in {"running", "cleaning"}, UNCHANGED <<at, job, taskOf>>,
         wt = a => a \in worktrees', \A w \in worktrees : w # a => w \in worktrees'
  PROVE  TreeInv'
<1>0. /\ StoreTypeOK /\ WellOwned(tasks) /\ SpawnHasAgent /\ tasks \in [TaskId -> Task]
      /\ child \in [AgentId -> Live \cup {"none", "void", "gone", "dead"}]
      /\ \A u \in TaskId : tasks[u] \in Task
  BY DEF OrchInv, StoreInv, StoreTypeOK, Graphs, OrchTypeOK, TreeInv, StoreGraphs
<1>1. PICK t \in TaskId : t = taskOf[a] /\ tasks[t].owner = a /\ tasks[t].status = "in_progress"
  BY DEF OwnInv, Owns, Live, TreeInv, Stages
<1>2. /\ child' = [child EXCEPT ![a] = "recording"]
      /\ \E task \in {Completed(tasks[t], a, wt), Failed(tasks[t], a, wt)} :
            tasks' = [tasks EXCEPT ![t] = task]
  BY <1>1 DEF Record, CompleteTask, FailTask, Mutate
<1>3. ~Finished(tasks[t]) /\ ~tasks[t].notified
  BY <1>0, <1>1 DEF WellOwned, Finished
<1>4. /\ tasks'[t].owner = a /\ tasks'[t].worktree = wt /\ Finished(tasks'[t])
      /\ ~tasks'[t].notified /\ tasks'[t].status # "absent"
      /\ \A u \in TaskId : u # t => tasks'[u] = tasks[u]
  <2>1. PICK task \in {Completed(tasks[t], a, wt), Failed(tasks[t], a, wt)} :
            tasks' = [tasks EXCEPT ![t] = task]
    BY <1>2
  <2>2. /\ task.owner = a /\ task.worktree = wt /\ task.status \in {"completed", "failed"}
        /\ task.notified = tasks[t].notified
    BY <1>0, <1>1 DEF Completed, Failed, Task
  <2>. QED BY <1>0, <1>1, <1>3, <2>1, <2>2 DEF Finished
<1>5. child'[a] = "recording" /\ \A b \in AgentId : b # a => child'[b] = child[b]
  BY <1>0, <1>2
<1>6. ClaimedStays
  <2>1. \A b \in AgentId : child[b] = "none" => b # a
    OBVIOUS
  <2>2. \A b \in AgentId : child[b] = "void" => b # a
    OBVIOUS
  <2>. QED BY <1>5, <2>1, <2>2, ClaimsStay
<1>7. WellOwned(tasks)'
  <2>1. ASSUME NEW u \in TaskId, u # t, tasks'[u].owner # None
        PROVE  ClaimedBy(tasks[u].owner, u)'
    <3>1. PICK b \in AgentId : b = tasks[u].owner /\ ClaimedBy(b, u)
      BY <1>0, <1>4, <2>1 DEF WellOwned, ClaimedBy
    <3>2. ClaimedBy(b, u)' /\ tasks'[u].owner = b
      BY <1>4, <1>6, <2>1, <3>1 DEF ClaimedStays
    <3>. QED BY <3>2 DEF ClaimedBy
  <2>2. taskOf'[a] = t
    BY <1>1
  <2>3. ClaimedBy(tasks[t].owner, t)'
    BY <1>4, <1>5, <2>2 DEF ClaimedBy
  <2>4. \A u \in TaskId :
            /\ tasks'[u].owner # None => tasks'[u].status # "absent"
            /\ tasks'[u].worktree \in {None, tasks'[u].owner}
            /\ Finished(tasks'[u]) => tasks'[u].owner # None
            /\ tasks'[u].notified => Finished(tasks'[u])
    BY <1>0, <1>4, NoneIsNotAnId DEF WellOwned
  <2>. QED BY <2>1, <2>3, <2>4 DEF WellOwned
<1>8. (\A g \in StoreGraphs : WellOwned(g) /\ FinishedStays(g))'
  <2>1. \A g \in StoreGraphs : WellOwned(g) /\ FinishedStays(g)
    BY DEF TreeInv
  <2>2. \A u \in TaskId : Finished(tasks[u]) =>
            Finished(tasks'[u]) /\ tasks'[u].worktree = tasks[u].worktree
    BY <1>3, <1>4
  <2>. QED BY <1>0, <1>6, <1>7, <2>1, <2>2, GraphsKept
<1>9. \A c \in Caller : a \notin job[c].stale
  BY DEF TreeInv, StaleAreDead
<1>10. KeptByItsChild'
  <2> SUFFICES ASSUME NEW u \in TaskId, Finished(tasks'[u]), tasks'[u].worktree # None
               PROVE  /\ tasks'[u].worktree \in worktrees'
                      /\ child'[tasks'[u].worktree] \in Recorded
                      /\ \A c \in Caller : tasks'[u].worktree \notin job'[c].stale
    BY DEF KeptByItsChild, Recorded
  <2>1. CASE u = t
    BY <1>4, <1>5, <1>9, <2>1 DEF Recorded
  <2>2. CASE u # t
    <3>1. PICK w \in AgentId : w = tasks[u].worktree
      BY <1>0, <1>4, <2>2 DEF Task
    <3>2. w \in worktrees /\ child[w] \in Recorded /\ \A c \in Caller : w \notin job[c].stale
      BY <1>4, <2>2, <3>1 DEF TreeInv, KeptByItsChild, Recorded
    <3>3. w # a
      BY <3>2 DEF Recorded
    <3>. QED BY <1>4, <1>5, <2>2, <3>1, <3>2, <3>3
  <2>. QED BY <2>1, <2>2
<1>11. StaleAreDead'
  <2>1. \A c \in Caller : job[c].stale \subseteq AgentId
    BY DEF OrchInv, OrchTypeOK
  <2>. QED BY <1>5, <1>9, <2>1 DEF TreeInv, StaleAreDead
<1>12. Stages'
  <2>1. ASSUME NEW b \in AgentId, b # a, child[b] \in Live
        PROVE  tasks'[taskOf[b]] = tasks[taskOf[b]]
    <3>1. taskOf[b] \in TaskId /\ tasks[taskOf[b]].owner = b
      BY <2>1 DEF OwnInv, Owns
    <3>. QED BY <1>1, <1>4, <2>1, <3>1
  <2>2. ASSUME NEW c \in Caller, at[c] = "claiming"
        PROVE  tasks'[job[c].task] = tasks[job[c].task]
    <3>1. /\ job[c].task \in TaskId /\ tasks[job[c].task].owner = job[c].agent
          /\ child[job[c].agent] = "none"
      BY <1>0, <2>2, NoneIsNotAnId DEF OwnInv, Owns, Drawn, SpawnHasAgent
    <3>. QED BY <1>1, <1>4, <3>1
  <2>3. ASSUME NEW b \in AgentId
        PROVE  /\ child'[b] \in {"running", "cleaning"} => tasks'[taskOf[b]].status = "in_progress"
               /\ child'[b] = "cleaning" => b \in worktrees'
               /\ child'[b] = "recording" => Finished(tasks'[taskOf[b]])
    <3>1. CASE b = a
      BY <1>1, <1>4, <1>5, <3>1
    <3>2. CASE b # a
      <4>1. child'[b] = child[b] /\ (child[b] \in Live => tasks'[taskOf[b]] = tasks[taskOf[b]])
        BY <1>5, <2>1, <3>2
      <4>. QED BY <3>2, <4>1 DEF TreeInv, Stages, Live
    <3>. QED BY <3>1, <3>2
  <2>. QED BY <2>2, <2>3 DEF TreeInv, Stages
<1>. QED BY <1>8, <1>10, <1>11, <1>12 DEF TreeInv

\* those of a child,
LEMMA ChildTree ==
  ASSUME OrchInv, Drawn, OwnInv, TreeInv, GraphsAre, NEW a \in AgentId,
         ChildStep(a) \/ Defect(a) \/ InterruptChild(a)
  PROVE  TreeInv'
<1>0. child \in [AgentId -> Live \cup {"none", "void", "gone", "dead"}]
  BY DEF OrchInv, OrchTypeOK
<1>1. ASSUME NEW place \in {"gone", "dead"}, child[a] \in Live,
             child' = [child EXCEPT ![a] = place],
             UNCHANGED <<tasks, at, job, taskOf, worktrees>>
      PROVE  TreeInv'
  <2>1. child'[a] = place /\ \A b \in AgentId : b # a => child'[b] = child[b]
    BY <1>0, <1>1
  <2>2. \A b \in AgentId : child[b] \in {"none", "void"} => b # a
    BY <1>1 DEF Live
  <2>3. ClaimedStays
    <3>1. \A b \in AgentId : child[b] \notin {"none", "void"} => child'[b] \notin {"none", "void"}
      BY <2>1
    <3>. QED BY <1>1, <2>1, <2>2, <3>1, ClaimsStay
  <2>4. /\ \A b \in AgentId : StaysOrWorks(b)
        /\ \A d \in Caller : StaysOrClaims(d)
    BY <1>1, <2>1 DEF StaysOrWorks, StaysOrClaims, Live
  <2>5. /\ \A w \in AgentId : child[w] \in Recorded => child'[w] \in Recorded
        /\ \A w \in AgentId : child[w] \in Over => child'[w] \in Over
    BY <2>1 DEF Recorded, Over
  <2>. QED BY <1>1, <2>3, <2>4, <2>5, TreeStays
<1>2. CASE RunEnds(a)
  <2>1. CASE Record(a, None)
    BY <1>2, <2>1, RecordTree, NoneIsNotAnId DEF RunEnds
  <2>2. CASE a \in worktrees /\ child' = [child EXCEPT ![a] = "cleaning"] /\ UNCHANGED storeVars
    <3>1. /\ child'[a] = "cleaning" /\ (\A b \in AgentId : b # a => child'[b] = child[b])
          /\ child[a] = "running" /\ UNCHANGED <<tasks, at, job, taskOf, worktrees>>
      BY <1>0, <1>2, <2>2 DEF RunEnds, storeVars
    <3>2. ClaimedStays
      BY <3>1, ClaimsStay
    <3>3. tasks[taskOf[a]].status = "in_progress"
      BY <3>1 DEF TreeInv, Stages
    <3>4. /\ \A b \in AgentId : StaysOrWorks(b)
          /\ \A d \in Caller : StaysOrClaims(d)
      BY <2>2, <3>1, <3>3 DEF StaysOrWorks, StaysOrClaims
    <3>5. /\ \A w \in AgentId : child[w] \in Recorded => child'[w] \in Recorded
          /\ \A w \in AgentId : child[w] \in Over => child'[w] \in Over
      BY <3>1 DEF Recorded, Over
    <3>. QED BY <3>1, <3>2, <3>4, <3>5, TreeStays
  <2>. QED BY <1>2, <2>1, <2>2 DEF RunEnds
<1>3. ASSUME NEW kept \in BOOLEAN, CleanupEnds(a, kept) PROVE TreeInv'
  <2> DEFINE wt == IF kept THEN a ELSE None
  <2>1. /\ wt \in {None, a} /\ Record(a, wt) /\ child[a] = "cleaning"
        /\ UNCHANGED <<at, job, taskOf>> /\ a \in worktrees
        /\ \A w \in worktrees : w # a => w \in worktrees'
    BY <1>3 DEF CleanupEnds, TreeInv, Stages
  <2>2. wt = a => a \in worktrees'
    BY <1>3, <2>1, NoneIsNotAnId DEF CleanupEnds
  <2>. HIDE DEF wt
  <2>. QED BY <2>1, <2>2, RecordTree
<1>4. CASE Ring(a)
  BY <1>1, <1>4 DEF Ring, Return, Live
<1>5. CASE Defect(a)
  BY <1>1, <1>5 DEF Defect, storeVars, Live
<1>6. CASE InterruptChild(a)
  <2>1. UNCHANGED <<tasks, at, job, taskOf, worktrees>>
    BY <1>6 DEF InterruptChild, Interrupt, storeVars
  <2>2. CASE child[a] \in Live
    BY <1>1, <1>6, <2>1, <2>2 DEF InterruptChild
  <2>3. CASE child[a] \notin Live
    <3>1. child' = child
      BY <1>0, <1>6, <2>3 DEF InterruptChild
    <3>2. ClaimedStays
      BY <2>1, <3>1, ClaimsStay
    <3>3. /\ \A b \in AgentId : StaysOrWorks(b)
          /\ \A d \in Caller : StaysOrClaims(d)
      BY <2>1, <3>1 DEF StaysOrWorks, StaysOrClaims
    <3>. QED BY <2>1, <3>1, <3>2, <3>3, TreeStays
  <2>. QED BY <2>2, <2>3
<1>. QED BY <1>2, <1>3, <1>4, <1>5, <1>6 DEF ChildStep

\* The reset at the start of a session: nobody lives, and what was in progress
\* is pending again.
LEMMA RecoverTree ==
  ASSUME OrchInv, Drawn, OwnInv, TreeInv, GraphsAre, NEW c \in Caller,
         NEW respawn \in BOOLEAN, Recover(c, respawn)
  PROVE  TreeInv'
<1>0. /\ StoreTypeOK /\ WellOwned(tasks) /\ job \in [Caller -> Job]
      /\ at \in [Caller -> {"ready", "worktree", "claiming", "undo", "writing", "resetting"}]
      /\ child \in [AgentId -> Live \cup {"none", "void", "gone", "dead"}]
      /\ \A t \in TaskId : tasks[t] \in Task
  BY DEF OrchInv, StoreInv, StoreTypeOK, Graphs, OrchTypeOK, TreeInv, StoreGraphs, Job
<1>1. /\ \A a \in AgentId : child[a] \notin Live
      /\ \A d \in Caller : job[d].agent = None
      /\ UNCHANGED <<child, taskOf, worktrees>>
  BY DEF Recover, OwnInv, FreshIsQuiet, Drawn
<1>2. \A d \in Caller : at'[d] # "claiming"
  BY <1>0 DEF Recover, Go, OwnInv, FreshIsQuiet
<1>3. ClaimedStays
  BY <1>1, ClaimsStay
<1>4. Stages'
  BY <1>1, <1>2 DEF Stages, Live
<1>5. CASE UNCHANGED <<storeVars, job>>
  <2>1. (\A t \in TaskId : Gentle(t)) /\ Entrusted /\ UNCHANGED job
    BY <1>0, <1>5, NothingIsGentle DEF storeVars
  <2>. QED BY <1>1, <1>3, <1>4, <2>1, TreeGently
<1>6. ASSUME tasks' = Reset(tasks), job'[c].stale = Stale,
             \A d \in Caller : d # c => job'[d] = job[d]
      PROVE  TreeInv'
  <2>1. ASSUME NEW t \in TaskId
        PROVE  \/ t \notin Dangling(tasks) /\ tasks'[t] = tasks[t]
               \/ /\ t \in Dangling(tasks)
                  /\ tasks'[t].owner = None /\ tasks'[t].worktree = None
                  /\ tasks'[t].status = "pending" /\ ~tasks'[t].notified
                  /\ ~Finished(tasks[t])
    <3>1. CASE t \in Dangling(tasks)
      <4>1. tasks'[t] = [tasks[t] EXCEPT !.status = "pending", !.owner = None, !.worktree = None]
        BY <1>6, <3>1 DEF Reset
      <4>2. ~Finished(tasks[t]) /\ ~tasks[t].notified
        BY <1>0, <3>1 DEF Dangling, Finished, WellOwned
      <4>. QED BY <1>0, <3>1, <4>1, <4>2 DEF Task
    <3>2. CASE t \notin Dangling(tasks)
      BY <1>6, <3>2 DEF Reset
    <3>. QED BY <3>1, <3>2
  <2>2. WellOwned(tasks)'
    <3>1. ASSUME NEW t \in TaskId, tasks'[t].owner # None
          PROVE  ClaimedBy(tasks[t].owner, t)'
      <4>1. PICK b \in AgentId : b = tasks[t].owner /\ ClaimedBy(b, t)
        BY <1>0, <2>1, <3>1 DEF WellOwned, ClaimedBy
      <4>2. ClaimedBy(b, t)' /\ tasks'[t].owner = b
        BY <1>3, <2>1, <3>1, <4>1 DEF ClaimedStays
      <4>. QED BY <4>2 DEF ClaimedBy
    <3>2. \A t \in TaskId :
              /\ tasks'[t].owner # None => tasks'[t].status # "absent"
              /\ tasks'[t].worktree \in {None, tasks'[t].owner}
              /\ Finished(tasks'[t]) => tasks'[t].owner # None
              /\ tasks'[t].notified => Finished(tasks'[t])
      BY <1>0, <2>1 DEF WellOwned, Finished
    <3>. QED BY <3>1, <3>2 DEF WellOwned
  <2>3. (\A g \in StoreGraphs : WellOwned(g) /\ FinishedStays(g))'
    <3>1. \A g \in StoreGraphs : WellOwned(g) /\ FinishedStays(g)
      BY DEF TreeInv
    <3>2. \A t \in TaskId : Finished(tasks[t]) =>
              Finished(tasks'[t]) /\ tasks'[t].worktree = tasks[t].worktree
      BY <2>1
    <3>. QED BY <1>0, <1>3, <2>2, <3>1, <3>2, GraphsKept
  <2>4. ASSUME NEW w \in Stale
        PROVE  /\ w \in AgentId /\ child[w] \in Over
               /\ \E t \in Dangling(tasks) : child[w] \in Recorded => taskOf[w] = t
    <3>1. PICK t \in Dangling(tasks) : w = tasks[t].worktree /\ w # None
      BY DEF Stale
    <3>2. t \in TaskId /\ w = tasks[t].owner /\ w \in AgentId /\ ClaimedBy(w, t)
      BY <1>0, <3>1 DEF Dangling, WellOwned, ClaimedBy
    <3>3. child[w] # "none"
      BY <1>1, <3>2, NoneIsNotAnId DEF ClaimedBy
    <3>. QED BY <1>0, <1>1, <3>2, <3>3 DEF ClaimedBy, Over, Recorded
  <2>5. StaleAreDead'
    BY <1>1, <1>6, <2>4 DEF TreeInv, StaleAreDead, Over
  <2>6. KeptByItsChild'
    <3> SUFFICES ASSUME NEW t \in TaskId, Finished(tasks'[t]), tasks'[t].worktree # None
                 PROVE  /\ tasks'[t].worktree \in worktrees'
                        /\ child'[tasks'[t].worktree] \in Recorded
                        /\ \A d \in Caller : tasks'[t].worktree \notin job'[d].stale
      BY DEF KeptByItsChild, Recorded
    <3>1. tasks'[t] = tasks[t] /\ t \notin Dangling(tasks)
      BY <2>1
    <3>2. PICK w \in AgentId : w = tasks[t].worktree
      BY <1>0, <3>1 DEF Task
    <3>3. w \in worktrees /\ child[w] \in Recorded /\ \A d \in Caller : w \notin job[d].stale
      BY <3>1, <3>2 DEF TreeInv, KeptByItsChild, Recorded
    <3>4. taskOf[w] = t
      BY <1>0, <3>1, <3>2, <3>3, NoneIsNotAnId DEF WellOwned, ClaimedBy, Recorded
    <3>5. w \notin Stale
      BY <2>4, <3>1, <3>3, <3>4
    <3>. QED BY <1>1, <1>6, <3>1, <3>2, <3>3, <3>5
  <2>. QED BY <1>4, <2>3, <2>5, <2>6 DEF TreeInv
<1>7. CASE ResetDanglingTasks(c) /\ job' = [job EXCEPT ![c] = [NoJob EXCEPT
               !.stale = Stale, !.todo = IF respawn THEN Dangling(tasks) ELSE {}]]
  <2>1. /\ tasks' = Reset(tasks) /\ job'[c].stale = Stale
        /\ \A d \in Caller : d # c => job'[d] = job[d]
    BY <1>0, <1>7 DEF ResetDanglingTasks, Mutate, NoJob
  <2>. QED BY <1>6, <2>1
<1>. QED BY <1>5, <1>7 DEF Recover

\* and the end of the process.
LEMMA CrashTree ==
  ASSUME OrchInv, OwnInv, TreeInv, Crash
  PROVE  TreeInv'
<1>0. /\ StoreTypeOK /\ file \in Graphs
      /\ child \in [AgentId -> Live \cup {"none", "void", "gone", "dead"}]
  BY DEF OrchInv, StoreInv, StoreTypeOK, OrchTypeOK
<1>1. /\ tasks' = file /\ file' = file /\ abandoned' = {}
      /\ \A f \in Fiber : snap'[f] = EmptyGraph
      /\ \A c \in Caller : at'[c] = "ready" /\ job'[c].stale = {}
      /\ UNCHANGED worktrees
      /\ \A a \in AgentId : child'[a] \notin Live
      /\ \A a \in AgentId : child[a] \in Recorded => child'[a] \in Recorded
  BY <1>0 DEF Crash, Restart, NoJob, Live, Recorded
<1>2. WellOwned(file) /\ FinishedStays(file) /\ ClaimedStays
  BY ClaimsCrash DEF TreeInv, StoreGraphs
<1>3. \A g \in StoreGraphs' : g = file \/ g = EmptyGraph
  BY <1>1 DEF StoreGraphs
<1>4. WellOwned(file)'
  <2>. PICK g : g = file
    OBVIOUS
  <2>1. WellOwned(g)
    BY <1>2
  <2>2. WellOwned(g)'
    BY <1>2, <2>1 DEF WellOwned, ClaimedStays, ClaimedBy
  <2>. QED BY <1>1, <2>2 DEF WellOwned
<1>5. (\A g \in StoreGraphs : WellOwned(g) /\ FinishedStays(g))'
  <2> SUFFICES ASSUME NEW g \in StoreGraphs' PROVE WellOwned(g)' /\ FinishedStays(g)'
    OBVIOUS
  <2>1. CASE g = EmptyGraph
    BY <2>1 DEF EmptyGraph, NoTask, Finished, WellOwned, FinishedStays
  <2>2. CASE g = file
    BY <1>1, <1>4, <2>2 DEF WellOwned, FinishedStays
  <2>. QED BY <1>3, <2>1, <2>2
<1>6. KeptByItsChild'
  <2> SUFFICES ASSUME NEW t \in TaskId, Finished(tasks'[t]), tasks'[t].worktree # None
               PROVE  /\ tasks'[t].worktree \in worktrees'
                      /\ child'[tasks'[t].worktree] \in Recorded
    BY <1>1 DEF KeptByItsChild, Recorded
  <2>1. Finished(tasks[t]) /\ tasks'[t].worktree = tasks[t].worktree
    BY <1>1, <1>2 DEF FinishedStays
  <2>2. PICK w \in AgentId : w = tasks[t].worktree
    BY <1>0, <2>1 DEF StoreTypeOK, Graphs, Task
  <2>. QED BY <1>1, <2>1, <2>2 DEF TreeInv, KeptByItsChild, Recorded
<1>7. StaleAreDead' /\ Stages'
  BY <1>1 DEF StaleAreDead, Stages, Live
<1>. QED BY <1>5, <1>6, <1>7 DEF TreeInv

\* So does every step.
LEMMA NextTree ==
  TaskUpdateKeeps /\ OrchInv /\ Drawn /\ OwnInv /\ TreeInv /\ [OrchNext]_allVars => TreeInv'
<1> SUFFICES ASSUME OwnersKept, StatusKept, OrchInv, Drawn, OwnInv, TreeInv,
                    [OrchNext]_allVars
             PROVE  TreeInv'
  BY DEF TaskUpdateKeeps
<1>0. /\ job \in [Caller -> Job]
      /\ at \in [Caller -> {"ready", "worktree", "claiming", "undo", "writing", "resetting"}]
      /\ \A c \in Caller : at[c] \in {"ready", "resetting"} => job[c].agent = None
  BY DEF OrchInv, OrchTypeOK, Job, Drawn
<1>1. GraphsAre
  BY NextKept, StoreWrites DEF OrchInv, StoreInv
<1>2. ASSUME UNCHANGED <<tasks, at, job, child, taskOf, worktrees>> PROVE TreeInv'
  <2>1. ClaimedStays
    BY <1>2, ClaimsStay
  <2>2. /\ \A b \in AgentId : StaysOrWorks(b)
        /\ \A d \in Caller : StaysOrClaims(d)
    BY <1>2 DEF StaysOrWorks, StaysOrClaims
  <2>. QED BY <1>1, <1>2, <2>1, <2>2, TreeStays
<1>3. ASSUME NEW c \in Caller, RemoveStale(c) \/ RecoveryStops(c) PROVE TreeInv'
  <2>1. /\ UNCHANGED <<tasks, child, taskOf>> /\ at[c] \in {"ready", "resetting"}
        /\ at'[c] = "ready" /\ job'[c].agent = None /\ job'[c].stale = {}
        /\ \A d \in Caller : d # c => job'[d] = job[d] /\ at'[d] = at[d]
        /\ worktrees' = worktrees \/ worktrees' = worktrees \ job[c].stale
    BY <1>0, <1>3 DEF RemoveStale, RecoveryStops, Return, storeVars, Go, NoJob
  <2>2. \A d \in Caller : job[d].agent # None => d # c
    BY <1>0, <2>1
  <2>3. ClaimedStays
    BY <2>1, <2>2, ClaimsStay
  <2>4. /\ \A b \in AgentId : StaysOrWorks(b)
        /\ \A d \in Caller : StaysOrClaims(d)
        /\ \A d \in Caller : job'[d].stale \subseteq job[d].stale
    BY <2>1 DEF StaysOrWorks, StaysOrClaims
  <2>. QED BY <1>1, <2>1, <2>3, <2>4, TreeStays
<1>4. ASSUME NEW f \in Fiber, Persist(f) PROVE TreeInv'
  BY <1>2, <1>4 DEF Persist, orchVars, PersistStep, TakeLock, WriteTemp, Rename, PersistFails
<1>5. CASE RenameLands \/ InterruptAll \/ UNCHANGED allVars
  BY <1>2, <1>5 DEF RenameLands, InterruptAll, allVars, orchVars, storeVars,
                    AbandonedRenameLands
<1>6. ASSUME NEW c \in Caller, RecoverStep(c) PROVE TreeInv'
  BY <1>1, <1>3, <1>6, RecoverTree DEF RecoverStep
<1>7. ASSUME NEW c \in Caller, SpawnStep(c) \/ ParentStep(c) PROVE TreeInv'
  BY <1>1, <1>7, SpawnStepTree, ParentStepTree
<1>8. ASSUME NEW a \in AgentId, ChildStep(a) \/ Defect(a) \/ InterruptChild(a) PROVE TreeInv'
  BY <1>1, <1>8, ChildTree
<1>9. CASE Crash
  BY <1>9, CrashTree
<1>. QED BY <1>4, <1>5, <1>6, <1>7, <1>8, <1>9 DEF OrchNext

\* It holds at the start.
LEMMA InitTree == OrchInit => TreeInv
<1> SUFFICES ASSUME OrchInit PROVE TreeInv
  OBVIOUS
<1>1. \A g \in StoreGraphs : g = EmptyGraph
  BY DEF OrchInit, StoreInit, StoreGraphs
<1>2. tasks = EmptyGraph
  BY DEF OrchInit, StoreInit
<1>3. \A g \in StoreGraphs : WellOwned(g) /\ FinishedStays(g)
  BY <1>1 DEF EmptyGraph, NoTask, Finished, WellOwned, FinishedStays
<1>4. KeptByItsChild
  BY <1>2 DEF EmptyGraph, NoTask, Finished, KeptByItsChild
<1>5. StaleAreDead /\ Stages
  BY DEF OrchInit, NoJob, StaleAreDead, Stages
<1>. QED BY <1>3, <1>4, <1>5 DEF TreeInv

\* Tasks in every graph, in memory or on its way to the file, have the owners
\* and worktrees that TreeInv gives them.
LEMMA TreeInvariant ==
  ~RacingRecovery /\ TaskUpdateKeeps => (OrchSpec => [](OwnInv /\ TreeInv))
<1> SUFFICES ASSUME ~RacingRecovery, TaskUpdateKeeps PROVE OrchSpec => [](OwnInv /\ TreeInv)
  OBVIOUS
<1>1. OrchInv /\ Drawn /\ OwnInv /\ TreeInv /\ [OrchNext]_allVars => TreeInv'
  BY NextTree
<1>2. ~RacingRecovery /\ OwnersKept
  BY DEF TaskUpdateKeeps
<1>3. OrchSpec => []OwnInv
  BY <1>2, OwnInvariant
<1>. QED BY <1>1, <1>3, InitTree, OrchInvariant, DrawnInvariant, PTL DEF OrchSpec

\* A child that lives owns the task it works on, and the task is in progress
\* until the child itself records its outcome (claimTask and the finalizer,
\* orchestrator.ts), as long as TaskUpdate leaves owners and statuses alone.
THEOREM LiveChildrenOwn ==
  ~RacingRecovery /\ TaskUpdateKeeps => (OrchSpec => []LiveOwnsItsTask)
<1> SUFFICES ASSUME ~RacingRecovery, TaskUpdateKeeps PROVE OrchSpec => []LiveOwnsItsTask
  OBVIOUS
<1>1. OwnInv /\ TreeInv => LiveOwnsItsTask
  BY DEF OwnInv, Owns, TreeInv, Stages, LiveOwnsItsTask, Live
<1>. QED BY <1>1, TreeInvariant, PTL

\* A finished task names a worktree only while it is on disk, in memory and in the
\* file a restart reads: neither the cleanup of its own child nor removeTaskWorktrees
\* takes away what was recorded as kept.
THEOREM KeptWorktreesExist ==
  ~RacingRecovery /\ TaskUpdateKeeps => (OrchSpec => []FinishedWorktreeExists)
<1> SUFFICES ASSUME ~RacingRecovery, TaskUpdateKeeps PROVE OrchSpec => []FinishedWorktreeExists
  OBVIOUS
<1>1. TreeInv => FinishedWorktreeExists
  BY DEF TreeInv, StoreGraphs, FinishedStays, KeptByItsChild, Finished, FinishedWorktreeExists
<1>. QED BY <1>1, TreeInvariant, PTL

-----------------------------------------------------------------------------
(* The results owed to the parent.                                         *)

Newest == [graph |-> tasks, rev |-> rev]

CarriedAre == Carried' \subseteq Carried \cup {Newest}

\* A step of the store carries on what was carried, or memory as it is.
LEMMA StoreCarries == StoreTypeOK /\ StoreStep => CarriedAre
<1> SUFFICES ASSUME StoreTypeOK, StoreStep, NEW r \in Carried'
             PROVE  r \in Carried \cup {Newest}
  BY DEF CarriedAre
<1>0. /\ \/ r = [graph |-> file', rev |-> fileRev']
         \/ \E f \in Fiber : /\ io'[f] \in {"writing", "renaming"}
                             /\ r = [graph |-> snap'[f], rev |-> snapRev'[f]]
         \/ r \in abandoned'
      /\ [graph |-> file, rev |-> fileRev] \in Carried
      /\ \A f \in Fiber : io[f] \in {"writing", "renaming"} =>
             [graph |-> snap[f], rev |-> snapRev[f]] \in Carried
      /\ abandoned \subseteq Carried
  BY DEF Carried
<1>1. /\ snap \in [Fiber -> Graphs] /\ snapRev \in [Fiber -> Nat] /\ io \in [Fiber -> IoState]
      /\ abandoned \subseteq [graph : Graphs, rev : Nat]
  BY DEF StoreTypeOK
<1>2. ASSUME UNCHANGED <<file, fileRev, snap, snapRev, abandoned>>,
             \A f \in Fiber : io'[f] \in {"writing", "renaming"} =>
                 io[f] \in {"writing", "renaming"}
      PROVE  r \in Carried \cup {Newest}
  BY <1>0, <1>2
<1>3. ASSUME NEW f \in Fiber, Operation(f) PROVE r \in Carried \cup {Newest}
  <2>1. /\ UNCHANGED <<file, fileRev, snap, snapRev, abandoned>>
        /\ io' = [io EXCEPT ![f] = "queued"]
    BY <1>3 DEF Operation, CreateTask, UpdateTask, ClaimNewTask, ClaimTask, CompleteTask,
                FailTask, MarkParentNotified, ResetDanglingTasks, Mutate
  <2>. QED BY <1>1, <1>2, <2>1
<1>4. ASSUME NEW f \in Fiber, TakeLock(f) PROVE r \in Carried \cup {Newest}
  BY <1>0, <1>1, <1>4 DEF TakeLock, Snapshot, Newest
<1>5. ASSUME NEW f \in Fiber, Rename(f) PROVE r \in Carried \cup {Newest}
  BY <1>0, <1>1, <1>5 DEF Rename, Forget
<1>6. ASSUME NEW f \in Fiber, PersistFails(f) PROVE r \in Carried \cup {Newest}
  BY <1>0, <1>1, <1>6 DEF PersistFails, Forget
<1>7. ASSUME NEW f \in Fiber, Interrupt(f) PROVE r \in Carried \cup {Newest}
  <2>1. \A s \in abandoned' : \/ s \in abandoned
                              \/ /\ io[f] = "renaming"
                                 /\ s = [graph |-> snap[f], rev |-> snapRev[f]]
    BY <1>7 DEF Interrupt
  <2>. QED BY <1>0, <1>1, <1>7, <2>1 DEF Interrupt, Forget
<1>8. CASE AbandonedRenameLands
  BY <1>0, <1>1, <1>8 DEF AbandonedRenameLands
<1>9. CASE Restart
  BY <1>0, <1>9 DEF Restart
<1>10. ASSUME NEW f \in Fiber, WriteTemp(f) \/ Return(f) PROVE r \in Carried \cup {Newest}
  <2>1. UNCHANGED <<file, fileRev, snap, snapRev, abandoned>>
    BY <1>10 DEF WriteTemp, Return
  <2>2. \A g \in Fiber : io'[g] \in {"writing", "renaming"} => io[g] \in {"writing", "renaming"}
    BY <1>1, <1>10 DEF WriteTemp, Return
  <2>. QED BY <1>2, <2>1, <2>2
<1>11. CASE UNCHANGED storeVars
  BY <1>2, <1>11 DEF storeVars
<1>. QED BY <1>3, <1>4, <1>5, <1>6, <1>7, <1>8, <1>9, <1>10, <1>11
         DEF StoreStep, StoreNext, PersistStep

\* What is still to be told stays so.
TellsStay == \A a \in AgentId : Tells(tasks, a) => Tells(tasks', a)

\* A step of others, as an agent sees it.
Bystander(a) ==
    owed'[a] # "no" =>
        /\ owed'[a] = owed[a] /\ taskOf'[a] = taskOf[a]
        /\ child[a] \in Recorded => child'[a] \in Recorded
        /\ child'[a] = "recording" => child[a] = "recording" /\ need'[a] = need[a]

\* What an agent is owed stays owed in a step that leaves the agent alone, drops
\* no record that was carried, and tells of no result.
LEMMA OwedKept ==
  ASSUME StoreInv, CarriedAre, TellsStay, NEW a \in AgentId, Owes(a), Bystander(a)
  PROVE  Owes(a)'
<1> SUFFICES ASSUME owed'[a] # "no" PROVE Owes(a)'
  BY DEF Owes
<1>1. /\ owed'[a] = owed[a] /\ taskOf'[a] = taskOf[a]
      /\ child[a] \in Recorded => child'[a] \in Recorded
      /\ child'[a] = "recording" => child[a] = "recording" /\ need'[a] = need[a]
  BY DEF Bystander
<1>2. Tells(tasks, a) /\ Tells(tasks', a) /\ child[a] \in Recorded
  BY <1>1 DEF Owes, TellsStay, Recorded
<1>3. ASSUME NEW r \in Carried', 
             \/ owed'[a] = "announced"
             \/ owed'[a] = "recorded" /\ child'[a] = "recording" /\ r.rev >= need'[a]
      PROVE  Tells(r.graph, a)
  BY <1>1, <1>2, <1>3 DEF CarriedAre, Owes, Newest
<1>. QED BY <1>1, <1>2, <1>3 DEF Owes, Tells, Recorded

\* A gentle step that marks no task leaves every result to be told.
LEMMA QuietlyTells ==
  ASSUME \A t \in TaskId : Gentle(t), \A t \in TaskId : tasks'[t].notified => tasks[t].notified
  PROVE  TellsStay
  BY DEF TellsStay, Tells, Untold, Gentle, Same

\* So does a reset.
LEMMA ResetTells ==
  ASSUME StoreTypeOK, tasks' = Reset(tasks)
  PROVE  TellsStay
<1>1. \A t \in TaskId : Untold(tasks[t]) => tasks'[t] = tasks[t]
  BY DEF Reset, Dangling, Untold
<1>. QED BY <1>1 DEF TellsStay, Tells

\* So does a claim.
LEMMA ClaimTells ==
  ASSUME StoreTypeOK, WellOwned(tasks), NEW c \in Caller, NEW j \in Job, Claim(c, j),
         j.agent \in AgentId
  PROVE  TellsStay /\ \A a \in AgentId : need'[a] = need[a]
<1>1. PICK t \in TaskId : \/ ClaimNewTask(c, t, j.agent, j.type, WorktreeOf(j.type, j.agent))
                          \/ ClaimTask(c, t, j.agent, j.type, WorktreeOf(j.type, j.agent))
  BY DEF Claim, ClaimTask, Claimable, Known
<1>2. TellsStay
  BY <1>1, ClaimIsGentle, QuietlyTells
<1>3. need' = [need EXCEPT ![c] = rev + 1]
  BY <1>1 DEF ClaimNewTask, ClaimTask, Mutate
<1>. QED BY <1>2, <1>3, OrchestratorAssumption DEF StoreTypeOK

\* A spawn writes no outcome; the child it registers owes nothing yet.
LEMMA SpawnOwes ==
  ASSUME OrchInv, Drawn, OwnInv, TreeInv, CarriedAre, OwedInv, NEW c \in Caller, SpawnStep(c)
  PROVE  OwedInv'
<1>0. /\ StoreInv /\ StoreTypeOK /\ OrchTypeOK /\ SpawnHasAgent /\ WellOwned(tasks)
      /\ job \in [Caller -> Job] /\ need \in [Fiber -> Nat]
      /\ child \in [AgentId -> Live \cup {"none", "void", "gone", "dead"}]
      /\ taskOf \in [AgentId -> TaskId \cup {None}]
      /\ \A a \in AgentId : a # c
  BY OrchestratorAssumption DEF OrchInv, OrchTypeOK, StoreInv, StoreTypeOK, Job, TreeInv, StoreGraphs
<1>1. UNCHANGED tasks => TellsStay
  BY DEF TellsStay
<1>2. ASSUME TellsStay, \A a \in AgentId : need'[a] = need[a], UNCHANGED owed,
             NEW b \in AgentId, child[b] = "none",
             \A a \in AgentId : a # b => child'[a] = child[a] /\ taskOf'[a] = taskOf[a]
      PROVE  OwedInv'
  <2>1. owed[b] = "no"
    BY <1>2 DEF OwedInv, Owes
  <2>2. \A a \in AgentId : Bystander(a)
    BY <1>2, <2>1 DEF Bystander
  <2>. QED BY <1>0, <1>2, <2>2, OwedKept DEF OwedInv
<1>3. ASSUME TellsStay, \A a \in AgentId : need'[a] = need[a], UNCHANGED <<owed, child, taskOf>>
      PROVE  OwedInv'
  <2>2. \A a \in AgentId : Bystander(a)
    BY <1>3 DEF Bystander
  <2>. QED BY <1>0, <1>3, <2>2, OwedKept DEF OwedInv
<1>4. at[c] \in Placed => job[c].agent \in AgentId /\ child[job[c].agent] = "none"
  BY <1>0, NoneIsNotAnId DEF Drawn, SpawnHasAgent, Placed
<1>5. ASSUME NEW a \in AgentId, NEW type \in Types, NEW t \in TaskId \cup {NoTaskId},
             Spawn(c, a, type, t)
      PROVE  OwedInv'
  <2> DEFINE j == [job[c] EXCEPT !.agent = a, !.task = t, !.type = type, !.todo = @ \ {t}]
  <2>0. /\ UNCHANGED <<owed, child, taskOf>>
        /\ t \in TaskId \cup {None} /\ type \in AgentType /\ job[c] \in Job
    BY <1>0, <1>5, OrchestratorAssumption DEF Spawn, NoTaskId
  <2>1. j \in Job /\ j.agent = a
    BY <2>0 DEF Job
  <2>2. UNCHANGED storeVars \/ Claim(c, j)
    BY <1>5 DEF Spawn
  <2>. HIDE DEF j
  <2>3. CASE UNCHANGED storeVars
    BY <1>1, <1>3, <2>0, <2>3 DEF storeVars
  <2>4. CASE Claim(c, j)
    BY <1>0, <1>3, <2>0, <2>1, <2>4, ClaimTells
  <2>. QED BY <2>2, <2>3, <2>4
<1>6. CASE WorktreeReady(c)
  <2>0. UNCHANGED <<owed, child, taskOf>> /\ job[c] \in Job /\ job[c].agent \in AgentId
    BY <1>0, <1>6 DEF WorktreeReady, SpawnHasAgent
  <2>1. CASE UNCHANGED storeVars
    BY <1>1, <1>3, <2>0, <2>1 DEF storeVars
  <2>2. CASE Claim(c, job[c])
    BY <1>0, <1>3, <2>0, <2>2, ClaimTells
  <2>. QED BY <1>6, <2>1, <2>2 DEF WorktreeReady
<1>7. CASE Register(c)
  <2> DEFINE b == job[c].agent
  <2>1. /\ b \in AgentId /\ child[b] = "none" /\ UNCHANGED <<tasks, owed>>
        /\ child' = [child EXCEPT ![b] = "running"]
        /\ taskOf' = [taskOf EXCEPT ![b] = job[c].task]
        /\ need' = [need EXCEPT ![c] = 0]
    BY <1>4, <1>7 DEF Register, Return, Placed
  <2>. HIDE DEF b
  <2>2. \A a \in AgentId : need'[a] = need[a]
    BY <1>0, <2>1
  <2>3. \A a \in AgentId : a # b => child'[a] = child[a] /\ taskOf'[a] = taskOf[a]
    BY <1>0, <2>1
  <2>. QED BY <1>1, <1>2, <2>1, <2>2, <2>3
<1>8. ASSUME GiveUpSpawn(c), at[c] \in Placed, UNCHANGED <<taskOf, tasks, owed>>,
             need' = need \/ need' = [need EXCEPT ![c] = 0]
      PROVE  OwedInv'
  <2> DEFINE b == job[c].agent
  <2>1. b \in AgentId /\ child[b] = "none" /\ child' = [child EXCEPT ![b] = "void"]
    BY <1>4, <1>8 DEF GiveUpSpawn
  <2>. HIDE DEF b
  <2>2. \A a \in AgentId : need'[a] = need[a]
    BY <1>0, <1>8, FibersAre
  <2>3. \A a \in AgentId : a # b => child'[a] = child[a] /\ taskOf'[a] = taskOf[a]
    BY <1>0, <1>8, <2>1
  <2>. QED BY <1>1, <1>2, <1>8, <2>1, <2>2, <2>3
<1>9. CASE ClaimFails(c)
  <2>1. /\ UNCHANGED <<tasks, taskOf, owed>> /\ need' = [need EXCEPT ![c] = 0]
        /\ at[c] \in Placed
    BY <1>9 DEF ClaimFails, Return, Placed
  <2>2. CASE UNCHANGED child
    BY <1>0, <1>1, <1>3, <2>1, <2>2
  <2>. QED BY <1>8, <1>9, <2>1, <2>2 DEF ClaimFails
<1>10. CASE WorktreeFails(c) \/ (\E kept \in BOOLEAN : UndoWorktree(c, kept)) \/ InterruptCaller(c)
  <2>1. /\ GiveUpSpawn(c) /\ at[c] \in Placed /\ UNCHANGED <<taskOf, tasks, owed>>
        /\ need' = need \/ need' = [need EXCEPT ![c] = 0]
    BY <1>10 DEF WorktreeFails, UndoWorktree, InterruptCaller, Interrupt, storeVars, Placed
  <2>. QED BY <1>8, <2>1
<1>. QED BY <1>5, <1>6, <1>7, <1>9, <1>10 DEF SpawnStep

\* The steps of the parent keep what is owed.
LEMMA ParentOwes ==
  ASSUME OwnersKept, StatusKept, OrchInv, TreeInv, CarriedAre, OwedInv,
         NEW c \in Caller, ParentStep(c) \/ RecoverStep(c)
  PROVE  OwedInv'
<1>0. /\ StoreInv /\ StoreTypeOK /\ WellOwned(tasks) /\ need \in [Fiber -> Nat]
      /\ \A a \in AgentId : a # c
      /\ owed \in [AgentId -> {"no", "recorded", "announced"}]
  BY OrchestratorAssumption DEF OrchInv, OrchTypeOK, StoreInv, StoreTypeOK, TreeInv, StoreGraphs
<1>1. UNCHANGED tasks => TellsStay
  BY DEF TellsStay
<1>2. ASSUME TellsStay, need' = need \/ (\E n : need' = [need EXCEPT ![c] = n]),
             UNCHANGED <<owed, child, taskOf>>
      PROVE  OwedInv'
  <2>0. \A a \in AgentId : need'[a] = need[a]
    BY <1>0, <1>2, FibersAre
  <2>1. \A a \in AgentId : Bystander(a)
    BY <1>2, <2>0 DEF Bystander
  <2>. QED BY <1>0, <1>2, <2>1, OwedKept DEF OwedInv
<1>3. CASE TaskTool(c)
  <2>1. PICK t \in TaskId : \/ \E deps : CreateTask(c, t, deps)
                            \/ \E p \in Patches : UpdateTask(c, t, p)
    BY <1>3 DEF TaskTool
  <2>2. TellsStay
    BY <1>0, <2>1, ToolIsGentle, QuietlyTells
  <2>3. need' = [need EXCEPT ![c] = rev + 1]
    BY <2>1 DEF CreateTask, UpdateTask, Mutate
  <2>. QED BY <1>2, <1>3, <2>2, <2>3 DEF TaskTool
<1>4. CASE TellParent(c)
  <2>1. \A a \in AgentId : owed'[a] = "no"
    <3>1. ASSUME NEW a \in AgentId, owed[a] # "no"
          PROVE  taskOf[a] \in PendingParentNotifications(tasks)
      BY <3>1 DEF OwedInv, Owes, Tells, PendingParentNotifications
    <3>. QED BY <1>4, <3>1 DEF TellParent
  <2>. QED BY <2>1 DEF OwedInv, Owes
<1>5. CASE Written(c)
  <2>1. need' = [need EXCEPT ![c] = 0] /\ UNCHANGED <<tasks, owed, child, taskOf>>
    BY <1>5 DEF Written, Return
  <2>. QED BY <1>1, <1>2, <2>1
<1>6. ASSUME NEW respawn \in BOOLEAN, Recover(c, respawn) PROVE OwedInv'
  <2>1. UNCHANGED <<owed, child, taskOf>>
    BY <1>6 DEF Recover
  <2>2. CASE ResetDanglingTasks(c)
    <3>1. tasks' = Reset(tasks) /\ need' = [need EXCEPT ![c] = rev + 1]
      BY <2>2 DEF ResetDanglingTasks, Mutate
    <3>2. TellsStay
      BY <1>0, <3>1, ResetTells
    <3>. QED BY <1>2, <2>1, <3>1, <3>2
  <2>3. CASE UNCHANGED storeVars
    BY <1>1, <1>2, <2>1, <2>3 DEF storeVars
  <2>. QED BY <1>6, <2>2, <2>3 DEF Recover
<1>7. CASE RemoveStale(c)
  <2>1. need' = [need EXCEPT ![c] = 0] /\ UNCHANGED <<tasks, owed, child, taskOf>>
    BY <1>7 DEF RemoveStale, Return
  <2>. QED BY <1>1, <1>2, <2>1
<1>8. CASE RecoveryStops(c)
  <2>1. UNCHANGED <<tasks, need, owed, child, taskOf>>
    BY <1>8 DEF RecoveryStops, storeVars
  <2>. QED BY <1>1, <1>2, <2>1
<1>. QED BY <1>3, <1>4, <1>5, <1>6, <1>7, <1>8 DEF ParentStep, RecoverStep

\* A child records its outcome, rings once it is acknowledged, or ends.
LEMMA ChildOwes ==
  ASSUME OrchInv, Drawn, OwnInv, TreeInv, OrderInv, CarriedAre, OwedInv, NEW a \in AgentId,
         ChildStep(a) \/ Defect(a) \/ InterruptChild(a)
  PROVE  OwedInv'
<1>0. /\ StoreInv /\ StoreTypeOK /\ WellOwned(tasks) /\ need \in [Fiber -> Nat]
      /\ \A t \in TaskId : tasks[t] \in Task
      /\ child \in [AgentId -> Live \cup {"none", "void", "gone", "dead"}]
      /\ owed \in [AgentId -> {"no", "recorded", "announced"}]
      /\ \A b \in AgentId : b \in Fiber
  BY FibersAre DEF OrchInv, OrchTypeOK, StoreInv, StoreTypeOK, Graphs, TreeInv, StoreGraphs
<1>1. UNCHANGED tasks => TellsStay
  BY DEF TellsStay
<1>2. ASSUME UNCHANGED <<tasks, owed, taskOf>>, NEW place \in {"cleaning", "gone", "dead"},
             child' = [child EXCEPT ![a] = place] \/ child' = child,
             place = "cleaning" => child[a] = "running",
             need' = need \/ (need' = [need EXCEPT ![a] = 0] /\ child'[a] # "recording")
      PROVE  OwedInv'
  <2>1. \A b \in AgentId : Bystander(b)
    BY <1>0, <1>2 DEF Bystander, Recorded
  <2>. QED BY <1>0, <1>1, <1>2, <2>1, OwedKept DEF OwedInv
<1>3. ASSUME NEW wt, Record(a, wt), child[a] \in {"running", "cleaning"}, UNCHANGED taskOf
      PROVE  OwedInv'
  <2>1. PICK t \in TaskId : t = taskOf[a] /\ tasks[t].owner = a /\ tasks[t].status = "in_progress"
    BY <1>3 DEF OwnInv, Owns, Live, TreeInv, Stages
  <2>2. /\ child' = [child EXCEPT ![a] = "recording"]
        /\ owed' = [owed EXCEPT ![a] = "recorded"]
        /\ need' = [need EXCEPT ![a] = rev + 1]
        /\ \E task \in {Completed(tasks[t], a, wt), Failed(tasks[t], a, wt)} :
              tasks' = [tasks EXCEPT ![t] = task]
        /\ UNCHANGED <<file, fileRev, snap, snapRev, abandoned>>
        /\ io' = [io EXCEPT ![a] = "queued"] /\ io[a] = "idle"
    BY <1>3, <2>1 DEF Record, CompleteTask, FailTask, Mutate
  <2>3. PICK task \in {Completed(tasks[t], a, wt), Failed(tasks[t], a, wt)} :
            tasks' = [tasks EXCEPT ![t] = task]
    BY <2>2
  <2>4. ~tasks[t].notified /\ a # None
    BY <1>0, <2>1, NoneIsNotAnId DEF WellOwned, Finished
  <2>5. Untold(task) /\ task.owner = a
    BY <1>0, <2>1, <2>4 DEF Completed, Failed, Task, Untold
  <2>6. /\ tasks'[t] = task /\ taskOf'[a] = t
        /\ \A u \in TaskId : u # t => tasks'[u] = tasks[u]
    BY <1>0, <1>3, <2>1, <2>3 DEF StoreTypeOK, Graphs
  <2>7. TellsStay
    BY <2>1, <2>6 DEF TellsStay, Tells, Untold
  <2>8. ASSUME NEW b \in AgentId, b # a PROVE Owes(b)'
    <3>1. Bystander(b)
      BY <1>0, <1>3, <2>2, <2>8 DEF Bystander
    <3>. QED BY <1>0, <2>7, <3>1, OwedKept DEF OwedInv
  <2>9. Carried' \subseteq Carried
    <3>1. io \in [Fiber -> IoState]
      BY <1>0 DEF StoreTypeOK
    <3>2. \A f \in Fiber : io'[f] \in {"writing", "renaming"} => io[f] \in {"writing", "renaming"}
      BY <1>0, <2>2, <3>1
    <3>. QED BY <2>2, <3>2 DEF Carried
  <2>10. \A r \in Carried : r.rev \in Nat /\ r.rev <= rev
    BY <1>0 DEF Carried, StoreInv, StoreTypeOK, Numbered, Writing
  <2>11. need'[a] = rev + 1 /\ owed'[a] = "recorded" /\ child'[a] = "recording" /\ rev \in Nat
    BY <1>0, <2>2 DEF StoreTypeOK
  <2>12. \A r \in Carried' : ~(r.rev >= need'[a])
    BY <2>9, <2>10, <2>11
  <2>13. Tells(tasks, a)'
    BY <2>5, <2>6 DEF Tells
  <2>14. Owes(a)'
    BY <2>11, <2>12, <2>13 DEF Owes
  <2>. QED BY <2>8, <2>14 DEF OwedInv
<1>4. CASE RunEnds(a)
  <2>1. CASE child' = [child EXCEPT ![a] = "cleaning"] /\ UNCHANGED <<storeVars, owed>>
    <3>1. UNCHANGED <<tasks, owed, taskOf, need>> /\ child[a] = "running"
      BY <1>4, <2>1 DEF RunEnds, storeVars
    <3>. QED BY <1>2, <2>1, <3>1
  <2>. QED BY <1>3, <1>4, <2>1 DEF RunEnds
<1>5. ASSUME NEW kept \in BOOLEAN, CleanupEnds(a, kept) PROVE OwedInv'
  BY <1>3, <1>5 DEF CleanupEnds
<1>6. CASE Ring(a)
  <2>1. /\ child' = [child EXCEPT ![a] = "gone"] /\ UNCHANGED <<tasks, taskOf>>
        /\ need' = [need EXCEPT ![a] = 0] /\ child[a] = "recording"
        /\ owed' = [owed EXCEPT ![a] = IF owed[a] = "recorded" /\ io[a] = "ok"
                                       THEN "announced" ELSE owed[a]]
        /\ UNCHANGED <<file, fileRev, snap, snapRev, abandoned>>
        /\ io' = [io EXCEPT ![a] = "idle"]
    BY <1>6 DEF Ring, Return
  <2>2. ASSUME NEW b \in AgentId, b # a PROVE Owes(b)'
    <3>1. Bystander(b)
      BY <1>0, <2>1, <2>2 DEF Bystander
    <3>. QED BY <1>0, <1>1, <2>1, <3>1, OwedKept DEF OwedInv
  <2>3. CASE owed'[a] = owed[a]
    <3>1. Bystander(a)
      BY <1>0, <2>1, <2>3 DEF Bystander, Recorded
    <3>2. Owes(a)'
      BY <1>0, <1>1, <2>1, <3>1, OwedKept DEF OwedInv
    <3>. QED BY <2>2, <3>2 DEF OwedInv
  <2>4. CASE owed'[a] # owed[a]
    <3>1. owed[a] = "recorded" /\ io[a] = "ok" /\ owed'[a] = "announced" /\ child'[a] = "gone"
      BY <1>0, <2>1, <2>4
    <3>2. Carried' \subseteq Carried
      <4>1. io \in [Fiber -> IoState]
        BY <1>0 DEF StoreTypeOK
      <4>2. \A f \in Fiber : io'[f] \in {"writing", "renaming"} => io[f] \in {"writing", "renaming"}
        BY <1>0, <2>1, <4>1
      <4>. QED BY <2>1, <4>2 DEF Carried
    <3>3. \A r \in Carried : r.rev \in Nat /\ fileRev <= r.rev
      BY <1>0 DEF Carried, StoreTypeOK, OrderInv, Forward, Writing
    <3>4. need[a] <= fileRev /\ need[a] \in Nat /\ fileRev \in Nat
      BY <1>0, <3>1 DEF OrderInv, Forward, StoreTypeOK
    <3>5. \A r \in Carried : r.rev >= need[a]
      BY <3>3, <3>4
    <3>6. \A r \in Carried : Tells(r.graph, a)
      BY <2>1, <3>1, <3>5 DEF OwedInv, Owes
    <3>7. Tells(tasks, a)
      BY <3>1 DEF OwedInv, Owes
    <3>8. Owes(a)'
      BY <2>1, <3>1, <3>2, <3>6, <3>7 DEF Owes, Tells
    <3>. QED BY <2>2, <3>8 DEF OwedInv
  <2>. QED BY <2>3, <2>4
<1>7. CASE Defect(a)
  BY <1>2, <1>7 DEF Defect, storeVars
<1>8. CASE InterruptChild(a)
  <2>1. UNCHANGED <<tasks, owed, taskOf>> /\ (need' = need \/ need' = [need EXCEPT ![a] = 0])
    BY <1>8 DEF InterruptChild, Interrupt, storeVars
  <2>2. child' = [child EXCEPT ![a] = "dead"] \/ child' = child
    BY <1>0, <1>8 DEF InterruptChild
  <2>3. child'[a] # "recording"
    BY <1>0, <1>8 DEF InterruptChild, Live
  <2>. QED BY <1>2, <2>1, <2>2, <2>3
<1>. QED BY <1>4, <1>5, <1>6, <1>7, <1>8 DEF ChildStep

\* So does every step.
LEMMA NextOwed ==
  TaskUpdateKeeps /\ OrchInv /\ Drawn /\ OwnInv /\ TreeInv /\ OrderInv /\ OwedInv
      /\ [OrchNext]_allVars => OwedInv'
<1> SUFFICES ASSUME OwnersKept, StatusKept, OrchInv, Drawn, OwnInv, TreeInv, OrderInv,
                    OwedInv, [OrchNext]_allVars
             PROVE  OwedInv'
  BY DEF TaskUpdateKeeps
<1>0. /\ StoreInv /\ StoreTypeOK /\ owed \in [AgentId -> {"no", "recorded", "announced"}]
      /\ child \in [AgentId -> Live \cup {"none", "void", "gone", "dead"}]
  BY DEF OrchInv, StoreInv, OrchTypeOK
<1>1. CarriedAre
  BY <1>0, NextKept, StoreCarries
<1>2. ASSUME UNCHANGED <<tasks, need, owed, child, taskOf>> PROVE OwedInv'
  <2>1. TellsStay /\ \A a \in AgentId : Bystander(a)
    BY <1>2 DEF TellsStay, Bystander
  <2>. QED BY <1>0, <1>1, <2>1, OwedKept DEF OwedInv
<1>3. ASSUME NEW f \in Fiber, Persist(f) PROVE OwedInv'
  BY <1>2, <1>3 DEF Persist, orchVars, PersistStep, TakeLock, WriteTemp, Rename, PersistFails
<1>4. CASE RenameLands \/ InterruptAll \/ UNCHANGED allVars
  BY <1>2, <1>4 DEF RenameLands, InterruptAll, allVars, orchVars, storeVars,
                    AbandonedRenameLands
<1>5. CASE Crash
  <2>1. /\ tasks' = file /\ Carried' = {[graph |-> file, rev |-> fileRev]}
        /\ UNCHANGED taskOf
    BY <1>5 DEF Crash, Restart, Carried
  <2>2. ASSUME NEW a \in AgentId PROVE Owes(a)'
    <3>1. owed'[a] \in {"no", "announced"} /\ (owed'[a] = "announced" => owed[a] = "announced")
      BY <1>0, <1>5 DEF Crash
    <3>2. CASE owed[a] = "announced"
      <4>1. [graph |-> file, rev |-> fileRev] \in Carried
        BY DEF Carried
      <4>2. Tells(file, a) /\ child[a] \in Recorded
        BY <3>2, <4>1 DEF OwedInv, Owes, Recorded
      <4>3. child'[a] \in Recorded
        BY <1>5, <4>2 DEF Crash, Recorded, Live
      <4>. QED BY <2>1, <4>2, <4>3 DEF Owes, Tells, Recorded
    <3>3. CASE owed[a] # "announced"
      BY <3>1, <3>3 DEF Owes
    <3>. QED BY <3>2, <3>3
  <2>. QED BY <2>2 DEF OwedInv
<1>6. ASSUME NEW c \in Caller, SpawnStep(c) \/ ParentStep(c) \/ RecoverStep(c) PROVE OwedInv'
  BY <1>1, <1>6, SpawnOwes, ParentOwes
<1>7. ASSUME NEW a \in AgentId, ChildStep(a) \/ Defect(a) \/ InterruptChild(a) PROVE OwedInv'
  BY <1>1, <1>7, ChildOwes
<1>. QED BY <1>3, <1>4, <1>5, <1>6, <1>7 DEF OrchNext

\* Nothing is owed at the start.
LEMMA InitOwed == OrchInit => OwedInv
  BY DEF OrchInit, OwedInv, Owes

\* A result a child recorded is there for the parent until it was told, and once
\* its record was acknowledged through every crash, reset and concurrent write:
\* neither a claim, a patch, another child's record nor the file a restart reads
\* loses it (persist and markParentNotified, tasks.ts), as long as no writer
\* overtakes the rename of an interrupted fiber.
THEOREM ResultsAreKept ==
  ~RacingRecovery /\ TaskUpdateKeeps /\ ~LateRenames => (OrchSpec => []ResultsStayPending)
<1> SUFFICES ASSUME ~RacingRecovery, TaskUpdateKeeps, ~LateRenames
             PROVE  OrchSpec => []ResultsStayPending
  OBVIOUS
<1>1. OrchInv /\ Drawn /\ OwnInv /\ TreeInv /\ OrderInv /\ OwedInv /\ [OrchNext]_allVars => OwedInv'
  BY NextOwed
<1>2. OwedInv => ResultsStayPending
  BY DEF OwedInv, Owes, Tells, PendingParentNotifications, ResultsStayPending
<1>3. OrchSpec => []OrderInv
  BY OrchUsesTheStore, OrderInvariant, PTL DEF UsesTheStore
<1>4. OrchSpec => [](OwnInv /\ TreeInv)
  BY TreeInvariant
<1>. QED BY <1>1, <1>2, <1>3, <1>4, InitOwed, OrchInvariant, DrawnInvariant, PTL DEF OrchSpec
================================================================================
