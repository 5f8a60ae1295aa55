--------------------------- MODULE TaskStore_proofs ----------------------------
(***************************************************************************)
(* What the task store guarantees, for any number of fibers, tasks, agents *)
(* and updates.  The invariants are those of TaskStoreInv: StoreInv holds  *)
(* whatever is interrupted, OrderInv when no writer overtakes a rename     *)
(* whose fiber was interrupted.                                            *)
(***************************************************************************)
EXTENDS TaskStoreInv, TLAPS

-----------------------------------------------------------------------------
(* The operators of TaskGraph map graphs to graphs.                        *)

\* The empty session is a graph.
LEMMA EmptyIsGraph == EmptyGraph \in Graphs
  BY DEF EmptyGraph, Graphs, NoTask, Task, Status

\* Every operation of the store is one replacement of the map by another
\* well-formed map: the status, the owner and the other fields keep their types.
LEMMA OperationIsMutate ==
  ASSUME StoreTypeOK, NEW f \in Fiber, Operation(f)
  PROVE  \E g \in Graphs : Mutate(f, g)
<1> USE DEF Graphs
<1>0. tasks \in Graphs
  BY DEF StoreTypeOK
<1>1. ASSUME NEW t \in TaskId, NEW deps \in SUBSET TaskId, CreateTask(f, t, deps)
      PROVE  \E g \in Graphs : Mutate(f, g)
  <2>1. Created(deps) \in Task
    BY DEF Created, NoTask, Task, Status
  <2>2. [tasks EXCEPT ![t] = Created(deps)] \in Graphs
    BY <1>0, <2>1
  <2>. QED BY <1>1, <2>2 DEF CreateTask
<1>2. ASSUME NEW t \in TaskId, NEW p \in Patches, UpdateTask(f, t, p)
      PROVE  \E g \in Graphs : Mutate(f, g)
  <2>1. p \in Patch
    BY StoreAssumption
  <2>2. Patched(tasks[t], p) \in Task
    <3> DEFINE old == tasks[t]
    <3>1. old \in Task
      BY <1>0
    <3>. HIDE DEF old
    <3>2. /\ p.status \in (Status \ {"absent"}) \cup {None}
          /\ p.owner \in Author \cup {None}
          /\ p.blockedBy \in (SUBSET TaskId) \cup {None}
          /\ p.result \in Author \cup {None}
          /\ p.error \in Author \cup {None}
      BY <2>1 DEF Patch
    <3>3. /\ old.status \in Status /\ old.owner \in Author \cup {None}
          /\ old.blockedBy \in SUBSET TaskId
          /\ old.result \in Author \cup {None}
          /\ old.error \in Author \cup {None}
      BY <3>1 DEF Task
    <3>4. /\ Defined(p.status, old.status) \in Status
          /\ Defined(p.owner, old.owner) \in Author \cup {None}
          /\ Defined(p.blockedBy, old.blockedBy) \in SUBSET TaskId
          /\ Defined(p.result, old.result) \in Author \cup {None}
          /\ Defined(p.error, old.error) \in Author \cup {None}
      BY <3>2, <3>3, Zenon DEF Defined
    <3>5. Patched(old, p) \in Task
      BY <3>1, <3>4 DEF Patched, Task
    <3>. QED BY <3>5 DEF old
  <2>3. [tasks EXCEPT ![t] = Patched(tasks[t], p)] \in Graphs
    BY <1>0, <2>2
  <2>. QED BY <1>2, <2>3 DEF UpdateTask
<1>3. ASSUME NEW t \in TaskId, NEW a \in AgentId, NEW type \in AgentType,
             NEW wt \in AgentId \cup {None}, ClaimNewTask(f, t, a, type, wt)
      PROVE  \E g \in Graphs : Mutate(f, g)
  <2>1. ClaimedNew(a, type, wt) \in Task
    BY DEF ClaimedNew, NoTask, Task, Status, Author
  <2>2. [tasks EXCEPT ![t] = ClaimedNew(a, type, wt)] \in Graphs
    BY <1>0, <2>1
  <2>. QED BY <1>3, <2>2 DEF ClaimNewTask
<1>4. ASSUME NEW t \in TaskId, NEW a \in AgentId, NEW type \in AgentType,
             NEW wt \in AgentId \cup {None}, ClaimTask(f, t, a, type, wt)
      PROVE  \E g \in Graphs : Mutate(f, g)
  <2>1. tasks[t] \in Task
    BY <1>0
  <2>2. Claimed(tasks[t], a, type, wt) \in Task
    BY <2>1 DEF Claimed, Task, Status, Author
  <2>3. [tasks EXCEPT ![t] = Claimed(tasks[t], a, type, wt)] \in Graphs
    BY <1>0, <2>2
  <2>. QED BY <1>4, <2>3 DEF ClaimTask
<1>5. ASSUME NEW t \in TaskId, NEW a \in AgentId, NEW wt \in AgentId \cup {None},
             CompleteTask(f, t, a, wt) \/ FailTask(f, t, a, wt)
      PROVE  \E g \in Graphs : Mutate(f, g)
  <2>1. tasks[t] \in Task
    BY <1>0
  <2>2. Completed(tasks[t], a, wt) \in Task /\ Failed(tasks[t], a, wt) \in Task
    BY <2>1 DEF Completed, Failed, Task, Status, Author
  <2>3. /\ [tasks EXCEPT ![t] = Completed(tasks[t], a, wt)] \in Graphs
        /\ [tasks EXCEPT ![t] = Failed(tasks[t], a, wt)] \in Graphs
    BY <1>0, <2>2
  <2>. QED BY <1>5, <2>3 DEF CompleteTask, FailTask
<1>6. ASSUME NEW S, MarkParentNotified(f, S)
      PROVE  \E g \in Graphs : Mutate(f, g)
  <2>1. ASSUME NEW t \in TaskId
        PROVE  [tasks[t] EXCEPT !.notified = TRUE] \in Task
    <3>1. tasks[t] \in Task
      BY <1>0
    <3>. QED BY <3>1 DEF Task
  <2>2. Notified(tasks, S) \in Graphs
    BY <1>0, <2>1 DEF Notified
  <2>. QED BY <1>6, <2>2 DEF MarkParentNotified
<1>7. ASSUME ResetDanglingTasks(f)
      PROVE  \E g \in Graphs : Mutate(f, g)
  <2>1. ASSUME NEW t \in TaskId
        PROVE  [tasks[t] EXCEPT !.status = "pending", !.owner = None,
                                !.worktree = None] \in Task
    <3>1. tasks[t] \in Task
      BY <1>0
    <3>. QED BY <3>1 DEF Task, Status
  <2>2. Reset(tasks) \in Graphs
    BY <1>0, <2>1 DEF Reset
  <2>. QED BY <1>7, <2>2 DEF ResetDanglingTasks
<1>. QED
  <2>1. ASSUME NEW t \in TaskId, NEW a \in AgentId, NEW type \in AgentType,
               LET wt == IF type = "GeneralPurpose" THEN a ELSE None
               IN  ClaimNewTask(f, t, a, type, wt) \/ ClaimTask(f, t, a, type, wt)
        PROVE  \E g \in Graphs : Mutate(f, g)
    <3> DEFINE wt == IF type = "GeneralPurpose" THEN a ELSE None
    <3>1. wt \in AgentId \cup {None}
      OBVIOUS
    <3>2. ClaimNewTask(f, t, a, type, wt) \/ ClaimTask(f, t, a, type, wt)
      BY <2>1
    <3>. HIDE DEF wt
    <3>. QED BY <1>3, <1>4, <3>1, <3>2
  <2>. QED BY <1>1, <1>2, <1>5, <1>6, <1>7, <2>1 DEF Operation

-----------------------------------------------------------------------------
(* StoreInv is inductive.                                                  *)

\* The empty store satisfies both invariants.
LEMMA InitInv == StoreInit => OrderInv
<1>. SUFFICES ASSUME StoreInit PROVE OrderInv
  OBVIOUS
<1>1. StoreTypeOK
  BY EmptyIsGraph DEF StoreInit, StoreTypeOK, IoState
<1>2. LockHeld
  BY StoreAssumption DEF StoreInit, LockHeld, Writing
<1>3. Numbered /\ Content
  BY DEF StoreInit, Numbered, Content, Writing
<1>4. Forward /\ Pending
  BY DEF StoreInit, Forward, Pending, Writing
<1>. QED BY <1>1, <1>2, <1>3, <1>4 DEF OrderInv, StoreInv

\* A new update of memory leaves file, permit and snapshots behind it.
LEMMA MutateInv ==
  ASSUME StoreInv, NEW f \in Fiber, NEW g \in Graphs, Mutate(f, g)
  PROVE  StoreInv'
<1> USE DEF Mutate, StoreInv
<1>1. StoreTypeOK'
  BY DEF StoreTypeOK, IoState
<1>2. LockHeld'
  BY DEF LockHeld, Writing, StoreTypeOK
<1>3. Numbered'
  BY DEF Numbered, Writing, StoreTypeOK
<1>4. Content'
  BY DEF Content, Numbered, Writing, StoreTypeOK
<1>. QED BY <1>1, <1>2, <1>3, <1>4

\* The snapshot is the newest map, so it covers the fiber's own update.
LEMMA TakeLockInv ==
  ASSUME StoreInv, NEW f \in Fiber, TakeLock(f)
  PROVE  StoreInv'
<1> USE DEF TakeLock, Snapshot, StoreInv
<1>1. StoreTypeOK'
  BY DEF StoreTypeOK, IoState
<1>2. LockHeld'
  BY StoreAssumption DEF LockHeld, Writing, StoreTypeOK
<1>3. Numbered'
  BY DEF Numbered, Writing, StoreTypeOK
<1>4. Content'
  BY DEF Content, Writing, StoreTypeOK
<1>. QED BY <1>1, <1>2, <1>3, <1>4

\* The temporary file changes nothing anybody reads.
LEMMA WriteTempInv ==
  ASSUME StoreInv, NEW f \in Fiber, WriteTemp(f)
  PROVE  StoreInv'
<1> USE DEF WriteTemp, StoreInv
<1>1. StoreTypeOK'
  BY DEF StoreTypeOK, IoState
<1>2. LockHeld'
  BY DEF LockHeld, Writing, StoreTypeOK
<1>3. Numbered'
  BY DEF Numbered, Writing, StoreTypeOK
<1>4. Content'
  BY DEF Content, Writing, StoreTypeOK
<1>. QED BY <1>1, <1>2, <1>3, <1>4

\* The file takes over the snapshot and its number together.
LEMMA RenameInv ==
  ASSUME StoreInv, NEW f \in Fiber, Rename(f)
  PROVE  StoreInv'
<1> USE DEF Rename, Release, Forget, StoreInv
<1>1. StoreTypeOK'
  BY EmptyIsGraph DEF StoreTypeOK, IoState
<1>2. LockHeld'
  BY StoreAssumption DEF LockHeld, Writing, StoreTypeOK
<1>3. Numbered'
  BY DEF Numbered, Writing, StoreTypeOK
<1>4. Content'
  BY DEF Content, Writing, StoreTypeOK
<1>. QED BY <1>1, <1>2, <1>3, <1>4

\* A failed write returns the permit and leaves the file alone.
LEMMA PersistFailsInv ==
  ASSUME StoreInv, NEW f \in Fiber, PersistFails(f)
  PROVE  StoreInv'
<1> USE DEF PersistFails, Lose, Release, Forget, StoreInv
<1>1. StoreTypeOK'
  BY EmptyIsGraph DEF StoreTypeOK, IoState
<1>2. LockHeld'
  BY StoreAssumption DEF LockHeld, Writing, StoreTypeOK
<1>3. Numbered'
  BY DEF Numbered, Writing, StoreTypeOK
<1>4. Content'
  BY DEF Content, Writing, StoreTypeOK
<1>. QED BY <1>1, <1>2, <1>3, <1>4

\* Returning to the caller only forgets the local variables.
LEMMA ReturnInv ==
  ASSUME StoreInv, NEW f \in Fiber, Return(f)
  PROVE  StoreInv'
<1> USE DEF Return, StoreInv
<1>1. StoreTypeOK'
  BY DEF StoreTypeOK, IoState
<1>2. LockHeld'
  BY DEF LockHeld, Writing, StoreTypeOK
<1>3. Numbered'
  BY DEF Numbered, Writing, StoreTypeOK
<1>4. Content'
  BY DEF Content, Writing, StoreTypeOK
<1>. QED BY <1>1, <1>2, <1>3, <1>4

\* An abandoned rename keeps the snapshot together with its number.
LEMMA InterruptInv ==
  ASSUME StoreInv, NEW f \in Fiber, Interrupt(f)
  PROVE  StoreInv'
<1> USE DEF Interrupt, Lose, Release, Forget, StoreInv
<1>1. StoreTypeOK'
  BY EmptyIsGraph DEF StoreTypeOK, IoState
<1>2. LockHeld'
  BY StoreAssumption DEF LockHeld, Writing, InFlight, StoreTypeOK
<1>3. Numbered'
  BY DEF Numbered, Writing, StoreTypeOK
<1>4. Content'
  BY DEF Content, Writing, StoreTypeOK
<1>. QED BY <1>1, <1>2, <1>3, <1>4

\* It lands with the two still together.
LEMMA AbandonedRenameLandsInv ==
  ASSUME StoreInv, AbandonedRenameLands
  PROVE  StoreInv'
<1> USE DEF StoreInv
<1>0. PICK r \in abandoned :
        /\ file' = r.graph
        /\ fileRev' = r.rev
        /\ abandoned' = abandoned \ {r}
        /\ UNCHANGED <<tasks, lock, snap, io, rev, snapRev, need, lostRev, faults>>
  BY DEF AbandonedRenameLands
<1>1. StoreTypeOK'
  BY <1>0 DEF StoreTypeOK
<1>2. LockHeld'
  BY <1>0 DEF LockHeld
<1>3. Numbered'
  BY <1>0 DEF Numbered, Writing
<1>4. Content'
  BY <1>0 DEF Content, Writing
<1>. QED BY <1>1, <1>2, <1>3, <1>4

\* Memory starts again as what the file decodes to.
LEMMA RestartInv ==
  ASSUME StoreInv, Restart
  PROVE  StoreInv'
<1> USE DEF Restart, StoreInv
<1>1. StoreTypeOK'
  BY EmptyIsGraph DEF StoreTypeOK, IoState
<1>2. LockHeld'
  BY StoreAssumption DEF LockHeld, Writing
<1>3. Numbered'
  BY DEF Numbered, Writing, StoreTypeOK
<1>4. Content'
  BY DEF Content, Writing, StoreTypeOK
<1>. QED BY <1>1, <1>2, <1>3, <1>4

\* Every step of the store keeps its permit, numbers and contents together.
LEMMA StoreNextInv == StoreInv /\ [StoreNext]_storeVars => StoreInv'
<1>. SUFFICES ASSUME StoreInv, [StoreNext]_storeVars PROVE StoreInv'
  OBVIOUS
<1>1. ASSUME NEW f \in Fiber, Operation(f) PROVE StoreInv'
  <2>1. PICK g \in Graphs : Mutate(f, g)
    BY <1>1, OperationIsMutate DEF StoreInv
  <2>. QED BY <2>1, MutateInv
<1>2. ASSUME NEW f \in Fiber, PersistStep(f) PROVE StoreInv'
  BY <1>2, TakeLockInv, WriteTempInv, RenameInv, PersistFailsInv DEF PersistStep
<1>3. ASSUME NEW f \in Fiber, Return(f) \/ Interrupt(f) PROVE StoreInv'
  BY <1>3, ReturnInv, InterruptInv
<1>4. CASE AbandonedRenameLands
  BY <1>4, AbandonedRenameLandsInv
<1>5. CASE Restart
  BY <1>5, RestartInv
<1>6. CASE UNCHANGED storeVars
  BY <1>6 DEF storeVars, StoreInv, StoreTypeOK, LockHeld, Numbered, Content
<1>. QED BY <1>1, <1>2, <1>3, <1>4, <1>5, <1>6 DEF StoreNext

\* Type correctness of the store (tasks.ts), whatever is interrupted.
THEOREM TypeCorrect == StoreSpec => []StoreTypeOK
<1>1. StoreInit => StoreInv
  BY InitInv DEF OrderInv
<1>2. StoreInv /\ [StoreNext]_storeVars => StoreInv'
  BY StoreNextInv
<1>3. StoreInv => StoreTypeOK
  BY DEF StoreInv
<1>. QED BY <1>1, <1>2, <1>3, PTL DEF StoreSpec

\* A file that carries the newest update is the map in memory, whatever was
\* interrupted or abandoned on the way (persist, tasks.ts:115).
THEOREM CaughtUp == StoreSpec => []CaughtUpMeansEqual
<1>1. StoreInit => StoreInv
  BY InitInv DEF OrderInv
<1>2. StoreInv /\ [StoreNext]_storeVars => StoreInv'
  BY StoreNextInv
<1>3. StoreInv => CaughtUpMeansEqual
  BY DEF StoreInv, Content, CaughtUpMeansEqual
<1>. QED BY <1>1, <1>2, <1>3, PTL DEF StoreSpec

-----------------------------------------------------------------------------
(* OrderInv is inductive when no interrupted rename is overtaken.          *)

\* A new update is pending in its own fiber; nothing else moves.
LEMMA MutateOrder ==
  ASSUME OrderInv, NEW f \in Fiber, NEW g \in Graphs, Mutate(f, g)
  PROVE  (Forward /\ Pending)'
<1> USE DEF Mutate, OrderInv, StoreInv
<1>1. Forward'
  BY DEF Forward, Writing, StoreTypeOK
<1>2. Pending'
  BY DEF Pending, InFlight, StoreTypeOK
<1>. QED BY <1>1, <1>2

\* The file and the numbers stay; the snapshot is the newest.
LEMMA TakeLockOrder ==
  ASSUME OrderInv, ~LateRenames, NEW f \in Fiber, TakeLock(f)
  PROVE  (Forward /\ Pending)'
<1> USE DEF TakeLock, Snapshot, OrderInv, StoreInv
<1>1. Forward'
  BY DEF Forward, Numbered, Writing, StoreTypeOK
<1>2. Pending'
  BY DEF Pending, InFlight, StoreTypeOK
<1>. QED BY <1>1, <1>2

\* Nothing anybody reads changes.
LEMMA WriteTempOrder ==
  ASSUME OrderInv, NEW f \in Fiber, WriteTemp(f)
  PROVE  (Forward /\ Pending)'
<1> USE DEF WriteTemp, OrderInv, StoreInv
<1>1. Forward'
  BY DEF Forward, Writing, StoreTypeOK
<1>2. Pending'
  BY DEF Pending, InFlight, StoreTypeOK
<1>. QED BY <1>1, <1>2

\* The file moves to the permit holder's snapshot; nobody else has one.
LEMMA RenameOrder ==
  ASSUME OrderInv, NEW f \in Fiber, Rename(f)
  PROVE  (Forward /\ Pending)' /\ fileRev <= fileRev'
<1> USE DEF Rename, Release, Forget, OrderInv, StoreInv
<1>1. /\ fileRev <= snapRev[f] /\ need[f] <= snapRev[f] /\ snapRev[f] <= rev
      /\ fileRev' = snapRev[f]
  BY DEF Forward, Numbered, Writing
<1>2. \A h \in Fiber \ {f} : io[h] \notin Writing
  BY DEF LockHeld, Writing, StoreTypeOK
<1>3. Forward'
  <2>1. abandoned = {}
    BY StoreAssumption DEF Forward, LockHeld, Writing
  <2>. QED BY <1>1, <1>2, <2>1 DEF Forward, Writing, StoreTypeOK
<1>4. Pending'
  <2>. SUFFICES ASSUME snapRev[f] < rev
                PROVE  \/ \E h \in Fiber : io'[h] \in InFlight /\ need[h] = rev
                       \/ lostRev = rev
    BY <1>1 DEF Pending
  <2>1. fileRev < rev
    BY <1>1 DEF StoreTypeOK
  <2>2. CASE lostRev = rev
    BY <2>2
  <2>3. CASE \E h \in Fiber : io[h] \in InFlight /\ need[h] = rev
    <3>1. PICK h \in Fiber : io[h] \in InFlight /\ need[h] = rev
      BY <2>3
    <3>2. h # f
      BY <1>1, <3>1 DEF StoreTypeOK
    <3>. QED BY <3>1, <3>2 DEF StoreTypeOK
  <2>. QED BY <2>1, <2>2, <2>3 DEF Pending
<1>. QED BY <1>1, <1>3, <1>4 DEF StoreTypeOK

\* The update that is given up is remembered in lostRev.
LEMMA LoseOrder ==
  ASSUME OrderInv, NEW f \in Fiber, Lose(f), io[f] \in InFlight,
         UNCHANGED <<rev, fileRev>>, need' = need \/ need' = [need EXCEPT ![f] = 0],
         \A h \in Fiber \ {f} : io'[h] = io[h]
  PROVE  Pending'
<1> USE DEF OrderInv, StoreInv
<1>. SUFFICES ASSUME fileRev < rev
              PROVE  \/ \E h \in Fiber : io'[h] \in InFlight /\ need'[h] = rev
                     \/ lostRev' = rev
  BY DEF Pending
<1>1. CASE lostRev = rev
  BY <1>1 DEF Lose, Numbered, StoreTypeOK
<1>2. CASE need[f] = rev
  BY <1>2 DEF Lose, Numbered, StoreTypeOK
<1>3. CASE \E h \in Fiber \ {f} : io[h] \in InFlight /\ need[h] = rev
  BY <1>3 DEF StoreTypeOK
<1>. QED BY <1>1, <1>2, <1>3 DEF Pending

\* A failed write acknowledges nothing.
LEMMA PersistFailsOrder ==
  ASSUME OrderInv, NEW f \in Fiber, PersistFails(f)
  PROVE  (Forward /\ Pending)'
<1> USE DEF PersistFails, Release, Forget, OrderInv, StoreInv
<1>1. Forward'
  BY StoreAssumption DEF Forward, LockHeld, Writing, StoreTypeOK
<1>2. io[f] \in InFlight
  BY DEF InFlight
<1>3. \A h \in Fiber \ {f} : io'[h] = io[h]
  BY DEF StoreTypeOK
<1>4. Pending'
  BY <1>2, <1>3, LoseOrder
<1>. QED BY <1>1, <1>4

\* Returning forgets a need that is met or lost.
LEMMA ReturnOrder ==
  ASSUME OrderInv, NEW f \in Fiber, Return(f)
  PROVE  (Forward /\ Pending)'
<1> USE DEF Return, OrderInv, StoreInv
<1>1. Forward'
  BY DEF Forward, Writing, StoreTypeOK
<1>2. \A h \in Fiber : io[h] \in InFlight =>
        h # f /\ io'[h] = io[h] /\ need'[h] = need[h]
  BY DEF InFlight, StoreTypeOK
<1>3. Pending'
  BY <1>2 DEF Pending
<1>. QED BY <1>1, <1>3

\* A rename that is abandoned is that of the permit's holder, who gives it back.
LEMMA InterruptOrder ==
  ASSUME OrderInv, NEW f \in Fiber, Interrupt(f)
  PROVE  (Forward /\ Pending)'
<1> USE DEF Interrupt, Release, Forget, OrderInv, StoreInv
<1>1. Forward'
  <2>1. \A h \in Fiber : io'[h] \in Writing \cup {"ok"} => h # f /\ io'[h] = io[h]
    BY DEF Writing, StoreTypeOK
  <2>2. /\ \A h \in Fiber : io'[h] \in Writing => fileRev <= snapRev'[h]
        /\ \A h \in Fiber : io'[h] = "ok" => need'[h] <= fileRev
    BY <2>1 DEF Forward, StoreTypeOK
  <2>3. CASE io[f] = "renaming"
    <3>1. lock = f /\ abandoned = {} /\ fileRev <= snapRev[f]
      BY <2>3, StoreAssumption DEF Forward, LockHeld, Writing
    <3>. QED BY <2>2, <2>3, <3>1 DEF Forward
  <2>4. CASE io[f] # "renaming"
    BY <2>2, <2>4 DEF Forward
  <2>. QED BY <2>3, <2>4
<1>2. \A h \in Fiber \ {f} : io'[h] = io[h]
  BY DEF StoreTypeOK
<1>3. Pending'
  BY <1>2, LoseOrder
<1>. QED BY <1>1, <1>3

\* It lands before anybody takes the permit, and carries the file forward.
LEMMA AbandonedRenameLandsOrder ==
  ASSUME OrderInv, AbandonedRenameLands
  PROVE  (Forward /\ Pending)' /\ fileRev <= fileRev'
<1> USE DEF OrderInv, StoreInv
<1>0. PICK r \in abandoned :
        /\ fileRev' = r.rev
        /\ abandoned' = abandoned \ {r}
        /\ UNCHANGED <<tasks, lock, snap, io, rev, snapRev, need, lostRev, faults>>
  BY DEF AbandonedRenameLands
<1>1. /\ fileRev <= r.rev /\ r.rev \in Nat /\ abandoned' = {}
      /\ \A h \in Fiber : io[h] \notin Writing
  BY <1>0, StoreAssumption DEF Forward, LockHeld, StoreTypeOK
<1>2. Forward'
  BY <1>0, <1>1 DEF Forward, StoreTypeOK
<1>3. Pending'
  BY <1>0, <1>1 DEF Pending, StoreTypeOK
<1>. QED BY <1>0, <1>1, <1>2, <1>3

\* After a restart nobody waits and nothing is missing.
LEMMA RestartOrder ==
  ASSUME OrderInv, Restart
  PROVE  (Forward /\ Pending)'
  BY DEF Restart, OrderInv, StoreInv, StoreTypeOK, Forward, Pending, Writing

\* Every step keeps the invariant and moves the file forward only.
LEMMA StoreNextOrder ==
  ASSUME ~LateRenames
  PROVE  OrderInv /\ [StoreNext]_storeVars => OrderInv' /\ fileRev <= fileRev'
<1>. SUFFICES ASSUME OrderInv, [StoreNext]_storeVars
              PROVE  OrderInv' /\ fileRev <= fileRev'
  OBVIOUS
<1>0. StoreInv' /\ fileRev \in Nat
  BY StoreNextInv DEF OrderInv, StoreInv, StoreTypeOK
<1>1. ASSUME NEW f \in Fiber, Operation(f)
      PROVE  (Forward /\ Pending)' /\ fileRev <= fileRev'
  <2>1. PICK g \in Graphs : Mutate(f, g)
    BY <1>1, OperationIsMutate DEF OrderInv, StoreInv
  <2>2. fileRev' = fileRev
    BY <2>1 DEF Mutate
  <2>. QED BY <1>0, <2>1, <2>2, MutateOrder
<1>2. ASSUME NEW f \in Fiber, Rename(f)
      PROVE  (Forward /\ Pending)' /\ fileRev <= fileRev'
  BY <1>2, RenameOrder
<1>3. ASSUME NEW f \in Fiber, TakeLock(f) \/ WriteTemp(f) \/ PersistFails(f)
      PROVE  (Forward /\ Pending)' /\ fileRev <= fileRev'
  <2>1. fileRev' = fileRev
    BY <1>3 DEF TakeLock, WriteTemp, PersistFails
  <2>. QED BY <1>0, <1>3, <2>1, TakeLockOrder, WriteTempOrder, PersistFailsOrder
<1>4. ASSUME NEW f \in Fiber, Return(f) \/ Interrupt(f)
      PROVE  (Forward /\ Pending)' /\ fileRev <= fileRev'
  <2>1. fileRev' = fileRev
    BY <1>4 DEF Return, Interrupt
  <2>. QED BY <1>0, <1>4, <2>1, ReturnOrder, InterruptOrder
<1>5. CASE AbandonedRenameLands
  BY <1>0, <1>5, AbandonedRenameLandsOrder DEF OrderInv
<1>6. CASE Restart
  <2>1. fileRev' = fileRev
    BY <1>6 DEF Restart
  <2>. QED BY <1>0, <1>6, <2>1, RestartOrder DEF OrderInv
<1>7. CASE UNCHANGED storeVars
  BY <1>0, <1>7 DEF storeVars, OrderInv, Forward, Pending
<1>. QED
  BY <1>0, <1>1, <1>2, <1>3, <1>4, <1>5, <1>6, <1>7 DEF StoreNext, PersistStep, OrderInv

\* The invariant of a store whose abandoned renames are not overtaken.
LEMMA OrderInvariant == ~LateRenames => (StoreSpec => []OrderInv)
<1>. SUFFICES ASSUME ~LateRenames PROVE StoreSpec => []OrderInv
  OBVIOUS
<1>1. OrderInv /\ [StoreNext]_storeVars => OrderInv'
  BY StoreNextOrder
<1>. QED BY <1>1, InitInv, PTL DEF StoreSpec

\* completeTask, failTask and the others report success only when tasks.json
\* has their update and every one before it.
THEOREM AckedDurable == ~LateRenames => (StoreSpec => []AckedIsDurable)
<1>1. OrderInv => AckedIsDurable
  BY DEF OrderInv, StoreInv, StoreTypeOK, Forward, AckedIsDurable
<1>. QED BY <1>1, OrderInvariant, PTL

\* persistLock keeps its promise (tasks.ts:110): no stale snapshot ever
\* replaces a newer one.
THEOREM NoStale == ~LateRenames => (StoreSpec => NoStaleOverwrite)
<1>. SUFFICES ASSUME ~LateRenames PROVE StoreSpec => NoStaleOverwrite
  OBVIOUS
<1>1. OrderInv /\ [StoreNext]_storeVars => [fileRev' >= fileRev]_storeVars
  <2>1. OrderInv => fileRev \in Nat
    BY DEF OrderInv, StoreInv, StoreTypeOK
  <2>2. OrderInv' => fileRev' \in Nat
    BY DEF OrderInv, StoreInv, StoreTypeOK
  <2>. QED BY <2>1, <2>2, StoreNextOrder
<1>. QED BY <1>1, OrderInvariant, PTL DEF StoreSpec, NoStaleOverwrite

\* The file misses an update only while it is on its way or after its own
\* persist failed.
THEOREM Drift == ~LateRenames => (StoreSpec => []DriftIsALostWrite)
<1>1. OrderInv => DriftIsALostWrite
  BY DEF OrderInv, StoreInv, StoreTypeOK, Numbered, Content, Pending, DriftIsALostWrite
<1>. QED BY <1>1, OrderInvariant, PTL

-----------------------------------------------------------------------------
(* The store implements DurableLog.                                        *)

Bar == [f \in Fiber |-> IF io[f] \in InFlight THEN "pending" ELSE io[f]]

\* A persist step is a Save, a Fail or invisible to the callers.
LEMMA PersistRefines ==
  ASSUME OrderInv, OrderInv', NEW f \in Fiber, PersistStep(f)
  PROVE  [Promise!Next]_<<rev, fileRev, need, Bar>>
<1> USE DEF OrderInv, StoreInv
<1>1. CASE TakeLock(f) \/ WriteTemp(f)
  <2>1. Bar' = Bar /\ rev' = rev /\ fileRev' = fileRev /\ need' = need
    BY <1>1 DEF TakeLock, WriteTemp, Bar, InFlight, StoreTypeOK
  <2>. QED BY <2>1
<1>2. CASE Rename(f)
  <2>1. fileRev' \in need[f] .. rev /\ fileRev' >= fileRev
    BY <1>2 DEF Rename, Numbered, Forward, Writing, StoreTypeOK
  <2>2. Bar[f] = "pending" /\ Bar' = [Bar EXCEPT ![f] = "ok"]
    BY <1>2 DEF Rename, Bar, InFlight, StoreTypeOK
  <2>3. Promise!Save(f)
    BY <1>2, <2>1, <2>2 DEF Rename, Promise!Save, Bar
  <2>. QED BY <2>3 DEF Promise!Next
<1>3. CASE PersistFails(f)
  <2>1. Bar[f] = "pending" /\ Bar' = [Bar EXCEPT ![f] = "failed"]
    BY <1>3 DEF PersistFails, Bar, InFlight, StoreTypeOK
  <2>2. Promise!Fail(f)
    BY <1>3, <2>1 DEF PersistFails, Promise!Fail, Bar
  <2>. QED BY <2>2 DEF Promise!Next
<1>. QED BY <1>1, <1>2, <1>3 DEF PersistStep

\* Every step of the store is a step of the promise or changes nothing of it.
LEMMA StepRefines ==
  ASSUME OrderInv, OrderInv', [StoreNext]_storeVars
  PROVE  [Promise!Next]_<<rev, fileRev, need, Bar>>
<1> USE DEF OrderInv, StoreInv
<1>1. ASSUME NEW f \in Fiber, Operation(f)
      PROVE  [Promise!Next]_<<rev, fileRev, need, Bar>>
  <2>1. PICK g \in Graphs : Mutate(f, g)
    BY <1>1, OperationIsMutate
  <2>2. Bar[f] = "idle" /\ Bar' = [Bar EXCEPT ![f] = "pending"]
    BY <2>1 DEF Mutate, Bar, InFlight, StoreTypeOK
  <2>3. Promise!Update(f)
    BY <2>1, <2>2 DEF Mutate, Promise!Update, Bar
  <2>. QED BY <2>3 DEF Promise!Next
<1>2. ASSUME NEW f \in Fiber, PersistStep(f)
      PROVE  [Promise!Next]_<<rev, fileRev, need, Bar>>
  BY <1>2, PersistRefines
<1>3. ASSUME NEW f \in Fiber, Return(f)
      PROVE  [Promise!Next]_<<rev, fileRev, need, Bar>>
  <2>1. Bar[f] \in {"ok", "failed"} /\ Bar' = [Bar EXCEPT ![f] = "idle"]
    BY <1>3 DEF Return, Bar, InFlight, StoreTypeOK
  <2>2. Promise!Return(f)
    BY <1>3, <2>1 DEF Return, Promise!Return, Bar
  <2>. QED BY <2>2 DEF Promise!Next
<1>4. ASSUME NEW f \in Fiber, Interrupt(f)
      PROVE  [Promise!Next]_<<rev, fileRev, need, Bar>>
  <2>1. Bar[f] = "pending" /\ Bar' = [Bar EXCEPT ![f] = "idle"]
    BY <1>4 DEF Interrupt, Bar, InFlight, StoreTypeOK
  <2>2. Promise!GiveUp(f)
    BY <1>4, <2>1 DEF Interrupt, Promise!GiveUp, Bar
  <2>. QED BY <2>2 DEF Promise!Next
<1>5. CASE AbandonedRenameLands
  <2>1. fileRev \in Nat /\ fileRev' \in Nat /\ rev \in Nat /\ fileRev <= fileRev' /\ fileRev' <= rev'
    BY <1>5, AbandonedRenameLandsOrder DEF StoreTypeOK, Numbered
  <2>2. Bar' = Bar /\ UNCHANGED <<rev, need>>
    BY <1>5 DEF AbandonedRenameLands, Bar
  <2>3. Promise!Land
    BY <2>1, <2>2 DEF Promise!Land, Bar
  <2>. QED BY <2>3 DEF Promise!Next
<1>6. CASE Restart
  <2>1. Bar' = [f \in Fiber |-> "idle"]
    BY <1>6 DEF Restart, Bar, InFlight
  <2>2. Promise!Restart
    BY <1>6, <2>1 DEF Restart, Promise!Restart, Bar
  <2>. QED BY <2>2 DEF Promise!Next
<1>7. CASE UNCHANGED storeVars
  BY <1>7 DEF storeVars, Bar
<1>. QED
  BY <1>1, <1>2, <1>3, <1>4, <1>5, <1>6, <1>7 DEF StoreNext

\* The permit, the snapshot and the rename together are the numbered-update
\* promise of DurableLog, for any number of fibers and updates.
THEOREM Refinement == ~LateRenames => (StoreSpec => ImplementsDurableLog)
<1>. SUFFICES ASSUME ~LateRenames PROVE StoreSpec => ImplementsDurableLog
  OBVIOUS
<1>1. StoreInit => Promise!Init
  BY DEF StoreInit, Promise!Init, InFlight
<1>2. OrderInv /\ OrderInv' /\ [StoreNext]_storeVars => [Promise!Next]_(Promise!vars)
  BY StepRefines DEF Promise!vars, Bar
<1>. QED BY <1>1, <1>2, OrderInvariant, PTL
         DEF StoreSpec, ImplementsDurableLog, Promise!Spec
=============================================================================
