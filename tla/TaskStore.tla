------------------------------- MODULE TaskStore -------------------------------
(***************************************************************************)
(* The write-through task store of packages/core/src/tasks.ts.  Every      *)
(* operation reads and replaces the in-memory map in one synchronous       *)
(* stretch of its fiber, then persists it: under persistLock it takes a    *)
(* snapshot of the map, writes it to a temporary sibling and renames that  *)
(* over tasks.json.  Each of those file-system calls is awaited, so other  *)
(* fibers run in between; each may fail; the fiber may be interrupted      *)
(* there; the process may die.                                             *)
(***************************************************************************)
EXTENDS TaskGraph, Naturals, FiniteSets

CONSTANTS
    Fiber,          \* the fibers that call the store
    NoFiber,        \* nobody
    Patches,        \* the patches TaskUpdate is called with
    LateRenames,    \* may the next writer overtake a rename whose fiber was interrupted?
    MaxRev,         \* bound: updates applied to memory
    MaxFaults       \* bound: failed or interrupted persists

ASSUME StoreAssumption ==
    /\ NoFiber \notin Fiber
    /\ LateRenames \in BOOLEAN
    /\ MaxRev \in Nat
    /\ MaxFaults \in Nat
    /\ Patches \subseteq Patch

VARIABLES
    tasks,      \* the Ref: TaskId -> Task
    file,       \* what tasks.json decodes to
    lock,       \* the holder of persistLock
    snap,       \* per fiber, the snapshot it took and is writing
    io,         \* per fiber, how far its persist is
    abandoned,  \* renames still underway whose fiber was interrupted
    \* History: updates are numbered as they are applied to memory.
    rev, fileRev,
    snapRev,    \* per fiber, the number of its snapshot
    need,       \* per fiber, the update its persist must cover
    lostRev,    \* the last update whose persist failed or was interrupted
    faults

storeVars == <<tasks, file, lock, snap, io, abandoned,
               rev, fileRev, snapRev, need, lostRev, faults>>

IoState == {"idle", "queued", "writing", "renaming", "ok", "failed"}
InFlight == {"queued", "writing", "renaming"}

StoreInit ==
    /\ tasks = EmptyGraph
    /\ file = EmptyGraph
    /\ lock = NoFiber
    /\ snap = [f \in Fiber |-> EmptyGraph]
    /\ io = [f \in Fiber |-> "idle"]
    /\ abandoned = {}
    /\ rev = 0 /\ fileRev = 0
    /\ snapRev = [f \in Fiber |-> 0]
    /\ need = [f \in Fiber |-> 0]
    /\ lostRev = 0 /\ faults = 0

-----------------------------------------------------------------------------
(* Ref.update, and the call of persist that follows it.                    *)

Mutate(f, g) ==
    /\ io[f] = "idle"
    /\ rev < MaxRev
    /\ tasks' = g
    /\ rev' = rev + 1
    /\ need' = [need EXCEPT ![f] = rev + 1]
    /\ io' = [io EXCEPT ![f] = "queued"]
    /\ UNCHANGED <<file, lock, snap, abandoned,
                   fileRev, snapRev, lostRev, faults>>

CreateTask(f, t, deps) ==
    /\ t \notin Known(tasks)
    /\ Mutate(f, [tasks EXCEPT ![t] = Created(deps)])

UpdateTask(f, t, p) ==
    /\ t \in Known(tasks)
    /\ Mutate(f, [tasks EXCEPT ![t] = Patched(@, p)])

ClaimNewTask(f, t, a, type, wt) ==
    /\ t \notin Known(tasks)
    /\ Mutate(f, [tasks EXCEPT ![t] = ClaimedNew(a, type, wt)])

ClaimTask(f, t, a, type, wt) ==
    /\ Claimable(tasks, t)
    /\ Mutate(f, [tasks EXCEPT ![t] = Claimed(@, a, type, wt)])

CompleteTask(f, t, a, wt) ==
    /\ t \in Known(tasks)
    /\ Mutate(f, [tasks EXCEPT ![t] = Completed(@, a, wt)])

FailTask(f, t, a, wt) ==
    /\ t \in Known(tasks)
    /\ Mutate(f, [tasks EXCEPT ![t] = Failed(@, a, wt)])

MarkParentNotified(f, S) ==
    /\ Mutate(f, Notified(tasks, S))

\* Mutant: the reset is applied to memory and never persisted.
ResetInMemoryOnly(f) ==
    /\ Dangling(tasks) # {}
    /\ io[f] = "idle" /\ rev < MaxRev
    /\ tasks' = Reset(tasks)
    /\ rev' = rev + 1
    /\ UNCHANGED <<file, lock, snap, io, abandoned,
                   fileRev, snapRev, need, lostRev, faults>>

\* Nothing dangling: nothing is written.
ResetDanglingTasks(f) ==
    /\ Dangling(tasks) # {}
    /\ Mutate(f, Reset(tasks))

-----------------------------------------------------------------------------
(* persist.                                                                *)

Snapshot(f) ==
    /\ snap' = [snap EXCEPT ![f] = tasks]
    /\ snapRev' = [snapRev EXCEPT ![f] = rev]

\* The local variables of a persist that ended.
Forget(f) ==
    /\ snap' = [snap EXCEPT ![f] = EmptyGraph]
    /\ snapRev' = [snapRev EXCEPT ![f] = 0]

Release(f) == lock' = IF lock = f THEN NoFiber ELSE lock

\* Mutant: persist without withPermits.
TakeNoLock(f) ==
    /\ io[f] = "queued"
    /\ Snapshot(f)
    /\ io' = [io EXCEPT ![f] = "writing"]
    /\ UNCHANGED <<tasks, file, lock, abandoned,
                   rev, fileRev, need, lostRev, faults>>

\* The permit is taken, Ref.get, and the directory and the temporary file are
\* on their way.  An abandoned rename has the time of two file-system calls to
\* land before this writer's; without LateRenames it does.
TakeLock(f) ==
    /\ io[f] = "queued"
    /\ lock = NoFiber
    /\ LateRenames \/ abandoned = {}
    /\ lock' = f
    /\ Snapshot(f)
    /\ io' = [io EXCEPT ![f] = "writing"]
    /\ UNCHANGED <<tasks, file, abandoned, rev, fileRev, need, lostRev, faults>>

WriteTemp(f) ==
    /\ io[f] = "writing"
    /\ io' = [io EXCEPT ![f] = "renaming"]
    /\ UNCHANGED <<tasks, file, lock, snap, abandoned,
                   rev, fileRev, snapRev, need, lostRev, faults>>

\* Mutant: the schema lost parentNotifiedAt.
RenameWithoutMarks(f) ==
    /\ io[f] = "renaming"
    /\ file' = [t \in TaskId |-> [snap[f][t] EXCEPT !.notified = FALSE]]
    /\ fileRev' = snapRev[f]
    /\ Release(f)
    /\ Forget(f)
    /\ io' = [io EXCEPT ![f] = "ok"]
    /\ UNCHANGED <<tasks, abandoned, rev, need, lostRev, faults>>

Rename(f) ==
    /\ io[f] = "renaming"
    /\ file' = snap[f]
    /\ fileRev' = snapRev[f]
    /\ Release(f)
    /\ Forget(f)
    /\ io' = [io EXCEPT ![f] = "ok"]
    /\ UNCHANGED <<tasks, abandoned, rev, need, lostRev, faults>>

Lose(f) ==
    /\ faults < MaxFaults
    /\ faults' = faults + 1
    /\ lostRev' = IF need[f] > lostRev THEN need[f] ELSE lostRev

\* Mutant: a failed write is reported as a success.
PersistSwallows(f) ==
    /\ io[f] \in {"writing", "renaming"}
    /\ Lose(f)
    /\ Release(f)
    /\ Forget(f)
    /\ io' = [io EXCEPT ![f] = "ok"]
    /\ UNCHANGED <<tasks, file, abandoned, rev, fileRev, need>>

\* Mutant: a failed write keeps the permit.
PersistFailsHolding(f) ==
    /\ io[f] \in {"writing", "renaming"}
    /\ Lose(f)
    /\ Forget(f)
    /\ io' = [io EXCEPT ![f] = "failed"]
    /\ UNCHANGED <<tasks, file, lock, abandoned, rev, fileRev, need>>

\* makeDirectory, writeFileString or rename fails: tasks.json is untouched and
\* the permit is returned, but the update stays in memory.
PersistFails(f) ==
    /\ io[f] \in {"writing", "renaming"}
    /\ Lose(f)
    /\ Release(f)
    /\ Forget(f)
    /\ io' = [io EXCEPT ![f] = "failed"]
    /\ UNCHANGED <<tasks, file, abandoned, rev, fileRev, need>>

\* The operation returns to its caller.
Return(f) ==
    /\ io[f] \in {"ok", "failed"}
    /\ io' = [io EXCEPT ![f] = "idle"]
    /\ need' = [need EXCEPT ![f] = 0]
    /\ UNCHANGED <<tasks, file, lock, snap, abandoned,
                   rev, fileRev, snapRev, lostRev, faults>>

\* Interrupting the fiber returns the permit at once.  A rename handed to the
\* operating system cannot be recalled; a temporary file is of no use to anybody.
Interrupt(f) ==
    /\ io[f] \in InFlight
    /\ Lose(f)
    /\ Release(f)
    /\ Forget(f)
    /\ abandoned' = IF io[f] = "renaming"
                    THEN abandoned \cup {[graph |-> snap[f], rev |-> snapRev[f]]}
                    ELSE abandoned
    /\ io' = [io EXCEPT ![f] = "idle"]
    /\ need' = [need EXCEPT ![f] = 0]
    /\ UNCHANGED <<tasks, file, rev, fileRev>>

AbandonedRenameLands ==
    \E r \in abandoned :
        /\ file' = r.graph
        /\ fileRev' = r.rev
        /\ abandoned' = abandoned \ {r}
        /\ UNCHANGED <<tasks, lock, snap, io, rev, snapRev, need, lostRev, faults>>

\* The process dies and loadTaskStore reads the file back.
Restart ==
    /\ tasks' = file
    /\ rev' = fileRev
    /\ lock' = NoFiber
    /\ snap' = [f \in Fiber |-> EmptyGraph]
    /\ snapRev' = [f \in Fiber |-> 0]
    /\ io' = [f \in Fiber |-> "idle"]
    /\ need' = [f \in Fiber |-> 0]
    /\ lostRev' = 0
    /\ abandoned' = {}
    /\ UNCHANGED <<file, fileRev, faults>>

-----------------------------------------------------------------------------
Operation(f) ==
    \/ \E t \in TaskId :
        \/ \E deps \in SUBSET TaskId : CreateTask(f, t, deps)
        \/ \E p \in Patches : UpdateTask(f, t, p)
        \/ \E a \in AgentId, type \in AgentType :
            LET wt == IF type = "GeneralPurpose" THEN a ELSE None
            IN  ClaimNewTask(f, t, a, type, wt) \/ ClaimTask(f, t, a, type, wt)
        \/ \E a \in AgentId, wt \in AgentId \cup {None} :
            CompleteTask(f, t, a, wt) \/ FailTask(f, t, a, wt)
    \/ MarkParentNotified(f, PendingParentNotifications(tasks))
    \/ ResetDanglingTasks(f)

PersistStep(f) ==
    TakeLock(f) \/ WriteTemp(f) \/ Rename(f) \/ PersistFails(f)

StoreNext ==
    \/ \E f \in Fiber : Operation(f) \/ PersistStep(f) \/ Return(f) \/ Interrupt(f)
    \/ AbandonedRenameLands
    \/ Restart

StoreSpec == StoreInit /\ [][StoreNext]_storeVars

\* A fiber that started an operation is scheduled until it returns, the
\* semaphore queues its waiters, and a rename lands.
StoreFairSpec ==
    /\ StoreSpec
    /\ \A f \in Fiber : SF_storeVars(TakeLock(f)) /\ WF_storeVars(PersistStep(f) \/ Return(f))
    /\ WF_storeVars(AbandonedRenameLands)

-----------------------------------------------------------------------------
(* Properties.                                                             *)

StoreTypeOK ==
    /\ tasks \in Graphs /\ file \in Graphs
    /\ snap \in [Fiber -> Graphs]
    /\ lock \in Fiber \cup {NoFiber}
    /\ io \in [Fiber -> IoState]
    /\ abandoned \subseteq [graph : Graphs, rev : Nat]
    /\ rev \in Nat /\ fileRev \in Nat
    /\ snapRev \in [Fiber -> Nat]
    /\ need \in [Fiber -> Nat]
    /\ lostRev \in Nat /\ faults \in Nat

\* An operation that reports success finds its own update, and every update
\* before it, in tasks.json: the snapshot is taken after the Ref.update, even
\* when another fiber's write came in between.
AckedIsDurable ==
    \A f \in Fiber : io[f] = "ok" => fileRev >= need[f]

\* tasks.json never goes back to an older snapshot: no interleaving of two
\* writers drops an update that had reached the disk.
NoStaleOverwrite == [][fileRev' >= fileRev]_storeVars

\* A file that has caught up with memory holds the map, field by field.
CaughtUpMeansEqual == fileRev = rev => file = tasks

\* With no persist in flight the file differs from memory only while it misses
\* an update whose own persist failed; the next successful write heals it.
DriftIsALostWrite ==
    file # tasks => (\E f \in Fiber : io[f] \in InFlight) \/ fileRev < lostRev

\* Every started operation is eventually acknowledged, refused or interrupted,
\* whatever the other fibers do with the lock.
PersistEnds == \A f \in Fiber : io[f] \in InFlight ~> io[f] \notin InFlight

\* What the lock and the snapshot add up to is the promise of DurableLog.
Promise == INSTANCE DurableLog WITH
    st <- [f \in Fiber |-> IF io[f] \in InFlight THEN "pending" ELSE io[f]]

ImplementsDurableLog == Promise!Spec
=============================================================================
