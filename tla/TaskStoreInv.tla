----------------------------- MODULE TaskStoreInv ------------------------------
(***************************************************************************)
(* The inductive invariants behind the properties of TaskStore, as         *)
(* definitions TLC can check before TLAPS proves them.                     *)
(***************************************************************************)
EXTENDS TaskStore

Writing == {"writing", "renaming"}

\* The permit is held exactly by the fiber between its snapshot and the end of
\* its rename (tasks.ts:118), so at most one fiber is there.
LockHeld == \A f \in Fiber : lock = f <=> io[f] \in Writing

\* Numbers in play never exceed the newest update in memory, and a snapshot is
\* taken after the update it must cover.
Numbered ==
    /\ fileRev <= rev /\ lostRev <= rev
    /\ \A f \in Fiber : need[f] <= rev
    /\ \A f \in Fiber :
        io[f] \in Writing => need[f] <= snapRev[f] /\ snapRev[f] <= rev
    /\ \A r \in abandoned : r.rev <= rev

\* Whatever carries the newest number holds the map in memory: the file, a
\* snapshot being written, a rename nobody waits for any more.
Content ==
    /\ fileRev = rev => file = tasks
    /\ \A f \in Fiber : io[f] \in Writing /\ snapRev[f] = rev => snap[f] = tasks
    /\ \A r \in abandoned : r.rev = rev => r.graph = tasks

StoreInv == StoreTypeOK /\ LockHeld /\ Numbered /\ Content

\* While the next writer does not overtake it, an abandoned rename is alone and
\* the permit free until it lands; so the file never runs ahead of the write
\* underway, and what is acknowledged is in it.
Forward ==
    /\ abandoned # {} => lock = NoFiber
    /\ \A r, s \in abandoned : r = s
    /\ \A r \in abandoned : fileRev <= r.rev
    /\ \A f \in Fiber : io[f] \in Writing => fileRev <= snapRev[f]
    /\ \A f \in Fiber : io[f] = "ok" => need[f] <= fileRev

\* The newest update is in the file, on its way, or known to be lost.
Pending ==
    fileRev < rev => \/ \E f \in Fiber : io[f] \in InFlight /\ need[f] = rev
                     \/ lostRev = rev

OrderInv == StoreInv /\ Forward /\ Pending
=============================================================================
