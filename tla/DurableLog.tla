------------------------------- MODULE DurableLog ------------------------------
(***************************************************************************)
(* What the task store promises its callers: updates are numbered in the   *)
(* order they are applied to memory, the file always holds one of them,    *)
(* it only moves forward, and an operation is acknowledged only once the   *)
(* file has reached its update.  A restart forgets what the file lacks.    *)
(***************************************************************************)
EXTENDS Naturals

CONSTANT Fiber

VARIABLES
    rev,       \* number of the last update applied to memory
    fileRev,   \* number of the update the file holds
    need,      \* per fiber, the number of the update it waits for
    st         \* per fiber: "idle", "pending", "ok" or "failed"

vars == <<rev, fileRev, need, st>>

Init ==
    /\ rev = 0
    /\ fileRev = 0
    /\ need = [f \in Fiber |-> 0]
    /\ st = [f \in Fiber |-> "idle"]

Update(f) ==
    /\ st[f] = "idle"
    /\ rev' = rev + 1
    /\ need' = [need EXCEPT ![f] = rev + 1]
    /\ st' = [st EXCEPT ![f] = "pending"]
    /\ UNCHANGED fileRev

Save(f) ==
    /\ st[f] = "pending"
    /\ fileRev' \in need[f] .. rev
    /\ fileRev' >= fileRev
    /\ st' = [st EXCEPT ![f] = "ok"]
    /\ UNCHANGED <<rev, need>>

Fail(f) ==
    /\ st[f] = "pending"
    /\ st' = [st EXCEPT ![f] = "failed"]
    /\ UNCHANGED <<rev, fileRev, need>>

Return(f) ==
    /\ st[f] \in {"ok", "failed"}
    /\ st' = [st EXCEPT ![f] = "idle"]
    /\ need' = [need EXCEPT ![f] = 0]
    /\ UNCHANGED <<rev, fileRev>>

\* The caller is interrupted: nobody will hear the outcome.
GiveUp(f) ==
    /\ st[f] = "pending"
    /\ st' = [st EXCEPT ![f] = "idle"]
    /\ need' = [need EXCEPT ![f] = 0]
    /\ UNCHANGED <<rev, fileRev>>

\* What a caller that gave up had on its way still arrives.
Land ==
    /\ fileRev' \in fileRev .. rev
    /\ UNCHANGED <<rev, need, st>>

Restart ==
    /\ rev' = fileRev
    /\ need' = [f \in Fiber |-> 0]
    /\ st' = [f \in Fiber |-> "idle"]
    /\ UNCHANGED fileRev

Next ==
    \/ \E f \in Fiber : Update(f) \/ Save(f) \/ Fail(f) \/ Return(f) \/ GiveUp(f)
    \/ Land \/ Restart

Spec == Init /\ [][Next]_vars
=============================================================================
