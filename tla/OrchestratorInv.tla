---------------------------- MODULE OrchestratorInv ----------------------------
(***************************************************************************)
(* The inductive invariants behind the properties of Orchestrator, as      *)
(* definitions TLC can check before TLAPS proves them.  Each layer says     *)
(* what it needs of the constants.                                         *)
(***************************************************************************)
EXTENDS Orchestrator

\* Of any instance: a spawn has drawn an id and a type; the id is of no child yet
\* and of no other spawn.
SpawnHasAgent ==
    \A c \in Caller :
        at[c] \in {"worktree", "claiming", "undo"} =>
            job[c].agent \in AgentId /\ job[c].type \in AgentType

Drawn ==
    \A c \in Caller :
        job[c].agent # None =>
            /\ at[c] \in {"worktree", "claiming", "undo"}
            /\ child[job[c].agent] = "none"
            /\ \A d \in Caller : job[d].agent = job[c].agent => d = c

-----------------------------------------------------------------------------
(* With one parent turn at a time.                                         *)

OneCaller == \A c, d \in Caller : c = d

\* A spawn that has passed the check still finds its slot free: only it registers.
CapInv ==
    /\ IsFiniteSet(active) /\ Cardinality(active) <= Cap
    /\ \A c \in Caller : at[c] \in {"worktree", "claiming"} => Cardinality(active) < Cap
    /\ ~Teardowns => stopping = {} /\ LiveChildren \subseteq active

-----------------------------------------------------------------------------
(* When the session is reset before anybody spawns, and TaskUpdate leaves   *)
(* the owners to the orchestrator.                                         *)

OwnersKept == \A p \in Patches : p.owner = None

\* Before the reset nobody lives and nobody is on the way.
FreshIsQuiet ==
    fresh => /\ \A a \in AgentId : child[a] \notin Live
             /\ \A c \in Caller : at[c] \notin {"worktree", "claiming", "undo"}

Owns(a, t) == t \in TaskId /\ tasks[t].owner = a /\ tasks[t].status # "absent"

OwnInv ==
    /\ FreshIsQuiet
    /\ \A a \in AgentId : child[a] \in Live => Owns(a, taskOf[a])
    /\ \A c \in Caller : at[c] = "claiming" => Owns(job[c].agent, job[c].task)

-----------------------------------------------------------------------------
(* When it leaves the statuses to the orchestrator as well.                *)

StatusKept == \A p \in Patches : p.status = None

TaskUpdateKeeps == OwnersKept /\ StatusKept

Finished(task) == task.status \in {"completed", "failed"}

\* Whatever the store holds or is about to write.
StoreGraphs ==
    {tasks, file} \cup {snap[f] : f \in Fiber} \cup {r.graph : r \in abandoned}

\* An owner is an agent whose spawn claimed this task, and came to nothing or
\* registered the child with it.
ClaimedBy(a, t) ==
    /\ a \in AgentId
    /\ \/ child[a] = "none" /\ \E c \in Caller : job[c].agent = a /\ job[c].task = t
       \/ child[a] = "void"
       \/ child[a] \notin {"none", "void"} /\ taskOf[a] = t

WellOwned(g) ==
    \A t \in TaskId :
        /\ g[t].owner # None => g[t].status # "absent" /\ ClaimedBy(g[t].owner, t)
        /\ g[t].worktree \in {None, g[t].owner}
        /\ Finished(g[t]) => g[t].owner # None
        /\ g[t].notified => Finished(g[t])

\* What is finished stays as it is.
FinishedStays(g) ==
    \A t \in TaskId : Finished(g[t]) => /\ Finished(tasks[t])
                                        /\ tasks[t].worktree = g[t].worktree

\* A worktree is recorded with an outcome by its own child, once it was kept.
KeptByItsChild ==
    \A t \in TaskId :
        LET w == tasks[t].worktree
        IN  Finished(tasks[t]) /\ w # None =>
                /\ w \in worktrees
                /\ child[w] \in {"recording", "gone", "dead"}
                /\ \A c \in Caller : w \notin job[c].stale

StaleAreDead ==
    \A c \in Caller : \A w \in job[c].stale : child[w] \in {"void", "gone", "dead"}

Stages ==
    /\ \A a \in AgentId :
        /\ child[a] \in {"running", "cleaning"} => tasks[taskOf[a]].status = "in_progress"
        /\ child[a] = "cleaning" => a \in worktrees
        /\ child[a] = "recording" => Finished(tasks[taskOf[a]])
    /\ \A c \in Caller : at[c] = "claiming" => tasks[job[c].task].status = "in_progress"

TreeInv ==
    /\ \A g \in StoreGraphs : WellOwned(g) /\ FinishedStays(g)
    /\ KeptByItsChild
    /\ StaleAreDead
    /\ Stages

-----------------------------------------------------------------------------
(* When no writer overtakes a rename whose fiber was interrupted.          *)

\* The outcome of a is in this graph, and not told yet.
Tells(g, a) == taskOf[a] \in TaskId /\ Untold(g[taskOf[a]]) /\ g[taskOf[a]].owner = a

\* The graphs a restart may read: the file, a snapshot being written, a rename
\* nobody waits for any more.
Carried ==
    {[graph |-> file, rev |-> fileRev]}
    \cup {[graph |-> snap[f], rev |-> snapRev[f]] :
             f \in {g \in Fiber : io[g] \in {"writing", "renaming"}}}
    \cup abandoned

\* Memory has what is owed; so has every carried graph not older than the record
\* and, once the record was acknowledged, every carried graph.
Owes(a) ==
    /\ owed[a] # "no" => Tells(tasks, a) /\ child[a] \in {"recording", "gone", "dead"}
    /\ \A r \in Carried :
        \/ owed[a] = "announced"
        \/ owed[a] = "recorded" /\ child[a] = "recording" /\ r.rev >= need[a]
        => Tells(r.graph, a)

OwedInv == \A a \in AgentId : Owes(a)
=============================================================================
