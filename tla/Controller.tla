------------------------------- MODULE Controller ------------------------------
(***************************************************************************)
(* packages/tui/src/controller.ts, for one session: parent turns, the      *)
(* listener on the completions queue, the drain that tells the parent what *)
(* its children have found, compaction, waitUntilIdle, and the restart of  *)
(* the process.  Children are those of Delegation.                         *)
(*                                                                         *)
(* JavaScript runs to the next await.  Awaits that wait for a file, a      *)
(* model or a child separate actions; those that resolve in the same turn  *)
(* of the event loop do not.  Writes of tasks.json are one step here:      *)
(* TaskStore models their lock and their snapshot.                         *)
(***************************************************************************)
EXTENDS Delegation, FiniteSets

CONSTANTS
    Turn,         \* the parent turns that can be underway at once
    NoTurn,
    Headless,     \* one prompt, then waitUntilIdle; otherwise a user
    Impatient,    \* does the user submit while a turn runs?
    Compacts,     \* does the user compact?
    Defects,      \* may a child die of a defect?
    MaxPrompts, MaxFaults, MaxCrashes    \* bounds

ASSUME ControllerAssumption ==
    /\ NoTurn \notin Turn
    /\ {Headless, Impatient, Compacts, Defects} \subseteq BOOLEAN
    /\ {MaxPrompts, MaxFaults, MaxCrashes} \subseteq Nat

VARIABLES
    running, draining, drainPending, compacting,
    turns,          \* per turn: "off", "on" or "saving"
    opening,        \* startSession: "resetting", "marking" or "open"
    taken,          \* bells the listener has taken
    known,          \* results in the memory of the task store
    marked,         \* those with parentNotifiedAt, in memory
    said,           \* how often the transcript in memory tells each
    read,           \* results some turn has sent to the model
    durable, markedOnDisk,    \* the same two sets in tasks.json
    saved,          \* results told in messages.jsonl
    waiter,         \* "off", "top", "draining", "turning", "blocked", "done"
    awaited,        \* the turn the headless run awaits
    woken,          \* the waiter's promise is resolved
    prompts,        \* what the user has asked for
    faults, crashes

flags   == <<running, draining, drainPending>>
results == <<known, marked, said, read>>
disk    == <<durable, markedOnDisk, saved>>
waiting == <<waiter, awaited, woken>>
bounds  == <<prompts, faults, crashes>>
rest    == <<compacting, opening, taken>>
controllerVars == <<delegationVars, flags, turns, results, disk, waiting, bounds, rest>>

ControllerInit ==
    /\ DelegationInit
    /\ running = FALSE /\ draining = FALSE /\ drainPending = FALSE
    /\ compacting = FALSE
    /\ turns = [i \in Turn |-> "off"]
    /\ opening = "open"      \* a new session has nothing to reset
    /\ taken = 0
    /\ known = {} /\ marked = {} /\ read = {}
    /\ said = [a \in AgentId |-> 0]
    /\ durable = {} /\ markedOnDisk = {} /\ saved = {}
    /\ waiter = "off" /\ awaited = NoTurn /\ woken = FALSE
    /\ prompts = 0 /\ faults = 0 /\ crashes = 0

Told == {a \in AgentId : said[a] > 0}

\* pendingParentNotifications, and the fibers in the orchestrator's map.
Pending == known \ marked
Active == {a \in AgentId : life[a] \in {"live", "recorded"}}

\* persist: tasks.json becomes what memory holds.
Write == durable' = known /\ markedOnDisk' = marked /\ UNCHANGED saved

Fault == faults < MaxFaults /\ faults' = faults + 1 /\ UNCHANGED <<prompts, crashes>>

\* A write that succeeds, or one that fails.
WriteOrFault ==
    \/ Write /\ UNCHANGED bounds
    \/ Fault /\ UNCHANGED disk

Signal == woken' = TRUE

-----------------------------------------------------------------------------
(* Injection and drain.                                                    *)

\* Mutant: the in-memory mark is left to the write.
InjectUnmarked ==
    /\ said' = [a \in AgentId |-> said[a] + (IF a \in Pending THEN 1 ELSE 0)]
    /\ UNCHANGED marked

\* injectPendingNotifications up to its write: one message for everything
\* pending, and the mark in memory.
Inject ==
    /\ said' = [a \in AgentId |-> said[a] + (IF a \in Pending THEN 1 ELSE 0)]
    /\ marked' = marked \cup Pending

\* Mutant: only another drain defers a drain.
DrainDuringTurns(busy, deferred) ==
    \/ /\ draining
       /\ drainPending' = TRUE
       /\ UNCHANGED <<draining, said, marked>>
    \/ /\ ~draining
       /\ drainPending' = deferred
       /\ draining' = (Pending # {})
       /\ Inject

\* maybeDrainCompletions up to the write of the mark.  "busy" and "deferred"
\* are running and drainPending at the call.
MaybeDrain(busy, deferred) ==
    \/ /\ busy \/ draining
       /\ drainPending' = TRUE
       /\ UNCHANGED <<draining, said, marked>>
    \/ /\ ~busy /\ ~draining
       /\ drainPending' = deferred
       /\ draining' = (Pending # {})
       /\ Inject

\* The listener takes a bell.
Listen ==
    /\ taken < bells
    /\ taken' = taken + 1
    /\ MaybeDrain(running, drainPending)
    /\ Signal
    /\ UNCHANGED <<delegationVars, running, turns, known, read, disk,
                   waiter, awaited, bounds, compacting, opening>>

-----------------------------------------------------------------------------
(* Parent turns.                                                           *)

\* runTurnNow up to the first request, which carries the whole transcript.
Begin(i) ==
    /\ turns[i] = "off"
    /\ turns' = [turns EXCEPT ![i] = "on"]
    /\ running' = TRUE
    /\ read' = read \cup Told

\* submitPrompt.  Nothing in the controller looks at running.
SubmitPrompt(i) ==
    /\ prompts < MaxPrompts
    /\ Impatient \/ ~running
    /\ Begin(i)
    /\ prompts' = prompts + 1
    /\ IF Headless THEN waiter' = "turning" /\ awaited' = i
                   ELSE UNCHANGED <<waiter, awaited>>
    /\ UNCHANGED <<delegationVars, draining, drainPending, known, marked, said,
                   disk, woken, faults, crashes, rest>>

\* The next iteration of the agent loop; persistProgress may save.
Iterate(i) ==
    /\ turns[i] = "on"
    /\ read' = read \cup Told
    /\ saved' \in {saved, Told}
    /\ UNCHANGED <<delegationVars, flags, turns, known, marked, said, durable,
                   markedOnDisk, waiting, bounds, rest>>

\* Mutant: the deferred drain waits for the next bell.
TurnOverUnflushed(i) ==
    /\ turns' = [turns EXCEPT ![i] = "off"]
    /\ running' = FALSE
    /\ UNCHANGED <<draining, drainPending, said, marked>>
    /\ Signal
    /\ IF awaited = i THEN waiter' = "top" /\ awaited' = NoTurn
                      ELSE UNCHANGED <<waiter, awaited>>

\* Mutant: the waiters are not woken.
TurnOverQuietly(i) ==
    /\ turns' = [turns EXCEPT ![i] = "off"]
    /\ running' = FALSE
    /\ IF drainPending THEN MaybeDrain(FALSE, FALSE)
                       ELSE UNCHANGED <<draining, drainPending, said, marked>>
    /\ UNCHANGED woken
    /\ IF awaited = i THEN waiter' = "top" /\ awaited' = NoTurn
                      ELSE UNCHANGED <<waiter, awaited>>

\* The finally of runTurnNow.
TurnOver(i) ==
    /\ turns' = [turns EXCEPT ![i] = "off"]
    /\ running' = FALSE
    /\ IF drainPending THEN MaybeDrain(FALSE, FALSE)
                       ELSE UNCHANGED <<draining, drainPending, said, marked>>
    /\ Signal
    /\ IF awaited = i THEN waiter' = "top" /\ awaited' = NoTurn
                      ELSE UNCHANGED <<waiter, awaited>>

\* The agent loop returns, and the session is saved.
RunReturns(i) ==
    /\ turns[i] = "on"
    /\ turns' = [turns EXCEPT ![i] = "saving"]
    /\ UNCHANGED <<delegationVars, flags, results, disk, waiting, bounds, rest>>

\* It fails or is interrupted: nothing is saved.
RunFails(i) ==
    /\ turns[i] = "on"
    /\ TurnOver(i)
    /\ UNCHANGED <<delegationVars, known, read, disk, bounds, rest>>

SaveEnds(i) ==
    /\ turns[i] = "saving"
    /\ \/ saved' = Told /\ UNCHANGED bounds
       \/ Fault /\ UNCHANGED saved
    /\ TurnOver(i)
    /\ UNCHANGED <<delegationVars, known, read, durable, markedOnDisk, rest>>

\* The mark is written and the follow-up turn begins, whatever has happened
\* since running was read; or the write fails, and the drain is dropped.
DrainSettles ==
    /\ draining
    /\ draining' = FALSE
    /\ \/ /\ Write /\ UNCHANGED bounds
          /\ \E i \in Turn :
                /\ Begin(i)
                /\ IF waiter = "draining" THEN waiter' = "turning" /\ awaited' = i
                                          ELSE UNCHANGED <<waiter, awaited>>
          /\ UNCHANGED woken
       \/ /\ Fault /\ UNCHANGED disk
          /\ waiter' = IF waiter = "draining" THEN "top" ELSE waiter
          /\ Signal
          /\ UNCHANGED <<running, turns, read, awaited>>
    /\ UNCHANGED <<delegationVars, drainPending, known, marked, said, rest>>

\* compact uses running as its lock and returns early when it is taken.
Compact ==
    /\ Compacts
    /\ prompts < MaxPrompts
    /\ ~running
    /\ running' = TRUE
    /\ compacting' = TRUE
    /\ prompts' = prompts + 1
    /\ UNCHANGED <<delegationVars, draining, drainPending, turns, results, disk,
                   waiting, faults, crashes, opening, taken>>

\* Its finally; a compaction that fails is not saved.
CompactEnds ==
    /\ compacting
    /\ running' = FALSE
    /\ compacting' = FALSE
    /\ saved' \in {saved, Told}
    /\ UNCHANGED <<delegationVars, draining, drainPending, turns, results,
                   durable, markedOnDisk, waiting, bounds, opening, taken>>

-----------------------------------------------------------------------------
(* startSession: results from before the restart are told, no turn is run. *)

OpenSession ==
    /\ opening = "resetting"
    /\ opening' = IF Pending = {} THEN "open" ELSE "marking"
    /\ Inject
    /\ UNCHANGED <<delegationVars, flags, turns, known, read, disk, waiting, bounds,
                   compacting, taken>>

SessionOpens ==
    /\ opening = "marking"
    /\ opening' = "open"
    /\ WriteOrFault
    /\ UNCHANGED <<delegationVars, flags, turns, results, waiting, compacting, taken>>

-----------------------------------------------------------------------------
(* Children, as Delegation has them.                                       *)

SpawnChild(a) ==
    /\ \E i \in Turn : turns[i] = "on"
    /\ Start(a)
    /\ Signal
    /\ UNCHANGED <<flags, turns, results, disk, waiter, awaited, bounds, rest>>

ChildRecords(a) ==
    /\ Record(a)
    /\ known' = known \cup {a}
    /\ UNCHANGED <<flags, turns, marked, said, read, disk, waiting, bounds, rest>>

ChildRings(a) ==
    /\ Bell(a)
    /\ WriteOrFault
    /\ Signal
    /\ UNCHANGED <<flags, turns, results, waiter, awaited, rest>>

\* A defect: no record, no event, no bell.
ChildDies(a) ==
    /\ Defects
    /\ life[a] = "live"
    /\ Die(a)
    /\ UNCHANGED <<flags, turns, results, disk, waiting, bounds, rest>>

-----------------------------------------------------------------------------
(* waitUntilIdle.                                                          *)

\* Mutant: children that run are forgotten.
IdleWithChildren == Pending = {}

\* isIdle, once running, draining and drainPending are known to be false.
IsIdle == Pending = {} /\ Active = {}

\* Mutant: the pass drains whatever is underway.
WaitPassAnyTime ==
    /\ waiter = "top"
    /\ ~draining
    /\ MaybeDrain(FALSE, FALSE)
    /\ waiter' = IF Pending # {} THEN "draining" ELSE IF IsIdle THEN "done" ELSE "top"
    /\ UNCHANGED <<delegationVars, running, turns, known, read, disk, awaited, woken,
                   bounds, rest>>

\* One pass of the loop with nothing underway: it drains, and looks.  The
\* drain's own signal has resolved the promise the pass registered.
WaitPass ==
    /\ waiter = "top"
    /\ ~running /\ ~draining
    /\ MaybeDrain(FALSE, FALSE)
    /\ waiter' = IF Pending # {} THEN "draining" ELSE IF IsIdle THEN "done" ELSE "top"
    /\ UNCHANGED <<delegationVars, running, turns, known, read, disk, awaited, woken,
                   bounds, rest>>

WaitBlocks ==
    /\ waiter = "top"
    /\ running \/ draining
    /\ waiter' = "blocked"
    /\ woken' = FALSE
    /\ UNCHANGED <<delegationVars, flags, turns, results, disk, awaited, bounds, rest>>

WaitWakes ==
    /\ waiter = "blocked"
    /\ woken
    /\ waiter' = "top"
    /\ UNCHANGED <<delegationVars, flags, turns, results, disk, awaited, woken, bounds, rest>>

-----------------------------------------------------------------------------
\* The process dies and the session is resumed: what is on disk remains.
Crash ==
    /\ crashes < MaxCrashes
    /\ crashes' = crashes + 1
    /\ AllDie
    /\ running' = FALSE /\ draining' = FALSE /\ drainPending' = FALSE
    /\ compacting' = FALSE
    /\ turns' = [i \in Turn |-> "off"]
    /\ opening' = "resetting"
    /\ taken' = 0
    /\ known' = durable /\ marked' = markedOnDisk
    /\ said' = [a \in AgentId |-> IF a \in saved THEN 1 ELSE 0]
    /\ waiter' = "off" /\ awaited' = NoTurn /\ woken' = FALSE
    /\ UNCHANGED <<read, disk, prompts, faults>>

TurnStep(i) == Iterate(i) \/ RunReturns(i) \/ RunFails(i) \/ SaveEnds(i)
ChildStep(a) == ChildRecords(a) \/ ChildRings(a)
Wait == WaitPass \/ WaitBlocks \/ WaitWakes

ControllerNext ==
    \/ \E i \in Turn : SubmitPrompt(i) \/ TurnStep(i)
    \/ \E a \in AgentId : SpawnChild(a) \/ ChildStep(a) \/ ChildDies(a)
    \/ Listen
    \/ DrainSettles
    \/ Compact \/ CompactEnds
    \/ OpenSession \/ SessionOpens
    \/ Wait
    \/ Crash

ControllerSpec == ControllerInit /\ [][ControllerNext]_controllerVars

\* Turns end: the loop is bounded by its iterations and the model stream by its
\* idle timeout.  Children end, and file-system calls answer; the listener and
\* the waiter are scheduled.
ControllerFairSpec ==
    /\ ControllerSpec
    /\ \A i \in Turn : WF_controllerVars(RunReturns(i) \/ RunFails(i) \/ SaveEnds(i))
    /\ \A a \in AgentId : WF_controllerVars(ChildStep(a))
    /\ WF_controllerVars(Listen)
    /\ WF_controllerVars(DrainSettles)
    /\ WF_controllerVars(CompactEnds)
    /\ WF_controllerVars(OpenSession \/ SessionOpens)
    /\ WF_controllerVars(Wait)

-----------------------------------------------------------------------------
(* Properties.                                                             *)

\* Parent turns are serialised: they share one transcript, one abort controller
\* and one running flag.
OneParentTurn == Cardinality({i \in Turn : turns[i] # "off"}) <= 1

\* Nothing is pushed into the transcript of a turn underway, where it could
\* come between a tool call and its result.
InjectsBetweenTurns ==
    [][said' # said => crashes' # crashes \/ \A i \in Turn : turns'[i] # "on"]_controllerVars

\* A drain that was put off is flushed by the turn or the drain it was put off
\* for: otherwise nobody looks again until another bell rings.
DrainIsFlushed == drainPending => running \/ draining

\* Within one process no result is told twice, whatever is submitted, compacted
\* or fails meanwhile.
ToldOnce == crashes = 0 => \A a \in AgentId : said[a] <= 1

\* waitUntilIdle resolves, even when children die without a word.
WaitEnds == waiter # "off" ~> waiter = "done"

Stage == [a \in AgentId |->
            CASE a \in read -> "read"
              [] a \in Told \ read -> "told"
              [] a \in Pending \ Told -> "pending"
              [] OTHER -> "none"]

\* The parent sees its children's results as Delivery has it.
Delivered == INSTANCE Delivery WITH stage <- Stage, idle <- waiter = "done"

ImplementsDelivery == Delivered!DeliverySpec
=============================================================================
