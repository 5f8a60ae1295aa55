--------------------------- MODULE Controller_proofs ---------------------------
(***************************************************************************)
(* What the controller promises of parent turns and of the results its     *)
(* children bring: nothing is told twice; and in a headless run one turn    *)
(* is underway at a time, drains wait for turns and turns for drains, and  *)
(* the parent gets its results as Delivery has it.                         *)
(***************************************************************************)
EXTENDS Controller, FiniteSetTheorems, TLAPS

-----------------------------------------------------------------------------
(* The invariants.                                                         *)

Lives == {"none", "live", "recorded", "gone", "dead"}

ChildTypes ==
    /\ life \in [AgentId -> Lives] /\ bells \in Nat /\ taken \in Nat

FlagTypes ==
    /\ running \in BOOLEAN /\ draining \in BOOLEAN /\ drainPending \in BOOLEAN
    /\ compacting \in BOOLEAN /\ woken \in BOOLEAN

TurnTypes ==
    /\ turns \in [Turn -> {"off", "on", "saving"}] /\ awaited \in Turn \cup {NoTurn}
    /\ waiter \in {"off", "top", "draining", "turning", "blocked", "done"}
    /\ opening \in {"resetting", "marking", "open"}

ResultTypes ==
    /\ said \in [AgentId -> Nat]
    /\ known \subseteq AgentId /\ marked \subseteq AgentId /\ read \subseteq AgentId

DiskTypes ==
    /\ durable \subseteq AgentId /\ markedOnDisk \subseteq AgentId /\ saved \subseteq AgentId

BoundTypes == prompts \in Nat /\ faults \in Nat /\ crashes \in Nat

ControllerTypeOK ==
    ChildTypes /\ FlagTypes /\ TurnTypes /\ ResultTypes /\ DiskTypes /\ BoundTypes

\* Within one process what was told is marked.
MarkedOnceTold ==
    crashes = 0 => \A a \in AgentId : said[a] <= 1 /\ (said[a] > 0 => a \in marked)

\* One prompt and nobody who compacts or resumes, as in a headless run.
OnePrompt == MaxPrompts <= 1 /\ ~Compacts /\ MaxCrashes = 0

Underway == {i \in Turn : turns[i] # "off"}

\* running is the turn that is underway, and no drain is underway beside it.
TurnsAndDrains ==
    /\ crashes = 0 /\ ~compacting /\ opening = "open"
    /\ running <=> Underway # {}
    /\ \A i, j \in Underway : i = j
    /\ draining => ~running

\* Before the prompt nothing is underway.
QuietBeforePrompt ==
    prompts = 0 =>
        /\ ~running /\ ~draining /\ known = {} /\ waiter = "off"
        /\ \A a \in AgentId : life[a] = "none"

HeadlessInv == ControllerTypeOK /\ TurnsAndDrains /\ QuietBeforePrompt

\* While nothing but the drain's write is awaited, every result that was told is
\* read; and idle is idle.
ResultsReach ==
    /\ marked = Told /\ marked \subseteq known /\ read \subseteq Told
    /\ ~draining => Told \subseteq read
    /\ \A a \in known : life[a] \notin {"none", "live"}
    /\ waiter = "done" => ~running /\ ~draining /\ Active = {} /\ Pending = {}

DeliveryInv == HeadlessInv /\ ResultsReach

-----------------------------------------------------------------------------
(* Types.                                                                  *)

\* An injection counts, and marks results that are known.
LEMMA InjectTypes ==
  ASSUME ControllerTypeOK, Inject
  PROVE  said' \in [AgentId -> Nat] /\ marked' \subseteq AgentId
  BY DEF ControllerTypeOK, ChildTypes, FlagTypes, TurnTypes, ResultTypes, DiskTypes, BoundTypes, Inject, Pending

\* A drain that is put off, or begins, keeps the types.
LEMMA MaybeDrainTypes ==
  ASSUME ControllerTypeOK, NEW busy, NEW deferred \in BOOLEAN, MaybeDrain(busy, deferred)
  PROVE  /\ said' \in [AgentId -> Nat] /\ marked' \subseteq AgentId
         /\ draining' \in BOOLEAN /\ drainPending' \in BOOLEAN
<1>1. CASE UNCHANGED <<draining, said, marked>> /\ drainPending' = TRUE
  BY <1>1 DEF ControllerTypeOK, ChildTypes, FlagTypes, TurnTypes, ResultTypes, DiskTypes, BoundTypes
<1>2. CASE drainPending' = deferred /\ draining' = (Pending # {}) /\ Inject
  BY <1>2, InjectTypes
<1>. QED BY <1>1, <1>2 DEF MaybeDrain

\* So does the end of a turn.
LEMMA TurnOverTypes ==
  ASSUME ControllerTypeOK, NEW i \in Turn, TurnOver(i)
  PROVE  /\ said' \in [AgentId -> Nat] /\ marked' \subseteq AgentId
         /\ running' \in BOOLEAN /\ draining' \in BOOLEAN /\ drainPending' \in BOOLEAN
         /\ woken' \in BOOLEAN
         /\ turns' \in [Turn -> {"off", "on", "saving"}]
         /\ waiter' \in {"off", "top", "draining", "turning", "blocked", "done"}
         /\ awaited' \in Turn \cup {NoTurn}
<1>1. /\ said' \in [AgentId -> Nat] /\ marked' \subseteq AgentId
      /\ draining' \in BOOLEAN /\ drainPending' \in BOOLEAN
  BY MaybeDrainTypes DEF ControllerTypeOK, ChildTypes, FlagTypes, TurnTypes, ResultTypes, DiskTypes, BoundTypes, TurnOver
<1>. QED BY <1>1 DEF ControllerTypeOK, ChildTypes, FlagTypes, TurnTypes, ResultTypes, DiskTypes, BoundTypes, TurnOver, Signal

\* Every step keeps the types.
LEMMA TypesKept ==
  ASSUME ControllerTypeOK, [ControllerNext]_controllerVars
  PROVE  ControllerTypeOK'
<1> USE DEF ControllerTypeOK, ChildTypes, FlagTypes, TurnTypes, ResultTypes, DiskTypes, BoundTypes,
            Lives, flags, results, disk, waiting, bounds, rest, delegationVars
<1>1. ASSUME NEW i \in Turn, SubmitPrompt(i)  PROVE ControllerTypeOK'
  BY <1>1 DEF SubmitPrompt, Begin, Told
<1>2. ASSUME NEW i \in Turn, Iterate(i) \/ RunReturns(i)  PROVE ControllerTypeOK'
  BY <1>2 DEF Iterate, RunReturns, Told
<1>3. ASSUME NEW i \in Turn, RunFails(i)  PROVE ControllerTypeOK'
  BY <1>3, TurnOverTypes DEF RunFails
<1>4. ASSUME NEW i \in Turn, SaveEnds(i)  PROVE ControllerTypeOK'
  BY <1>4, TurnOverTypes DEF SaveEnds, Fault, Told
<1>5. ASSUME NEW a \in AgentId, SpawnChild(a)  PROVE ControllerTypeOK'
  BY <1>5 DEF SpawnChild, Start, Becomes, Signal
<1>6. ASSUME NEW a \in AgentId, ChildRecords(a)  PROVE ControllerTypeOK'
  BY <1>6 DEF ChildRecords, Record, Becomes
<1>7. ASSUME NEW a \in AgentId, ChildRings(a)  PROVE ControllerTypeOK'
  BY <1>7 DEF ChildRings, Bell, Becomes, WriteOrFault, Write, Fault, Signal
<1>8. ASSUME NEW a \in AgentId, ChildDies(a)  PROVE ControllerTypeOK'
  BY <1>8 DEF ChildDies, Die
<1>9. ASSUME Listen  PROVE ControllerTypeOK'
  BY <1>9, MaybeDrainTypes DEF Listen, Signal
<1>10. ASSUME DrainSettles  PROVE ControllerTypeOK'
  <2>1. ChildTypes'  BY <1>10 DEF DrainSettles, Write, Begin, Fault, Signal, Told
  <2>2. FlagTypes'  BY <1>10 DEF DrainSettles, Write, Begin, Fault, Signal, Told
  <2>3. TurnTypes'  BY <1>10 DEF DrainSettles, Write, Begin, Fault, Signal, Told
  <2>4. ResultTypes'  BY <1>10 DEF DrainSettles, Write, Begin, Fault, Signal, Told
  <2>5. DiskTypes'  BY <1>10 DEF DrainSettles, Write, Begin, Fault, Signal, Told
  <2>6. BoundTypes'  BY <1>10 DEF DrainSettles, Write, Begin, Fault, Signal, Told
  <2>. QED BY <2>1, <2>2, <2>3, <2>4, <2>5, <2>6
<1>11. ASSUME Compact \/ CompactEnds  PROVE ControllerTypeOK'
  <2>1. ChildTypes'  BY <1>11 DEF Compact, CompactEnds, Told
  <2>2. FlagTypes'  BY <1>11 DEF Compact, CompactEnds, Told
  <2>3. TurnTypes'  BY <1>11 DEF Compact, CompactEnds, Told
  <2>4. ResultTypes'  BY <1>11 DEF Compact, CompactEnds, Told
  <2>5. DiskTypes'  BY <1>11 DEF Compact, CompactEnds, Told
  <2>6. BoundTypes'  BY <1>11 DEF Compact, CompactEnds, Told
  <2>. QED BY <2>1, <2>2, <2>3, <2>4, <2>5, <2>6
<1>12. ASSUME OpenSession  PROVE ControllerTypeOK'
  BY <1>12, InjectTypes DEF OpenSession
<1>13. ASSUME SessionOpens  PROVE ControllerTypeOK'
  <2>1. ChildTypes'  BY <1>13 DEF SessionOpens, WriteOrFault, Write, Fault
  <2>2. FlagTypes'  BY <1>13 DEF SessionOpens, WriteOrFault, Write, Fault
  <2>3. TurnTypes'  BY <1>13 DEF SessionOpens, WriteOrFault, Write, Fault
  <2>4. ResultTypes'  BY <1>13 DEF SessionOpens, WriteOrFault, Write, Fault
  <2>5. DiskTypes'  BY <1>13 DEF SessionOpens, WriteOrFault, Write, Fault
  <2>6. BoundTypes'  BY <1>13 DEF SessionOpens, WriteOrFault, Write, Fault
  <2>. QED BY <2>1, <2>2, <2>3, <2>4, <2>5, <2>6
<1>14. ASSUME Wait  PROVE ControllerTypeOK'
  BY <1>14, MaybeDrainTypes DEF Wait, WaitPass, WaitBlocks, WaitWakes
<1>15. ASSUME Crash  PROVE ControllerTypeOK'
  <2>1. ChildTypes'  BY <1>15 DEF Crash, AllDie
  <2>2. FlagTypes'  BY <1>15 DEF Crash, AllDie
  <2>3. TurnTypes'  BY <1>15 DEF Crash, AllDie
  <2>4. ResultTypes'  BY <1>15 DEF Crash, AllDie
  <2>5. DiskTypes'  BY <1>15 DEF Crash, AllDie
  <2>6. BoundTypes'  BY <1>15 DEF Crash, AllDie
  <2>. QED BY <2>1, <2>2, <2>3, <2>4, <2>5, <2>6
<1>16. CASE UNCHANGED controllerVars
  BY <1>16 DEF controllerVars
<1>. QED BY <1>1, <1>2, <1>3, <1>4, <1>5, <1>6, <1>7, <1>8, <1>9, <1>10, <1>11, <1>12, <1>13,
            <1>14, <1>15, <1>16 DEF ControllerNext, TurnStep, ChildStep

\* The types hold at the start.
LEMMA InitTypes == ControllerInit => ControllerTypeOK
<1> SUFFICES ASSUME ControllerInit  PROVE ControllerTypeOK
  OBVIOUS
<1> USE DEF ControllerInit, DelegationInit
<1>1. ChildTypes  BY DEF ChildTypes, Lives
<1>2. FlagTypes  BY DEF FlagTypes
<1>3. TurnTypes  BY DEF TurnTypes
<1>4. ResultTypes  BY DEF ResultTypes
<1>5. DiskTypes  BY DEF DiskTypes
<1>6. BoundTypes  BY DEF BoundTypes
<1>. QED BY <1>1, <1>2, <1>3, <1>4, <1>5, <1>6 DEF ControllerTypeOK

-----------------------------------------------------------------------------
(* Nothing is told twice.                                                  *)

\* What a step does to what was told: nothing, or an injection, or a restart.
LEMMA TellsOrInjects ==
  ASSUME ControllerNext
  PROVE  \/ UNCHANGED <<said, marked, crashes>>
         \/ Inject /\ UNCHANGED crashes
         \/ crashes' = crashes + 1
<1> USE DEF results, disk, waiting, bounds, rest
<1>1. ASSUME NEW i \in Turn, SubmitPrompt(i) \/ TurnStep(i)
      PROVE  \/ UNCHANGED <<said, marked, crashes>>
             \/ Inject /\ UNCHANGED crashes
  BY <1>1 DEF SubmitPrompt, TurnStep, Iterate, RunReturns, RunFails, SaveEnds, TurnOver,
              MaybeDrain, Fault
<1>2. ASSUME NEW a \in AgentId, SpawnChild(a) \/ ChildStep(a) \/ ChildDies(a)
      PROVE  UNCHANGED <<said, marked, crashes>>
  BY <1>2 DEF SpawnChild, ChildStep, ChildRecords, ChildRings, ChildDies, WriteOrFault, Fault
<1>3. ASSUME Listen \/ DrainSettles \/ Compact \/ CompactEnds \/ OpenSession \/ SessionOpens \/ Wait
      PROVE  \/ UNCHANGED <<said, marked, crashes>>
             \/ Inject /\ UNCHANGED crashes
  BY <1>3 DEF Listen, DrainSettles, Compact, CompactEnds, OpenSession, SessionOpens, Wait,
              WaitPass, WaitBlocks, WaitWakes, MaybeDrain, WriteOrFault, Fault
<1>. QED BY <1>1, <1>2, <1>3 DEF ControllerNext, Crash

\* Every step keeps what was told marked.
LEMMA MarksKept ==
  ASSUME ControllerTypeOK, MarkedOnceTold, [ControllerNext]_controllerVars
  PROVE  MarkedOnceTold'
<1>1. CASE UNCHANGED <<said, marked, crashes>>
  BY <1>1 DEF MarkedOnceTold
<1>2. CASE Inject /\ UNCHANGED crashes
  BY <1>2 DEF MarkedOnceTold, Inject, Pending, ControllerTypeOK, ResultTypes
<1>3. CASE crashes' = crashes + 1
  BY <1>3 DEF MarkedOnceTold, ControllerTypeOK, BoundTypes
<1>4. CASE UNCHANGED controllerVars
  BY <1>4, <1>1 DEF controllerVars, results, bounds
<1>. QED BY <1>1, <1>2, <1>3, <1>4, TellsOrInjects

\* Within one process no result is told to the parent twice: the mark is set in
\* memory with the message, before anything is awaited (controller.ts).
THEOREM TellsOnce == ControllerSpec => []ToldOnce
<1>1. ControllerInit => MarkedOnceTold
  <2>. SUFFICES ASSUME ControllerInit, NEW a \in AgentId
                PROVE  said[a] <= 1 /\ ~(said[a] > 0)
    BY Zenon DEF MarkedOnceTold
  <2>1. said = [b \in AgentId |-> 0]
    BY DEF ControllerInit
  <2>. QED BY <2>1
<1>2. MarkedOnceTold => ToldOnce
  BY Zenon DEF MarkedOnceTold, ToldOnce
<1>. QED BY <1>1, <1>2, InitTypes, TypesKept, MarksKept, PTL DEF ControllerSpec

-----------------------------------------------------------------------------
(* A headless run: one turn at a time.                                     *)

\* In a headless run nobody compacts, resumes or dies.
LEMMA NeverInHeadless ==
  ASSUME OnePrompt, HeadlessInv
  PROVE  ~Compact /\ ~CompactEnds /\ ~OpenSession /\ ~SessionOpens /\ ~Crash
  BY DEF OnePrompt, HeadlessInv, TurnsAndDrains, Compact, CompactEnds, OpenSession, SessionOpens, Crash,
         ControllerTypeOK, BoundTypes

\* A turn that begins when none is underway is the only one.
LEMMA BeginsAlone ==
  ASSUME HeadlessInv, Underway = {}, NEW i \in Turn, Begin(i)
  PROVE  Underway' = {i} /\ running'
<1>1. turns \in [Turn -> {"off", "on", "saving"}] /\ turns' = [turns EXCEPT ![i] = "on"]
  BY DEF HeadlessInv, ControllerTypeOK, TurnTypes, Begin
<1>2. \A j \in Turn : turns[j] = "off"
  BY DEF Underway
<1>. QED BY <1>1, <1>2 DEF Underway, Begin

\* The turn that ends leaves none underway.
LEMMA EndsAlone ==
  ASSUME HeadlessInv, NEW i \in Underway, TurnOver(i)
  PROVE  Underway' = {} /\ ~running' /\ (draining' => ~running')
<1>1. turns \in [Turn -> {"off", "on", "saving"}] /\ turns' = [turns EXCEPT ![i] = "off"]
  BY DEF HeadlessInv, ControllerTypeOK, TurnTypes, TurnOver
<1>2. \A j \in Turn : turns[j] # "off" => j = i
  BY DEF HeadlessInv, TurnsAndDrains, Underway
<1>. QED BY <1>1, <1>2 DEF Underway, TurnOver

\* A turn is underway only after the prompt, and so are children, drains and the
\* wait for idle.
LEMMA AfterThePrompt ==
  ASSUME HeadlessInv
  PROVE  /\ Underway # {} => prompts # 0
         /\ draining => prompts # 0
         /\ waiter # "off" => prompts # 0
         /\ \A a \in AgentId : life[a] # "none" => prompts # 0
  BY DEF HeadlessInv, TurnsAndDrains, QuietBeforePrompt

\* A drain begins only between turns, and only if something is pending.
LEMMA DrainsBetweenTurns ==
  ASSUME NEW busy, NEW deferred, MaybeDrain(busy, deferred), draining'
  PROVE  draining \/ (~busy /\ Pending # {})
  BY DEF MaybeDrain

\* Every step of a headless run keeps one turn at a time.
LEMMA HeadlessKept ==
  ASSUME OnePrompt, HeadlessInv, [ControllerNext]_controllerVars
  PROVE  HeadlessInv'
<1>0. ControllerTypeOK /\ ControllerTypeOK' /\ TurnsAndDrains /\ QuietBeforePrompt
  BY TypesKept DEF HeadlessInv
<1>1. ASSUME NEW i \in Turn, SubmitPrompt(i)  PROVE TurnsAndDrains' /\ QuietBeforePrompt'
  <2>1. prompts = 0 /\ prompts' = prompts + 1
    BY <1>0, <1>1, ControllerAssumption DEF SubmitPrompt, OnePrompt, ControllerTypeOK, BoundTypes
  <2>2. ~running /\ ~draining /\ Underway = {}
    BY <1>0, <2>1 DEF QuietBeforePrompt, TurnsAndDrains
  <2>3. Underway' = {i} /\ running'
    BY <1>1, <2>2, BeginsAlone DEF SubmitPrompt
  <2>4. UNCHANGED <<draining, crashes, compacting, opening>>
    BY <1>1 DEF SubmitPrompt, rest
  <2>5. TurnsAndDrains'
    BY <1>0, <2>2, <2>3, <2>4 DEF TurnsAndDrains
  <2>. QED BY <2>1, <2>5 DEF QuietBeforePrompt
<1>2. ASSUME NEW i \in Turn, Iterate(i) \/ RunReturns(i)
      PROVE  TurnsAndDrains' /\ QuietBeforePrompt'
  <2>1. UNCHANGED <<running, draining, crashes, compacting, opening, prompts, known, waiter, life>>
        /\ i \in Underway
    BY <1>2 DEF Iterate, RunReturns, flags, results, waiting, bounds, rest, delegationVars, Underway
  <2>2. Underway' = Underway
    BY <1>0, <1>2 DEF Underway, Iterate, RunReturns, ControllerTypeOK, TurnTypes
  <2>. QED BY <1>0, <2>1, <2>2 DEF TurnsAndDrains, QuietBeforePrompt
<1>3. ASSUME NEW i \in Turn, RunFails(i) \/ SaveEnds(i)  PROVE TurnsAndDrains' /\ QuietBeforePrompt'
  <2>1. TurnOver(i) /\ i \in Underway /\ UNCHANGED <<crashes, compacting, opening, prompts>>
    BY <1>3 DEF RunFails, SaveEnds, Fault, bounds, rest, Underway
  <2>2. Underway' = {} /\ ~running'
    BY <2>1, EndsAlone
  <2>3. prompts # 0
    BY <2>1, AfterThePrompt
  <2>. QED BY <1>0, <2>1, <2>2, <2>3 DEF TurnsAndDrains, QuietBeforePrompt
<1>4. ASSUME NEW a \in AgentId, SpawnChild(a) \/ ChildStep(a) \/ ChildDies(a)
      PROVE  TurnsAndDrains' /\ QuietBeforePrompt'
  <2>1. UNCHANGED <<running, draining, crashes, compacting, opening, prompts, turns>>
    BY <1>4 DEF SpawnChild, ChildStep, ChildRecords, ChildRings, ChildDies, WriteOrFault, Fault,
                flags, bounds, rest
  <2>2. Underway' = Underway
    BY <2>1 DEF Underway
  <2>3. Underway # {} \/ life[a] # "none"
    BY <1>4 DEF SpawnChild, ChildStep, ChildRecords, ChildRings, ChildDies, Record, Bell, Becomes,
                Underway
  <2>4. prompts # 0
    BY <2>3, AfterThePrompt
  <2>. QED BY <1>0, <2>1, <2>2, <2>4 DEF TurnsAndDrains, QuietBeforePrompt
<1>5. ASSUME Listen \/ Wait  PROVE TurnsAndDrains' /\ QuietBeforePrompt'
  <2>1. UNCHANGED <<running, crashes, compacting, opening, prompts, turns, life, known>>
    BY <1>5 DEF Listen, Wait, WaitPass, WaitBlocks, WaitWakes, flags, results, bounds, rest,
                delegationVars
  <2>2. Underway' = Underway
    BY <2>1 DEF Underway
  <2>3. draining' => draining \/ (~running /\ Pending # {})
    BY <1>5 DEF Listen, Wait, WaitPass, WaitBlocks, WaitWakes, MaybeDrain, flags
  <2>4. waiter' # waiter => waiter # "off"
    BY <1>5 DEF Listen, Wait, WaitPass, WaitBlocks, WaitWakes
  <2>5. TurnsAndDrains'
    BY <1>0, <2>1, <2>2, <2>3 DEF TurnsAndDrains
  <2>6. known = {} => Pending = {}
    BY DEF Pending
  <2>. QED BY <1>0, <2>1, <2>3, <2>4, <2>5, <2>6 DEF QuietBeforePrompt
<1>6. ASSUME DrainSettles  PROVE TurnsAndDrains' /\ QuietBeforePrompt'
  <2>1. draining /\ ~draining' /\ UNCHANGED <<crashes, compacting, opening, prompts>>
    BY <1>6 DEF DrainSettles, Fault, bounds, rest
  <2>2. Underway = {} /\ ~running /\ prompts # 0
    BY <1>0, <2>1, AfterThePrompt DEF TurnsAndDrains
  <2>3. CASE \E i \in Turn : Begin(i)
    <3>1. PICK i \in Turn : Begin(i)
      BY <2>3
    <3>2. Underway' = {i} /\ running'
      BY <2>2, <3>1, BeginsAlone
    <3>. QED BY <1>0, <2>1, <2>2, <3>2 DEF TurnsAndDrains, QuietBeforePrompt
  <2>4. CASE UNCHANGED <<running, turns>>
    <3>1. Underway' = Underway
      BY <2>4 DEF Underway
    <3>. QED BY <1>0, <2>1, <2>2, <2>4, <3>1 DEF TurnsAndDrains, QuietBeforePrompt
  <2>. QED BY <1>6, <2>3, <2>4 DEF DrainSettles
<1>7. ASSUME UNCHANGED controllerVars  PROVE TurnsAndDrains' /\ QuietBeforePrompt'
  <2>1. Underway' = Underway
    BY <1>7 DEF controllerVars, Underway
  <2>. QED BY <1>0, <1>7, <2>1 DEF controllerVars, flags, results, waiting, bounds, rest,
              delegationVars, TurnsAndDrains, QuietBeforePrompt
<1>. QED BY <1>0, <1>1, <1>2, <1>3, <1>4, <1>5, <1>6, <1>7, NeverInHeadless
         DEF HeadlessInv, ControllerNext, TurnStep

\* A headless run begins with nothing underway.
LEMMA InitHeadless == ControllerInit => HeadlessInv
<1> SUFFICES ASSUME ControllerInit  PROVE HeadlessInv
  OBVIOUS
<1>1. turns = [i \in Turn |-> "off"] /\ life = [a \in AgentId |-> "none"]
  BY DEF ControllerInit, DelegationInit
<1>2. Underway = {} /\ \A a \in AgentId : life[a] = "none"
  BY <1>1 DEF Underway
<1>3. /\ ~running /\ ~draining /\ ~compacting /\ crashes = 0 /\ opening = "open"
      /\ known = {} /\ waiter = "off"
  BY DEF ControllerInit
<1>. QED BY <1>2, <1>3, InitTypes DEF HeadlessInv, TurnsAndDrains, QuietBeforePrompt

\* In a headless run parent turns are serialised: the prompt's turn, the drains
\* and their follow-up turns take turns (controller.ts).
THEOREM TurnsAreSerial == OnePrompt => (ControllerSpec => []OneParentTurn)
<1> SUFFICES ASSUME OnePrompt  PROVE ControllerSpec => []OneParentTurn
  OBVIOUS
<1>1. HeadlessInv => OneParentTurn
  <2> SUFFICES ASSUME HeadlessInv  PROVE Cardinality(Underway) <= 1
    BY DEF OneParentTurn, Underway
  <2>1. CASE Underway = {}
    BY <2>1, FS_EmptySet
  <2>2. CASE Underway # {}
    <3>1. PICK i \in Underway : TRUE
      BY <2>2
    <3>2. Underway = {i}
      BY <3>1 DEF HeadlessInv, TurnsAndDrains
    <3>. QED BY <3>2, FS_Singleton
  <2>. QED BY <2>1, <2>2
<1>. QED BY <1>1, InitHeadless, HeadlessKept, PTL DEF ControllerSpec

\* Nothing is pushed into the transcript of a turn underway.
THEOREM InjectionsWait == OnePrompt => (ControllerSpec => InjectsBetweenTurns)
<1> SUFFICES ASSUME OnePrompt  PROVE ControllerSpec => InjectsBetweenTurns
  OBVIOUS
<1>1. ASSUME HeadlessInv, ControllerNext, said' # said
      PROVE  \A i \in Turn : turns'[i] # "on"
  <2>0. TurnsAndDrains
    BY <1>1 DEF HeadlessInv
  <2>1. ASSUME NEW i \in Turn, RunFails(i) \/ SaveEnds(i)  PROVE Underway' = {}
    BY <1>1, <2>1, EndsAlone DEF RunFails, SaveEnds, Underway
  <2>2. ASSUME Listen \/ Wait  PROVE Underway' = {}
    <3>1. ~running /\ UNCHANGED turns
      BY <1>1, <2>2 DEF Listen, Wait, WaitPass, WaitBlocks, WaitWakes, MaybeDrain, results
    <3>. QED BY <2>0, <3>1 DEF TurnsAndDrains, Underway
  <2>3. \/ \E i \in Turn : RunFails(i) \/ SaveEnds(i)
        \/ Listen \/ Wait
    BY <1>1, NeverInHeadless DEF ControllerNext, TurnStep, SubmitPrompt, Iterate, RunReturns, SpawnChild,
          ChildStep, ChildRecords, ChildRings, ChildDies, DrainSettles, results
  <2>. QED BY <2>1, <2>2, <2>3 DEF Underway
<1>2. HeadlessInv /\ [ControllerNext]_controllerVars
      => [said' # said => crashes' # crashes \/ \A i \in Turn : turns'[i] # "on"]_controllerVars
  BY <1>1
<1>. QED BY <1>2, InitHeadless, HeadlessKept, PTL DEF ControllerSpec, InjectsBetweenTurns

-----------------------------------------------------------------------------
(* A drain that is put off is flushed, whatever the user submits meanwhile. *)

\* A drain that is put off waits for a turn or a drain.
LEMMA PutOffForSomething ==
  ASSUME NEW busy, NEW deferred, MaybeDrain(busy, deferred), drainPending'
  PROVE  deferred \/ busy \/ draining'
<1>1. CASE (busy \/ draining) /\ UNCHANGED draining
  BY <1>1
<1>2. CASE drainPending' = deferred
  BY <1>2
<1>. QED BY <1>1, <1>2 DEF MaybeDrain

\* Every step keeps a deferred drain in view of a turn or a drain.
LEMMA FlushKept ==
  ASSUME ~Compacts, MaxFaults = 0, ControllerTypeOK, ~compacting, DrainIsFlushed,
         [ControllerNext]_controllerVars
  PROVE  ~compacting' /\ DrainIsFlushed'
<1> USE DEF DrainIsFlushed
<1>0. ~Compact /\ ~CompactEnds /\ ~Fault
  BY DEF Compact, CompactEnds, Fault, ControllerTypeOK, BoundTypes
<1>1. ASSUME NEW i \in Turn, SubmitPrompt(i) \/ TurnStep(i)  PROVE ~compacting' /\ DrainIsFlushed'
  <2>1. ~compacting'
    BY <1>1 DEF SubmitPrompt, TurnStep, Iterate, RunReturns, RunFails, SaveEnds, rest
  <2>2. CASE SubmitPrompt(i)
    BY <2>1, <2>2 DEF SubmitPrompt, Begin
  <2>3. CASE Iterate(i) \/ RunReturns(i)
    BY <2>1, <2>3 DEF Iterate, RunReturns, flags
  <2>4. CASE RunFails(i) \/ SaveEnds(i)
    <3>1. IF drainPending THEN MaybeDrain(FALSE, FALSE) ELSE UNCHANGED drainPending
      BY <2>4 DEF RunFails, SaveEnds, TurnOver
    <3>. QED BY <2>1, <3>1, PutOffForSomething
  <2>. QED BY <1>1, <2>2, <2>3, <2>4 DEF TurnStep
<1>2. ASSUME NEW a \in AgentId, SpawnChild(a) \/ ChildStep(a) \/ ChildDies(a)
      PROVE  ~compacting' /\ DrainIsFlushed'
  BY <1>2 DEF SpawnChild, ChildStep, ChildRecords, ChildRings, ChildDies, flags, rest
<1>3. ASSUME Listen  PROVE ~compacting' /\ DrainIsFlushed'
  <2>1. MaybeDrain(running, drainPending) /\ UNCHANGED <<running, compacting>>
    BY <1>3 DEF Listen
  <2>2. drainPending' => drainPending \/ running \/ draining'
    BY <2>1, PutOffForSomething
  <2>3. drainPending' /\ drainPending => running \/ draining'
    BY <2>1 DEF MaybeDrain
  <2>. QED BY <2>1, <2>2, <2>3
<1>4. ASSUME DrainSettles  PROVE ~compacting' /\ DrainIsFlushed'
  BY <1>0, <1>4 DEF DrainSettles, Begin, rest
<1>5. ASSUME OpenSession \/ SessionOpens \/ Crash  PROVE ~compacting' /\ DrainIsFlushed'
  <2>1. CASE OpenSession \/ SessionOpens
    BY <2>1 DEF OpenSession, SessionOpens, flags
  <2>2. CASE Crash
    BY <2>2 DEF Crash
  <2>. QED BY <1>5, <2>1, <2>2
<1>6. ASSUME Wait  PROVE ~compacting' /\ DrainIsFlushed'
  <2>1. CASE WaitPass
    BY <2>1, PutOffForSomething DEF WaitPass, rest
  <2>2. CASE WaitBlocks \/ WaitWakes
    BY <2>2 DEF WaitBlocks, WaitWakes, flags, rest
  <2>. QED BY <1>6, <2>1, <2>2 DEF Wait
<1>7. ASSUME UNCHANGED controllerVars  PROVE ~compacting' /\ DrainIsFlushed'
  BY <1>7 DEF controllerVars, flags, rest
<1>. QED BY <1>0, <1>1, <1>2, <1>3, <1>4, <1>5, <1>6, <1>7 DEF ControllerNext

\* A drain that was put off is flushed by the turn or the drain it was put off
\* for, with any number of prompts, turns at once and restarts.  A compaction does
\* not flush it, nor does a drain whose write fails: hence the hypotheses.
THEOREM DrainsAreFlushed ==
  ~Compacts /\ MaxFaults = 0 => (ControllerSpec => []DrainIsFlushed)
<1> SUFFICES ASSUME ~Compacts, MaxFaults = 0  PROVE ControllerSpec => []DrainIsFlushed
  OBVIOUS
<1>1. ControllerInit => ~compacting /\ DrainIsFlushed
  BY DEF ControllerInit, DrainIsFlushed
<1>. QED BY <1>1, InitTypes, TypesKept, FlushKept, PTL DEF ControllerSpec

-----------------------------------------------------------------------------
(* A headless run delivers.                                                *)

Idle == waiter = "done"

DeliveryStep == Delivered!DeliveryNext \/ (Stage' = Stage /\ Idle' = Idle)

\* The stages of results.
LEMMA StageOf ==
  ASSUME ResultsReach, NEW a \in AgentId
  PROVE  /\ a \in read => Stage[a] = "read"
         /\ a \in Told \ read => Stage[a] = "told"
         /\ a \in Pending => Stage[a] = "pending"
         /\ a \notin known => Stage[a] = "none"
         /\ a \in known => a \in read \/ a \in Told \ read \/ a \in Pending
  BY DEF ResultsReach, Stage, Pending

\* A step that touches no result.
LEMMA QuietStage ==
  ASSUME UNCHANGED <<known, marked, said, read>>
  PROVE  Stage' = Stage /\ Told' = Told /\ Pending' = Pending
  BY DEF Stage, Told, Pending

\* An injection tells everything pending.
LEMMA InjectTells ==
  ASSUME ControllerTypeOK, ResultsReach, Inject, UNCHANGED <<known, read>>
  PROVE  /\ Told' = Told \cup Pending /\ marked' = Told' /\ Pending' = {}
         /\ Pending = {} => Stage' = Stage
         /\ Idle' = Idle => DeliveryStep
<1>1. /\ marked = Told /\ marked \subseteq known /\ read \subseteq Told
      /\ said \in [AgentId -> Nat] /\ known \subseteq AgentId
  BY DEF ResultsReach, ControllerTypeOK, ResultTypes
<1>2. Told' = Told \cup Pending
  BY <1>1 DEF Inject, Told, Pending
<1>3. marked' = Told' /\ Pending' = {}
  BY <1>1, <1>2 DEF Inject, Pending
<1>4. \A a \in AgentId : /\ a \in Pending => Stage'[a] = "told"
                         /\ a \notin Pending => Stage'[a] = Stage[a]
  BY <1>1, <1>2, <1>3 DEF Stage, Pending
<1>5. Delivered!In("pending") = Pending
  BY <1>1, StageOf DEF Delivered!In, Pending
<1>6. Stage' = [a \in AgentId |-> IF a \in Pending THEN "told" ELSE Stage[a]]
  BY <1>4 DEF Stage
<1>7. Pending = {} => Stage' = Stage
  BY <1>6 DEF Stage
<1>8. ASSUME Idle' = Idle, Pending # {}  PROVE Delivered!Tell
  BY <1>5, <1>6, <1>8 DEF Delivered!Tell, Delivered!Promote, Idle
<1>. QED BY <1>2, <1>3, <1>7, <1>8 DEF DeliveryStep, Delivered!DeliveryNext

\* A turn that begins, or goes on, reads everything told.
LEMMA TurnReads ==
  ASSUME ControllerTypeOK, ResultsReach, read' = read \cup Told, UNCHANGED <<known, marked, said>>,
         Idle' = Idle
  PROVE  /\ Told' = Told /\ Pending' = Pending /\ read' = Told
         /\ DeliveryStep
<1>1. /\ marked = Told /\ marked \subseteq known /\ read \subseteq Told /\ Told \subseteq AgentId
  BY DEF ResultsReach, Told
<1>2. Told' = Told /\ Pending' = Pending /\ read' = Told
  BY <1>1 DEF Told, Pending
<1>3. \A a \in AgentId : /\ a \in Told => Stage'[a] = "read"
                         /\ a \notin Told => Stage'[a] = Stage[a]
  BY <1>1, <1>2 DEF Stage
<1>4. Delivered!In("told") = Told \ read
  BY <1>1, StageOf DEF Delivered!In, Pending
<1>5. \A a \in AgentId : a \in read => Stage[a] = "read"
  BY StageOf
<1>6. Stage' = [a \in AgentId |-> IF a \in Told \ read THEN "read" ELSE Stage[a]]
  BY <1>1, <1>3, <1>5 DEF Stage
<1>7. ASSUME Told \ read = {}  PROVE DeliveryStep
  BY <1>6, <1>7 DEF DeliveryStep, Stage
<1>8. ASSUME Told \ read # {}  PROVE DeliveryStep
  <2>1. Delivered!Read
    BY <1>4, <1>6, <1>8 DEF Delivered!Read, Delivered!Promote, Idle
  <2>. QED BY <2>1 DEF DeliveryStep, Delivered!DeliveryNext
<1>. QED BY <1>2, <1>7, <1>8

\* What the listener, the end of a turn and the waiter do about a drain when none
\* is underway.
LEMMA DrainDelivers ==
  ASSUME HeadlessInv, ResultsReach, NEW busy \in BOOLEAN, NEW deferred, MaybeDrain(busy, deferred),
         UNCHANGED <<known, read>>
  PROVE  /\ marked' = Told' /\ marked' \subseteq known' /\ read' \subseteq Told'
         /\ ~draining' => Told' \subseteq read'
         /\ Pending = {} => Pending' = {} /\ Stage' = Stage /\ (draining' => draining)
         /\ Idle' = Idle => DeliveryStep
<1>0. ControllerTypeOK
  BY DEF HeadlessInv
<1>1. CASE UNCHANGED <<draining, said, marked>>
  <2>1. Stage' = Stage /\ Told' = Told /\ Pending' = Pending
    BY <1>1, QuietStage
  <2>. QED BY <1>1, <2>1 DEF ResultsReach, DeliveryStep
<1>2. CASE ~draining /\ draining' = (Pending # {}) /\ Inject
  <2>1. /\ Told' = Told \cup Pending /\ marked' = Told' /\ Pending' = {}
        /\ Pending = {} => Stage' = Stage
        /\ Idle' = Idle => DeliveryStep
    BY <1>0, <1>2, InjectTells
  <2>2. draining' <=> Pending # {}
    BY <1>2
  <2>3. /\ marked = Told /\ marked \subseteq known /\ read \subseteq Told /\ Told \subseteq read
    BY <1>2 DEF ResultsReach
  <2>4. Pending \subseteq known
    BY DEF Pending
  <2>. QED BY <2>1, <2>2, <2>3, <2>4
<1>. QED BY <1>1, <1>2 DEF MaybeDrain

\* Idle is quiet.
LEMMA IdleIsQuiet ==
  ASSUME HeadlessInv, ResultsReach, Idle
  PROVE  ~running /\ ~draining /\ Underway = {} /\ Active = {} /\ Pending = {}
  BY DEF HeadlessInv, TurnsAndDrains, ResultsReach, Idle

\* Every step of a headless run is one of Delivery or a stutter.
LEMMA ResultsKept ==
  ASSUME OnePrompt, MaxFaults = 0, DeliveryInv, [ControllerNext]_controllerVars
  PROVE  ResultsReach' /\ DeliveryStep
<1>0. HeadlessInv /\ ResultsReach /\ ControllerTypeOK
  BY DEF DeliveryInv, HeadlessInv
<1>a. /\ marked = Told /\ marked \subseteq known /\ read \subseteq Told
      /\ ~draining => Told \subseteq read
      /\ \A a \in known : life[a] \notin {"none", "live"}
  BY <1>0 DEF ResultsReach
<1>b. ~Fault
  BY <1>0 DEF Fault, ControllerTypeOK, BoundTypes
<1>1. ASSUME NEW i \in Turn, SubmitPrompt(i)  PROVE ResultsReach' /\ DeliveryStep
  <2>1. prompts = 0
    BY <1>0, <1>1, ControllerAssumption DEF SubmitPrompt, OnePrompt, ControllerTypeOK, BoundTypes
  <2>2. ~Idle /\ ~Idle' /\ Idle' = Idle
    <3>1. waiter = "off"
      BY <1>0, <2>1 DEF HeadlessInv, QuietBeforePrompt
    <3>2. waiter' \in {"turning", waiter}
      BY <1>1 DEF SubmitPrompt
    <3>. QED BY <3>1, <3>2 DEF Idle
  <2>3. read' = read \cup Told /\ UNCHANGED <<known, marked, said, life>>
    BY <1>1 DEF SubmitPrompt, Begin, delegationVars
  <2>4. Told' = Told /\ read' = Told /\ DeliveryStep
    BY <1>0, <2>2, <2>3, TurnReads
  <2>. QED BY <1>a, <2>2, <2>3, <2>4 DEF ResultsReach, Idle
<1>2. ASSUME NEW i \in Turn, Iterate(i) \/ RunReturns(i)  PROVE ResultsReach' /\ DeliveryStep
  <2>1. ~Idle /\ ~Idle' /\ Idle' = Idle
    <3>1. Underway # {}
      BY <1>2 DEF Iterate, RunReturns, Underway
    <3>2. UNCHANGED waiter
      BY <1>2 DEF Iterate, RunReturns, waiting
    <3>. QED BY <1>0, <3>1, <3>2, IdleIsQuiet DEF Idle
  <2>2. CASE Iterate(i)
    <3>1. read' = read \cup Told /\ UNCHANGED <<known, marked, said, life>>
      BY <2>2 DEF Iterate, delegationVars
    <3>2. Told' = Told /\ read' = Told /\ DeliveryStep
      BY <1>0, <2>1, <3>1, TurnReads
    <3>. QED BY <1>a, <2>1, <3>1, <3>2 DEF ResultsReach, Idle
  <2>3. CASE RunReturns(i)
    <3>1. UNCHANGED <<known, marked, said, read, life, draining>>
      BY <2>3 DEF RunReturns, delegationVars, results, flags
    <3>2. Stage' = Stage /\ Told' = Told
      BY <3>1, QuietStage
    <3>. QED BY <1>a, <2>1, <3>1, <3>2 DEF ResultsReach, Idle, DeliveryStep
  <2>. QED BY <1>2, <2>2, <2>3
<1>3. ASSUME NEW i \in Turn, RunFails(i) \/ SaveEnds(i)  PROVE ResultsReach' /\ DeliveryStep
  <2>1. /\ TurnOver(i) /\ i \in Underway /\ UNCHANGED <<known, read, life>>
    BY <1>3 DEF RunFails, SaveEnds, delegationVars, Underway
  <2>2. ~Idle /\ ~Idle' /\ Idle' = Idle
    <3>1. ~Idle
      BY <1>0, <2>1, IdleIsQuiet
    <3>2. waiter' \in {"top", waiter}
      BY <2>1 DEF TurnOver
    <3>. QED BY <3>1, <3>2 DEF Idle
  <2>3. CASE MaybeDrain(FALSE, FALSE)
    <3>1. /\ marked' = Told' /\ marked' \subseteq known' /\ read' \subseteq Told'
          /\ ~draining' => Told' \subseteq read'
          /\ DeliveryStep
      BY <1>0, <2>1, <2>2, <2>3, DrainDelivers
    <3>. QED BY <1>a, <2>1, <2>2, <3>1 DEF ResultsReach, Idle
  <2>4. CASE UNCHANGED <<draining, drainPending, said, marked>>
    <3>1. Stage' = Stage /\ Told' = Told
      BY <2>1, <2>4, QuietStage
    <3>. QED BY <1>a, <2>1, <2>2, <2>4, <3>1 DEF ResultsReach, Idle, DeliveryStep
  <2>. QED BY <2>1, <2>3, <2>4 DEF TurnOver
<1>4. ASSUME NEW a \in AgentId, SpawnChild(a) \/ ChildRings(a) \/ ChildDies(a)
      PROVE  ResultsReach' /\ DeliveryStep
  <2>1. ~Idle /\ ~Idle' /\ Idle' = Idle
    <3>1. Underway # {} \/ Active # {}
      BY <1>4 DEF SpawnChild, ChildRings, ChildDies, Bell, Becomes, Underway, Active
    <3>2. UNCHANGED waiter
      BY <1>4 DEF SpawnChild, ChildRings, ChildDies, waiting
    <3>. QED BY <1>0, <3>1, <3>2, IdleIsQuiet DEF Idle
  <2>2. UNCHANGED <<known, marked, said, read, draining>>
    BY <1>4 DEF SpawnChild, ChildRings, ChildDies, results, flags
  <2>3. Stage' = Stage /\ Told' = Told
    BY <2>2, QuietStage
  <2>4. \A b \in known : life'[b] \notin {"none", "live"}
    <3>. SUFFICES ASSUME NEW b \in known  PROVE life'[b] \notin {"none", "live"}
      OBVIOUS
    <3>1. b \in AgentId /\ life \in [AgentId -> Lives] /\ life[b] \notin {"none", "live"}
      BY <1>0, <1>a DEF ControllerTypeOK, ResultTypes, ChildTypes
    <3>2. life' = [life EXCEPT ![a] = life'[a]] /\ (life'[a] \in {"gone", "dead"} \/ life[a] = "none")
      BY <1>0, <1>4 DEF SpawnChild, ChildRings, ChildDies, Start, Bell, Die, Becomes, ControllerTypeOK,
                        ChildTypes
    <3>. QED BY <3>1, <3>2
  <2>. QED BY <1>a, <2>1, <2>2, <2>3, <2>4 DEF ResultsReach, Idle, DeliveryStep
<1>5. ASSUME NEW a \in AgentId, ChildRecords(a)  PROVE ResultsReach' /\ DeliveryStep
  <2>1. /\ life \in [AgentId -> Lives] /\ life[a] = "live" /\ life' = [life EXCEPT ![a] = "recorded"]
        /\ known' = known \cup {a} /\ known \subseteq AgentId
        /\ UNCHANGED <<marked, said, read, draining, waiter>>
    BY <1>0, <1>5 DEF ChildRecords, Record, Becomes, flags, waiting, ControllerTypeOK, ChildTypes,
                      ResultTypes
  <2>2. ~Idle /\ ~Idle' /\ Idle' = Idle
    <3>1. Active # {}
      BY <2>1 DEF Active
    <3>. QED BY <1>0, <2>1, <3>1, IdleIsQuiet DEF Idle
  <2>3. a \notin known
    BY <1>a, <2>1
  <2>4. Told' = Told /\ Pending' = Pending \cup {a}
    BY <1>a, <2>1, <2>3 DEF Told, Pending
  <2>5. Stage[a] = "none"
    BY <1>0, <2>3, StageOf
  <2>6. \A b \in AgentId : Stage'[b] = IF b = a THEN "pending" ELSE Stage[b]
    BY <1>a, <2>1, <2>3, <2>4 DEF Stage
  <2>7. Delivered!Finish(a)
    <3>1. Stage' = [b \in AgentId |-> IF b \in {a} THEN "pending" ELSE Stage[b]]
      BY <2>6 DEF Stage
    <3>. QED BY <2>2, <2>5, <3>1 DEF Delivered!Finish, Delivered!Promote, Idle
  <2>8. ResultsReach'
    BY <1>a, <2>1, <2>2, <2>4 DEF ResultsReach, Idle
  <2>. QED BY <2>7, <2>8 DEF DeliveryStep, Delivered!DeliveryNext
<1>6. ASSUME Listen  PROVE ResultsReach' /\ DeliveryStep
  <2>1. MaybeDrain(running, drainPending)
        /\ UNCHANGED <<known, read, life, running, waiter>>
    BY <1>6 DEF Listen, delegationVars
  <2>2. /\ marked' = Told' /\ marked' \subseteq known' /\ read' \subseteq Told'
        /\ ~draining' => Told' \subseteq read'
        /\ Pending = {} => Pending' = {} /\ Stage' = Stage /\ (draining' => draining)
        /\ Idle' = Idle => DeliveryStep
    BY <1>0, <2>1, DrainDelivers DEF ControllerTypeOK, FlagTypes
  <2>3. Idle' = Idle /\ Active' = Active
    BY <2>1 DEF Idle, Active
  <2>4. Idle => ~running' /\ ~draining' /\ Active' = {} /\ Pending' = {}
    BY <1>0, <2>1, <2>2, <2>3, IdleIsQuiet
  <2>. QED BY <1>a, <2>1, <2>2, <2>3, <2>4 DEF ResultsReach, Idle
<1>7. ASSUME DrainSettles  PROVE ResultsReach' /\ DeliveryStep
  <2>1. /\ draining /\ ~draining' /\ UNCHANGED <<known, marked, said, life>>
        /\ read' = read \cup Told
    BY <1>b, <1>7 DEF DrainSettles, Begin, delegationVars
  <2>2. ~Idle /\ ~Idle' /\ Idle' = Idle
    <3>1. ~Idle
      BY <1>0, <2>1, IdleIsQuiet
    <3>2. waiter' \in {"turning", waiter}
      BY <1>b, <1>7 DEF DrainSettles
    <3>. QED BY <3>1, <3>2 DEF Idle
  <2>3. Told' = Told /\ read' = Told /\ DeliveryStep
    BY <1>0, <2>1, <2>2, TurnReads
  <2>. QED BY <1>a, <2>1, <2>2, <2>3 DEF ResultsReach, Idle
<1>8. ASSUME WaitPass  PROVE ResultsReach' /\ DeliveryStep
  <2>1. /\ MaybeDrain(FALSE, FALSE) /\ ~running /\ ~draining /\ ~Idle
        /\ UNCHANGED <<known, read, life, running>>
        /\ Idle' => Pending = {} /\ IsIdle
    BY <1>8 DEF WaitPass, delegationVars, Idle
  <2>2. /\ marked' = Told' /\ marked' \subseteq known' /\ read' \subseteq Told'
        /\ ~draining' => Told' \subseteq read'
        /\ Pending = {} => Pending' = {} /\ Stage' = Stage /\ (draining' => draining)
        /\ Idle' = Idle => DeliveryStep
    BY <1>0, <2>1, DrainDelivers
  <2>3. Active' = Active
    BY <2>1 DEF Active
  <2>4. ASSUME Idle'  PROVE Delivered!Quiesce
    <3>1. Delivered!In("pending") \cup Delivered!In("told") = {}
      BY <1>0, <1>a, <2>1, <2>4, StageOf DEF Delivered!In
    <3>. QED BY <2>1, <2>2, <2>4, <3>1 DEF Delivered!Quiesce, Idle
  <2>5. DeliveryStep
    BY <2>1, <2>2, <2>4 DEF DeliveryStep, Delivered!DeliveryNext, Idle
  <2>6. Idle' => ~running' /\ ~draining' /\ Active' = {} /\ Pending' = {}
    BY <2>1, <2>2, <2>3 DEF IsIdle
  <2>7. ResultsReach'
    BY <1>a, <2>1, <2>2, <2>6 DEF ResultsReach, Idle
  <2>. QED BY <2>5, <2>7
<1>9. ASSUME WaitBlocks \/ WaitWakes \/ UNCHANGED controllerVars  PROVE ResultsReach' /\ DeliveryStep
  <2>1. /\ UNCHANGED <<known, marked, said, read, draining, running, life>> /\ Idle' = Idle
    BY <1>9 DEF WaitBlocks, WaitWakes, controllerVars, flags, results, waiting, delegationVars, Idle
  <2>2. Stage' = Stage /\ Told' = Told /\ Pending' = Pending /\ Active' = Active
    BY <2>1, QuietStage DEF Active
  <2>. QED BY <1>0, <2>1, <2>2 DEF ResultsReach, Idle, DeliveryStep
<1>. QED BY <1>0, <1>1, <1>2, <1>3, <1>4, <1>5, <1>6, <1>7, <1>8, <1>9, NeverInHeadless
         DEF ControllerNext, TurnStep, ChildStep, Wait

\* A headless run begins with nothing to tell.
LEMMA InitDelivers == ControllerInit => ResultsReach /\ Delivered!DeliveryInit
<1> SUFFICES ASSUME ControllerInit  PROVE ResultsReach /\ Delivered!DeliveryInit
  OBVIOUS
<1>1. /\ known = {} /\ marked = {} /\ read = {} /\ said = [a \in AgentId |-> 0] /\ waiter = "off"
  BY DEF ControllerInit
<1>2. Told = {} /\ Pending = {}
  BY <1>1 DEF Told, Pending
<1>3. Stage = [a \in AgentId |-> "none"]
  BY <1>1, <1>2 DEF Stage
<1>. QED BY <1>1, <1>2, <1>3 DEF ResultsReach, Delivered!DeliveryInit

\* Every result is told once it is known, all of them in one message; every one
\* told is read by a turn; and waitUntilIdle resolves only when nothing is left
\* to tell or to read.  That all this comes about is for TLC to check.
THEOREM HeadlessDelivers ==
  OnePrompt /\ MaxFaults = 0 =>
    (ControllerSpec => /\ Delivered!DeliveryInit
                       /\ [][Delivered!DeliveryNext]_(Delivered!deliveryVars))
<1> SUFFICES ASSUME OnePrompt, MaxFaults = 0
             PROVE  ControllerSpec => /\ Delivered!DeliveryInit
                                      /\ [][Delivered!DeliveryNext]_(Delivered!deliveryVars)
  OBVIOUS
<1>1. ControllerInit => DeliveryInv /\ Delivered!DeliveryInit
  BY InitHeadless, InitDelivers DEF DeliveryInv
<1>2. DeliveryInv /\ [ControllerNext]_controllerVars => DeliveryInv'
  BY HeadlessKept, ResultsKept DEF DeliveryInv
<1>3. DeliveryInv /\ [ControllerNext]_controllerVars
      => [Delivered!DeliveryNext]_(Delivered!deliveryVars)
  BY ResultsKept DEF DeliveryStep, Delivered!deliveryVars, Idle
<1>. QED BY <1>1, <1>2, <1>3, PTL DEF ControllerSpec

=============================================================================
