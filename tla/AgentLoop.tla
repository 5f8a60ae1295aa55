------------------------------- MODULE AgentLoop -------------------------------
(***************************************************************************)
(* packages/core/src/agent.ts, for one session: runTurn with its preflight *)
(* compaction, the loop of requests and tool calls, the retry of streams,  *)
(* the one retry after an overflow, the switch of models, and what becomes *)
(* of the transcript when the user interrupts.  compactSession, of         *)
(* packages/core/src/context/compaction.ts, is a request of its own.       *)
(*                                                                         *)
(* Awaits on the provider, on a tool and on the save after the turn        *)
(* separate actions.  Which cut selectCut takes depends on token counts    *)
(* and is left open: any boundary, or none.  The user here waits for the   *)
(* turn before the next prompt; the code does not make him, and what two   *)
(* turns at once do is the subject of Controller.                          *)
(***************************************************************************)
EXTENDS Transcript, FiniteSets

CONSTANTS
    Replies,         \* the sets of calls a reply may make
    FirstModel,      \* the model of a new session
    MaxIterations,   \* options.maxIterations
    MaxRetries,      \* MAX_STREAM_RETRIES
    Rogue,           \* may a reply call tools that were not offered?
    LateCancel,      \* may Esc come after the last reply or while /compact runs?
    CtrlC,           \* the awaits at which the user presses Ctrl+C
    MaxPrompts, MaxCompacts,   \* bounds on what the user does,
    MaxLength        \* who leaves longer histories alone

ASSUME AgentAssumption ==
    /\ {} \in Replies /\ Replies \subseteq SUBSET (Tool \cup SwitchCall)
    /\ \A names \in Replies : IsFiniteSet(names)
    /\ FirstModel \in Model
    /\ MaxIterations \in Nat \ {0}
    /\ {MaxRetries, MaxPrompts, MaxCompacts, MaxLength} \subseteq Nat
    /\ {Rogue, LateCancel} \subseteq BOOLEAN
    /\ CtrlC \subseteq {"summarizing", "streaming", "tools"}

VARIABLES
    messages,      \* session.messages
    model,         \* session.systemContext.modelRef
    autoEnabled,   \* session.compaction.autoEnabled
    pc,            \* where the turn is
    iteration, switched,    \* the arguments of loop
    overflowed,    \* the retry after an overflow is spent
    attempts,      \* retries of the current stream
    ran,           \* tools of the last reply that have ended
    reason, cut,   \* of the compaction underway
    summarized,    \* positions the latest summary has been told of
    switches,      \* model changes of the turn
    prompts, compacts

session  == <<messages, model, autoEnabled>>
loopVars == <<iteration, switched, overflowed, attempts, ran>>
pending  == <<reason, cut>>
ghosts   == <<summarized, switches>>
bounds   == <<prompts, compacts>>
agentVars == <<session, pc, loopVars, pending, ghosts, bounds>>

AgentInit ==
    /\ messages = <<>> /\ model = FirstModel /\ autoEnabled = TRUE
    /\ pc = "idle"
    /\ iteration = 0 /\ switched = FALSE /\ overflowed = FALSE
    /\ attempts = 0 /\ ran = 0
    /\ reason = "none" /\ cut = 0
    /\ summarized = {} /\ switches = 0
    /\ prompts = 0 /\ compacts = 0

Last == messages[Len(messages)]
Push(m) == messages' = Append(messages, m)

\* The calls of the last reply that are run as tools.
Siblings == {id \in Last.calls : id[2] \in Tool}

\* Nothing runs any more; what belonged to the turn is gone with its fiber.
EndTurn ==
    /\ pc' = "idle"
    /\ iteration' = 0 /\ switched' = FALSE /\ overflowed' = FALSE
    /\ attempts' = 0 /\ ran' = 0
    /\ reason' = "none" /\ cut' = 0
    /\ switches' = 0

-----------------------------------------------------------------------------
(* The user.                                                               *)

\* submitPrompt and the entry of runTurn.  Whether the estimate asks for an
\* automatic compaction is left open.
SubmitPrompt ==
    /\ pc = "idle"
    /\ prompts < MaxPrompts /\ Len(messages) <= MaxLength
    /\ prompts' = prompts + 1
    /\ Push(Prompt)
    /\ pc' \in IF autoEnabled THEN {"cutting", "head"} ELSE {"head"}
    /\ reason' = IF pc' = "cutting" THEN "auto" ELSE "none"
    /\ UNCHANGED <<model, autoEnabled, loopVars, cut, ghosts, compacts>>

\* /compact, refused while something runs.
Compact ==
    /\ pc = "idle"
    /\ compacts < MaxCompacts /\ Len(messages) <= MaxLength
    /\ compacts' = compacts + 1
    /\ pc' = "cutting" /\ reason' = "manual"
    /\ UNCHANGED <<session, loopVars, cut, ghosts, prompts>>

-----------------------------------------------------------------------------
(* Compaction.                                                             *)

\* What follows a compaction: the save that ends /compact, or the loop.
AfterCompaction ==
    /\ pc' = IF reason = "manual" THEN "ending" ELSE "head"
    /\ reason' = IF reason = "manual" THEN reason ELSE "none"
    /\ cut' = 0

\* Nothing to compact, a provider error, an empty or calling summary.  A
\* failed automatic compaction turns the automatic off and the turn goes on;
\* one after an overflow ends the turn.
CompactionFails ==
    /\ pc \in {"cutting", "summarizing"}
    /\ \/ /\ reason = "auto"
          /\ autoEnabled' = FALSE
          /\ pc' = "head" /\ reason' = "none" /\ cut' = 0
          /\ UNCHANGED <<loopVars, switches>>
       \/ /\ reason # "auto"
          /\ EndTurn
          /\ UNCHANGED autoEnabled
    /\ UNCHANGED <<messages, model, summarized, bounds>>

\* compactSession up to its request.
Summarize(c) ==
    /\ pc = "cutting"
    /\ c \in Boundaries(messages)
    /\ cut' = c
    /\ pc' = "summarizing"
    /\ UNCHANGED <<session, loopVars, reason, ghosts, bounds>>

\* The positions the request for a summary carries in full.
Prefix == {i \in Context(messages) : i < cut}

\* Mutant: the cut of the context is taken for a cut of the history.
MarkAtContextIndex ==
    Push(Marker(1 + Cardinality(Prefix) + IF Markers(messages) = {} THEN 0 ELSE 1))

\* Mutant: the summary takes the place of what it covers.
MarkInPlace == messages' = <<Marker(2)>> \o SubSeq(messages, cut, Len(messages))

\* The summary becomes a marker at the end of the history.
Mark == Push(Marker(cut))

\* compactSession after its request: the next context is checked first.  The
\* prefix begins with the previous summary, if there is one.
CompactionSucceeds ==
    /\ pc = "summarizing"
    /\ ValidlyPaired(messages, Context(messages) \ Prefix)
    /\ Mark
    /\ summarized' = summarized \cup Prefix
    /\ AfterCompaction
    /\ UNCHANGED <<model, autoEnabled, loopVars, switches, bounds>>

-----------------------------------------------------------------------------
(* The loop.                                                               *)

\* The head of an iteration, up to the request.
Request ==
    /\ pc = "head"
    /\ iteration < MaxIterations
    /\ pc' = "streaming"
    /\ UNCHANGED <<session, loopVars, pending, ghosts, bounds>>

\* The iteration guard: an AgentError ends the turn.
Exceed ==
    /\ pc = "head"
    /\ iteration >= MaxIterations
    /\ EndTurn
    /\ UNCHANGED <<session, summarized, bounds>>

\* A retryable error or the wall cap: the same request again.
StreamRetries ==
    /\ pc = "streaming"
    /\ attempts < MaxRetries
    /\ attempts' = attempts + 1
    /\ UNCHANGED <<session, pc, iteration, switched, overflowed, ran, pending, ghosts, bounds>>

\* An error that is not retried, or was retried enough.
StreamFails ==
    /\ pc = "streaming"
    /\ EndTurn
    /\ UNCHANGED <<session, summarized, bounds>>

\* runWithOverflowRetry: the first overflow compacts and starts the loop over.
StreamOverflows ==
    /\ pc = "streaming"
    /\ ~overflowed
    /\ overflowed' = TRUE
    /\ pc' = "cutting" /\ reason' = "overflow"
    /\ iteration' = 0 /\ switched' = FALSE
    /\ attempts' = 0
    /\ UNCHANGED <<session, ran, cut, ghosts, bounds>>

\* Tools are withheld from the last iteration.
Offered == iteration < MaxIterations - 1

\* The stream ends well and its reply is committed.
StreamAnswers(names) ==
    /\ pc = "streaming"
    /\ Offered \/ Rogue \/ names = {}
    /\ Push(Reply({Len(messages) + 1} \X names))
    /\ attempts' = 0
    /\ pc' = CASE names = {} -> "ending"
               [] names \cap SwitchCall # {} -> "resolving"
               [] OTHER -> "tools"
    /\ UNCHANGED <<model, autoEnabled, iteration, switched, overflowed, ran,
                   pending, ghosts, bounds>>

\* The switching reply loses its calls; with no text it is replaced.
SanitizeAndPush ==
    \/ messages' = [messages EXCEPT ![Len(messages)] = SwitchMeta]
    \/ messages' = Append([messages EXCEPT ![Len(messages)].calls = {}], SwitchMeta)

\* Mutant: the second switch of a turn is not refused.
SwitchAnyTime(to) ==
    /\ pc = "resolving"
    /\ to # model
    /\ model' = to /\ switches' = switches + 1
    /\ SanitizeAndPush
    /\ iteration' = iteration + 1 /\ switched' = TRUE
    /\ pc' = "head"
    /\ UNCHANGED <<autoEnabled, overflowed, attempts, ran, pending, summarized, bounds>>

\* resolveSwitch: "switched".
Switch(to) ==
    /\ pc = "resolving"
    /\ ~switched
    /\ to # model
    /\ model' = to /\ switches' = switches + 1
    /\ SanitizeAndPush
    /\ iteration' = iteration + 1 /\ switched' = TRUE
    /\ pc' = "head"
    /\ UNCHANGED <<autoEnabled, overflowed, attempts, ran, pending, summarized, bounds>>

\* resolveSwitch: "noop" or "error".  The other calls of the reply are run.
RefuseSwitch ==
    /\ pc = "resolving"
    /\ pc' = "tools"
    /\ UNCHANGED <<session, loopVars, pending, ghosts, bounds>>

\* executeTools, one after another.
ToolEnds ==
    /\ pc = "tools"
    /\ ran < Cardinality(Siblings)
    /\ ran' = ran + 1
    /\ UNCHANGED <<session, pc, iteration, switched, overflowed, attempts, pending, ghosts, bounds>>

\* Mutant: a refused switch is not answered.
AnswerSiblings == Push(Results(Siblings))

\* Every call of the reply gets a result.
Answer == Push(Results(Last.calls))

\* All have run: their results are pushed and the loop goes on.
ToolsEnd ==
    /\ pc = "tools"
    /\ ran = Cardinality(Siblings)
    /\ Answer
    /\ ran' = 0
    /\ iteration' = iteration + 1
    /\ pc' = "head"
    /\ UNCHANGED <<model, autoEnabled, switched, overflowed, attempts,
                   pending, ghosts, bounds>>

\* The save after a turn that succeeded, or after /compact; running is
\* cleared behind it.
TurnEnds ==
    /\ pc = "ending"
    /\ EndTurn
    /\ UNCHANGED <<session, summarized, bounds>>

-----------------------------------------------------------------------------
(* Interruption.                                                           *)

\* Mutant: only the interrupt marker is appended.
MarkInterrupt == messages' = Append(messages, InterruptMarker)

\* recordInterruption.
RecordInterruption ==
    messages' = messages \o
        IF Last.role = "assistant" /\ Last.calls # {}
        THEN <<Results(Last.calls), InterruptMarker>>
        ELSE <<InterruptMarker>>

\* The awaits at which an interruption can arrive.
Awaiting == \/ pc \in {"summarizing", "streaming"}
            \/ pc = "tools" /\ ran < Cardinality(Siblings)

\* cancelTurn, on Esc: running is all it looks at, so it also records an
\* interruption while the finished turn is saved and while /compact runs,
\* neither of which it stops.
Cancel ==
    /\ \/ Awaiting /\ reason # "manual" /\ EndTurn
       \/ /\ LateCancel /\ Len(messages) <= MaxLength
          /\ pc = "ending" \/ (pc = "summarizing" /\ reason = "manual")
          /\ UNCHANGED <<pc, loopVars, pending, switches>>
    /\ RecordInterruption
    /\ UNCHANGED <<model, autoEnabled, summarized, bounds>>

\* interrupt, on Ctrl+C: the fiber ends and nothing is recorded.
Interrupt ==
    /\ pc \in CtrlC
    /\ Awaiting /\ reason # "manual"
    /\ EndTurn
    /\ UNCHANGED <<session, summarized, bounds>>

-----------------------------------------------------------------------------
User == SubmitPrompt \/ Compact \/ Cancel \/ Interrupt

Compaction == CompactionFails \/ CompactionSucceeds \/ \E c \in Boundaries(messages) : Summarize(c)

Loop ==
    \/ Request \/ Exceed
    \/ StreamRetries \/ StreamFails \/ StreamOverflows
    \/ \E names \in Replies : StreamAnswers(names)
    \/ RefuseSwitch \/ \E to \in Model : Switch(to)
    \/ ToolEnds \/ ToolsEnd \/ TurnEnds

AgentNext == User \/ Compaction \/ Loop

AgentSpec == AgentInit /\ [][AgentNext]_agentVars

-----------------------------------------------------------------------------
(* Properties.                                                             *)

\* Types, and the ranges the loop relies on: the iteration never passes the
\* guard, the retries stay bounded, no more tools end than were called.
AgentTypeOK ==
    /\ messages \in Seq(Message)
    /\ model \in Model /\ autoEnabled \in BOOLEAN
    /\ pc \in {"idle", "cutting", "summarizing", "head", "streaming", "resolving",
               "tools", "ending"}
    /\ iteration \in 0 .. MaxIterations /\ attempts \in 0 .. MaxRetries
    /\ {switched, overflowed} \subseteq BOOLEAN
    /\ ran \in Nat /\ (pc = "tools" => ran <= Cardinality(Siblings))
    /\ reason \in {"none", "auto", "overflow", "manual"}
    /\ cut \in 0 .. Len(messages)
    /\ summarized \subseteq DOMAIN messages /\ switches \in Nat
    /\ prompts \in 0 .. MaxPrompts /\ compacts \in 0 .. MaxCompacts

\* Every request, for a reply or for a summary, carries a context in which
\* each tool call is answered by the message after it and each result
\* answers a call of the message before it (compaction.ts:124-130, "the
\* invariant providers enforce"), whatever was interrupted, switched,
\* refused or compacted before.
RequestsArePaired ==
    [][ /\ (pc # "streaming" /\ pc' = "streaming") =>
              ValidlyPaired(messages, Context(messages))
        /\ (pc # "summarizing" /\ pc' = "summarizing") =>
              ValidlyPaired(messages', Prefix') ]_agentVars

\* However often the session is compacted, a message is either in the
\* context verbatim or behind the latest summary: none is dropped, none is
\* there twice (deriveContext and contextTailStart).
SummaryAndTailPartition ==
    /\ summarized \cap Context(messages) = {}
    /\ DOMAIN messages \ Markers(messages) = summarized \cup Context(messages)

\* The history is append-only: interruption and compaction retract nothing,
\* and the only message ever rewritten is the last one, when it switches.
HistoryGrows ==
    [][ /\ Len(messages') >= Len(messages)
        /\ \A i \in DOMAIN messages :
             \/ messages'[i] = messages[i]
             \/ i = Len(messages) /\ pc = "resolving" /\ model' # model ]_agentVars

\* The model changes at most once in a turn, and once more when the turn is
\* retried after an overflow.
SwitchesBounded == switches <= IF overflowed THEN 2 ELSE 1

\* No two replies stand next to each other in the history: an interruption
\* closes a turn that is still open (agent.ts:66-71).
RepliesAlternate ==
    \A i \in 1 .. Len(messages) - 1 :
        ~(messages[i].role = "assistant" /\ messages[i + 1].role = "assistant")

\* A turn ends: by its reply, by an error or by the guard.
TurnsEnd == (pc # "idle") ~> (pc = "idle")
=============================================================================
