# A TLA+ model of swain

swain is a terminal coding agent. A parent agent works in turns; it delegates work to subagents that
run in the background, each with a task in a persisted graph; when a subagent finishes, its result is
written to the graph, a bell rings, and the controller tells the parent in a synthetic message. These
modules model that machinery, from the write of `tasks.json` up to the headless run that waits for
everything to be quiet; what happens inside a turn: the loop over the transcript, its compaction, the
request to a provider and the decoding of its answer, and the files a session is resumed from; and what
surrounds the turns: the account of the context, the file tools and their permissions, the configuration and the model router, the
credentials, `swain exec`, and the keys of the terminal. TLC checks them on small instances; TLAPS
proves much of it for every instance.

## How to run

    tlc -config MCTaskStore.cfg MCTaskStore          # any run: its module and its cfg, see below
    tlapm TaskStore_proofs.tla                       # and every other module named ..._proofs

`PROJECT.json` lists the components, the runs, a mutant for every checked property (a plausible bug in
the code, defined next to the definition it would replace, which the run must reject), the source lines
behind every definition, the findings, the hazards and the theorems.

## Inventory

Everything runs in one process on one JavaScript event loop: a step runs to its next `await` (or
`yield*` of an asynchronous effect), and other fibers and promise chains run in between. There are no
threads; every race below is between awaits.

| component | state | operations | what is hard | what makes it correct | module |
|---|---|---|---|---|---|
| Task graph, `core/src/tasks.ts` | a map from id to task: status, owner, dependencies, result, worktree, `parentNotifiedAt` | create, update, claim, complete, fail, mark notified, reset dangling | any field can be patched at any time; completion keeps the owner and the mark | one owner per task; a result stays pending until told | `TaskGraph` |
| Task store, same file | the map in a `Ref`, `tasks.json`, a semaphore of one permit | `Ref.update`, then snapshot, temporary file, rename under the permit | two writers, write failures, interruption, restart | what was acknowledged is on disk; the file never goes backwards | `TaskStore`, `DurableLog` |
| Orchestrator, `core/src/orchestrator.ts` | map of live fibers, completions queue | `spawn`, the finalize fiber of a child, `interruptAll`, `recoverDangling` | every step awaits git or a file; crash, interrupt, defect at each await | one child per task, the cap, record before bell, no lost result | `Orchestrator`, `Delegation` |
| Worktrees, `core/src/subagents/worktree.ts` | worktrees on disk | create, clean up, remove | partial failure | no task names a removed tree | in `Orchestrator` |
| Controller, `tui/src/controller.ts` | `running`, `draining`, `drainPending`, the transcript, progress waiters | submit, run a turn, drain, compact, wait until idle, start a session, switch sessions | flags read before an await and used after it | one turn at a time; every result told once and read; sound and live idle detection | `Controller`, `Delivery` |
| Agent loop, `core/src/agent.ts` | the transcript, retry and switch state of a turn | iterate, execute tools, retry, compact on overflow, switch model, record an interruption | interrupt at any point, retry after partial output | tool calls and results paired; few switches; the turn ends | `AgentLoop` |
| Compaction, `core/src/context/compaction.ts` | derived context | choose a cut, summarise, derive | cutting between a call and its result, compacting a compacted history | derived context is validly paired, nothing is lost or doubled | `Transcript`, `AgentLoop`; the cut by size in `Accounting` |
| Accounting, `core/src/context/accounting.ts`, `token-counter.ts`, `tool-result-storage.ts` | usage of the last request | estimate, ask for a compaction, choose the cut, offload | the history changes under a count measured earlier | the estimate follows the context | `Accounting` (AgentLoop leaves its outcome open) |
| File tools, `core/src/tools/{read,edit,write,bash}.ts`, `state/session.ts` | read cache and lock per session and file | read, write, edit, run a command | cache read before the lock, text before the time, the user asked before the write; others write the file too | a write replaces only what its call has seen | `FileAccess` |
| Session store, `core/src/state/store.ts` | `session.json`, `messages.jsonl`, `tool-results.json` | save, load | files written one after another, saves nobody awaits | a finished turn survives; a resumed transcript can be sent | `SessionStore` |
| Permissions, `core/src/permission.ts`, `tool.ts`, `subagents/tools.ts` | mode, registries | decide, ask | the mode belongs to the user and changes under a child; commands are judged by their words | nobody uses a tool it was not given; a write was allowed | as guards in `FileAccess` |
| Protocols, `llms/src/protocols`, `schema/events.ts` | decoder state per stream | lower a transcript, fold chunks into events and events into a reply | blocks out of order, side by side, cut off, announced twice | one grammar of events for all protocols; the reply is what was said; calls stay paired | `Events`, `AnthropicMessages`, `OpenAIChat`, `CodexResponses`, `Lowering`, `EventStream`, `Selection` |
| Transport, `llms/src/transport`, `llm.ts`, the collection in `agent.ts` | attempt, timers | post, pull, give up, retry | a silent, broken or endless stream, an error after partial output, a retry | the call ends where something can end it; a retry leaves nothing of the attempt before | `ProviderCall` |
| Codex credentials, `llms/src/providers/openai-codex.ts`, `tui/src/codex-{auth,oauth}.ts` | tokens in `auth.json`, the refresh gate | resolve, exchange, persist, sign in | concurrent refreshes of a token that can be used once, an owner that is interrupted, a crash before the write | a spent token is not replayed; whoever awaits is released | `Credentials` |
| Configuration and router, `tui/src/config.ts`, `auth.ts`, `router.ts`, `model-resolver.ts`, `startup.ts`, selection in `models.ts` | `config.json`, `auth.json`, the session's target | toggle, connect, select, resolve, start | two files, two computations of the same set, failing writes | what a prompt offers the resolver takes | `Settings` |
| Headless, `tui/src/headless.ts`, `cli.ts`, `exec-events.ts`, `exec-trace.ts`, `core/src/trace.ts` | exit code, stdout, trace bundle | parse, run, stream, signal, finish, clean up | a signal racing the end, a run given up that still ends | one answer, and the exit code agrees | `Exec`; its idle detection in `Controller` |
| Terminal, `tui/src/components`, the bridge in `controller.ts` | help, dialog, approval, question, draft, what Ctrl+C has armed | keys, requests of tools, events of the turn | several parts want the keyboard; the draft outlives what it drafts | Ctrl+C works; a reply is not said twice | `Terminal` |
| Rendering, prompts, redaction, model catalog, evaluation harness | | | | | not modelled: presentation, text and tables |

Interactions. The controller owns a session environment: a task store, an orchestrator and a listener on
the orchestrator's queue. A turn's `Agent` tool calls `spawn`; the child's fiber records its outcome in
the store and rings; the listener calls `maybeDrainCompletions`, which reads the store, pushes a message
into the transcript, marks the tasks and starts a turn. All of them share the store's semaphore. A turn's
requests go through the transport to a protocol's decoder; the Codex provider resolves its credentials
before each, from the file the settings and the sign-in also write. Tools take the session's lock on a
file, ask the permission table, and through the controller's bridge the user at the terminal. `swain exec`
drives the controller without a terminal and listens to the same events.

## The modules

    DurableLog <----- TaskStore -----> TaskGraph
                          ^
    Delegation <----- Orchestrator                      arrows to the left: implements (checked)
        ^
        |  uses
    Controller -----> Delivery                          implements (checked)

    Transcript <----- AgentLoop <----- SessionStore     extends

    Events <--- AnthropicMessages, OpenAIChat, CodexResponses
      ^                  ^  uses
      +---- Lowering, ProviderCall -----> EventStream   implements (checked, proved)

    Settings <----- Credentials                         extends (they share auth.json)
    Transcript <----- Accounting                        uses
    FileAccess, Exec, Terminal                          alone; MCServices runs the six side by side

**TaskGraph** is the graph as a value: one operator per store operation, over total functions from ids
to tasks (`NoTask` where `Map.get` is undefined). The text of a result is abstracted to its author, a
worktree to the agent it is named after, and timestamps are left out.

**TaskStore** is `persist` and its callers. `tasks` is the `Ref`, `file` is `tasks.json`, `lock` the
semaphore's holder, `snap` the snapshot a holder has taken, `io` where each fiber is. An operation
updates `tasks` and starts its persist (`Mutate`); `TakeLock` takes permit and snapshot in one step, as
the code does; `WriteTemp` and `Rename` are the two awaited file-system calls; `PersistFails` is an
error of either, `Interrupt` what `Fiber.interrupt` does (the permit is given back, a rename already
handed to the system still lands: `AbandonedRenameLands`), `Restart` the end of the process and
`loadTaskStore`. `LateRenames` says whether the next writer may overtake such a rename, which needs a
directory, a temporary file and a rename to take less time than one rename. `rev`, `fileRev`, `snapRev`, `need` and `lostRev` are history
variables that number the updates: no guard reads them except the bound `MaxRev`.

**DurableLog** is what the store promises: numbered updates, acknowledged once they are durable.

**Orchestrator** extends TaskStore, so every step of the store stays interleaved. `at` and `job` are a
parent turn inside `spawn`, `recoverDangling` or a task tool; `child` is a finalize fiber; `active` and
`bells` are the `Ref` and the queue. A stretch between two awaits is one action: `Spawn` checks the cap
and, without a worktree, claims at once; `WorktreeReady` claims when git answers; `Register` forks and
registers when the claim is on disk; `RunEnds` and `CleanupEnds` record; `Ring` offers and leaves the map.
Constants switch whole families of behaviour on: `Defects`, `Teardowns`, `RacingRecovery`, `Crashes` and
TaskStore's `LateRenames`. `owed` is history: whether an outcome is still owed to the parent.

**Delegation** is what a child looks like to the parent: none, live, recorded, gone or dead, and bells.

**Controller** is one session of `controller.ts` with Delegation's children. Awaits of files, models and
children separate its actions. Awaits that resolve in the same turn of the event loop do not: between
`isIdle`'s reads, and between the read of the pending results and their mark in memory, nothing waits for
I/O, and the chains that could get in between need as many ticks as the one they would overtake. A write
of `tasks.json` is one step here and carries all of memory with it. `MaybeDrain` is the part of
`maybeDrainCompletions` before the write; the listener, the end of a turn and `waitUntilIdle` all use it.
`turns` has a slot for every turn underway, because nothing but `running` keeps there from being two.

**Delivery** is the promise to the parent: every result is told and then read, and the session is called
idle only when nothing is left.

**Transcript** is `session.messages` as a sequence of messages that are their role, their kind and the
ids of the calls they make or answer, and what `compaction.ts` computes from it. `Context` is
`deriveContext` as the set of history positions a request carries, so `sourceIndex` is the identity;
`ValidlyPaired` is `isValidlyPaired` over such positions, `Boundaries` the places `selectCut` may choose.

**AgentLoop** is one turn after the other over that transcript. `pc` is where the turn waits: for a
summary, for the provider, for tools, for the save at its end. `Request` is the head of `loop`,
`StreamAnswers` a stream that ends and pushes its reply, `Switch` and `RefuseSwitch` the outcomes of
`resolveSwitch`, `ToolEnds` one tool of the sequential `executeTools`, `ToolsEnd` the push of all results,
`StreamOverflows` the one retry of `runWithOverflowRetry`. `Summarize` and `CompactionSucceeds` are the two
halves of `compactSession` around its request. `Cancel` is Esc (`cancelTurn`, with `recordInterruption`),
`Interrupt` is Ctrl+C. Left open, as either outcome: whether the token estimate asks for a compaction and
where it cuts, whether a stream fails, and what a reply calls. Constants switch behaviours on: `Rogue`
(a reply that calls tools it was not offered), `LateCancel` (Esc during the save after the turn or during
`/compact`), `CtrlC` (the awaits it may hit). `summarized` and `switches` are history.

**SessionStore** adds the files. `OpenSave`, `SaveMetadata` and `SaveTranscript` are the awaits of
`saveSession`; what a file gets is serialized at the step before its write. `Requested` starts the
progress save of an iteration boundary, single-flight and not awaited; `StartFinal` awaits it and then
saves, as the end of a turn does, or saves at once, as `/compact` does; `Crash` resumes from the files.
`SlowDisk` says whether the provider may answer before the progress save has got as far as the
transcript. Writes by rename are atomic (`writeFileAtomic`).

**Events** is the vocabulary of `schema/events.ts`: an event is a type, a kind, an id and the pieces it
carries; the assembler of streamed tool input, and `fromEvents`, the fold that makes a reply. **The three
decoders** are each a state and one operator per chunk type, as the protocol's `step` is written, with a
`Flush` for what is open at the end. **EventStream** is the grammar every decoder promises: content is
started once, extended while open, ended once, a call announced when its input is complete, the finish
last. **Lowering** is the other direction, from the transcript's blocks to wire messages; `Paired` says which
transcripts there are to lower. **Selection** is filtering, for both.

**ProviderCall** is one request of the loop: `phase` says whether it is lowered, posted, streaming, between
attempts or over; the provider sends what its protocol allows and may fail, stall, break off, send
nonsense at every point or go on for ever (`RunsAway`); `Resend` is the retry of `agent.ts`, `Stall` the idle
watchdog, `WallCapHits` the time limit, which attempts have (`capped`) in the turns of a headless run alone. Text, reasoning and arguments arrive in numbered pieces, so that a piece lost,
doubled or put in the wrong place is seen.

**FileAccess** is one file under the sessions that share a directory. A call of `Read`, `Edit`, `Write` or
`Bash` stops at each await (`where`): `ReadStat`, `ReadBytes`, `TakeLock`, `Look`, `Compare`, `Check`, `Approve`,
`Truncate`, `Fill`, `Remember`. What it took from the cache before the lock is in `job`. A write truncates
and then fills, so it can be cut off (`Torn`); the user's editor writes whenever it likes. Who may do what is
`permission.ts` as a table over kinds of commands, and the registries of the children; one kind (`record`) passes
`isReadOnlyCommand` and writes all the same.

**Settings** is `config.json` and `auth.json` with the controller's copy of both. The router's sets
(`EnabledRouterTargets`, `ParetoFrontier`, `RouterPromptTargets`), its status, the resolver and the choice at
startup are operators; each operation of the user computes the next configuration, and a save writes the
two files one after another, either of which may fail. **Credentials** extends it, because the Codex tokens
live in the same `auth.json`: a turn reads a token, exchanges it or shares the exchange under way, persists
the answer by loading and saving the whole file; a sign-in and the settings do the same beside it. A
token is a number, the server takes each once.

**Exec** is `swain exec`: the scan of the command line as a fold, then the phases of `runHeadless` with the
stream of messages (`cursor` is how far `flush` has come), signals, the race of answer and signal, the trace
bundle and the temporary directory. **Terminal** is which part of the App gets a key and what it does with
it, the requests tools put to the user through the controller's bridge, and the draft on the screen, as
the set of pieces it shows; the turn itself is reduced to what its events do to the draft.

**Accounting** is how full the context is. A message has a size; `usage` is the count a provider reported and
where in the history it was taken; `Estimate` adds what came after it, `ShouldAutoCompact` compares with the
effective window, `SelectCut` cuts by budget. The turn around them is coarse: `Answered`, `ToolsAnswered`,
`SwitchTo`, `StopTurn` are what changes the history under the count.

`MCTaskStore`, `MCOrchestrator`, `MCController`, `MCAgentLoop`, `MCSessionStore` and `MCProviderCall` give the
constants values. `MCServices` holds six components that share nothing but files the modules name: `part`
says which one moves in a behaviour, so one run checks them without multiplying their states.
`TaskStoreInv` and `AgentLoopInv` hold inductive invariants as definitions TLC can check, and the
modules named `_proofs` the proofs.

## The runs

| run | instance | shows |
|---|---|---|
| `store` | 1 task, 1 agent, 2 fibers, 3 updates, 1 fault | acknowledged updates are on disk; the file never goes backwards; it differs from memory only by lost writes, and one that has caught up equals it field by field; the promise of `DurableLog`; every operation ends |
| `orch_safety` | 2 tasks, 3 agents, cap 1, 1 turn, 5 updates, 1 fault, crashes, defects, interruptAll | the cap, one child per task, ownership, results stay pending, finished worktrees exist |
| `orch_refines` | 1 task, 2 agents, cap 2, everything on, late renames included | uses the store as TaskStore has it, implements Delegation, children end |
| `controller_once` | 2 children, 3 requests, impatient user, compaction, faults, a restart | no result told twice within a process |
| `controller_headless` | 3 children, one prompt and `waitUntilIdle` | one turn at a time, no push into a turn, no forgotten drain, Delivery with its liveness, the wait ends |
| `turn` | 2 prompts, 1 `/compact`, 2 tools, 2 models, 2 iterations, 1 retry, Ctrl+C only while waiting for the provider | every request is paired; compactions neither drop nor double a message; the history only grows; few switches; roles alternate |
| `turn_ctrl_c` | the same, Ctrl+C also while tools run | a finding, below |
| `sessions` | 2 prompts, 1 `/compact`, 1 tool, 1 fault, 1 crash, late Esc | a finished turn survives late saves and the crash; the file can always be sent; every turn ends although its saves fail |
| `provider` | 3 protocols, 2 items, 5 chunks and any number after them, 1 retry, every transcript of a prompt, a reply of no to 3 blocks and its answer | a request keeps calls and results paired, and only a reply that says nothing is in its way; a reply is what the provider said in the attempt that answered; every decoder implements EventStream; the call ends unless an uncapped stream goes on for ever |
| `services` | see below | no change of a file is lost, what is offered is accepted, no needless replay of a token, one answer that agrees with the exit code, a reply is not repeated by an interruption, the estimate of the context follows it |
| `codex_gate`, `terminal_stuck` | parts of the same | findings, below |

Bounds. Two writers are what the semaphore arbitrates; a third only queues. Three updates let a newer
snapshot overtake an older one and be followed by a restart. Two agents on one task are what
double-delegation needs, a third meets the cap in a recovery; two tasks give a dependency and a second claim. One fault is enough to put every
write of a run out of step once; five updates carry a delegation through claim, record, mark and reset.
Three children let one finish during a turn, one during a drain and one during the follow-up turn.
Two iterations give a turn one round of tools and the last request, which offers none; a rogue reply to
that one reaches the guard. A reply calls nothing, two tools, a switch, or a tool and a switch. Two
prompts and a `/compact` let a history be compacted twice (an automatic or an overflow's compaction and
the manual one) and be interrupted before, between and after; the user stops once a history is longer
than `MaxLength`, which lets it grow to eight messages and more.
A stream of five chunks over two items lets items overlap, come out of order and be cut off between any two
chunks, and one retry is what can leave something behind. After the fifth there may always be one more, of which
only its coming is recorded, so the bound does not end a stream. The transcripts of a request put a call of the
Codex backend beside another's, texts among results, and have a reply of reasoning alone and one of nothing.
`services`: two calls over one file with three changes, of one session or of two, one read-only; two Codex
variants and one other target, so that the router's frontier gains and loses a member, with four operations
of the user, starts among them (one beside the credentials, and beside a sign-in only until the last token is issued); two turns over two tokens, which lets a token
be refreshed, replayed and refreshed again; eight command lines, right and wrong, and five messages; one
approval and one question of a turn and an approval of a child, two pieces of text and four keys, the
shortest way to each combination of help, dialog and request. Accounting has a model of 24 units and one
of 14 whose output would take most of it, two requests a turn, one size of text and a tool result that is
large: enough for automatic, manual and overflow's compactions one after another, and for each to find
nothing to cut. Turns, calls and texts are symmetric.
`CHECK_DEADLOCK FALSE` everywhere: a session with nothing left to do, or with its bound used up, stops.
Runs with a leads-to or a refinement use no symmetry.

Fairness. `StoreFairSpec`, `OrchFairSpec` and `ControllerFairSpec` assume that a fiber which can run is
scheduled, that file-system calls answer, that the semaphore queues its waiters (hence strong fairness of
`TakeLock`), and that a turn or a child's run ends: the agent loop has an iteration limit and the model
stream an idle timeout. `SessionFairSpec` assumes that the loop and a compaction go on (a stream has the idle
watchdog, a tool its timeout or the user's answer) and that a write ends, well or not. `CallFairSpec` assumes
that the client's own steps happen and that its timers fire, and nothing of the provider: the watchdog's
timer starts again with each event and never fires on a stream that goes on, the limit's does whatever the stream
does. The other specifications take it that a turn ends; outside the turns of a headless run that includes that
no stream goes on for ever. `GateSpec`
assumes that a turn resolving its credentials is scheduled and that the server answers or the request fails.
Nothing is assumed of users, crashes, faults, defects or interruptions.

## What the code does otherwise than it says

Three runs end in a counterexample; `PROJECT.json` quotes what each contradicts.

* `turn_ctrl_c`: Ctrl+C while a tool runs ends the turn without `recordInterruption`; the next request
  carries calls nobody answered.
* `codex_gate`: the turn that owns a token exchange is interrupted, the steps that would clear the gate and
  complete the deferred never run, and whoever awaits it waits for ever (openai-codex.ts:174-175 says they
  are always released).
* `terminal_stuck`: the help is open and nothing runs when a child asks for approval; neither the help nor the
  prompt nor Ctrl+C takes a key any more (App.tsx:370-372).

Seen on the way. No run is kept for these; those of Store, Orchestrator, Controller, Loop and Saves are
behaviours of the models.

* Two turns: `maybeDrainCompletions` reads `running` before it awaits the mark's write (controller.ts:548) and
  calls `runTurnNow` (561) without looking again, and `submitPrompt` does not look at all; a prompt during the
  write starts one turn and the drain a second over the same transcript, although turns are serialized
  (specs/0004-subagents-tasks.md:58). `OneParentTurn` with `Impatient`.
* Compaction: the `finally` of compact (857) clears `running` but neither flushes `drainPending` nor wakes those
  who wait for idle, so a bell during `/compact` waits for the next bell or prompt. `DrainIsFlushed` with
  `Compacts`.
* Saves: a progress save serializes the transcript after two awaits (store.ts:118), by which time the next
  reply may have pushed its calls; a crash then resumes a transcript that cannot be sent, although
  controller.ts:752-755 says "completed, validly-paired iterations". `SavedIsPaired` with `SlowDisk`.
* Store: a writer interrupted during its rename gives up the permit, and the rename can land after the next
  writer's (`NoStaleOverwrite` with `LateRenames`, against tasks.ts:110-113).
* Orchestrator: interruptAll reads the map once, waits for those fibers, and then empties it
  (orchestrator.ts:410-414). A child that a turn still running registers meanwhile (`/clear` tears the old
  environment down, controller.ts:966 and 498-506) is forgotten: it is not interrupted, lives on, and no longer counts
  against the cap, although specs/0009-headless-exec.md:213 has it leave the map only when it ends.
  The attempt to prove the cap showed it; `CapHolds` is about the children in the map when `Teardowns` is on.
* Orchestrator: a parent that closes a delegated task with TaskUpdate has it marked as told, and the child's
  own result is then recorded under that mark (`ResultsStayPending` with `Patches` that close tasks). A
  drain caused by another child's bell shows a result that is in memory and not yet in the file.
* Controller: the mark reaches tasks.json before the transcript is saved, so a crash in between loses the
  result (0004:615 allows only the opposite).
* Loop: Esc during the save after a turn, or during `/compact`, finds `running` set and appends an
  interruption to a turn that is over (`RepliesAlternate` with `LateCancel`). The retry after an overflow
  starts with a fresh `switched`, so a turn can switch twice although 0005:28 says once. An interrupted
  round of tools answers all its calls as interrupted, those included that did run.
* Saves: `/compact` does not await `progressSave`; session.json and messages.jsonl are snapshots of
  different moments.
* Not in the models: a prompt submitted while a tool runs is pushed between call and result (AgentLoop's
  user waits for the turn).

* Credentials: the gate is cleared before its owner has persisted, so a turn that reads `auth.json` in between
  replays the spent token (excused in `NoNeedlessReplay`); persistConfig writes the keys it holds over tokens
  rotated since; persistCodexCredentials loads leniently, so one failed read wipes the other providers;
  a sign-in's mirror drops a custom `baseURL`.
* Settings: saveConfig writes in place although its comment says no partial file; an operation whose second
  write fails leaves memory and files apart; two toggles over an awaited save lose one (one operation at a
  time is modelled).
* Exec: with `--router`, a switch rewrites the reply that step-end has already put on stdout; a trace bundle
  that fails gives exit code 1 after a success line; a prompt that rejects gives exit code 1 and no result
  line, although the help promises a terminal one; a signal during the shutdown ends the process before the
  temporary directory is removed.
* Terminal: `approval` and `question` hold one request each, so a second child's request overwrites the first,
  which then hangs until the shutdown; a retry of a stream emits no event, so the draft mixes two attempts;
  Esc twice records two interruptions; the prompt of a turn that Ctrl+C ended stays on the screen.
* Accounting: a switch that replaces the measured reply leaves the snapshot in place, although session.ts:69
  says a mutation to an older message invalidates it, and its notice is not counted; a last request without
  tools is measured without their schemas. `EstimateIsCurrent` excuses both, and needs to.
* Session switch: two `/clear` in quick succession let the second environment's pending build assign
  `sessionEnv` for the first; a turn that was running saves whatever the `session` variable then is.
* Provider call: a reply is pushed whatever it holds (agent.ts:580), so one without blocks, or of reasoning alone,
  stays in the transcript and lowerMessages refuses every later request to an Anthropic model
  (anthropic-messages.ts:178-190) until a compaction takes the reply out of the context. `RequestKeepsPairs` excuses it.
* Provider call: nothing ends a stream that goes on for ever where attempts have no time limit, as agent.ts:533-540 says of
  interactive turns. It is as true of every child (orchestrator.ts:182), also in a headless run, where
  headless.ts:46-54 means to protect the run's time; waitUntilIdle then waits as long as the child. `CallEnds` excuses it.
* Permissions: the Bash of a read-only child admits commands that write. `tokenizeSegments` does not look for
  substitutions within double quotes (bash.ts:148-155), though its comment says it rejects them (120-127), and
  `hasWriteFlag` knows sort and find alone (114-118), though other commands of the list can be told to write a file;
  subagents/tools.ts:44 says that such a child must never change the parent's worktree. `NoLostChange` takes
  what a command writes as an outsider's change.
* Transport: a CRLF split between two chunks yields an early blank line; an event without its blank line at the
  end of the stream is dropped; `Retry-After` is parsed and not used.

Also, of the orchestrator and the controller: with two turns, the cap is passed twice before either child is
registered (`orch_safety` with two callers); an interrupt between `git worktree add` and the claim leaves
a worktree no task records (`NoOrphanWorktree`); with `RacingRecovery` startSession resets a task that a
turn of the same process has just claimed; a defect in a child's run skips its record and its bell;
startSession injects while a turn runs (`InjectsBetweenTurns` with a restart); a failed write of the mark
starts no turn, so the result is read only with the next one. Specification 0004 has restarts re-delegate and retain
partial worktrees; the code's `startSession` only resets, and removes them.

## What is proved

For all values of the constants, from the assumptions the modules state about them, in TLAPS:

* The task store (`TaskStore_proofs`): `TypeCorrect`; `CaughtUp`, that a file which carries the newest number
  equals memory, also with late renames; and with `~LateRenames` `AckedDurable`, `NoStale`, `Drift` and
  `Refinement`: durability of what was acknowledged, no stale overwrite, drift only by lost writes, and that
  TaskStore implements DurableLog.
* The orchestrator (`Orchestrator_proofs`): `OrchTypeCorrect`; `OrchUsesTheStore`, that every step of it is
  a step of the store or leaves it alone, and hence `DelegatedResultsDurable`, the store's theorems under the
  orchestrator; `OrchestratorDelegates`, that it implements Delegation, with every hazard switched on;
  `TheCapHolds`, with one caller.
* Tasks, children and worktrees (`Orchestrator_proofs`): `NoDoubleDelegation`, with `~RacingRecovery` and
  `OwnersKept`: no task has two live children; `LiveChildrenOwn` and `KeptWorktreesExist`, with `StatusKept`
  as well: a live child owns its task, a finished task names a worktree that exists, in memory and in every
  graph that can still reach the file; `ResultsAreKept`, with `~LateRenames` too: a result stays pending until
  the parent is told, across crashes.
* The controller (`Controller_proofs`): `TellsOnce`, for any prompts, turns at once, compactions and failures,
  up to a restart; `DrainsAreFlushed`, with `~Compacts` and `MaxFaults = 0`, across restarts: a drain that was
  put off is taken up by the turn or the drain it was put off for; and of a run with one prompt, no compaction
  and no crash, which is what a headless run is (`OnePrompt`), `TurnsAreSerial`, `InjectionsWait` and, if no write fails,
  `HeadlessDelivers`: its steps are steps of Delivery or stutter.
* The agent loop (`AgentLoop_proofs`), with `"tools" \notin CtrlC`: `RequestsPaired`, `Partitioned`,
  `HistoryOnlyGrows`, `SwitchesFew`, `AgentTypeCorrect`, and, with `~LateCancel` too, `RolesAlternate`.
  Any tools, models, replies, number of prompts, iterations and compactions.
* The saves of a session (`AgentLoop_proofs`): `SettledStays`, without a hypothesis: a turn that was saved at its
  end is not taken back, by late, failing or overlapping saves or by crashes; with `~SlowDisk`
  `SavesArePaired` and `ResumedRequestsPaired`: what a crash leaves behind can be sent, and the requests of
  a session are paired however often it is resumed.
* The provider call (`ProviderCall_proofs`): `CallImplementsEventStream`, that what the agent collects in each of
  the three protocols are the events EventStream allows, for any number of items, chunks and retries, and
  whichever attempts fail; from `StreamInvariant`. And `RequestsKeepPairs`: of every paired transcript, however long,
  each protocol makes a request that says every call and result once, in an order the backend accepts, and
  refuses nothing but an empty transcript and one that holds a reply without a text or a call (`Lowering_proofs`).
* The reply (`Reply_proofs`): `RepliesAreFaithful`, in each of the three protocols, for any number of items, chunks and
  retries: what the agent takes as the reply holds the text, the reasoning, their blocks and the calls with their
  arguments as the provider sent them in the attempt that answered, nothing twice and nothing of an attempt before.
* The file tools (`Services_proofs`): `NothingIsLost`, for any sessions, calls, modes and number of changes.
* Settings, credentials, the terminal, exec, the accounting (`Services_proofs`): `OffersAreAccepted`, for any catalog; `ReplaysHaveReasons`,
  for any number of turns that share the Codex tokens; `NothingIsSaidTwice`, for any keys and pieces of text;
  `ExecAnswersOnce`, for any command lines, signals and number of messages; `EstimateStaysCurrent`, for any sizes,
  windows, budgets and length of the history.

The argument. `AckedIsDurable` is not inductive: that a rename reaches `need` rests on the snapshot having
been taken under the permit, after the update. `StoreInv` in `TaskStoreInv` says who may be writing
(`Writing`, `LockHeld`: only the holder of the permit), how the numbers are ordered (`Numbered`), and that
equal numbers mean equal maps (`Content`); `OrderInv` adds, while nobody overtakes an abandoned rename, that
every snapshot and every such rename is at least as new as the file and that the permit is free until the
rename lands (`Forward`), and that what a fiber still needs is ahead of it (`Pending`). Each action preserves the conjunction, and the properties follow from it. The hypothesis
`~LateRenames` is needed: without it TLC finds the late rename described above. For the orchestrator the
invariant is the store's with the orchestrator's types and what ties `at` and `child` to `io`, and the
refinement is a case split over its actions.

What a spawn promises rests on ids. `Drawn` says that the id of a spawn under way is nobody else's and no
child's yet; every action is then a step of Delegation or a stutter. The cap is read long before the child
is registered, so `CapInv` counts the slots: the children in the map are at most `Cap`, and one less
while the only caller is between its check and its `Register`. `OwnInv` ties a child, and a claim on its way to be one, to
the task it owns, also while a crash has left the claim on disk (`StaleAreDead`). `TreeInv` says of
every graph that may still reach the file, and not of memory alone, what its owners, states and worktrees can be (`WellOwned`,
`Stages`), and of each child what has become of its tree. `OwedInv` says where an owed result is: in every graph carried
until its write (`Carried`: the file, the snapshots and the abandoned renames), or still ahead of its child. TLC checks these invariants on the bounds of `orch_safety`.

The hypotheses. `OwnersKept` and `StatusKept` say that the model's TaskUpdate does not set owner or status
(task-update.ts:8-18 lets the parent's model do both); what a parent that closes a delegated task does is
described above. `~RacingRecovery` is a startSession that has reset the graph before a turn spawns,
`OneCaller` one parent turn at a time. Each is needed: without it TLC finds the behaviour listed above. They
are constants of the model, not conditions on states, and `MCOrchestrator` satisfies all of them.

For a file, `FileInv` says which call holds the session's lock (`Holds`), that nobody remembers a time that is yet
to come, that an edit which waits for the time took its cache entry before it read the text, so that equal
times mean the file it has read (`SameTimeSameFile`), and that past the check the disk is what the call has
seen unless an outsider or a command has written and the call is marked `overtaken` (`SeenIsThere`).

For the agent loop the property speaks of requests and the invariant of the history behind them. `AgentInv`
says that a call is answered by the message after it (`Answered`) and a result answers the message before
it (`Asked`), except for the last reply while its tools run (`OpenAtReply`); that a tail begins at a
message of the assistant, before its marker (`MarkersSound`); that a cut under way is still a boundary when
its summary arrives (`CutSound`); and that summary and tail partition the history (`Partition`). The lemmas
`SoundAppend` and `SoundRewrite` are about one message pushed or rewritten, `StretchPaired` carries the
history's pairing to any context and to any prefix a summary is asked for: a stretch that starts and stops
at messages of the assistant cuts no pair. Each action is then one or two of these lemmas. The hypothesis
about Ctrl+C is needed: `turn_ctrl_c` is the counterexample without it; `~LateCancel` likewise.

For the controller, `MarkedOnceTold` says that a result in the transcript is marked in memory, which is
what the next drain looks at, so it is not told again before a restart reads the file. That a drain is not forgotten is
inductive as it stands while no compaction runs: a compaction ends without asking for the drain that waited for
it, and a drain whose write fails drops what came meanwhile, hence the two hypotheses of `DrainsAreFlushed`.
`TurnsAndDrains` says that `running` is the one turn that is underway, with no drain beside it.
`ResultsReach` ties every result to what is known, marked, told and read, and maps the steps of a headless run to
Delivery's.

For the saves, `SettledInv` says that the last save of a turn is alone while the turn ends (`FinalAlone`) and
that the file, and every transcript that is on its way to it, begins with what is settled (`SettledKept`); the switch,
which rewrites a message, only rewrites one that is not (`SwitchIsUnsettled`). It needs nothing of the loop's own
invariant and holds on a slow disk too. `ResumableInv` adds that a transcript is serialized while no call is
open (`Presentable`), which is where `~SlowDisk` comes in: without it TLC finds a reply saved without its results.
What is loaded is then a history that `AgentInv` admits, so the loop's invariant survives a crash.

For the credentials, `NoNeedlessReplay` speaks of a turn that exchanges, and the invariant of what it will have read:
the gate names the only turn that exchanges a token (`GateNamesOwner`); until auth.json holds tokens the
configuration has the CLI's (`UntilSaved`); a spent token stands in auth.json only while a turn that has its
successor is about to write it (`SuccessorComes`); and whoever holds a spent token has been told (`SpentIsMarked`).
`CredentialsAssumption` says that the marks None and Free are not themselves a token or a turn. For the terminal, `SaidOnce`
follows every piece of text through the reply, the draft, and the texts that interruptions were handed. For exec,
`RaceInv` says who can have won the race: while the turn works only a signal can have, and then the turn gives no
answer any more. `AnswerInv` is what has been printed by then, and `LinesInv` numbers the messages apart and gives
each that flush has been over its one line, also when a switch takes the place of the last. `InOrderEnumerates`
is what makes a flush go over each fresh message once: a message's place among them is the number that are no later,
which is injective and, on a finite set, onto.

For the accounting, `EstimateInv` says by how much a measured history may be off: by nothing, by the tool schemas
its request had not, by the calls its reply lost, or by those less the notice in its place (`Gaps`), and by
nothing while the measured reply's tools run, so that a switch opens one gap and no second: a later reply that
switches has not been measured, and the estimate moves with it. A message appended moves the estimate and the
context alike (`Appending`), a message replaced only if it was not measured (`ReplacingMoves`). Both rest on `Tokens` being a
sum, whichever message the fold takes first: `SumsExist` and `SumsTakeAny` prove it from `LeastNat`, since a smallest set that
fails is an induction the prover takes. `AccountingAssumption` says that sizes are natural numbers.

For the provider call, a log is `Lawful` when each event may come after those before it, and `Reaches` says how far a
log has got: what it has begun, ended and told. `StreamInv` says that what is collected and what is queued
behind it form a lawful log, that the decoder holds what this log has left open (`ChatAt`, `AnthropicAt`,
`CodexAt`: a decoder's `started`, its blocks or items, and the entries of the assembler, are the open content), and
that the log is not over while an attempt runs. It speaks of the queue, not of the collected events alone, because a
chunk moves the decoder at once and its events are delivered one by one. For Anthropic and Codex it also ties the
indices of blocks and items to what the provider has begun, because an id is made of the index, and one that
came twice would begin the same content twice. Each handler extends a lawful log lawfully; the flush ends
everything that is open and then finishes; a retry empties log and decoder together. That the members
`Select` keeps stand in their order, each once, and what a flattened sequence is made of, are lemmas (`Part`,
`Stages`) proved by taking the first position that fails. `Select` is there because the prover cannot expand the
library's SelectSeq.

For the requests, `ProviderAssumption` says that the histories are `Paired`: messages of the two roles, from the
user's on, each call answered by the next message, each result asked for by the one before, no id twice. That is
what `AgentLoop` has proved of the contexts it asks with (`RequestsPaired`), and an interruption's record and a
resumed session with it. It also says that no message of the user is empty: each is pushed with a text or with the results
of a round of calls. A reply may be empty, or of reasoning alone (`SaysNothing`). A request is a sequence of wire messages that each hold blocks, and what the property
says of it is about the blocks in a row, so a place is a pair: message and position. `FlatPlaces` maps places to
positions of the flattened sequence and back, in order. Each protocol `Renders` a message: what it sends holds every call
and result of the message once and nothing else that is named (`Carries`), the results before all else, the calls after all
else. From this alone `RenderingIsHoming` gives each call and result sent its home in the transcript, injectively and in
the order of the messages, and `RenderingAnswers` that between a call and its answer there are only calls and
results; the three protocols then only have to show that they render (`AnthropicRenders`, `ChatRenders`, `CodexRenders`).
Codex sends only the backend's part of an id, so its requests are those of the transcript with its ids
shortened (`Shortened`), which is paired still because no two calls of a transcript have that part in common.

For the reply, the property compares what was said with what was folded, and between the two are the decoder and the
queue: a chunk changes what was said and the decoder at once, the reply only event by event. So `ReplyInv` does not
speak of the reply there is but of the summary t that the queue leads to from it (`Leads`: `Taken`, the fold without its
refusals, once for each event). Of t it says that it `Agrees` with all that was sent: its text and reasoning are the
pieces of that kind (`ProseIs`), its calls are among those begun and have the arguments of their item
(`MadeIs`, `CallsAre`), its buffers are those of the content begun (`Listed`). The decoder holds the rest: the arguments of each
entry of the assembler are what was heard of its item (`EntriesAre`). Where a protocol has items, there is a map from
texts to items under which each buffer holds what was heard of its item (`Homes`); ids of texts are numbers a decoder
gives out, so the map is not a function of the id, and for Codex, where the texts of several items are open at once, it
says which of them a done item closes (`CloseItems`). Chat completions have no items: there a text or a reasoning that is open is the
last content begun (`ChatHolds`), so the blocks of a kind in a row are the text of that kind (`InTurn`). That the fold refuses
nothing comes from `StreamInv`: the events are lawful, and `Folded` says that what the fold remembers of them is what
the log holds. A handler then leads from t to a t of the next chunk (`AnthropicCame`, `ChatCame`, `CodexCame`), a delivery
leaves t where it is, a flush leads to one in which every call is told (`OverTold`), and at the answer the queue is empty and
t is the reply. Of the pieces that `NextPieces` lets a provider send, the proof uses only that none is empty: the decoders
drop an empty one.

Hazards that nothing here would catch are listed without a property: a field the stored form of a task forgets (the
model writes the map itself), the reset that races a claim and a delegated task changed by TaskUpdate (the
properties are checked without either), a result between `isIdle`'s reads and a message between a reply
and its rewrite (one step each), a read-only child's command that writes, sessions switched under a turn.

TLC checks each of these invariants on the bounds of the run that checks the property, and `SettledInv` with
`SlowDisk` besides.

Only model-checked: every liveness property, the fairness of Delivery among them: fairness and leads-to are out of the
prover's reach. Every safety invariant and every action property that a passing run checks is stated by a theorem, under the
hypotheses named above. No module declares a
RECURSIVE operator.

## Not modelled

* How well four characters a token guess, and the files of large tool results. `AgentLoop` leaves open
  whether a compaction is asked for and where it cuts, so nothing it claims depends on either.
* Sessions switched under a running turn, and two settings operations at once: see the hazards.
* Several parts of a summary in one reasoning item of the Codex backend, and pieces after an item's done: each part is
  a block of its own there, and the modelled provider sends one.
* The framing of server-sent events, web search and fetch, grep and glob: parsing and I/O with no state that
  outlives a call.
* Rendering, the prompt's editing and history, prompts, redaction, the model catalog, the evaluation harness.

## Plan

Done, with proofs: the task store, the agent loop, the orchestrator, the controller of one session, the
saves of a session, the file tools, the settings and credentials, the terminal, `swain exec`, the context
accounting, the events, the requests and the replies of a provider call in three protocols.

1. `Sessions`: `/clear` and `/resume` under a running turn, over `Controller`'s vocabulary.
2. `Framing`: server-sent events over arbitrary chunks.
