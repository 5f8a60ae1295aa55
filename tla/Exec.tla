--------------------------------- MODULE Exec ---------------------------------
(***************************************************************************)
(* `swain exec`: packages/tui/src/{cli,headless,exec-events,exec-trace}.ts *)
(* and core/src/trace.ts.  One prompt is run to the end, or to a signal;   *)
(* what the caller gets is the exit code, stdout and, if asked for, a      *)
(* trace bundle.                                                           *)
(*                                                                         *)
(* Messages are numbered as they are committed; the agent loop behind them *)
(* is that of AgentLoop.                                                   *)
(***************************************************************************)
EXTENDS Naturals, FiniteSets, Sequences, SequencesExt

CONSTANTS
    CommandLine,      \* the argument lists given to exec, see Scan
    Unset,
    MaxMessages       \* bound

ASSUME ExecAssumption == MaxMessages \in Nat /\ Unset \notin Nat

VARIABLES
    options,     \* the invocation
    phase,       \* where runHeadless is
    messages,    \* session.messages: [id, kind]
    cursor,      \* messages that flush has been over
    out,         \* stdout, line by line, see Says and Tells
    fatal,
    signalCode,
    work,        \* "off", "turn" or "over"
    code,        \* of the race, then of the process; Unset until it is known
    ids,         \* messages committed so far
    storage,     \* the temporary directory is there
    trace        \* [failed, children, outcome]

execVars == <<options, phase, messages, cursor, out, fatal, signalCode, work, code, ids,
              storage, trace>>

SIGINT  == 130
SIGTERM == 143

\* A line about the run, "init", "text" or a result; and one about a message.
Says(what) == [says |-> what, id |-> 0]
Tells(id)  == [says |-> "message", id |-> id]

-----------------------------------------------------------------------------
(* parseExec: flags and words, "<blank>" a prompt of spaces.               *)

Values ==
       ("--permission-mode" :> {"auto", "plan"})
    @@ ("--model"           :> {"p:m"})
    @@ ("--trace-dir"       :> {"dir"})
    @@ ("--output-format"   :> {"text", "stream-json"})

Unread == [wrong |-> FALSE, wants |-> Unset, words |-> FALSE, router |-> FALSE,
           prompt |-> Unset, given |-> [flag \in DOMAIN Values |-> Unset]]

Scan(seen, arg) ==
    CASE seen.wrong -> seen
      [] ~seen.wrong /\ seen.wants # Unset ->
            [seen EXCEPT !.given[seen.wants] = arg,
                         !.wants = Unset,
                         !.wrong = arg \notin Values[seen.wants]]
      [] ~seen.wrong /\ seen.wants = Unset ->
            CASE seen.words                      -> [seen EXCEPT !.prompt = arg,
                                                                 !.wrong = seen.prompt # Unset]
              [] ~seen.words /\ arg = "--"       -> [seen EXCEPT !.words = TRUE]
              [] ~seen.words /\ arg = "--router" -> [seen EXCEPT !.router = TRUE]
              [] ~seen.words /\ arg = "--other"  -> [seen EXCEPT !.wrong = TRUE]
              [] ~seen.words /\ arg \in DOMAIN Values -> [seen EXCEPT !.wants = arg]
              [] OTHER -> [seen EXCEPT !.prompt = IF arg = "-" THEN "<stdin>" ELSE arg,
                                       !.wrong = seen.prompt # Unset]

ParseExec(args) == FoldLeft(Scan, Unread, args)

UsageError(seen) ==
    \/ seen.wrong \/ seen.wants # Unset
    \/ seen.given["--permission-mode"] = Unset
    \/ seen.prompt \in {Unset, "<blank>"}

Streams == options.given["--output-format"] = "stream-json"
Traces  == options.given["--trace-dir"] # Unset

-----------------------------------------------------------------------------
(* Start.                                                                  *)

ExecInit ==
    /\ options \in {ParseExec(args) : args \in CommandLine}
    /\ phase = "cli"
    /\ messages = <<>> /\ cursor = 0 /\ out = <<>> /\ ids = 0
    /\ fatal = FALSE /\ signalCode = Unset
    /\ work = "off" /\ code = Unset
    /\ storage = FALSE
    /\ trace = [failed |-> FALSE, children |-> 0, outcome |-> Unset]

Exit(n) == code' = n /\ phase' = "ended"
NoRun   == UNCHANGED <<options, messages, cursor, out, fatal, signalCode, work, ids, trace>>

\* runCli: a usage error, or nothing on stdin.
RefuseUsage ==
    /\ phase = "cli"
    /\ UsageError(options) \/ options.prompt = "<stdin>"
    /\ Exit(2)
    /\ NoRun /\ UNCHANGED storage

Accept ==
    /\ phase = "cli" /\ ~UsageError(options)
    /\ phase' = "starting"
    /\ NoRun /\ UNCHANGED <<storage, code>>

\* The configuration, the model, the trace directory, the temporary directory
\* or the controller: one line on stderr.
StartFails ==
    /\ phase = "starting"
    /\ Exit(1)
    /\ NoRun /\ UNCHANGED storage

Begin ==
    /\ phase = "starting"
    /\ phase' = "running"
    /\ storage' = TRUE
    /\ out' = IF Streams THEN <<Says("init")>> ELSE <<>>
    /\ work' = "turn"
    /\ messages' = <<[id |-> 1, kind |-> "prompt"]>> /\ ids' = 1
    /\ UNCHANGED <<options, cursor, fatal, signalCode, code, trace>>

-----------------------------------------------------------------------------
(* The run.                                                                *)

HasLine(message) == message.kind \in {"assistant", "results"}

\* Numbers from the least to the greatest.
InOrder(numbers) ==
    [n \in 1..Cardinality(numbers) |->
        CHOOSE i \in numbers : Cardinality({j \in numbers : j <= i}) = n]

\* The messages with a line that flush has not been over.
Fresh == InOrder({i \in cursor + 1..Len(messages) : HasLine(messages[i])})

\* flush, and a line after it or none.
Flush(last) ==
    IF ~Streams THEN UNCHANGED <<out, cursor>>
    ELSE /\ out' = out \o [n \in DOMAIN Fresh |-> Tells(messages[Fresh[n]].id)] \o last
         /\ cursor' = Len(messages)

\* The controller tells of an event; nobody listens after the race.
Event ==
    /\ phase = "running" /\ work = "turn"
    /\ Flush(<<>>)
    /\ UNCHANGED <<options, phase, messages, fatal, signalCode, work, code, ids, storage, trace>>

AgentError(recoverable) ==
    /\ phase = "running" /\ work = "turn"
    /\ Flush(<<>>)
    /\ fatal' = (fatal \/ ~recoverable)
    /\ UNCHANGED <<options, phase, messages, signalCode, work, code, ids, storage, trace>>

\* The loop pushes a reply, its results, or a notification.
Commit(kind) ==
    /\ work = "turn" /\ ids < MaxMessages
    /\ kind = "assistant" <=> Last(messages).kind # "assistant"
    /\ messages' = Append(messages, [id |-> ids + 1, kind |-> kind])
    /\ ids' = ids + 1
    /\ UNCHANGED <<options, phase, cursor, out, fatal, signalCode, work, code, storage, trace>>

\* SwitchTarget: the reply that asked for it is told by then; what is left of it
\* stays, or the marker takes its place.
SwitchTarget ==
    /\ work = "turn" /\ options.router /\ Last(messages).kind = "assistant" /\ ids < MaxMessages
    /\ phase = "running" => (Streams => cursor = Len(messages))
    /\ LET marker == [id |-> ids + 1, kind |-> "switch"]
       IN  \/ messages' = Append(messages, marker)
           \/ messages' = Append(Front(messages), marker)
    /\ ids' = ids + 1
    /\ UNCHANGED <<options, phase, cursor, out, fatal, signalCode, work, code, storage, trace>>

\* recordChild: written and listed, or its error is kept.
RecordChild ==
    /\ work = "turn" /\ Traces /\ trace.children = 0
    /\ \/ trace' = [trace EXCEPT !.children = @ + 1]
       \/ trace' = [trace EXCEPT !.failed = TRUE]
    /\ UNCHANGED <<options, phase, messages, cursor, out, fatal, signalCode, work, code, ids, storage>>

\* A signal; the first decides, the last is remembered.
Signal(n) ==
    /\ phase = "running"
    /\ signalCode' = n
    /\ code' = IF code = Unset THEN n ELSE code
    /\ UNCHANGED <<options, phase, messages, cursor, out, fatal, work, ids, storage, trace>>

Won(n) == code' = IF code = Unset THEN n ELSE code

\* Mutant: the answer is given whatever has happened.
WorkEndsAnyhow ==
    /\ work = "turn"
    /\ work' = "over"
    /\ Flush(<<Says(IF fatal THEN "error" ELSE "success")>>)
    /\ Won(IF fatal THEN 1 ELSE 0)
    /\ UNCHANGED <<options, phase, messages, fatal, signalCode, ids, storage, trace>>

\* submitPrompt and waitUntilIdle are over; the shutdown brings that about too.
WorkEnds ==
    /\ work = "turn"
    /\ work' = "over"
    /\ CASE signalCode # Unset -> Won(signalCode) /\ UNCHANGED <<out, cursor>>
         [] signalCode = Unset /\ Streams ->
                /\ Flush(<<Says(IF fatal THEN "error" ELSE "success")>>)
                /\ Won(IF fatal THEN 1 ELSE 0)
         [] signalCode = Unset /\ ~Streams ->
                /\ out' = IF fatal THEN out ELSE Append(out, Says("text"))
                /\ Won(IF fatal THEN 1 ELSE 0)
                /\ UNCHANGED cursor
    /\ UNCHANGED <<options, phase, messages, fatal, signalCode, ids, storage, trace>>

\* The task store cannot be opened.
WorkThrows ==
    /\ work = "turn" /\ ids = 1
    /\ work' = "over"
    /\ Won(1)
    /\ UNCHANGED <<options, phase, messages, cursor, out, fatal, signalCode, ids, storage, trace>>

\* The race is decided.  From here to the return nothing else gets to run: the
\* writes of finalizeRoot are synchronous.
Interrupted == code \in {SIGINT, SIGTERM}

Finish ==
    /\ phase = "running" /\ code # Unset
    /\ IF Interrupted THEN Flush(<<Says("interrupted")>>) ELSE UNCHANGED <<out, cursor>>
    /\ \E fails \in IF Traces THEN BOOLEAN ELSE {FALSE} :
            LET failed == trace.failed \/ fails
            IN  /\ trace' = [trace EXCEPT
                        !.failed = failed,
                        !.outcome = CASE ~Traces \/ fails -> Unset
                                      [] Interrupted -> "interrupted"
                                      [] code = 0    -> "completed"
                                      [] OTHER       -> "failed"]
                /\ code' = IF failed /\ code = 0 THEN 1 ELSE code
    /\ phase' = "closing"
    /\ UNCHANGED <<options, messages, fatal, signalCode, work, ids, storage>>

\* The controller is shut down and the directory removed.
CleanUp ==
    /\ phase = "closing"
    /\ storage' = FALSE
    /\ phase' = "ended"
    /\ NoRun /\ UNCHANGED code

\* Before the handlers are there and after they are gone, a signal ends the
\* process, and what it leaves stays.
Killed ==
    /\ phase \in {"starting", "closing"}
    /\ phase' = "killed"
    /\ NoRun /\ UNCHANGED <<code, storage>>

ExecNext ==
    \/ RefuseUsage \/ Accept \/ StartFails \/ Begin
    \/ Event \/ SwitchTarget \/ RecordChild
    \/ \E recoverable \in BOOLEAN : AgentError(recoverable)
    \/ \E kind \in {"assistant", "results", "notification"} : Commit(kind)
    \/ \E n \in {SIGINT, SIGTERM} : Signal(n)
    \/ WorkEnds \/ WorkThrows
    \/ Finish \/ CleanUp \/ Killed

ExecSpec == ExecInit /\ [][ExecNext]_execVars

-----------------------------------------------------------------------------
(* What must hold.                                                         *)

Answers  == {i \in DOMAIN out : out[i].says \in {"success", "error", "interrupted", "text"}}
Line(id) == {i \in DOMAIN out : out[i] = Tells(id)}

\* What the caller reads and the exit code agree, although a signal races the
\* answer and a run that was given up may still come to its end: one result line
\* or text at most, nothing after it, and the one that belongs to the code; and a
\* result comes after a line for every message committed before it.
OneAnswer ==
    phase \in {"closing", "ended"} =>
        /\ Answers \subseteq {Len(out)}
        /\ Interrupted => Streams = (Answers # {})
        /\ Answers # {} => CASE Last(out).says = "interrupted" -> Interrupted
                             [] Last(out).says = "error"       -> code = 1
                             [] OTHER -> code = 0 \/ (code = 1 /\ trace.failed)
        /\ code = 0 => Answers # {} /\ (Traces => trace.outcome = "completed")
        /\ Streams /\ Answers # {} =>
                \A i \in 1..cursor : HasLine(messages[i]) =>
                    \E n \in Line(messages[i].id) : Line(messages[i].id) = {n}
=============================================================================
