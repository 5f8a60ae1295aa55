----------------------------- MODULE OpenAIChat -----------------------------
(***************************************************************************)
(* The decoder of chat completion chunks, llms/src/protocols/openai-chat.ts*)
(* A chunk is a delta that may carry reasoning, text and fragments of tool *)
(* calls, told apart by their index; nothing says where a text ends.       *)
(***************************************************************************)
EXTENDS Events

\* "" stands for a field that is missing or empty; fragments is a sequence of
\* records with the index of a call and a piece of its arguments.
Chunk(reasoning, content, fragments, finish) ==
    [type |-> "delta", reasoning |-> reasoning, content |-> content,
     fragments |-> fragments, finish |-> finish]
ErrorChunk == [type |-> "error"]

\* A delta whose list of calls is there and empty; what else it carries might as
\* well have come in a chunk before it.
NoCallsChunk == [type |-> "no-calls"]

\* 0: no text, or no reasoning, is open.
Decoder == [entries |-> <<>>, known |-> {}, open |-> [k \in {"text", "reasoning"} |-> 0],
            started |-> [k \in {"text", "reasoning"} |-> 0], reason |-> "unknown"]

\* The handler goes on from what an earlier part of it emitted.
Plus(r, state, events) == Emits(state, r.events \o events)

Close(r, kind) ==
    IF r.state.open[kind] = 0 THEN r
    ELSE Plus(r, [r.state EXCEPT !.open[kind] = 0], <<End(kind, r.state.open[kind])>>)

Other(kind) == IF kind = "text" THEN "reasoning" ELSE "text"

\* A piece of text ends the open reasoning and the other way round.
Extend(r, kind, piece) ==
    IF piece = "" THEN r
    ELSE LET q == Close(r, Other(kind))
             n == q.state.started[kind] + 1
             o == IF q.state.open[kind] # 0 THEN q
                  ELSE Plus(q, [q.state EXCEPT !.started[kind] = n, !.open[kind] = n],
                            <<Start(kind, n)>>)
         IN  Plus(o, o.state, <<Delta(kind, o.state.open[kind], piece)>>)

Fragment(r, f) ==
    LET o == IF f.index \in r.state.known THEN r
             ELSE Plus(r, [r.state EXCEPT !.known = @ \cup {f.index},
                                          !.entries = StartEntry(@, f.index)],
                       <<Start("tool", f.index)>>)
    IN  IF f.data = "" THEN o
        ELSE Plus(o, [o.state EXCEPT !.entries = AppendArgs(@, f.index, f.data)],
                  <<Delta("tool", f.index, f.data)>>)

\* A list of calls ends what is open.
Shut(r) == Close(Close(r, "text"), "reasoning")

ToolCalls(r, fragments) ==
    IF fragments = <<>> THEN r ELSE FoldLeft(Fragment, Shut(r), fragments)

HandleChunk(s, c) ==
    IF c.type = "error" THEN Fails(s, "fatal")
    ELSE IF c.type = "no-calls" THEN Shut(Emits(s, <<>>))
    ELSE LET said == Extend(Extend(Emits(s, <<>>), "reasoning", c.reasoning),
                            "text", c.content)
             done == ToolCalls(said, c.fragments)
         IN  IF c.finish = "" THEN done
             ELSE Plus(done, [done.state EXCEPT !.reason = c.finish], <<>>)

Flush(s) ==
    LET closed == Shut(Emits(s, <<>>))
        calls  == FinishCalls(closed.state)
    IN  IF calls.error # "none" THEN calls
        ELSE Plus(closed, calls.state, calls.events \o <<Finish(s.reason)>>)
=============================================================================
