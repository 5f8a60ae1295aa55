------------------------------- MODULE Events -------------------------------
(***************************************************************************)
(* The provider-neutral events of a stream, llms/src/schema/events.ts, the *)
(* assembler of streamed tool input, protocols/tool-input.ts, and the fold *)
(* LLMTurnSummary.fromEvents that makes a reply of them.                   *)
(*                                                                         *)
(* text-start, reasoning-start and tool-input-start are one type with a    *)
(* kind.  A text and the arguments of a call are sequences of the pieces   *)
(* they arrived in; empty arguments stand for an empty object.             *)
(***************************************************************************)
EXTENDS Naturals, Selection

Kinds == {"text", "reasoning", "tool"}

Event(type, kind, id, data) == [type |-> type, kind |-> kind, id |-> id, data |-> data]

Start(kind, id)        == Event("start", kind, id, <<>>)
Delta(kind, id, piece) == Event("delta", kind, id, <<piece>>)
End(kind, id)          == Event("end", kind, id, <<>>)
Call(id, args)         == Event("call", "tool", id, args)
ProviderError          == Event("provider-error", "none", <<>>, <<>>)
Finish(reason)         == Event("finish", reason, <<>>, <<>>)

\* The arguments of a call arrive in two pieces, in one, or not at all.
Parses(args) == args \in {<<>>, <<"open", "close">>, <<"whole">>}

-----------------------------------------------------------------------------
(* The assembler: the open calls in the order they started.                *)

IsOpen(entries, id) == \E n \in DOMAIN entries : entries[n].id = id
Entry(entries, id)  == entries[CHOOSE n \in DOMAIN entries : entries[n].id = id]

StartEntry(entries, id) == Append(entries, [id |-> id, args |-> <<>>])

AppendArgs(entries, id, piece) ==
    [n \in DOMAIN entries |->
        IF entries[n].id = id THEN [entries[n] EXCEPT !.args = Append(@, piece)]
                              ELSE entries[n]]

\* The events that end some calls.
EntryEvents(entry)   == <<End("tool", entry.id), Call(entry.id, entry.args)>>
EndAll(entries)      == FlattenSeq([n \in DOMAIN entries |-> EntryEvents(entries[n])])
AllParse(entries)    == \A n \in DOMAIN entries : Parses(entries[n].args)
Without(entries, id) == Select(entries, LAMBDA e : e.id # id)

-----------------------------------------------------------------------------
(* What a handler of a chunk returns: the decoder's next state with events *)
(* to deliver, or an error.                                                *)

Emits(state, events) == [state |-> state, events |-> events, error |-> "none"]
Fails(state, reason) == [state |-> state, events |-> <<>>, error |-> reason]

\* finish and finishAll of the assembler, in a decoder whose field is entries.
FinishCall(state, id) ==
    IF ~IsOpen(state.entries, id) THEN Emits(state, <<>>)
    ELSE IF ~Parses(Entry(state.entries, id).args) THEN Fails(state, "invalid-provider-output")
    ELSE Emits([state EXCEPT !.entries = Without(@, id)],
               EntryEvents(Entry(state.entries, id)))

FinishCalls(state) ==
    IF ~AllParse(state.entries) THEN Fails(state, "invalid-provider-output")
    ELSE Emits([state EXCEPT !.entries = <<>>], EndAll(state.entries))

-----------------------------------------------------------------------------
(* fromEvents.                                                             *)

Key(e) == <<e.kind, e.id>>

NothingYet ==
    [failed |-> FALSE, finish |-> "none", started |-> {}, ended |-> {}, order |-> <<>>,
     buffers |-> <<>>, calls |-> <<>>, text |-> <<>>, reasoning |-> <<>>, errors |-> 0]

\* Which events the fold refuses: those after the finish, and those whose
\* content was not started, or whose input was not ended.
Refused(s, e) ==
    \/ s.finish # "none"
    \/ e.type \in {"delta", "end"} /\ Key(e) \notin s.started
    \/ e.type = "call" /\ e.id \notin s.ended

\* A set of a Map: an entry that is there keeps its place.
SetCall(calls, e) ==
    IF IsOpen(calls, e.id)
    THEN [n \in DOMAIN calls |-> IF calls[n].id = e.id THEN [id |-> e.id, args |-> e.data]
                                                      ELSE calls[n]]
    ELSE Append(calls, [id |-> e.id, args |-> e.data])

SetBuffer(buffers, key, data) ==
    [k \in DOMAIN buffers \cup {key} |-> IF k = key THEN data ELSE buffers[k]]

\* What an event adds.
Taken(s, e) ==
    CASE e.type = "start" ->
            [s EXCEPT !.started = @ \cup {Key(e)}, !.order = Append(@, Key(e)),
                      !.buffers = SetBuffer(@, Key(e), <<>>)]
      [] e.type = "delta" ->
            [s EXCEPT !.buffers = SetBuffer(@, Key(e), @[Key(e)] \o e.data),
                      !.text = IF e.kind = "text" THEN @ \o e.data ELSE @,
                      !.reasoning = IF e.kind = "reasoning" THEN @ \o e.data ELSE @]
      [] e.type = "end" ->
            [s EXCEPT !.ended = IF e.kind = "tool" THEN @ \cup {e.id} ELSE @]
      [] e.type = "call" -> [s EXCEPT !.calls = SetCall(@, e)]
      [] e.type = "provider-error" -> [s EXCEPT !.errors = @ + 1]
      [] e.type = "finish" -> [s EXCEPT !.finish = e.kind]

Fold(s, e) ==
    IF s.failed \/ Refused(s, e) THEN [s EXCEPT !.failed = TRUE] ELSE Taken(s, e)

\* The reply is accepted when no event was refused and the stream finished.
Accepted(s) == ~s.failed /\ s.finish # "none"

\* The block of the reply for one content, if it has one: a call has one when it
\* was completed.
BlockOf(s, k) ==
    IF k[1] # "tool" THEN <<[kind |-> k[1], data |-> s.buffers[k]]>>
    ELSE IF IsOpen(s.calls, k[2])
    THEN <<[kind |-> "tool", data |-> Entry(s.calls, k[2]).args]>>
    ELSE <<>>

\* The blocks of the reply, in the order their content started.
Content(s) == FlattenSeq([n \in DOMAIN s.order |-> BlockOf(s, s.order[n])])
=============================================================================
