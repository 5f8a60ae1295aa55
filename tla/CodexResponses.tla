--------------------------- MODULE CodexResponses ---------------------------
(***************************************************************************)
(* The decoder of the Codex backend's response events,                     *)
(* llms/src/protocols/openai-codex-responses.ts.  Events name the item     *)
(* they belong to, items of any kind may be open at once, and the end of   *)
(* an item is announced more than once.                                    *)
(***************************************************************************)
EXTENDS Events

\* done is what an arguments.done carries, "" when it carries nothing.
Chunk(type, item, kind, data) == [type |-> type, item |-> item, kind |-> kind, data |-> data]

\* open: the texts and reasonings by item, in the order they were opened.
\* tools: what is known of each function call.
Decoder == [entries |-> <<>>, open |-> <<>>, tools |-> <<>>,
            started |-> [k \in Kinds |-> 0], reason |-> "unknown"]

OpenAt(s, kind, item) == Select(s.open, LAMBDA o : o.kind = kind /\ o.item = item)

DeltaOf(s, c) ==
    IF c.data = "" THEN Emits(s, <<>>)
    ELSE IF OpenAt(s, c.kind, c.item) # <<>>
    THEN Emits(s, <<Delta(c.kind, Head(OpenAt(s, c.kind, c.item)).id, c.data)>>)
    ELSE LET n == s.started[c.kind] + 1
         IN  Emits([s EXCEPT !.started[c.kind] = n,
                             !.open = Append(@, [kind |-> c.kind, item |-> c.item, id |-> n])],
                   <<Start(c.kind, n), Delta(c.kind, n, c.data)>>)

\* Closing what is not open emits nothing.
CloseItems(s, closing(_)) ==
    LET gone == Select(s.open, closing)
    IN  Emits([s EXCEPT !.open = Select(@, LAMBDA o : ~closing(o))],
              [n \in DOMAIN gone |-> End(gone[n].kind, gone[n].id)])

KnownTool(s, item)    == \E n \in DOMAIN s.tools : s.tools[n].item = item
Tool(s, item)         == s.tools[CHOOSE n \in DOMAIN s.tools : s.tools[n].item = item]
Change(s, item, f(_)) == [s EXCEPT !.tools = [n \in DOMAIN @ |->
                             IF @[n].item = item THEN f(@[n]) ELSE @[n]]]

TrackFunctionCall(s, item) ==
    Emits([s EXCEPT !.tools = Append(@, [item |-> item, sawDelta |-> FALSE, finished |-> FALSE]),
                    !.entries = StartEntry(@, item)],
          <<Start("tool", item)>>)

ArgumentsDelta(s, c) ==
    IF ~KnownTool(s, c.item) \/ c.data = "" THEN Emits(s, <<>>)
    ELSE IF Tool(s, c.item).finished THEN Emits(s, <<>>)
    ELSE LET t == Change(s, c.item, LAMBDA e : [e EXCEPT !.sawDelta = TRUE])
         IN  Emits([t EXCEPT !.entries = AppendArgs(@, c.item, c.data)],
                   <<Delta("tool", c.item, c.data)>>)

\* Arguments that came in deltas are not taken again from the done event,
\* and a call is finished once.
FinishFunctionCall(s, item, final) ==
    IF ~KnownTool(s, item) THEN Emits(s, <<>>)
    ELSE IF Tool(s, item).finished THEN Emits(s, <<>>)
    ELSE LET t == Change(s, item, LAMBDA e : [e EXCEPT !.finished = TRUE])
             u == IF Tool(s, item).sawDelta \/ final = "" THEN t
                  ELSE [t EXCEPT !.entries = AppendArgs(@, item, final)]
         IN  FinishCall(u, item)

ItemDone(s, c) ==
    IF c.kind = "tool" THEN FinishFunctionCall(s, c.item, "")
    ELSE CloseItems(s, LAMBDA o : o.item = c.item)

HandleChunk(s, c) ==
    CASE c.type = "delta"           -> DeltaOf(s, c)
      [] c.type = "done"            -> CloseItems(s, LAMBDA o : o.kind = c.kind /\ o.item = c.item)
      [] c.type = "item.added"      -> IF c.kind = "tool" THEN TrackFunctionCall(s, c.item)
                                                          ELSE Emits(s, <<>>)
      [] c.type = "arguments.delta" -> ArgumentsDelta(s, c)
      [] c.type = "arguments.done"  -> FinishFunctionCall(s, c.item, c.data)
      [] c.type = "item.done"       -> ItemDone(s, c)
      [] c.type = "completed"       -> Emits([s EXCEPT !.reason = c.data], <<>>)
      [] c.type = "failed"          -> Fails(s, c.data)
      [] OTHER                      -> Emits(s, <<>>)

\* Texts first, then reasonings, then calls.
Flush(s) ==
    LET texts == CloseItems(s, LAMBDA o : o.kind = "text")
        rest  == CloseItems(texts.state, LAMBDA o : TRUE)
        calls == FinishCalls(rest.state)
    IN  IF calls.error # "none" THEN calls
        ELSE Emits(calls.state,
                   texts.events \o rest.events \o calls.events \o <<Finish(s.reason)>>)
=============================================================================
