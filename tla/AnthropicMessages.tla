-------------------------- MODULE AnthropicMessages -------------------------
(***************************************************************************)
(* The decoder of Anthropic's message stream,                              *)
(* llms/src/protocols/anthropic-messages.ts: chunks name the block they    *)
(* belong to by its index, and a block is started, extended and stopped.   *)
(***************************************************************************)
EXTENDS Events

Chunk(type, index, block, data) ==
    [type |-> type, index |-> index, block |-> block, data |-> data]

\* blocks is the map from an index to the block that is open there, in the
\* order the indexes were set; started counts the blocks of each kind.
Decoder == [entries |-> <<>>, blocks |-> <<>>, started |-> [k \in Kinds |-> 0],
            reason |-> "unknown"]

BlockAt(s, index) == Select(s.blocks, LAMBDA b : b.index = index)
SetBlock(s, block) ==
    IF BlockAt(s, block.index) = <<>> THEN Append(s.blocks, block)
    ELSE [n \in DOMAIN s.blocks |->
            IF s.blocks[n].index = block.index THEN block ELSE s.blocks[n]]

\* A tool call brings its own id; here the index of its block.
StartBlock(s, c) ==
    LET n  == s.started[c.block] + 1
        id == IF c.block = "tool" THEN c.index ELSE n
        t  == [s EXCEPT !.started[c.block] = n,
                        !.blocks = SetBlock(s, [index |-> c.index, kind |-> c.block, id |-> id])]
    IN  IF c.block \notin Kinds THEN Emits(s, <<>>)
        ELSE Emits(IF c.block = "tool" THEN [t EXCEPT !.entries = StartEntry(@, id)] ELSE t,
                   <<Start(c.block, id)>>)

DeltaBlock(s, c) ==
    IF BlockAt(s, c.index) = <<>> THEN Emits(s, <<>>)
    ELSE LET b == Head(BlockAt(s, c.index))
         IN  IF b.kind # c.block \/ (b.kind = "tool" /\ c.data = "") THEN Emits(s, <<>>)
             ELSE Emits(IF b.kind = "tool"
                        THEN [s EXCEPT !.entries = AppendArgs(@, b.id, c.data)] ELSE s,
                        <<Delta(b.kind, b.id, c.data)>>)

\* Mutant: a tool block's stop does not finish its call.
StopAndForget(s, c) ==
    LET t == [s EXCEPT !.blocks = Select(@, LAMBDA b : b.index # c.index)]
    IN  IF BlockAt(s, c.index) = <<>> THEN Emits(t, <<>>)
        ELSE Emits(t, <<End(Head(BlockAt(s, c.index)).kind, Head(BlockAt(s, c.index)).id)>>)

\* Blocks come one after another, so the stop of a tool block finishes the
\* one call that is open.
StopBlock(s, c) ==
    LET t == [s EXCEPT !.blocks = Select(@, LAMBDA b : b.index # c.index)]
    IN  IF BlockAt(s, c.index) = <<>> THEN Emits(t, <<>>)
        ELSE LET b == Head(BlockAt(s, c.index))
             IN  IF b.kind = "tool" THEN FinishCalls(t) ELSE Emits(t, <<End(b.kind, b.id)>>)

\* Errors with a meaning fail the turn, others stay in the stream.
HandleError(s, c) ==
    IF c.data = "unrecognized" THEN Emits(s, <<ProviderError>>) ELSE Fails(s, c.data)

HandleChunk(s, c) ==
    CASE c.type = "content_block_start" -> StartBlock(s, c)
      [] c.type = "content_block_delta" -> DeltaBlock(s, c)
      [] c.type = "content_block_stop"  -> StopBlock(s, c)
      [] c.type = "message_delta"       -> Emits([s EXCEPT !.reason = c.data], <<>>)
      [] c.type = "error"               -> HandleError(s, c)
      [] OTHER                          -> Emits(s, <<>>)

\* The end of the stream closes what is open and finishes.
Flush(s) ==
    LET open  == Select(s.blocks, LAMBDA b : b.kind # "tool")
        ends  == [n \in DOMAIN open |-> End(open[n].kind, open[n].id)]
        calls == FinishCalls(s)
    IN  IF calls.error # "none" THEN calls
        ELSE Emits([calls.state EXCEPT !.blocks = <<>>],
                   ends \o calls.events \o <<Finish(s.reason)>>)
=============================================================================
