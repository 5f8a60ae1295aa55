---------------------------- MODULE ProviderCall ----------------------------
(***************************************************************************)
(* One request of the agent loop to a provider: llms/src/transport/http.ts *)
(* and llm.ts over the three decoders, and the collection with its retries *)
(* in core/src/agent.ts.  Chunks are pulled one at a time, and the next is *)
(* pulled when the events of the last have been delivered.                 *)
(*                                                                         *)
(* The provider is external.  It sends what its protocol allows: Anthropic *)
(* one block after another, chat deltas of anything, the Codex backend     *)
(* items side by side.  wire is what it has sent in this attempt.          *)
(***************************************************************************)
EXTENDS Events, Lowering, FiniteSets

CONSTANTS Protocols,   \* the protocols of the instance
          MaxItems,    \* blocks, calls or items of a reply
          MaxChunks,   \* chunks of an attempt that carry something
          MaxRetries,  \* MAX_STREAM_RETRIES
          Histories    \* transcripts a request can be made of

ASSUME ProviderAssumption ==
    /\ Protocols \subseteq {"anthropic", "chat", "codex"}
    /\ MaxItems \in Nat /\ MaxChunks \in Nat /\ MaxRetries \in Nat
    /\ \A h \in Histories : Paired(h)

VARIABLES protocol,  \* the protocol of the model in use
          capped,    \* whether attempts have a time limit: the turns of headless runs
          phase,     \* where the request is
          attempt,   \* retries so far
          error,     \* why the attempt failed
          decoder,   \* the state of the decoder
          queue,     \* events of the last chunk, not yet delivered
          out,       \* events the agent has collected
          summary,   \* their fold, fromEvents
          items,     \* the provider: kinds of the items it has begun
          closed,    \* the provider: items it has ended
          wire,      \* the provider: the pieces it has sent
          sent       \* the provider: how many chunks, see RunsAway

client   == <<protocol, capped, phase, attempt, error, decoder, queue, out, summary>>
provider == <<items, closed, wire, sent>>
callVars == <<client, provider>>

A == INSTANCE AnthropicMessages
O == INSTANCE OpenAIChat
C == INSTANCE CodexResponses

NewDecoder == CASE protocol = "anthropic" -> A!Decoder
                [] protocol = "chat"      -> O!Decoder
                [] protocol = "codex"     -> C!Decoder

Handle(c) == CASE protocol = "anthropic" -> A!HandleChunk(decoder, c)
               [] protocol = "chat"      -> O!HandleChunk(decoder, c)
               [] protocol = "codex"     -> C!HandleChunk(decoder, c)

Flushed == CASE protocol = "anthropic" -> A!Flush(decoder)
             [] protocol = "chat"      -> O!Flush(decoder)
             [] protocol = "codex"     -> C!Flush(decoder)

Lowered(h) == CASE protocol = "anthropic" -> LowerAnthropic(h)
                [] protocol = "chat"      -> LowerChat(h)
                [] protocol = "codex"     -> LowerCodex(h)

\* LLMError.retryable of the errors a call can end in; those of fatalError, in
\* a Codex stream, are not.
RetryableErrors == {"network-error", "rate-limited", "overloaded", "server-error"}
Statuses        == {"rate-limited", "overloaded", "server-error", "auth-failed",
                    "context-length-exceeded", "invalid-request"}

CallInit ==
    /\ protocol \in Protocols /\ capped \in BOOLEAN
    /\ phase = "sending" /\ attempt = 0 /\ error = "none"
    /\ decoder = NewDecoder /\ queue = <<>> /\ out = <<>> /\ summary = NothingYet
    /\ items = <<>> /\ closed = {} /\ wire = <<>> /\ sent = 0

-----------------------------------------------------------------------------
(* Attempts and the chunks they pull.                                      *)

\* Effect.retry: a retryable failure is retried a bounded number of times.
AttemptFails(reason) ==
    /\ error' = reason
    /\ phase' = IF reason \in RetryableErrors /\ attempt < MaxRetries
                THEN "backoff" ELSE "failed"

\* The agent has taken every event there was.
AllTaken == queue = <<>> /\ sent <= MaxChunks

\* One server-sent event is pulled and decoded; its events will be delivered.
Pulling == phase = "streaming" /\ queue = <<>> /\ sent < MaxChunks

Receive(c) ==
    LET r == Handle(c)
    IN  /\ decoder' = r.state /\ queue' = r.events
        /\ IF r.error = "none" THEN UNCHANGED <<phase, error>> ELSE AttemptFails(r.error)
        /\ sent' = sent + 1
        /\ UNCHANGED <<protocol, capped, attempt, out, summary>>

-----------------------------------------------------------------------------
(* The provider.                                                           *)

Pieces(kind)   == Select(wire, LAMBDA w : w.kind = kind)
PiecesOf(item) == Select(wire, LAMBDA w : w.item = item)
Data(ws)       == [n \in DOMAIN ws |-> ws[n].data]

TextPieces == <<"a", "b", "c", "d">>

\* The pieces that may follow: texts are told apart by their order.
NextPieces(kind, item) ==
    IF kind # "tool"
    THEN IF Len(Pieces(kind)) < Len(TextPieces) THEN {TextPieces[Len(Pieces(kind)) + 1]} ELSE {}
    ELSE CASE Data(PiecesOf(item)) = <<>>       -> {"open"}
           [] Data(PiecesOf(item)) = <<"open">> -> {"close"}
           [] OTHER                             -> {}

Open == {i \in DOMAIN items : i \notin closed}

Says(kind, item, data) == wire' = Append(wire, [kind |-> kind, item |-> item, data |-> data])

Begins(kind) == Len(items) < MaxItems /\ items' = Append(items, kind)
Ends(item)   == closed' = closed \cup {item}

\* Anthropic's sequence of blocks.
AnthropicSends ==
    /\ protocol = "anthropic" /\ Pulling
    /\ \/ \E k \in Kinds \cup {"redacted_thinking"} :
            /\ Open = {} /\ Begins(k)
            /\ Receive(A!Chunk("content_block_start", Len(items) + 1, k, ""))
            /\ UNCHANGED <<closed, wire>>
       \/ \E i \in Open : \E d \in NextPieces(items[i], i) :
            /\ items[i] \in Kinds /\ Says(items[i], i, d)
            /\ Receive(A!Chunk("content_block_delta", i, items[i], d))
            /\ UNCHANGED <<items, closed>>
       \/ \E i \in Open :
            /\ items[i] = "tool" => Parses(Data(PiecesOf(i)))
            /\ Ends(i) /\ Receive(A!Chunk("content_block_stop", i, items[i], ""))
            /\ UNCHANGED <<items, wire>>
       \/ /\ \E c \in {A!Chunk("message_delta", 0, "", "stop"),
                     A!Chunk("error", 0, "", "overloaded"),
                     A!Chunk("error", 0, "", "unrecognized")} : Receive(c)
          /\ UNCHANGED <<items, closed, wire>>

\* Chat: one piece of anything, an opening fragment of a call with or without
\* the rest of it, two things in one chunk, or no call at all.
ChatSends ==
    /\ protocol = "chat" /\ Pulling
    /\ \/ \E k \in {"text", "reasoning"} : \E d \in NextPieces(k, 0) :
            /\ Says(k, 0, d)
            /\ Receive(O!Chunk(IF k = "reasoning" THEN d ELSE "", IF k = "text" THEN d ELSE "", <<>>, ""))
            /\ UNCHANGED <<items, closed>>
       \/ \E r \in NextPieces("reasoning", 0), t \in NextPieces("text", 0) :
            /\ wire' = wire \o <<[kind |-> "reasoning", item |-> 0, data |-> r],
                                 [kind |-> "text", item |-> 0, data |-> t]>>
            /\ Receive(O!Chunk(r, t, <<>>, "")) /\ UNCHANGED <<items, closed>>
       \/ \E whole \in BOOLEAN :
            /\ Begins("tool")
            /\ IF whole THEN Says("tool", Len(items) + 1, "whole") ELSE UNCHANGED wire
            /\ Receive(O!Chunk("", "", <<[index |-> Len(items) + 1,
                                      data |-> IF whole THEN "whole" ELSE ""]>>, ""))
            /\ UNCHANGED closed
       \/ \E i \in DOMAIN items : \E d \in NextPieces("tool", i) :
            /\ Says("tool", i, d)
            /\ Receive(O!Chunk("", "", <<[index |-> i, data |-> d]>>, ""))
            /\ UNCHANGED <<items, closed>>
       \/ /\ \E c \in {O!Chunk("", "", <<>>, "stop"), O!NoCallsChunk, O!ErrorChunk} : Receive(c)
          /\ UNCHANGED <<items, closed, wire>>

\* Codex: items side by side.  A call's arguments come in deltas, in the done
\* event or in both; the item's own done follows or replaces it.
CodexSends ==
    /\ protocol = "codex" /\ Pulling
    /\ \/ \E k \in Kinds :
            /\ Begins(k) /\ Receive(C!Chunk("item.added", Len(items) + 1, k, ""))
            /\ UNCHANGED <<closed, wire>>
       \/ \E i \in Open : \E d \in NextPieces(items[i], i) :
            /\ Says(items[i], i, d)
            /\ Receive(C!Chunk(IF items[i] = "tool" THEN "arguments.delta" ELSE "delta", i, items[i], d))
            /\ UNCHANGED <<items, closed>>
       \/ \E i \in Open :
            /\ items[i] = "tool" /\ Data(PiecesOf(i)) # <<"open">>
            /\ IF PiecesOf(i) = <<>> THEN Says("tool", i, "whole") ELSE UNCHANGED wire
            /\ Ends(i) /\ Receive(C!Chunk("arguments.done", i, "tool", "whole"))
            /\ UNCHANGED items
       \/ \E i \in DOMAIN items :
            /\ items[i] = "tool" => Data(PiecesOf(i)) # <<"open">>
            /\ Ends(i)
            /\ \E c \in {C!Chunk("item.done", i, items[i], "")}
                     \cup IF items[i] = "tool" THEN {} ELSE {C!Chunk("done", i, items[i], "")} : Receive(c)
            /\ UNCHANGED <<items, wire>>
       \/ /\ \E c \in {C!Chunk("completed", 0, "", "stop"),
                     C!Chunk("failed", 0, "", "fatal")} : Receive(c)
          /\ UNCHANGED <<items, closed, wire>>

\* A generation that runs away: after MaxChunks chunks there may always be one
\* more.  What it says is not recorded on either side, only that it is on its
\* way, which is sent = MaxChunks + 1.
RunsAway ==
    /\ phase = "streaming" /\ AllTaken /\ sent = MaxChunks
    /\ sent' = MaxChunks + 1
    /\ UNCHANGED <<client, items, closed, wire>>

-----------------------------------------------------------------------------
(* The client.                                                             *)

\* Credentials are missing, the request cannot be built or sent, or the
\* provider answers with an error status.
RequestFails ==
    /\ phase = "sending"
    /\ \E r \in Statuses \cup {"network-error"} : AttemptFails(r)
    /\ UNCHANGED <<protocol, capped, attempt, decoder, queue, out, summary, provider>>

RequestAccepted ==
    /\ phase = "sending"
    /\ phase' = "streaming"
    /\ UNCHANGED <<protocol, capped, attempt, error, decoder, queue, out, summary, provider>>

\* A payload that is not JSON, or a connection that breaks.
StreamBreaks ==
    /\ phase = "streaming" /\ AllTaken
    /\ \E r \in {"invalid-provider-output", "network-error"} : AttemptFails(r)
    /\ UNCHANGED <<protocol, capped, attempt, decoder, queue, out, summary, provider>>

\* [DONE] or the end of the body: the decoder is flushed.
StreamEnds ==
    /\ phase = "streaming" /\ AllTaken
    /\ LET r == Flushed IN
         /\ decoder' = r.state /\ queue' = r.events
         /\ IF r.error = "none" THEN phase' = "flushing" /\ UNCHANGED error
                                ELSE AttemptFails(r.error)
    /\ UNCHANGED <<protocol, capped, attempt, out, summary, provider>>

\* The collector takes one event.
Deliver ==
    /\ phase \in {"streaming", "flushing"} /\ queue # <<>>
    /\ out' = Append(out, Head(queue)) /\ queue' = Tail(queue)
    /\ summary' = Fold(summary, Head(queue))
    /\ phase' = IF phase = "flushing" /\ Tail(queue) = <<>> THEN "collected" ELSE phase
    /\ UNCHANGED <<protocol, capped, attempt, error, decoder, provider>>

\* It takes what a stream that runs on has sent.
TakeMore ==
    /\ phase = "streaming" /\ sent > MaxChunks
    /\ sent' = MaxChunks
    /\ UNCHANGED <<client, items, closed, wire>>

\* Mutant: the watchdog starts with the body.
StallInBody ==
    /\ phase = "streaming" /\ AllTaken
    /\ AttemptFails("network-error")
    /\ UNCHANGED <<protocol, capped, attempt, decoder, queue, out, summary, provider>>

\* STREAM_IDLE_TIMEOUT: no event for that long, from the request on.
Stall ==
    /\ phase \in {"sending", "streaming"} /\ AllTaken
    /\ AttemptFails("network-error")
    /\ UNCHANGED <<protocol, capped, attempt, decoder, queue, out, summary, provider>>

\* maxTurnDuration: the time limit of an attempt, whatever it does.
WallCapHits ==
    /\ capped /\ phase \in {"sending", "streaming", "flushing"}
    /\ AttemptFails("network-error")
    /\ UNCHANGED <<protocol, capped, attempt, decoder, queue, out, summary, provider>>

\* Mutant: the retried request goes on collecting into the same buffer.
ResendIntoBuffer ==
    /\ phase = "backoff"
    /\ phase' = "sending" /\ attempt' = attempt + 1
    /\ decoder' = NewDecoder /\ queue' = <<>>
    /\ items' = <<>> /\ closed' = {} /\ wire' = <<>> /\ sent' = 0
    /\ UNCHANGED <<protocol, capped, error, out, summary>>

\* After the delay: the same request, a new decoder, a new buffer.
Resend ==
    /\ phase = "backoff"
    /\ phase' = "sending" /\ attempt' = attempt + 1
    /\ decoder' = NewDecoder /\ queue' = <<>> /\ out' = <<>> /\ summary' = NothingYet
    /\ items' = <<>> /\ closed' = {} /\ wire' = <<>> /\ sent' = 0
    /\ UNCHANGED <<protocol, capped, error>>

\* fromEvents: a reply, or an error that nothing retries.
Summarized ==
    /\ phase = "collected"
    /\ phase' = IF Accepted(summary) THEN "answered" ELSE "failed"
    /\ error' = IF Accepted(summary) THEN "none" ELSE "invalid-provider-output"
    /\ UNCHANGED <<protocol, capped, attempt, decoder, queue, out, summary, provider>>

ClientNext ==
    \/ RequestFails \/ RequestAccepted \/ StreamBreaks \/ StreamEnds \/ Deliver \/ TakeMore
    \/ Stall \/ WallCapHits \/ Resend \/ Summarized

CallNext == ClientNext \/ AnthropicSends \/ ChatSends \/ CodexSends \/ RunsAway

CallSpec == CallInit /\ [][CallNext]_callVars

\* The client's own steps are taken, and its clocks run: the provider owes it
\* nothing.  Delays between attempts end.  The watchdog's clock starts again with
\* each event, the limit's does not.
CallFairness ==
    /\ WF_callVars(Deliver) /\ WF_callVars(TakeMore) /\ WF_callVars(Resend) /\ WF_callVars(Summarized)
    /\ WF_callVars(Stall) /\ WF_callVars(WallCapHits)

CallFairSpec == CallSpec /\ CallFairness

-----------------------------------------------------------------------------
(* Properties.                                                             *)

\* The blocks of the reply that hold something.
Kept(kind) == Select(Content(summary), LAMBDA b : b.kind = kind /\ b.data # <<>>)

\* A reply holds exactly what the provider said in the attempt that answered:
\* every piece of text and reasoning once and in order, in the block of its
\* item where the protocol has items, and every call with its arguments.
\* handleChunk and flush of the decoders, streamOnce and fromEvents.
ReplyIsFaithful ==
    phase = "answered" =>
        LET s    == summary
            made == {i \in DOMAIN items : items[i] = "tool"}
        IN  /\ s.text = Data(Pieces("text"))
            /\ s.reasoning = Data(Pieces("reasoning"))
            /\ {s.calls[n] : n \in DOMAIN s.calls}
                 = {[id |-> i, args |-> Data(PiecesOf(i))] : i \in made}
            /\ Len(s.calls) = Cardinality(made)
            /\ \A kind \in {"text", "reasoning"} :
                 IF protocol = "chat"
                 THEN FlattenSeq(Data(Kept(kind))) = Data(Pieces(kind))
                 ELSE Range(Data(Kept(kind)))
                        = {Data(PiecesOf(i)) : i \in {j \in DOMAIN items :
                                items[j] = kind /\ PiecesOf(j) # <<>>}}

\* Of every transcript whose calls are answered, every protocol makes a request
\* whose calls are answered where the backend looks for the answers, and that
\* holds every call and result of the transcript once; what cannot be said is
\* refused, and that is nothing but an empty transcript or one that holds a reply
\* without a text or a call.  Such a reply is pushed as any other is
\* (agent.ts:580), and from then on Anthropic's models are out of the
\* transcript's reach.  lowerMessages of the three protocols.
RequestKeepsPairs ==
    phase = "sending" /\ attempt = 0 =>
        \A h \in Histories :
            IF Lowered(h).refused
            THEN h = <<>> \/ \E n \in DOMAIN h : SaysNothing(h[n])
            ELSE /\ WellFormed(Lowered(h).wire)
                 /\ Len(CallsAndResults(BlocksOf(Lowered(h).wire))) = Len(CallsAndResults(BlocksOf(h)))

\* Whatever the protocol, the collector sees the events EventStream allows.
Abstract == INSTANCE EventStream WITH log <- out
ImplementsEventStream == Abstract!StreamSpec

\* Every request ends in a reply or an error.  In a turn of a headless run it does
\* however the provider behaves, even one that goes on for ever: the time limit of
\* an attempt ends what the watchdog cannot.  In an interactive turn and in every
\* child (agent.ts:533, orchestrator.ts:182) nothing ends such a stream, but any
\* other ends: a silent one is given up by the watchdog, and retries are bounded
\* (STREAM_IDLE_TIMEOUT of llm.ts, MAX_STREAM_RETRIES).
CallEnds == capped \/ <>[](sent <= MaxChunks) => <>(phase \in {"answered", "failed"})
=============================================================================
