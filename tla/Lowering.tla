------------------------------ MODULE Lowering ------------------------------
(***************************************************************************)
(* How a transcript becomes the messages of a request: lowerMessages of    *)
(* the three protocols under llms/src/protocols.                           *)
(*                                                                         *)
(* A message is a role and a sequence of blocks; of a block only its type  *)
(* and the id of its call matter.  An id is the sequence of its parts: one *)
(* of the Codex backend names the call and the item, <<call, item>>, any   *)
(* other is <<call>>.  The notes of a model switch or a compaction are     *)
(* texts.  What is sent is a sequence of wire messages.                    *)
(***************************************************************************)
EXTENDS Selection

Block(type, id) == [type |-> type, id |-> id]
Text      == Block("text", <<>>)
Reasoning == Block("reasoning", <<>>)

Only(content, type)  == Select(content, LAMBDA b : b.type = type)
Wire(role, content)  == [role |-> role, content |-> content]
Sent(messages)       == [refused |-> FALSE, wire |-> messages]
Refusal              == [refused |-> TRUE, wire |-> <<>>]

\* One text of all the texts.
Joined(content)      == IF Only(content, "text") = <<>> THEN <<>> ELSE <<Text>>
Each(blocks, role)   == [n \in DOMAIN blocks |-> Wire(role, <<blocks[n]>>)]

\* lowerMessages goes over the messages one by one.
LowerAll(Lower(_), messages) == FlattenSeq([n \in DOMAIN messages |-> Lower(messages[n])])

\* The transcripts the agent loop makes requests of, AgentLoop's RequestsPaired: a
\* call is answered by the message after it, a result answers the message
\* before it, and no id is used twice.  What a user's message is made of, a
\* prompt, a note or the results of calls, is never nothing; a reply may be.
Messages ==
    [role : {"user"}, content : Seq([type : {"text"}, id : {<<>>}]
                                    \cup [type : {"result"}, id : Seq(STRING) \ {<<>>}])]
    \cup [role : {"assistant"}, content : Seq([type : {"text", "reasoning"}, id : {<<>>}]
                                    \cup [type : {"call"}, id : Seq(STRING) \ {<<>>}])]

Paired(h) ==
    /\ h \in Seq(Messages)
    /\ h # <<>> => h[1].role = "user"
    /\ \A n \in DOMAIN h : h[n].role = "user" => h[n].content # <<>>
    /\ \A n \in DOMAIN h : \A b \in Range(h[n].content) :
          /\ b.type = "call"   => n < Len(h) /\ Block("result", b.id) \in Range(h[n + 1].content)
          /\ b.type = "result" => n > 1 /\ Block("call", b.id) \in Range(h[n - 1].content)
    /\ \A m, n \in DOMAIN h : \A i \in DOMAIN h[m].content, j \in DOMAIN h[n].content :
          LET b == h[m].content[i]
              c == h[n].content[j]
          IN  b.type = c.type /\ b.type \in {"call", "result"} /\ Head(b.id) = Head(c.id)
                => m = n /\ i = j

-----------------------------------------------------------------------------
(* Anthropic Messages.                                                     *)

\* Results come first, and reasoning stays local.
AnthropicMessage(m) ==
    <<Wire(m.role, IF m.role = "user" THEN Only(m.content, "result") \o Only(m.content, "text")
                   ELSE Select(m.content, LAMBDA b : b.type # "reasoning"))>>

\* What the backend would reject is refused before it is sent.
LowerAnthropic(messages) ==
    IF \/ messages = <<>>
       \/ messages[1].role # "user"
       \/ \E n \in DOMAIN messages :
            \/ messages[n].content = <<>>
            \/ messages[n].role = "assistant" /\ AnthropicMessage(messages[n])[1].content = <<>>
    THEN Refusal ELSE Sent(LowerAll(AnthropicMessage, messages))

-----------------------------------------------------------------------------
(* OpenAI chat completions.                                                *)

\* Some profiles replay reasoning beside the content; it is left out here, and
\* an assistant message that holds nothing else is skipped.
ChatMessage(m) ==
    IF m.role = "user"
    THEN Each(Only(m.content, "result"), "tool")
         \o (IF Only(m.content, "text") = <<>> THEN <<>> ELSE <<Wire("user", <<Text>>)>>)
    ELSE LET content == Joined(m.content) \o Only(m.content, "call")
         IN  IF content = <<>> THEN <<>> ELSE <<Wire("assistant", content)>>

LowerChat(messages) == Sent(LowerAll(ChatMessage, messages))

-----------------------------------------------------------------------------
(* Codex responses: a list of items.                                       *)

\* encodeToolCallId and splitToolCallId.
EncodeToolCallId(call, item) == IF item = "" THEN <<call>> ELSE <<call, item>>
CallIdOf(id)                 == <<Head(id)>>

\* Mutant: an output names the whole id.
CodexWholeId(m) ==
    LET named(blocks) == [n \in DOMAIN blocks |-> Block(blocks[n].type, CallIdOf(blocks[n].id))]
        texts         == Only(m.content, "text")
        message       == IF texts = <<>> THEN <<>> ELSE <<Wire(m.role, texts)>>
    IN  IF m.role = "user"
        THEN Each(Only(m.content, "result"), "item") \o message
        ELSE message \o Each(named(Only(m.content, "call")), "item")

CodexMessage(m) ==
    LET named(blocks) == [n \in DOMAIN blocks |-> Block(blocks[n].type, CallIdOf(blocks[n].id))]
        texts         == Only(m.content, "text")
        message       == IF texts = <<>> THEN <<>> ELSE <<Wire(m.role, texts)>>
    IN  IF m.role = "user"
        THEN Each(named(Only(m.content, "result")), "item") \o message
        ELSE message \o Each(named(Only(m.content, "call")), "item")

LowerCodex(messages) == Sent(LowerAll(CodexMessage, messages))

-----------------------------------------------------------------------------
(* What a backend asks of the messages it is sent.                         *)

IsCalls(m)   == m.role = "item" /\ \A n \in DOMAIN m.content : m.content[n].type = "call"
IsResults(m) == \A n \in DOMAIN m.content : m.content[n].type = "result"

\* A call is answered before anything but calls and results comes, and its
\* result is preceded by results only.
AnsweredAt(wire, k, b) ==
    \E n \in (k + 1)..Len(wire) :
        /\ \A between \in (k + 1)..(n - 1) : IsCalls(wire[between]) \/ IsResults(wire[between])
        /\ \E i \in DOMAIN wire[n].content :
             /\ wire[n].content[i] = Block("result", b.id)
             /\ \A j \in 1..i : wire[n].content[j].type = "result"

CallsAnswered(wire) ==
    \A k \in DOMAIN wire : \A b \in Range(wire[k].content) :
        b.type = "call" => AnsweredAt(wire, k, b)

\* Nothing is said twice, and a result comes after its call.
BlocksOf(wire)  == FlattenSeq([n \in DOMAIN wire |-> wire[n].content])
ResultsAsked(wire) ==
    LET all == BlocksOf(wire)
    IN  \A n \in DOMAIN all : all[n].type = "result" =>
          \E k \in 1..(n - 1) : all[k] = Block("call", all[n].id)

CallsAndResults(blocks) == Select(blocks, LAMBDA b : b.type \in {"call", "result"})
NothingTwice(wire)      == IsInjective(CallsAndResults(BlocksOf(wire)))

\* A reply without a text or a call, which Anthropic's messages cannot hold.
SaysNothing(m) == m.role = "assistant" /\ \A b \in Range(m.content) : b.type = "reasoning"

WellFormed(wire) ==
    /\ \A n \in DOMAIN wire : wire[n].content # <<>>
    /\ CallsAnswered(wire) /\ ResultsAsked(wire) /\ NothingTwice(wire)
=============================================================================
