---------------------------- MODULE MCProviderCall ----------------------------
(***************************************************************************)
(* Requests in every protocol, with a provider that sends what it likes.   *)
(***************************************************************************)
EXTENDS ProviderCall

MCProtocols == {"anthropic", "chat", "codex"}

\* Transcripts of a prompt, a reply and what answers it.  A reply has at most three
\* blocks, or none, and one of its calls was made by the Codex backend; a text can
\* be anywhere among the results.
Ids         == {EncodeToolCallId("a", "item"), EncodeToolCallId("b", "")}
Said        == {Text, Reasoning} \cup {Block("call", id) : id \in Ids}
MCReplies   == {c \in SeqOf(Said, 3) : IsInjective(Only(c, "call"))}
Answer(c)   == LET calls == Only(c, "call")
               IN  [n \in DOMAIN calls |-> Block("result", calls[n].id)]
MCAnswers(c) == {Answer(c)} \cup {InsertAt(Answer(c), n, Text) : n \in 1..(Len(Answer(c)) + 1)}

MCHistories ==
    {<<>>} \cup {<<Wire("user", <<Text>>)>>} \cup
    UNION {{<<Wire("user", <<Text>>), Wire("assistant", c), Wire("user", a)>> :
                a \in MCAnswers(c) \ {<<>>}} : c \in MCReplies}
=============================================================================
