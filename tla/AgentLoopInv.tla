------------------------------ MODULE AgentLoopInv -----------------------------
(***************************************************************************)
(* The inductive invariants behind the properties of AgentLoop, as         *)
(* definitions TLC can check before TLAPS proves them.  Those about the    *)
(* transcript are predicates of a history h, so that the lemmas about them *)
(* speak of one message appended or rewritten and of no action.            *)
(***************************************************************************)
EXTENDS AgentLoop

\* Each call but those of the last message is answered by the next one.
Answered(h) ==
    \A i \in DOMAIN h :
        h[i].calls # {} =>
            /\ h[i].role = "assistant" /\ h[i].kind # "compaction"
            /\ i # Len(h) => /\ h[i + 1].role = "user" /\ h[i + 1].kind # "compaction"
                             /\ h[i].calls \subseteq h[i + 1].results

\* Each result answers a call of the message before it.
Asked(h) ==
    \A i \in DOMAIN h :
        h[i].results # {} =>
            /\ i # 1
            /\ h[i].role = "user" /\ h[i].kind # "compaction"
            /\ h[i - 1].role = "assistant" /\ h[i - 1].kind # "compaction"
            /\ h[i].results \subseteq h[i - 1].calls

\* A tail begins at a message of the assistant, before its marker, and one
\* marker is the last.
MarkersSound(h) ==
    /\ \A i \in Markers(h) : /\ h[i].tail \in 1 .. i - 1
                             /\ h[h[i].tail].role = "assistant"
                             /\ h[i].role = "user" /\ h[i].calls = {} /\ h[i].results = {}
    /\ Markers(h) = {} \/ \E i \in Markers(h) : \A j \in Markers(h) : j <= i

FiniteCalls(h) == \A i \in DOMAIN h : IsFiniteSet(h[i].calls)

Sound(h) == Answered(h) /\ Asked(h) /\ MarkersSound(h) /\ FiniteCalls(h)

\* Nothing waits for an answer.
Closed(h) == h # <<>> => h[Len(h)].calls = {}

\* The summary and the tail make up the history.
Partition(h, S) ==
    /\ S \cap Context(h) = {}
    /\ DOMAIN h \ Markers(h) = S \cup Context(h)

\* Calls are open only between a reply and its results.
Open == pc \in {"resolving", "tools"}

OpenAtReply ==
    IF Open THEN messages # <<>> /\ Last.role = "assistant" /\ Last.kind = "reply"
    ELSE Closed(messages)

\* A turn has its prompt, only /compact may start from an empty history.
Begun ==
    messages = <<>> => pc = "idle" \/ (pc = "cutting" /\ reason = "manual")

\* Behind the iteration guard; tools are counted from zero.
Guarded ==
    /\ pc \in {"streaming", "resolving", "tools"} => iteration < MaxIterations
    /\ pc # "tools" => ran = 0

\* The cut of a compaction underway stays a boundary.
CutSound ==
    pc = "summarizing" => /\ cut \in Context(messages)
                          /\ messages[cut].role = "assistant"

SwitchesCounted ==
    switches <= (IF switched THEN 1 ELSE 0) + (IF overflowed THEN 1 ELSE 0)

AgentInv ==
    /\ AgentTypeOK
    /\ Sound(messages) /\ OpenAtReply /\ Begun
    /\ Guarded /\ CutSound /\ SwitchesCounted
    /\ Partition(messages, summarized)

\* No two replies in a row.
Alternating(h) ==
    \A i \in DOMAIN h :
        i # Len(h) => ~(h[i].role = "assistant" /\ h[i + 1].role = "assistant")

\* What the provider is about to answer ends with a message of the user.
UserSpokeLast ==
    /\ pc \in {"head", "streaming"} => Last.role = "user"
    /\ pc \in {"cutting", "summarizing"} /\ reason # "manual" => Last.role = "user"

AlternationInv == AgentInv /\ Alternating(messages) /\ UserSpokeLast
=============================================================================
