------------------------------- MODULE Transcript ------------------------------
(***************************************************************************)
(* session.messages and what packages/core/src/context/compaction.ts       *)
(* makes of it: the context a request carries, the pairing of calls and    *)
(* results, and the places where a history may be cut.                     *)
(*                                                                         *)
(* A message is its role, its kind and the ids of the calls it makes or    *)
(* answers.  Texts are left out; a call id is where the call was made and  *)
(* the name of its tool.  The context is given as the set of the positions *)
(* it keeps, after the summary of the last marker when there is one.       *)
(***************************************************************************)
EXTENDS Integers, Sequences

CONSTANTS
    Tool,         \* names of ordinary tool calls of one reply
    SwitchCall,   \* names of SwitchModel calls of one reply
    Model         \* targets the router can switch between

ASSUME TranscriptAssumption == Tool \cap SwitchCall = {}

Message ==
    [role : {"user", "assistant"},
     kind : {"prompt", "reply", "results", "model-switch", "compaction", "interrupted"},
     calls : SUBSET (Nat \X (Tool \cup SwitchCall)),
     results : SUBSET (Nat \X (Tool \cup SwitchCall)),
     tail : Nat]     \* contextTailStart of a compaction marker

Bare(role, kind) == [role |-> role, kind |-> kind, calls |-> {}, results |-> {}, tail |-> 0]

Prompt          == Bare("user", "prompt")
Reply(ids)      == [Bare("assistant", "reply") EXCEPT !.calls = ids]
Results(ids)    == [Bare("user", "results") EXCEPT !.results = ids]
SwitchMeta      == Bare("user", "model-switch")
Marker(from)    == [Bare("user", "compaction") EXCEPT !.tail = from]
InterruptMarker == Bare("assistant", "interrupted")

Markers(h) == {i \in DOMAIN h : h[i].kind = "compaction"}

\* The last compaction marker, or 0.
LastMarker(h) ==
    IF Markers(h) = {} THEN 0
    ELSE CHOOSE i \in Markers(h) : \A j \in Markers(h) : j <= i

\* Where the verbatim part of the context starts.
TailStart(h) == IF Markers(h) = {} THEN 1 ELSE h[LastMarker(h)].tail

\* deriveContext: the positions whose messages a request carries.
Context(h) == (TailStart(h) .. Len(h)) \ Markers(h)

\* j is the message after i among the positions of K.
NextIn(K, i, j) == /\ i \in K /\ j \in K /\ i < j
                   /\ \A k \in K : k <= i \/ j <= k

\* isValidlyPaired over the positions K of h.
ValidlyPaired(h, K) ==
    \A i \in K :
        /\ h[i].calls # {} =>
             \E j \in K : NextIn(K, i, j) /\ h[j].role = "user" /\ h[i].calls \subseteq h[j].results
        /\ h[i].results # {} =>
             \E j \in K : NextIn(K, j, i) /\ h[j].role = "assistant" /\ h[i].results \subseteq h[j].calls

\* assistantBoundaries: where a verbatim tail may begin.  The first message
\* of the context is no boundary; behind a marker the summary is the first.
Boundaries(h) ==
    {i \in Context(h) : /\ h[i].role = "assistant"
                        /\ Markers(h) # {} \/ \E k \in Context(h) : k < i}
=============================================================================
