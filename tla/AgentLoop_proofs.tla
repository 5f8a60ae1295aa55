---------------------------- MODULE AgentLoop_proofs ---------------------------
(***************************************************************************)
(* Whatever the user interrupts, the model switches and the loop compacts, *)
(* every request carries paired calls and results and no message is lost   *)
(* or doubled: for any tools, models, replies and bounds.                  *)
(*                                                                         *)
(* And of the files a session is resumed from: whatever saves are under    *)
(* way, fail or come late, and wherever the process ends, no turn that was *)
(* saved at its end is taken back, and what a restart finds can be sent.   *)
(***************************************************************************)
EXTENDS SessionStore, AgentLoopInv, FiniteSetTheorems, TLAPS

-----------------------------------------------------------------------------
(* Histories.                                                              *)

\* What TailStart and Context range over.
LEMMA TailStartsAtAssistant ==
  ASSUME NEW h \in Seq(Message), MarkersSound(h)
  PROVE  /\ TailStart(h) \in 1 .. Len(h) + 1
         /\ Markers(h) # {} => /\ TailStart(h) \in 1 .. Len(h)
                               /\ h[TailStart(h)].role = "assistant"
         /\ Context(h) \subseteq DOMAIN h
<1>1. CASE Markers(h) = {}
  BY <1>1 DEF TailStart, Context
<1>2. CASE Markers(h) # {}
  <2>1. \E i \in Markers(h) : \A j \in Markers(h) : j <= i
    BY <1>2 DEF MarkersSound
  <2>2. LastMarker(h) \in Markers(h)
    BY <1>2, <2>1 DEF LastMarker
  <2>3. h[LastMarker(h)].tail \in 1 .. LastMarker(h) - 1 /\ LastMarker(h) \in 1 .. Len(h)
    BY <2>2 DEF MarkersSound, Markers
  <2>. QED BY <1>2, <2>2, <2>3 DEF MarkersSound, TailStart, Context
<1>. QED BY <1>1, <1>2

\* A message that is no marker leaves the markers and joins the context.
LEMMA ContextOfAppend ==
  ASSUME NEW h \in Seq(Message), NEW m \in Message, MarkersSound(h),
         m.kind # "compaction"
  PROVE  /\ Markers(Append(h, m)) = Markers(h)
         /\ Context(Append(h, m)) = Context(h) \cup {Len(h) + 1}
<1> DEFINE g == Append(h, m)
<1>1. Len(g) = Len(h) + 1 /\ \A i \in 1 .. Len(h) : g[i] = h[i]
  OBVIOUS
<1>2. g[Len(h) + 1] = m
  OBVIOUS
<1>3. Markers(g) = Markers(h)
  BY <1>1, <1>2 DEF Markers
<1>. HIDE DEF g
<1>4. LastMarker(g) = LastMarker(h)
  BY <1>3 DEF LastMarker
<1>5. CASE Markers(h) = {}
  BY <1>1, <1>3, <1>5 DEF Context, TailStart, g
<1>6. CASE Markers(h) # {}
  <2>1. \E i \in Markers(h) : \A j \in Markers(h) : j <= i
    BY <1>6 DEF MarkersSound
  <2>2. LastMarker(h) \in Markers(h)
    BY <1>6, <2>1 DEF LastMarker
  <2>3. TailStart(g) = TailStart(h)
    BY <1>1, <1>3, <1>4, <1>6, <2>2 DEF TailStart, Markers
  <2>4. TailStart(h) \in 1 .. Len(h) + 1 /\ Markers(h) \subseteq 1 .. Len(h)
    BY TailStartsAtAssistant DEF Markers
  <2>. QED BY <1>1, <1>3, <2>3, <2>4 DEF Context, g
<1>. QED BY <1>3, <1>5, <1>6 DEF g

\* A marker becomes the last one, and the context is cut at its tail.
LEMMA ContextOfMark ==
  ASSUME NEW h \in Seq(Message), MarkersSound(h), NEW c \in Context(h)
  PROVE  /\ Markers(Append(h, Marker(c))) = Markers(h) \cup {Len(h) + 1}
         /\ Context(Append(h, Marker(c))) = {i \in Context(h) : c <= i}
<1> DEFINE g == Append(h, Marker(c))
<1>1. Len(g) = Len(h) + 1 /\ \A i \in 1 .. Len(h) : g[i] = h[i]
  OBVIOUS
<1>2. g[Len(h) + 1].kind = "compaction" /\ g[Len(h) + 1].tail = c
  BY DEF Marker, Bare
<1>3. Markers(g) = Markers(h) \cup {Len(h) + 1}
  BY <1>1, <1>2 DEF Markers
<1>4. LastMarker(g) = Len(h) + 1
  <2>1. \A j \in Markers(g) : j \in Nat /\ j <= Len(h) + 1
    BY <1>1 DEF Markers
  <2>2. Len(h) + 1 \in Markers(g) /\ \A j \in Markers(g) : j <= Len(h) + 1
    BY <1>3, <2>1
  <2>3. LastMarker(g) \in Markers(g) /\ \A j \in Markers(g) : j <= LastMarker(g)
    <3>. \E i \in Markers(g) : \A j \in Markers(g) : j <= i
      BY <2>2
    <3>. Markers(g) # {}
      BY <2>2
    <3>. HIDE DEF g
    <3>. QED BY DEF LastMarker
  <2>. QED BY <2>1, <2>2, <2>3
<1>5. TailStart(g) = c
  BY <1>2, <1>3, <1>4 DEF TailStart
<1>6. TailStart(h) \in 1 .. Len(h) + 1
  BY TailStartsAtAssistant
<1>. QED BY <1>1, <1>3, <1>5, <1>6 DEF Context

\* A rewritten reply keeps its place.
LEMMA ContextOfRewrite ==
  ASSUME NEW h \in Seq(Message), h # <<>>, NEW m \in Message, MarkersSound(h),
         h[Len(h)].kind # "compaction", m.kind # "compaction"
  PROVE  /\ Markers([h EXCEPT ![Len(h)] = m]) = Markers(h)
         /\ Context([h EXCEPT ![Len(h)] = m]) = Context(h)
<1> DEFINE g == [h EXCEPT ![Len(h)] = m]
<1>1. g \in Seq(Message) /\ Len(g) = Len(h) /\ Len(h) \in 1 .. Len(h)
  OBVIOUS
<1>2. \A i \in 1 .. Len(h) : i # Len(h) => g[i] = h[i]
  OBVIOUS
<1>3. g[Len(h)] = m
  BY <1>1
<1>4. Markers(g) = Markers(h)
  BY <1>1, <1>2, <1>3 DEF Markers
<1>. HIDE DEF g
<1>5. LastMarker(g) = LastMarker(h)
  BY <1>4 DEF LastMarker
<1>6. TailStart(g) = TailStart(h)
  <2>1. CASE Markers(h) = {}
    BY <1>4, <2>1 DEF TailStart
  <2>2. CASE Markers(h) # {}
    <3>1. \E i \in Markers(h) : \A j \in Markers(h) : j <= i
      BY <2>2 DEF MarkersSound
    <3>2. LastMarker(h) \in Markers(h)
      BY <2>2, <3>1 DEF LastMarker
    <3>3. LastMarker(h) # Len(h) /\ LastMarker(h) \in 1 .. Len(h)
      BY <3>2 DEF Markers
    <3>. QED BY <1>2, <1>4, <1>5, <2>2, <3>3 DEF TailStart
  <2>. QED BY <2>1, <2>2
<1>. QED BY <1>1, <1>4, <1>6 DEF Context, g

\* One more message: it answers the last one and asks nothing else, and a
\* marker is well placed.
LEMMA SoundAppend ==
  ASSUME NEW h \in Seq(Message), NEW m \in Message, Sound(h), IsFiniteSet(m.calls),
         \/ Closed(h)
         \/ /\ h # <<>> /\ m.role = "user" /\ m.kind # "compaction"
            /\ h[Len(h)].calls \subseteq m.results,
         m.results # {} =>
            /\ h # <<>> /\ m.role = "user" /\ m.kind # "compaction"
            /\ h[Len(h)].role = "assistant" /\ h[Len(h)].kind # "compaction"
            /\ m.results \subseteq h[Len(h)].calls,
         m.calls # {} => m.role = "assistant" /\ m.kind # "compaction",
         m.kind = "compaction" =>
            /\ m.role = "user" /\ m.calls = {} /\ m.results = {}
            /\ m.tail \in 1 .. Len(h) /\ h[m.tail].role = "assistant"
  PROVE  Sound(Append(h, m))
<1> DEFINE g == Append(h, m)
<1>1. /\ Len(g) = Len(h) + 1 /\ DOMAIN g = 1 .. Len(h) + 1
      /\ \A i \in 1 .. Len(h) : g[i] = h[i]
      /\ g[Len(h) + 1] = m
      /\ DOMAIN h = 1 .. Len(h) /\ Len(h) \in Nat
      /\ h # <<>> <=> Len(h) \in 1 .. Len(h)
  OBVIOUS
<1>. HIDE DEF g
<1>2. Answered(g)
  <2> SUFFICES ASSUME NEW i \in 1 .. Len(h) + 1, g[i].calls # {}
               PROVE  /\ g[i].role = "assistant" /\ g[i].kind # "compaction"
                      /\ i # Len(h) + 1 =>
                           /\ g[i + 1].role = "user" /\ g[i + 1].kind # "compaction"
                           /\ g[i].calls \subseteq g[i + 1].results
    BY <1>1 DEF Answered
  <2>1. CASE i = Len(h) + 1
    BY <1>1, <2>1
  <2>2. CASE i = Len(h)
    <3>1. i \in 1 .. Len(h) /\ h # <<>> /\ g[i] = h[i] /\ g[i + 1] = m /\ h[Len(h)].calls # {}
      BY <1>1, <2>2
    <3>2. ~Closed(h)
      BY <3>1 DEF Closed
    <3>3. h[i].role = "assistant" /\ h[i].kind # "compaction"
      BY <1>1, <2>2, <3>1 DEF Sound, Answered
    <3>. QED BY <2>2, <3>1, <3>2, <3>3
  <2>3. CASE i \in 1 .. Len(h) - 1
    BY <1>1, <2>3 DEF Sound, Answered
  <2>4. i = Len(h) + 1 \/ i = Len(h) \/ i \in 1 .. Len(h) - 1
    <3>1. Len(h) \in Nat
      BY <1>1
    <3>. QED BY <3>1
  <2>. QED BY <2>1, <2>2, <2>3, <2>4
<1>3. Asked(g)
  <2> SUFFICES ASSUME NEW i \in 1 .. Len(h) + 1, g[i].results # {}
               PROVE  /\ i # 1
                      /\ g[i].role = "user" /\ g[i].kind # "compaction"
                      /\ g[i - 1].role = "assistant" /\ g[i - 1].kind # "compaction"
                      /\ g[i].results \subseteq g[i - 1].calls
    BY <1>1 DEF Asked
  <2>1. CASE i = Len(h) + 1
    BY <1>1, <2>1
  <2>2. CASE i \in 1 .. Len(h)
    BY <1>1, <2>2 DEF Sound, Asked
  <2>. QED BY <1>1, <2>1, <2>2
<1>4. MarkersSound(g)
  <2>1. CASE m.kind # "compaction"
    <3>1. Markers(g) = Markers(h)
      BY <2>1, ContextOfAppend DEF Sound, g
    <3>2. \A i \in Markers(h) : i \in 1 .. Len(h) /\ i - 1 \in 0 .. Len(h)
      BY <1>1 DEF Markers
    <3>. QED BY <1>1, <3>1, <3>2 DEF Sound, MarkersSound
  <2>2. CASE m.kind = "compaction"
    <3>1. Markers(g) = Markers(h) \cup {Len(h) + 1}
      BY <1>1, <2>2 DEF Markers
    <3>2. \A i \in Markers(h) : i \in 1 .. Len(h)
      BY <1>1 DEF Markers
    <3>3. \A i \in Markers(g) : /\ g[i].tail \in 1 .. i - 1
                                /\ g[g[i].tail].role = "assistant"
                                /\ g[i].role = "user" /\ g[i].calls = {} /\ g[i].results = {}
      BY <1>1, <2>2, <3>1, <3>2 DEF Sound, MarkersSound
    <3>4. \A j \in Markers(g) : j <= Len(h) + 1
      BY <1>1, <3>1, <3>2
    <3>. QED BY <3>1, <3>3, <3>4 DEF MarkersSound
  <2>. QED BY <2>1, <2>2
<1>5. FiniteCalls(g)
  BY <1>1 DEF Sound, FiniteCalls
<1>. QED BY <1>2, <1>3, <1>4, <1>5 DEF Sound, g

\* A reply that is rewritten leaves neither call nor result behind.
LEMMA SoundRewrite ==
  ASSUME NEW h \in Seq(Message), h # <<>>, NEW m \in Message, Sound(h),
         h[Len(h)].role = "assistant", h[Len(h)].kind # "compaction",
         m.kind # "compaction", m.calls = {}, m.results = {}
  PROVE  Sound([h EXCEPT ![Len(h)] = m])
<1> DEFINE g == [h EXCEPT ![Len(h)] = m]
           n == Len(h)
<1>1. /\ Len(g) = n /\ DOMAIN g = 1 .. n /\ DOMAIN h = 1 .. n
      /\ n \in Nat /\ n \in 1 .. n
      /\ \A i \in 1 .. n : i # n => g[i] = h[i]
      /\ g[n] = m
  OBVIOUS
<1>2. Markers(g) = Markers(h)
  BY ContextOfRewrite DEF Sound
<1>3. n \notin Markers(h) /\ Markers(h) \subseteq 1 .. n
  BY DEF Markers
<1>. HIDE DEF g, n
<1>4. Answered(g)
  <2> SUFFICES ASSUME NEW i \in 1 .. n, g[i].calls # {}
               PROVE  /\ g[i].role = "assistant" /\ g[i].kind # "compaction"
                      /\ i # n => /\ g[i + 1].role = "user" /\ g[i + 1].kind # "compaction"
                                 /\ g[i].calls \subseteq g[i + 1].results
    BY <1>1 DEF Answered
  <2>1. i # n /\ g[i] = h[i] /\ h[i].calls # {}
    BY <1>1
  <2>2. i + 1 # n
    BY <1>1, <2>1 DEF Sound, Answered, n
  <2>3. g[i + 1] = h[i + 1]
    BY <1>1, <2>1, <2>2
  <2>. QED BY <1>1, <2>1, <2>3 DEF Sound, Answered, n
<1>5. Asked(g)
  <2> SUFFICES ASSUME NEW i \in 1 .. n, g[i].results # {}
               PROVE  /\ i # 1
                      /\ g[i].role = "user" /\ g[i].kind # "compaction"
                      /\ g[i - 1].role = "assistant" /\ g[i - 1].kind # "compaction"
                      /\ g[i].results \subseteq g[i - 1].calls
    BY <1>1 DEF Asked
  <2>1. i # n /\ g[i] = h[i] /\ h[i].results # {}
    BY <1>1
  <2>2. i # 1
    BY <1>1, <2>1 DEF Sound, Asked
  <2>3. g[i - 1] = h[i - 1]
    BY <1>1, <2>1, <2>2
  <2>. QED BY <1>1, <2>1, <2>3 DEF Sound, Asked
<1>6. MarkersSound(g)
  <2>1. \A i \in Markers(h) : i # n /\ i \in 1 .. n /\ h[i].tail \in 1 .. i - 1
    BY <1>3 DEF Sound, MarkersSound
  <2>2. \A i \in Markers(h) : g[i] = h[i] /\ g[h[i].tail] = h[h[i].tail]
    BY <1>1, <2>1
  <2>. QED BY <1>2, <2>2 DEF Sound, MarkersSound
<1>7. FiniteCalls(g)
  BY <1>1, FS_EmptySet DEF Sound, FiniteCalls
<1>. QED BY <1>4, <1>5, <1>6, <1>7 DEF Sound, g, n
\* What is pushed is a message.
LEMMA MessagesMade ==
  /\ Prompt \in Message /\ SwitchMeta \in Message /\ InterruptMarker \in Message
  /\ \A c \in Nat : Marker(c) \in Message
  /\ \A ids \in SUBSET (Nat \X (Tool \cup SwitchCall)) :
       Reply(ids) \in Message /\ Results(ids) \in Message
  BY DEF Message, Prompt, SwitchMeta, InterruptMarker, Marker, Reply, Results, Bare

-----------------------------------------------------------------------------
(* Requests.                                                               *)

\* What is left out between two neighbours of a history is nothing.
LEMMA Neighbours ==
  ASSUME NEW h \in Seq(Message), NEW K \in SUBSET (DOMAIN h),
         NEW i \in K, i + 1 \in K
  PROVE  NextIn(K, i, i + 1)
<1>1. K \subseteq 1 .. Len(h) /\ Len(h) \in Nat
  OBVIOUS
<1>. QED BY <1>1 DEF NextIn

\* A history without open calls is paired over any stretch of its context
\* that ends with it or before a message of the assistant.
LEMMA StretchPaired ==
  ASSUME NEW h \in Seq(Message), Sound(h), NEW c \in 1 .. Len(h) + 1,
         IF c = Len(h) + 1 THEN Closed(h) ELSE h[c].role = "assistant"
  PROVE  ValidlyPaired(h, {i \in Context(h) : i < c})
<1> DEFINE K == {i \in Context(h) : i < c}
<1>1. /\ TailStart(h) \in 1 .. Len(h) + 1
      /\ Markers(h) # {} => TailStart(h) \in 1 .. Len(h) /\ h[TailStart(h)].role = "assistant"
      /\ Markers(h) = {} => TailStart(h) = 1
  BY TailStartsAtAssistant DEF Sound, TailStart
<1>2. /\ K \in SUBSET (DOMAIN h) /\ DOMAIN h = 1 .. Len(h) /\ Len(h) \in Nat
      /\ \A i : i \in K <=> i \in TailStart(h) .. c - 1 /\ h[i].kind # "compaction"
  BY <1>1 DEF Context, Markers
<1>. HIDE DEF K
<1>3. ASSUME NEW i \in K, h[i].calls # {}
      PROVE  \E j \in K : NextIn(K, i, j) /\ h[j].role = "user" /\ h[i].calls \subseteq h[j].results
  <2>1. i \in 1 .. Len(h) /\ i \in TailStart(h) .. c - 1
    BY <1>2
  <2>2. i # Len(h)
    BY <1>2, <1>3, <2>1 DEF Sound, Answered, Closed
  <2>3. /\ h[i + 1].role = "user" /\ h[i + 1].kind # "compaction"
        /\ h[i].calls \subseteq h[i + 1].results
    BY <1>3, <2>1, <2>2, <1>2 DEF Sound, Answered
  <2>4. i + 1 # c
    BY <2>1, <2>2, <2>3
  <2>5. i + 1 \in K
    BY <1>1, <1>2, <2>1, <2>3, <2>4
  <2>6. NextIn(K, i, i + 1)
    BY <1>2, <2>5, Neighbours
  <2>. QED BY <2>3, <2>5, <2>6
<1>4. ASSUME NEW i \in K, h[i].results # {}
      PROVE  \E j \in K : /\ NextIn(K, j, i) /\ h[j].role = "assistant"
                          /\ h[i].results \subseteq h[j].calls
  <2>1. i \in 1 .. Len(h) /\ i \in TailStart(h) .. c - 1
    BY <1>2
  <2>2. /\ i # 1 /\ h[i].role = "user"
        /\ h[i - 1].role = "assistant" /\ h[i - 1].kind # "compaction"
        /\ h[i].results \subseteq h[i - 1].calls
    BY <1>2, <1>4, <2>1 DEF Sound, Asked
  <2>3. i # TailStart(h)
    BY <1>1, <2>2
  <2>4. i - 1 \in K
    BY <1>1, <1>2, <2>1, <2>2, <2>3
  <2>5. (i - 1) + 1 = i
    BY <2>1
  <2>6. NextIn(K, i - 1, i)
    BY <1>2, <2>4, <2>5, Neighbours
  <2>. QED BY <2>2, <2>4, <2>6
<1>. QED BY <1>3, <1>4 DEF ValidlyPaired, K

\* In particular over all of its context.
LEMMA HistoryPaired ==
  ASSUME NEW h \in Seq(Message), Sound(h), Closed(h)
  PROVE  ValidlyPaired(h, Context(h))
<1>1. {i \in Context(h) : i < Len(h) + 1} = Context(h) /\ Len(h) + 1 \in 1 .. Len(h) + 1
  BY TailStartsAtAssistant DEF Sound
<1>. QED BY <1>1, StretchPaired

-----------------------------------------------------------------------------
(* Summary and tail.                                                       *)

\* A message joins the tail.
LEMMA PartitionAppend ==
  ASSUME NEW h \in Seq(Message), NEW m \in Message, NEW S, MarkersSound(h),
         Partition(h, S), m.kind # "compaction"
  PROVE  Partition(Append(h, m), S)
<1>1. DOMAIN Append(h, m) = DOMAIN h \cup {Len(h) + 1} /\ Len(h) + 1 \notin DOMAIN h
  OBVIOUS
<1>2. Markers(h) \subseteq DOMAIN h
  BY DEF Markers
<1>. QED BY <1>1, <1>2, ContextOfAppend DEF Partition

\* A compaction moves the head of the tail into the summary.
LEMMA PartitionMark ==
  ASSUME NEW h \in Seq(Message), NEW S, MarkersSound(h), Partition(h, S),
         NEW c \in Context(h)
  PROVE  Partition(Append(h, Marker(c)), S \cup {i \in Context(h) : i < c})
<1> DEFINE g == Append(h, Marker(c))
           P == {i \in Context(h) : i < c}
           R == {i \in Context(h) : c <= i}
<1>1. Context(h) \subseteq Int
  BY TailStartsAtAssistant
<1>2. P \cap R = {} /\ P \cup R = Context(h)
  BY <1>1
<1>3. DOMAIN g = DOMAIN h \cup {Len(h) + 1} /\ Len(h) + 1 \notin DOMAIN h
  OBVIOUS
<1>4. Markers(g) = Markers(h) \cup {Len(h) + 1} /\ Context(g) = R
  BY ContextOfMark
<1>. HIDE DEF g, P, R
<1>5. Partition(g, S \cup P)
  BY <1>2, <1>3, <1>4 DEF Partition
<1>. QED BY <1>5 DEF g, P

\* A rewritten reply stays where it is.
LEMMA PartitionRewrite ==
  ASSUME NEW h \in Seq(Message), h # <<>>, NEW m \in Message, NEW S, MarkersSound(h),
         Partition(h, S), h[Len(h)].kind # "compaction", m.kind # "compaction"
  PROVE  Partition([h EXCEPT ![Len(h)] = m], S)
  BY ContextOfRewrite DEF Partition

-----------------------------------------------------------------------------
(* Steps.                                                                  *)

\* A message without results that follows a closed history.
LEMMA PushKept ==
  ASSUME NEW h \in Seq(Message), NEW m \in Message, NEW S,
         Sound(h), Closed(h), Partition(h, S),
         m.kind # "compaction", m.results = {}, IsFiniteSet(m.calls),
         m.calls # {} => m.role = "assistant"
  PROVE  /\ Append(h, m) \in Seq(Message)
         /\ Sound(Append(h, m)) /\ Partition(Append(h, m), S)
         /\ m.calls = {} => Closed(Append(h, m))
<1>1. Sound(Append(h, m))
  BY SoundAppend
<1>2. Partition(Append(h, m), S)
  BY PartitionAppend DEF Sound
<1>3. Append(h, m)[Len(Append(h, m))] = m
  OBVIOUS
<1>. QED BY <1>1, <1>2, <1>3 DEF Closed

\* The results of all calls of the last message close the history.
LEMMA AnswerKept ==
  ASSUME NEW h \in Seq(Message), NEW S, Sound(h), Partition(h, S), h # <<>>,
         h[Len(h)].role = "assistant", h[Len(h)].kind # "compaction"
  PROVE  LET g == Append(h, Results(h[Len(h)].calls))
         IN  g \in Seq(Message) /\ Sound(g) /\ Closed(g) /\ Partition(g, S)
<1> DEFINE m == Results(h[Len(h)].calls)
<1>1. h[Len(h)] \in Message
  OBVIOUS
<1>2. m \in Message
  BY <1>1, MessagesMade DEF Message
<1>3. m.role = "user" /\ m.kind = "results" /\ m.calls = {} /\ m.results = h[Len(h)].calls
  BY DEF Results, Bare
<1>. HIDE DEF m
<1>4. Sound(Append(h, m))
  BY <1>2, <1>3, FS_EmptySet, SoundAppend
<1>5. Partition(Append(h, m), S)
  BY <1>2, <1>3, PartitionAppend DEF Sound
<1>6. Append(h, m) \in Seq(Message) /\ Append(h, m)[Len(Append(h, m))] = m
  BY <1>2
<1>. QED BY <1>3, <1>4, <1>5, <1>6 DEF Closed, m
\* The bounds are numbers.
LEMMA BoundsAreNumbers ==
  /\ MaxIterations \in Nat /\ 0 < MaxIterations /\ MaxRetries \in Nat
  /\ MaxPrompts \in Nat /\ MaxCompacts \in Nat
  BY AgentAssumption

\* A turn that ends keeps the invariant when its history is sound and closed.
LEMMA EndTurnKept ==
  ASSUME AgentInv, EndTurn, messages' \in Seq(Message), Sound(messages'),
         Closed(messages'), Partition(messages', summarized), summarized' = summarized,
         Len(messages) <= Len(messages'),
         model' \in Model, autoEnabled' \in BOOLEAN, UNCHANGED bounds
  PROVE  AgentInv'
<1>1. AgentTypeOK'
  <2>1. summarized \subseteq DOMAIN messages'
    BY DEF Partition
  <2>2. {switched', overflowed'} \subseteq BOOLEAN
    BY DEF EndTurn
  <2>3. Len(messages') \in Nat
    OBVIOUS
  <2>. QED BY <2>1, <2>2, <2>3, BoundsAreNumbers DEF AgentInv, AgentTypeOK, EndTurn, bounds
<1>2. (Sound(messages))' /\ (Partition(messages, summarized))'
  OBVIOUS
<1>3. OpenAtReply' /\ Begun' /\ Guarded' /\ CutSound' /\ SwitchesCounted'
  BY DEF EndTurn, OpenAtReply, Open, Begun, Guarded, CutSound, SwitchesCounted
<1>. QED BY <1>1, <1>2, <1>3 DEF AgentInv

\* A turn that ends with its history untouched.
LEMMA EndUntouchedKept ==
  ASSUME AgentInv, EndTurn, ~Open, UNCHANGED <<messages, model, summarized, bounds>>,
         autoEnabled' \in BOOLEAN
  PROVE  AgentInv'
<1>1. /\ messages' \in Seq(Message) /\ Sound(messages') /\ Closed(messages')
      /\ Partition(messages', summarized) /\ model' \in Model
  BY DEF AgentInv, AgentTypeOK, OpenAtReply
<1>. QED BY <1>1, EndTurnKept

\* submitPrompt.
LEMMA SubmitPromptKept ==
  ASSUME AgentInv, SubmitPrompt
  PROVE  AgentInv'
<1>1. Prompt \in Message /\ Prompt.kind = "prompt" /\ Prompt.calls = {} /\ Prompt.results = {}
  BY MessagesMade DEF Prompt, Bare
<1>2. messages \in Seq(Message) /\ Sound(messages) /\ Closed(messages)
      /\ Partition(messages, summarized)
  BY DEF AgentInv, AgentTypeOK, OpenAtReply, Open, SubmitPrompt
<1>3. messages' = Append(messages, Prompt)
  BY DEF SubmitPrompt, Push
<1>4. /\ messages' \in Seq(Message) /\ Sound(messages') /\ Closed(messages')
      /\ Partition(messages', summarized)
  BY <1>1, <1>2, <1>3, FS_EmptySet, PushKept
<1>5. messages' # <<>> /\ Len(messages') = Len(messages) + 1
  BY <1>2, <1>3
<1>6. pc' \in {"cutting", "head"}
  BY DEF SubmitPrompt
<1>7. AgentTypeOK'
  BY <1>2, <1>4, <1>5, <1>6, AgentAssumption
     DEF AgentInv, AgentTypeOK, SubmitPrompt, loopVars, ghosts
<1>8. OpenAtReply' /\ Begun' /\ Guarded' /\ CutSound' /\ SwitchesCounted'
  BY <1>4, <1>5, <1>6 DEF AgentInv, OpenAtReply, Open, Begun, Guarded, CutSound, SwitchesCounted,
       SubmitPrompt, loopVars, ghosts
<1>9. (Sound(messages))' /\ (Partition(messages, summarized))'
  BY <1>4 DEF SubmitPrompt, ghosts
<1>. QED BY <1>7, <1>8, <1>9 DEF AgentInv

\* The tools of a reply can be counted.
LEMMA SiblingsCounted ==
  ASSUME AgentInv, Open
  PROVE  Cardinality(Siblings) \in Nat
<1>1. messages # <<>>
  BY DEF AgentInv, OpenAtReply, Open
<1>2. IsFiniteSet(Last.calls)
  BY <1>1 DEF AgentInv, AgentTypeOK, Sound, FiniteCalls, Last
<1>3. IsFiniteSet(Siblings)
  BY <1>2, FS_Subset DEF Siblings
<1>. QED BY <1>3, FS_CardinalityType

\* Steps that leave the history and the summary alone.
LEMMA UntouchedKept ==
  ASSUME AgentInv,
         \/ Compact \/ Request \/ StreamRetries \/ StreamOverflows \/ RefuseSwitch \/ ToolEnds
         \/ \E c \in Boundaries(messages) : Summarize(c)
  PROVE  AgentInv'
<1>1. UNCHANGED <<messages, summarized>>
  BY DEF Compact, Request, StreamRetries, StreamOverflows, RefuseSwitch, ToolEnds, Summarize,
         session, ghosts
<1>2. (Sound(messages))' /\ (Partition(messages, summarized))'
  BY <1>1 DEF AgentInv
<1>3. CASE Compact
  BY <1>1, <1>2, <1>3, AgentAssumption DEF Compact, AgentInv, AgentTypeOK, OpenAtReply, Open,
     Begun, Guarded, CutSound, SwitchesCounted, session, loopVars, ghosts
<1>4. CASE Request
  BY <1>1, <1>2, <1>4, AgentAssumption DEF Request, AgentInv, AgentTypeOK, OpenAtReply, Open,
     Begun, Guarded, CutSound, SwitchesCounted, session, loopVars, ghosts, pending, bounds
<1>5. CASE StreamRetries
  BY <1>1, <1>2, <1>5, AgentAssumption DEF StreamRetries, AgentInv, AgentTypeOK, OpenAtReply, Open,
     Begun, Guarded, CutSound, SwitchesCounted, session, ghosts, pending, bounds
<1>6. CASE StreamOverflows
  <2>1. {switched', overflowed'} \subseteq BOOLEAN
    BY <1>6 DEF StreamOverflows
  <2>2. AgentTypeOK'
    BY <1>1, <1>6, <2>1, BoundsAreNumbers DEF StreamOverflows, AgentInv, AgentTypeOK, session, ghosts,
       bounds
  <2>3. SwitchesCounted'
    <3>1. switches <= 1 /\ switches' = switches
      BY <1>6 DEF StreamOverflows, AgentInv, SwitchesCounted, AgentTypeOK, ghosts
    <3>. QED BY <1>6, <3>1 DEF StreamOverflows, SwitchesCounted
  <2>4. OpenAtReply' /\ Begun' /\ Guarded' /\ CutSound'
    BY <1>1, <1>6 DEF StreamOverflows, AgentInv, OpenAtReply, Open, Begun, Guarded, CutSound
  <2>. QED BY <1>2, <2>2, <2>3, <2>4 DEF AgentInv
<1>7. CASE RefuseSwitch
  <2>2. Cardinality(Siblings) \in Nat
    BY <1>7, SiblingsCounted DEF RefuseSwitch, Open
  <2>3. Siblings' = Siblings
    BY <1>1 DEF Siblings, Last
  <2>. QED BY <1>1, <1>2, <1>7, <2>2, <2>3, AgentAssumption DEF RefuseSwitch, AgentInv, AgentTypeOK,
       OpenAtReply, Open, Begun, Guarded, CutSound, SwitchesCounted, session, loopVars, ghosts,
       pending, bounds, Last
<1>8. CASE ToolEnds
  <2>2. Cardinality(Siblings) \in Nat
    BY <1>8, SiblingsCounted DEF ToolEnds, Open
  <2>3. Siblings' = Siblings
    BY <1>1 DEF Siblings, Last
  <2>. QED BY <1>1, <1>2, <1>8, <2>2, <2>3, AgentAssumption DEF ToolEnds, AgentInv, AgentTypeOK,
       OpenAtReply, Open, Begun, Guarded, CutSound, SwitchesCounted, session, ghosts,
       pending, bounds, Last
<1>9. CASE \E c \in Boundaries(messages) : Summarize(c)
  <2>1. PICK c \in Boundaries(messages) : Summarize(c)
    BY <1>9
  <2>2. c \in Context(messages) /\ messages[c].role = "assistant"
    BY DEF Boundaries
  <2>3. c \in 1 .. Len(messages) /\ messages # <<>>
    BY <2>2, TailStartsAtAssistant DEF AgentInv, AgentTypeOK, Sound
  <2>. QED BY <1>1, <1>2, <2>1, <2>2, <2>3, AgentAssumption DEF Summarize, AgentInv, AgentTypeOK,
       OpenAtReply, Open, Begun, Guarded, CutSound, SwitchesCounted, session, loopVars, ghosts, bounds
<1>. QED BY <1>3, <1>4, <1>5, <1>6, <1>7, <1>8, <1>9
\* A compaction that fails.
LEMMA CompactionFailsKept ==
  ASSUME AgentInv, CompactionFails
  PROVE  AgentInv'
<1>1. UNCHANGED <<messages, model, summarized, bounds>> /\ ~Open
  BY DEF CompactionFails, Open
<1>2. CASE reason # "auto"
  BY <1>1, <1>2, EndUntouchedKept DEF CompactionFails, AgentInv, AgentTypeOK
<1>3. CASE reason = "auto"
  <2>1. (Sound(messages))' /\ (Partition(messages, summarized))'
    BY <1>1 DEF AgentInv
  <2>2. AgentTypeOK'
    <3>1. /\ pc' = "head" /\ reason' = "none" /\ cut' = 0
          /\ autoEnabled' \in BOOLEAN /\ {switched', overflowed'} \subseteq BOOLEAN
          /\ UNCHANGED <<iteration, attempts, ran, switches>>
      BY <1>3 DEF CompactionFails, AgentInv, AgentTypeOK, loopVars
    <3>. QED BY <1>1, <3>1, BoundsAreNumbers DEF AgentInv, AgentTypeOK, bounds
  <2>3. OpenAtReply' /\ Begun' /\ Guarded' /\ CutSound' /\ SwitchesCounted'
    BY <1>1, <1>3 DEF CompactionFails, AgentInv, OpenAtReply, Open, Begun, Guarded, CutSound,
       SwitchesCounted, loopVars
  <2>. QED BY <2>1, <2>2, <2>3 DEF AgentInv
<1>. QED BY <1>2, <1>3

\* A compaction that succeeds: the cut is still a boundary.
LEMMA CompactionSucceedsKept ==
  ASSUME AgentInv, CompactionSucceeds
  PROVE  AgentInv'
<1> DEFINE h == messages
           m == Marker(cut)
<1>1. /\ h \in Seq(Message) /\ Sound(h) /\ Closed(h) /\ Partition(h, summarized)
      /\ cut \in Context(h) /\ h[cut].role = "assistant" /\ cut \in Nat
  BY DEF AgentInv, AgentTypeOK, OpenAtReply, Open, CutSound, CompactionSucceeds
<1>2. cut \in 1 .. Len(h)
  BY <1>1, TailStartsAtAssistant DEF Sound
<1>3. /\ m \in Message /\ m.kind = "compaction" /\ m.role = "user" /\ m.calls = {}
      /\ m.results = {} /\ m.tail = cut
  BY <1>1, MessagesMade DEF Marker, Bare
<1>4. h' = Append(h, m)
  BY DEF CompactionSucceeds, Mark, Push
<1>5. Sound(h')
  BY <1>1, <1>2, <1>3, <1>4, FS_EmptySet, SoundAppend
<1>6. summarized' = summarized \cup {i \in Context(h) : i < cut}
  BY DEF CompactionSucceeds, Prefix
<1>7. Partition(h', summarized')
  BY <1>1, <1>4, <1>6, PartitionMark DEF Sound
<1>8. /\ h' \in Seq(Message) /\ h' # <<>> /\ Len(h') = Len(h) + 1
      /\ h'[Len(h')] = m
  BY <1>1, <1>3, <1>4
<1>9. Closed(h')
  BY <1>3, <1>8 DEF Closed
<1>10. summarized' \subseteq DOMAIN h'
  BY <1>7 DEF Partition
<1>11. AgentTypeOK'
  BY <1>8, <1>10, AgentAssumption DEF AgentInv, AgentTypeOK, CompactionSucceeds, AfterCompaction,
     loopVars, bounds
<1>12. OpenAtReply' /\ Begun' /\ Guarded' /\ CutSound' /\ SwitchesCounted'
  BY <1>8, <1>9 DEF AgentInv, OpenAtReply, Open, Begun, Guarded, CutSound, SwitchesCounted,
     CompactionSucceeds, AfterCompaction, loopVars
<1>. QED BY <1>5, <1>7, <1>11, <1>12 DEF AgentInv

\* Turns that end by an error, the guard or their last save.
LEMMA EndsKept ==
  ASSUME AgentInv, Exceed \/ StreamFails \/ TurnEnds
  PROVE  AgentInv'
<1>1. EndTurn /\ ~Open /\ UNCHANGED <<session, summarized, bounds>>
  BY DEF Exceed, StreamFails, TurnEnds, Open
<1>. QED BY <1>1, EndUntouchedKept DEF session, AgentInv, AgentTypeOK

\* A reply.
LEMMA StreamAnswersKept ==
  ASSUME AgentInv, NEW names \in Replies, StreamAnswers(names)
  PROVE  AgentInv'
<1> DEFINE h == messages
           ids == {Len(h) + 1} \X names
           m == Reply(ids)
<1>1. /\ h \in Seq(Message) /\ Sound(h) /\ Closed(h) /\ Partition(h, summarized)
  BY DEF AgentInv, AgentTypeOK, OpenAtReply, Open, StreamAnswers
<1>2. ids \in SUBSET (Nat \X (Tool \cup SwitchCall))
  BY <1>1, AgentAssumption
<1>3. IsFiniteSet(ids)
  BY FS_Singleton, FS_Product, AgentAssumption
<1>4. /\ m \in Message /\ m.kind = "reply" /\ m.role = "assistant" /\ m.calls = ids
      /\ m.results = {}
  BY <1>2, MessagesMade DEF Reply, Bare
<1>5. h' = Append(h, m)
  BY DEF StreamAnswers, Push
<1>. HIDE DEF m
<1>6. Sound(h') /\ Partition(h', summarized) /\ (m.calls = {} => Closed(h'))
  BY <1>1, <1>3, <1>4, <1>5, PushKept
<1>7. /\ h' \in Seq(Message) /\ h' # <<>> /\ Len(h') = Len(h) + 1
      /\ h'[Len(h')] = m
  BY <1>1, <1>4, <1>5
<1>8. pc' \in {"ending", "resolving", "tools"} /\ (pc' = "ending" => m.calls = {})
  BY <1>4 DEF StreamAnswers
<1>9. IsFiniteSet(Siblings') /\ Cardinality(Siblings') \in Nat
  <2>1. Siblings' \subseteq ids
    BY <1>4, <1>7 DEF Siblings, Last
  <2>. QED BY <1>3, <2>1, FS_Subset, FS_CardinalityType
<1>10. AgentTypeOK'
  BY <1>7, <1>8, <1>9, AgentAssumption DEF AgentInv, AgentTypeOK, StreamAnswers, Guarded, pending,
     ghosts, bounds
<1>11. OpenAtReply' /\ Begun' /\ Guarded' /\ CutSound' /\ SwitchesCounted'
  BY <1>4, <1>6, <1>7, <1>8 DEF AgentInv, OpenAtReply, Open, Last, Begun, Guarded, CutSound,
     SwitchesCounted, StreamAnswers, ghosts
<1>12. summarized' = summarized
  BY DEF StreamAnswers, ghosts
<1>. QED BY <1>6, <1>10, <1>11, <1>12 DEF AgentInv
\* A switch: the reply loses its calls or its place.
LEMMA SwitchKept ==
  ASSUME AgentInv, NEW to \in Model, Switch(to)
  PROVE  AgentInv'
<1> DEFINE h == messages
           n == Len(h)
           bare == [h[n] EXCEPT !.calls = {}]
<1>1. /\ h \in Seq(Message) /\ Sound(h) /\ Partition(h, summarized) /\ h # <<>>
      /\ h[n].role = "assistant" /\ h[n].kind = "reply" /\ n \in DOMAIN h
  BY DEF AgentInv, AgentTypeOK, OpenAtReply, Open, Last, Switch
<1>2. h[n] \in Message /\ h[n].results = {}
  BY <1>1 DEF Sound, Asked
<1>3. /\ SwitchMeta \in Message /\ SwitchMeta.kind = "model-switch" /\ SwitchMeta.role = "user"
      /\ SwitchMeta.calls = {} /\ SwitchMeta.results = {}
  BY MessagesMade DEF SwitchMeta, Bare
<1>4. /\ bare \in Message /\ bare.kind = "reply" /\ bare.role = "assistant"
      /\ bare.calls = {} /\ bare.results = {}
  BY <1>1, <1>2 DEF Message
<1>. HIDE DEF bare
<1>5. ASSUME NEW m \in Message, m.kind # "compaction", m.calls = {}, m.results = {}
      PROVE  LET g == [h EXCEPT ![n] = m]
             IN  /\ g \in Seq(Message) /\ Sound(g) /\ Partition(g, summarized) /\ Closed(g)
                 /\ g # <<>> /\ Len(g) = n
  <2>1. Sound([h EXCEPT ![n] = m])
    BY <1>1, <1>5, SoundRewrite
  <2>2. Partition([h EXCEPT ![n] = m], summarized)
    BY <1>1, <1>5, PartitionRewrite DEF Sound
  <2>3. /\ [h EXCEPT ![n] = m] \in Seq(Message) /\ Len([h EXCEPT ![n] = m]) = n
        /\ [h EXCEPT ![n] = m][n] = m /\ [h EXCEPT ![n] = m] # <<>>
    BY <1>1, <1>5
  <2>. QED BY <1>5, <2>1, <2>2, <2>3 DEF Closed
<1>6. /\ h' \in Seq(Message) /\ Sound(h') /\ Partition(h', summarized) /\ Closed(h')
      /\ h' # <<>> /\ n <= Len(h')
  <2>1. CASE h' = [h EXCEPT ![n] = SwitchMeta]
    <3>1. SwitchMeta.kind # "compaction"
      BY <1>3
    <3> DEFINE g == [h EXCEPT ![n] = SwitchMeta]
    <3>2. /\ g \in Seq(Message) /\ Sound(g) /\ Partition(g, summarized) /\ Closed(g)
          /\ g # <<>> /\ Len(g) = n
      BY <1>3, <1>5, <3>1
    <3>3. n \in Nat
      BY <1>1
    <3>. HIDE DEF g
    <3>. QED BY <2>1, <3>2, <3>3 DEF g
  <2>2. CASE h' = Append([h EXCEPT ![n].calls = {}], SwitchMeta)
    <3> DEFINE g == [h EXCEPT ![n] = bare]
    <3>1. h' = Append(g, SwitchMeta)
      BY <1>1, <2>2 DEF bare
    <3>2. /\ g \in Seq(Message) /\ Sound(g) /\ Partition(g, summarized) /\ Closed(g)
          /\ Len(g) = n
      BY <1>4, <1>5
    <3>. HIDE DEF g
    <3>3. Sound(h') /\ Partition(h', summarized) /\ Closed(h')
      BY <1>3, <3>1, <3>2, FS_EmptySet, PushKept
    <3>4. h' \in Seq(Message) /\ h' # <<>> /\ n <= Len(h')
      BY <1>1, <1>3, <3>1, <3>2
    <3>. QED BY <3>3, <3>4
  <2>. QED BY <2>1, <2>2 DEF Switch, SanitizeAndPush
<1>7. AgentTypeOK'
  BY <1>1, <1>6, AgentAssumption DEF AgentInv, AgentTypeOK, Guarded, Switch, pending, bounds
<1>8. switches' <= (IF switched' THEN 1 ELSE 0) + (IF overflowed' THEN 1 ELSE 0)
  BY DEF AgentInv, AgentTypeOK, SwitchesCounted, Switch
<1>9. OpenAtReply' /\ Begun' /\ Guarded' /\ CutSound' /\ SwitchesCounted'
  BY <1>6, <1>8 DEF AgentInv, OpenAtReply, Open, Begun, Guarded, CutSound, SwitchesCounted, Switch
<1>. QED BY <1>6, <1>7, <1>9 DEF AgentInv, Switch

\* All calls of the reply are answered.
LEMMA ToolsEndKept ==
  ASSUME AgentInv, ToolsEnd
  PROVE  AgentInv'
<1> DEFINE h == messages
<1>1. /\ h \in Seq(Message) /\ Sound(h) /\ Partition(h, summarized) /\ h # <<>>
      /\ h[Len(h)].role = "assistant" /\ h[Len(h)].kind # "compaction"
  BY DEF AgentInv, AgentTypeOK, OpenAtReply, Open, Last, ToolsEnd
<1>2. h' = Append(h, Results(h[Len(h)].calls))
  BY DEF ToolsEnd, Answer, Push, Last
<1>3. h' \in Seq(Message) /\ Sound(h') /\ Closed(h') /\ Partition(h', summarized)
  BY <1>1, <1>2, AnswerKept
<1>4. h' # <<>> /\ Len(h') = Len(h) + 1
  BY <1>1, <1>2
<1>5. AgentTypeOK'
  BY <1>3, <1>4, AgentAssumption
     DEF AgentInv, AgentTypeOK, Guarded, ToolsEnd, pending, ghosts, bounds
<1>6. OpenAtReply' /\ Begun' /\ Guarded' /\ CutSound' /\ SwitchesCounted'
  BY <1>3, <1>4 DEF AgentInv, OpenAtReply, Open, Begun, Guarded, CutSound, SwitchesCounted,
     ToolsEnd, ghosts
<1>. QED BY <1>3, <1>5, <1>6 DEF AgentInv, ToolsEnd, ghosts

\* recordInterruption closes any history, and only adds to it.
LEMMA InterruptionRecorded ==
  ASSUME AgentInv, messages # <<>>, RecordInterruption
  PROVE  /\ messages' \in Seq(Message) /\ Sound(messages') /\ Closed(messages')
         /\ Partition(messages', summarized)
         /\ Len(messages) <= Len(messages')
         /\ ~Open => messages' = Append(messages, InterruptMarker)
<1> DEFINE h == messages
           r == Results(h[Len(h)].calls)
<1>1. h \in Seq(Message) /\ Sound(h) /\ Partition(h, summarized) /\ h[Len(h)] \in Message
  BY DEF AgentInv, AgentTypeOK
<1>2. /\ InterruptMarker \in Message /\ InterruptMarker.kind = "interrupted"
      /\ InterruptMarker.calls = {} /\ InterruptMarker.results = {}
  BY MessagesMade DEF InterruptMarker, Bare
<1>3. CASE Closed(h)
  <2>1. h' = Append(h, InterruptMarker)
    <3>1. ~(Last.role = "assistant" /\ Last.calls # {})
      BY <1>3 DEF Closed, Last
    <3>2. h' = h \o <<InterruptMarker>>
      BY <3>1 DEF RecordInterruption
    <3>. QED BY <1>1, <1>2, <3>2
  <2>2. h' \in Seq(Message) /\ Sound(h') /\ Closed(h') /\ Partition(h', summarized)
    BY <1>1, <1>2, <1>3, <2>1, FS_EmptySet, PushKept
  <2>3. Len(h) <= Len(h')
    BY <1>1, <1>2, <2>1
  <2>. QED BY <2>1, <2>2, <2>3
<1>4. CASE ~Closed(h)
  <2>1. Open /\ h[Len(h)].role = "assistant" /\ h[Len(h)].kind # "compaction"
        /\ h[Len(h)].calls # {}
    BY <1>4 DEF AgentInv, OpenAtReply, Closed, Last
  <2>2. r \in Message
    BY <1>1, MessagesMade DEF Message
  <2>3. h' = Append(Append(h, r), InterruptMarker)
    BY <1>1, <1>2, <2>1, <2>2 DEF RecordInterruption, Last
  <2>4. Append(h, r) \in Seq(Message) /\ Sound(Append(h, r)) /\ Closed(Append(h, r))
        /\ Partition(Append(h, r), summarized)
    BY <1>1, <2>1, AnswerKept
  <2>5. h' \in Seq(Message) /\ Sound(h') /\ Closed(h') /\ Partition(h', summarized)
    BY <1>2, <2>3, <2>4, FS_EmptySet, PushKept
  <2>6. Len(h) <= Len(h')
    BY <1>1, <1>2, <2>2, <2>3
  <2>. QED BY <2>1, <2>5, <2>6
<1>. QED BY <1>3, <1>4
\* Esc, in time or too late.
LEMMA CancelKept ==
  ASSUME AgentInv, Cancel
  PROVE  AgentInv'
<1>1. messages # <<>>
  BY DEF AgentInv, Begun, Cancel, Awaiting
<1>2. /\ messages' \in Seq(Message) /\ Sound(messages') /\ Closed(messages')
      /\ Partition(messages', summarized)
      /\ Len(messages) <= Len(messages')
      /\ ~Open => messages' = Append(messages, InterruptMarker)
  BY <1>1, InterruptionRecorded DEF Cancel
<1>3. UNCHANGED <<model, autoEnabled, summarized, bounds>>
  BY DEF Cancel
<1>4. CASE EndTurn
  BY <1>2, <1>3, <1>4, EndTurnKept DEF AgentInv, AgentTypeOK
<1>5. CASE /\ pc = "ending" \/ (pc = "summarizing" /\ reason = "manual")
           /\ UNCHANGED <<pc, loopVars, pending, switches>>
  <2>1. ~Open /\ ~Open'
    BY <1>5 DEF Open
  <2>2. /\ messages \in Seq(Message) /\ MarkersSound(messages)
        /\ InterruptMarker \in Message /\ InterruptMarker.kind # "compaction"
    BY MessagesMade DEF AgentInv, AgentTypeOK, Sound, InterruptMarker, Bare
  <2>3. Context(messages) \subseteq Context(messages') /\ Context(messages) \subseteq DOMAIN messages
    BY <1>2, <2>1, <2>2, ContextOfAppend, TailStartsAtAssistant
  <2>4. /\ \A i \in DOMAIN messages : messages'[i] = messages[i]
        /\ messages' # <<>> /\ DOMAIN messages \subseteq DOMAIN messages'
    BY <1>2, <2>1, <2>2
  <2>5. CutSound'
    BY <1>5, <2>3, <2>4 DEF AgentInv, CutSound, pending
  <2>6. AgentTypeOK'
    BY <1>2, <1>3, <1>5, <2>4, AgentAssumption DEF AgentInv, AgentTypeOK, loopVars, pending, bounds
  <2>7. OpenAtReply' /\ Begun' /\ Guarded' /\ SwitchesCounted'
    BY <1>2, <1>5, <2>1, <2>4 DEF AgentInv, OpenAtReply, Begun, Guarded, SwitchesCounted,
       loopVars, pending
  <2>. QED BY <1>2, <1>3, <2>5, <2>6, <2>7 DEF AgentInv
<1>. QED BY <1>4, <1>5 DEF Cancel

\* Ctrl+C, when it does not hit a tool.
LEMMA InterruptKept ==
  ASSUME AgentInv, "tools" \notin CtrlC, Interrupt
  PROVE  AgentInv'
<1>1. EndTurn /\ ~Open /\ UNCHANGED <<session, summarized, bounds>>
  BY DEF Interrupt, Awaiting, Open
<1>. QED BY <1>1, EndUntouchedKept DEF session, AgentInv, AgentTypeOK

-----------------------------------------------------------------------------
(* The invariant.                                                          *)

\* The invariant holds at the start.
LEMMA AgentInvInit == AgentInit => AgentInv
<1>. SUFFICES ASSUME AgentInit PROVE AgentInv
  OBVIOUS
<1>1. /\ messages \in Seq(Message) /\ Len(messages) = 0 /\ DOMAIN messages = {}
      /\ Markers(messages) = {} /\ messages = <<>>
  BY DEF AgentInit, Markers
<1>2. Context(messages) = {}
  BY <1>1 DEF Context, TailStart
<1>3. AgentTypeOK
  <2>1. {switched, overflowed} \subseteq BOOLEAN /\ autoEnabled \in BOOLEAN
    BY DEF AgentInit
  <2>. QED BY <1>1, <2>1, BoundsAreNumbers, AgentAssumption DEF AgentInit, AgentTypeOK
<1>4. Sound(messages)
  BY <1>1 DEF Sound, Answered, Asked, MarkersSound, FiniteCalls
<1>5. Partition(messages, summarized)
  BY <1>1, <1>2 DEF AgentInit, Partition
<1>. QED BY <1>1, <1>3, <1>4, <1>5 DEF AgentInit, AgentInv, OpenAtReply, Open, Closed, Begun,
     Guarded, CutSound, SwitchesCounted

\* Every step but Ctrl+C keeps it.
LEMMA LoopInvStep ==
  ASSUME AgentInv, SubmitPrompt \/ Compact \/ Cancel \/ Compaction \/ Loop
  PROVE  AgentInv'
<1>1. CASE SubmitPrompt \/ Compact \/ Cancel
  BY <1>1, SubmitPromptKept, UntouchedKept, CancelKept
<1>2. CASE Compaction
  BY <1>2, UntouchedKept, CompactionFailsKept, CompactionSucceedsKept DEF Compaction
<1>3. CASE Loop
  BY <1>3, UntouchedKept, EndsKept, StreamAnswersKept, SwitchKept, ToolsEndKept DEF Loop
<1>. QED BY <1>1, <1>2, <1>3

\* So does a stutter.
LEMMA AgentInvStutters ==
  ASSUME AgentInv, UNCHANGED agentVars
  PROVE  AgentInv'
  BY DEF AgentInv, agentVars, session, loopVars, pending, ghosts, bounds, AgentTypeOK,
     Siblings, Last, OpenAtReply, Open, Begun, Guarded, CutSound, SwitchesCounted

\* And Ctrl+C, when it does not hit a tool.
LEMMA AgentInvStep ==
  ASSUME AgentInv, "tools" \notin CtrlC, [AgentNext]_agentVars
  PROVE  AgentInv'
  BY LoopInvStep, InterruptKept, AgentInvStutters DEF AgentNext, User

\* It holds in every state.
LEMMA AgentInvariant == "tools" \notin CtrlC => (AgentSpec => []AgentInv)
<1>. SUFFICES ASSUME "tools" \notin CtrlC PROVE AgentSpec => []AgentInv
  OBVIOUS
<1>1. AgentInv /\ [AgentNext]_agentVars => AgentInv'
  BY AgentInvStep
<1>. QED BY <1>1, AgentInvInit, PTL DEF AgentSpec

\* The agent loop keeps its types and its ranges: the guard and the retries
\* bound it (agent.ts:483-487, 556-562).
THEOREM AgentTypeCorrect == "tools" \notin CtrlC => (AgentSpec => []AgentTypeOK)
<1>1. AgentInv => AgentTypeOK
  BY DEF AgentInv
<1>. QED BY <1>1, AgentInvariant, PTL

\* Compactions neither drop nor double a message, however many there are
\* (deriveContext and compactSession's contextTailStart).
THEOREM Partitioned == "tools" \notin CtrlC => (AgentSpec => []SummaryAndTailPartition)
<1>1. AgentInv => SummaryAndTailPartition
  BY DEF AgentInv, Partition, SummaryAndTailPartition
<1>. QED BY <1>1, AgentInvariant, PTL

\* A turn switches once, or twice when it overflowed (resolveSwitch and
\* runWithOverflowRetry).
THEOREM SwitchesFew == "tools" \notin CtrlC => (AgentSpec => []SwitchesBounded)
<1>1. AgentInv => SwitchesBounded
  BY DEF AgentInv, AgentTypeOK, SwitchesCounted, SwitchesBounded
<1>. QED BY <1>1, AgentInvariant, PTL

\* What a step asks the provider for is paired.
LEMMA RequestStep ==
  ASSUME AgentInv, AgentInv', AgentNext
  PROVE  /\ (pc # "streaming" /\ pc' = "streaming") =>
                ValidlyPaired(messages, Context(messages))
         /\ (pc # "summarizing" /\ pc' = "summarizing") =>
                ValidlyPaired(messages', Prefix')
<1>1. ASSUME pc # "streaming", pc' = "streaming"
      PROVE  ValidlyPaired(messages, Context(messages))
  <2>1. Request
    BY <1>1 DEF AgentNext, User, Compaction, Loop, SubmitPrompt, Compact, Cancel, Interrupt,
       EndTurn, CompactionFails, CompactionSucceeds, AfterCompaction, Summarize, Exceed,
       StreamRetries, StreamFails, StreamOverflows, StreamAnswers, RefuseSwitch, Switch, ToolEnds,
       ToolsEnd, TurnEnds, agentVars
  <2>2. /\ messages \in Seq(Message) /\ Sound(messages) /\ Closed(messages)
        /\ Len(messages) + 1 \in 1 .. Len(messages) + 1
    BY <2>1 DEF AgentInv, AgentTypeOK, OpenAtReply, Open, Request
  <2>. QED BY <2>2, HistoryPaired
<1>2. ASSUME pc # "summarizing", pc' = "summarizing"
      PROVE  ValidlyPaired(messages', Prefix')
  <2>1. /\ messages' \in Seq(Message) /\ Sound(messages')
        /\ cut' \in Context(messages') /\ messages'[cut'].role = "assistant"
    BY <1>2 DEF AgentInv, AgentTypeOK, CutSound
  <2>2. cut' \in 1 .. Len(messages')
    BY <2>1, TailStartsAtAssistant DEF Sound
  <2>3. ValidlyPaired(messages', {i \in Context(messages') : i < cut'})
    BY <2>1, <2>2, StretchPaired
  <2>. QED BY <2>3 DEF Prefix
<1>. QED BY <1>1, <1>2

\* While Ctrl+C does not hit a tool, every request for a reply or a summary
\* carries paired calls and results (compaction.ts:124-130).
THEOREM RequestsPaired == "tools" \notin CtrlC => (AgentSpec => RequestsArePaired)
<1>. SUFFICES ASSUME "tools" \notin CtrlC PROVE AgentSpec => RequestsArePaired
  OBVIOUS
<1> DEFINE Step == /\ (pc # "streaming" /\ pc' = "streaming") =>
                          ValidlyPaired(messages, Context(messages))
                   /\ (pc # "summarizing" /\ pc' = "summarizing") =>
                          ValidlyPaired(messages', Prefix')
<1>1. ASSUME AgentInv, AgentInv', [AgentNext]_agentVars PROVE [Step]_agentVars
  BY <1>1, RequestStep
<1>. QED BY <1>1, AgentInvariant, PTL DEF AgentSpec, RequestsArePaired

\* A step leaves a sequence, and rewrites nothing but the reply that switches.
LEMMA HistoryStep ==
  ASSUME NEW S, messages \in Seq(S), AgentNext
  PROVE  /\ \E T : messages' \in Seq(T)
         /\ Len(messages') >= Len(messages)
         /\ \A i \in DOMAIN messages :
              \/ messages'[i] = messages[i]
              \/ i = Len(messages) /\ pc = "resolving" /\ model' # model
<1> DEFINE Kept(i) == \/ messages'[i] = messages[i]
                      \/ i = Len(messages) /\ pc = "resolving" /\ model' # model
           Step == /\ \E T : messages' \in Seq(T)
                   /\ Len(messages') >= Len(messages)
                   /\ \A i \in DOMAIN messages : Kept(i)
<1>1. CASE UNCHANGED messages
  BY <1>1
<1>2. ASSUME NEW m, messages' = Append(messages, m) PROVE Step
  <2>1. messages \in Seq(S \cup {m})
    OBVIOUS
  <2>2. messages' \in Seq(S \cup {m})
    BY <1>2, <2>1
  <2>. QED BY <1>2, <2>1, <2>2
<1>3. CASE Cancel
  <2> DEFINE T == S \cup {Results(Last.calls), InterruptMarker}
  <2>1. messages \in Seq(T)
    OBVIOUS
  <2> DEFINE e == IF Last.role = "assistant" /\ Last.calls # {}
                  THEN <<Results(Last.calls), InterruptMarker>> ELSE <<InterruptMarker>>
  <2>2. messages' = messages \o e
    BY <1>3 DEF Cancel, RecordInterruption
  <2>3. e \in Seq(T)
    <3>1. Results(Last.calls) \in T /\ InterruptMarker \in T
      OBVIOUS
    <3>. HIDE DEF T
    <3>2. /\ <<Results(Last.calls), InterruptMarker>> \in Seq(T)
          /\ <<InterruptMarker>> \in Seq(T)
      BY <3>1
    <3>. QED BY <3>2
  <2>. HIDE DEF e, T
  <2>. QED BY <2>1, <2>2, <2>3
<1>4. ASSUME NEW to \in Model, Switch(to) PROVE Step
  <2> DEFINE n == Len(messages)
             T == S \cup {SwitchMeta, [messages[n] EXCEPT !.calls = {}]}
  <2>1. messages \in Seq(T)
    OBVIOUS
  <2>2. ASSUME NEW m \in T
        PROVE  LET g == [messages EXCEPT ![n] = m]
               IN  g \in Seq(T) /\ Len(g) = n /\ \A i \in DOMAIN messages : i # n => g[i] = messages[i]
    <3>. HIDE DEF T
    <3>1. n \in Nat /\ DOMAIN messages = 1 .. n /\ \A i \in 1 .. n : messages[i] \in T
      BY <2>1
    <3>2. [messages EXCEPT ![n] = m] \in [1 .. n -> T]
      BY <3>1, <2>1
    <3>. QED BY <2>1, <3>1, <3>2
  <2>3. pc = "resolving" /\ model' # model
    BY <1>4 DEF Switch
  <2>4. \/ messages' = [messages EXCEPT ![n] = SwitchMeta]
        \/ messages' = Append([messages EXCEPT ![n] = [messages[n] EXCEPT !.calls = {}]], SwitchMeta)
    BY <1>4 DEF Switch, SanitizeAndPush
  <2>5. SwitchMeta \in T /\ [messages[n] EXCEPT !.calls = {}] \in T
    OBVIOUS
  <2>. HIDE DEF T
  <2>. QED BY <2>2, <2>3, <2>4, <2>5
<1>5. \/ UNCHANGED messages \/ \E m : messages' = Append(messages, m)
      \/ Cancel \/ \E to \in Model : Switch(to)
  BY DEF AgentNext, User, Compaction, Loop, SubmitPrompt, Compact, Interrupt, CompactionFails,
     CompactionSucceeds, Mark, Summarize, Request, Exceed, StreamRetries, StreamFails,
     StreamOverflows, StreamAnswers, RefuseSwitch, ToolEnds, ToolsEnd, Answer, TurnEnds, Push,
     session
<1>. QED BY <1>1, <1>2, <1>3, <1>4, <1>5

\* No interruption, refusal or compaction retracts a message (agent.ts:66-71,
\* compactSession's "full history is retained").
THEOREM HistoryOnlyGrows == "tools" \notin CtrlC => (AgentSpec => HistoryGrows)
<1>. SUFFICES ASSUME "tools" \notin CtrlC PROVE AgentSpec => HistoryGrows
  OBVIOUS
<1> DEFINE Step == /\ Len(messages') >= Len(messages)
                   /\ \A i \in DOMAIN messages :
                        \/ messages'[i] = messages[i]
                        \/ i = Len(messages) /\ pc = "resolving" /\ model' # model
<1>1. ASSUME AgentInv, [AgentNext]_agentVars PROVE [Step]_agentVars
  BY <1>1, HistoryStep DEF AgentInv, AgentTypeOK
<1>. QED BY <1>1, AgentInvariant, PTL DEF AgentSpec, HistoryGrows
-----------------------------------------------------------------------------
(* Alternation.                                                            *)

\* One more message, after one of the user or of the user.
LEMMA AlternatingAppend ==
  ASSUME NEW h \in Seq(Message), NEW m \in Message, Alternating(h),
         h = <<>> \/ h[Len(h)].role = "user" \/ m.role = "user"
  PROVE  /\ Alternating(Append(h, m)) /\ Append(h, m) # <<>>
         /\ Append(h, m)[Len(Append(h, m))] = m
<1> DEFINE g == Append(h, m)
<1>1. /\ Len(g) = Len(h) + 1 /\ DOMAIN g = 1 .. Len(h) + 1 /\ Len(h) \in Nat
      /\ \A i \in 1 .. Len(h) : g[i] = h[i]
      /\ g[Len(h) + 1] = m /\ DOMAIN h = 1 .. Len(h)
      /\ h = <<>> <=> Len(h) = 0
  OBVIOUS
<1>. HIDE DEF g
<1> DEFINE Inner(n, i) == i \in 1 .. n /\ i + 1 \in 1 .. n
<1>0. \A n \in Nat : \A i \in 1 .. n + 1 : i # n + 1 /\ i # n => Inner(n, i)
  OBVIOUS
<1>2. ASSUME NEW i \in 1 .. Len(h) + 1, i # Len(h) + 1
      PROVE  ~(g[i].role = "assistant" /\ g[i + 1].role = "assistant")
  <2>1. CASE i = Len(h)
    BY <1>1, <2>1
  <2>2. CASE i # Len(h)
    <3>1. i \in 1 .. Len(h) /\ i + 1 \in 1 .. Len(h)
      BY <1>1, <1>0, <1>2, <2>2, Zenon
    <3>2. g[i] = h[i] /\ g[i + 1] = h[i + 1]
      BY <1>1, <3>1, Zenon
    <3>3. i \in DOMAIN h /\ i # Len(h)
      BY <1>1, <2>2, <3>1, Zenon
    <3>. QED BY <3>2, <3>3, Zenon DEF Alternating
  <2>. QED BY <2>1, <2>2
<1>3. Alternating(g) /\ g # <<>> /\ g[Len(g)] = m
  <2>1. g # <<>>
    BY <1>1 DEF g
  <2>. QED BY <1>1, <1>2, <2>1 DEF Alternating
<1>. QED BY <1>3 DEF g

\* The last reply is rewritten.
LEMMA AlternatingRewrite ==
  ASSUME NEW h \in Seq(Message), h # <<>>, NEW m \in Message, Alternating(h),
         h[Len(h)].role = "assistant"
  PROVE  /\ [h EXCEPT ![Len(h)] = m] \in Seq(Message)
         /\ Alternating([h EXCEPT ![Len(h)] = m])
         /\ [h EXCEPT ![Len(h)] = m][Len([h EXCEPT ![Len(h)] = m])] = m
<1> DEFINE g == [h EXCEPT ![Len(h)] = m]
           n == Len(h)
<1>1. /\ Len(g) = n /\ DOMAIN g = 1 .. n /\ DOMAIN h = 1 .. n
      /\ n \in Nat /\ n \in 1 .. n
      /\ \A i \in 1 .. n : i # n => g[i] = h[i]
      /\ g[n] = m /\ g \in Seq(Message)
  OBVIOUS
<1>. HIDE DEF g, n
<1>2. ASSUME NEW i \in 1 .. n, i # n
      PROVE  ~(g[i].role = "assistant" /\ g[i + 1].role = "assistant")
  <2>1. ~(h[i].role = "assistant" /\ h[i + 1].role = "assistant")
    BY <1>1, <1>2 DEF Alternating, n
  <2>2. g[i] = h[i] /\ i + 1 \in 1 .. n
    BY <1>1, <1>2
  <2>3. CASE i + 1 = n
    BY <2>1, <2>2, <2>3 DEF n
  <2>4. CASE i + 1 # n
    BY <1>1, <2>1, <2>2, <2>4
  <2>. QED BY <2>3, <2>4
<1>. QED BY <1>1, <1>2 DEF Alternating, g, n

\* Esc in time.
LEMMA CancelAlternates ==
  ASSUME AlternationInv, ~LateCancel, Cancel
  PROVE  Alternating(messages') /\ UserSpokeLast'
<1>1. Awaiting /\ reason # "manual" /\ EndTurn /\ RecordInterruption
  BY DEF Cancel
<1>2. messages \in Seq(Message) /\ messages # <<>> /\ Alternating(messages) /\ Last \in Message
  BY <1>1 DEF AlternationInv, AgentInv, AgentTypeOK, Begun, Awaiting, Last
<1>3. InterruptMarker \in Message /\ Results(Last.calls) \in Message
      /\ Results(Last.calls).role = "user"
  BY <1>2, MessagesMade DEF Message, Results, Bare
<1>4. CASE Last.role = "assistant" /\ Last.calls # {}
  <2>1. messages' = Append(Append(messages, Results(Last.calls)), InterruptMarker)
    BY <1>1, <1>2, <1>3, <1>4 DEF RecordInterruption
  <2> DEFINE g == Append(messages, Results(Last.calls))
  <2>2. g \in Seq(Message) /\ Alternating(g) /\ g[Len(g)].role = "user"
    BY <1>2, <1>3, AlternatingAppend
  <2>3. Alternating(Append(g, InterruptMarker))
    BY <1>3, <2>2, AlternatingAppend
  <2>. QED BY <1>1, <2>1, <2>3 DEF UserSpokeLast, EndTurn
<1>5. CASE ~(Last.role = "assistant" /\ Last.calls # {})
  <2>1. messages' = Append(messages, InterruptMarker)
    BY <1>1, <1>2, <1>3, <1>5 DEF RecordInterruption
  <2>2. pc # "tools"
    <3>. SUFFICES ASSUME pc = "tools" PROVE FALSE
      OBVIOUS
    <3>1. Siblings = {}
      BY <1>5 DEF AlternationInv, AgentInv, OpenAtReply, Open, Siblings
    <3>2. ran < 0 /\ ran \in Nat
      BY <1>1, <3>1, FS_EmptySet DEF Awaiting, AlternationInv, AgentInv, AgentTypeOK
    <3>. QED BY <3>2
  <2>3. messages[Len(messages)].role = "user"
    BY <1>1, <2>2 DEF Awaiting, AlternationInv, UserSpokeLast, Last
  <2>. QED BY <1>1, <1>2, <1>3, <2>1, <2>3, AlternatingAppend DEF UserSpokeLast, EndTurn
<1>. QED BY <1>4, <1>5

\* A switch.
LEMMA SwitchAlternates ==
  ASSUME AlternationInv, NEW to \in Model, Switch(to)
  PROVE  Alternating(messages') /\ UserSpokeLast'
<1> DEFINE h == messages
           bare == [h[Len(h)] EXCEPT !.calls = {}]
<1>1. /\ h \in Seq(Message) /\ h # <<>> /\ Alternating(h) /\ h[Len(h)].role = "assistant"
      /\ h[Len(h)] \in Message
  BY DEF AlternationInv, AgentInv, AgentTypeOK, OpenAtReply, Open, Last, Switch
<1>2. SwitchMeta \in Message /\ SwitchMeta.role = "user" /\ bare \in Message
  BY <1>1, MessagesMade DEF SwitchMeta, Bare, Message
<1>3. Alternating(h') /\ h'[Len(h')] = SwitchMeta
  <2>1. CASE h' = [h EXCEPT ![Len(h)] = SwitchMeta]
    BY <1>1, <1>2, <2>1, AlternatingRewrite
  <2>2. CASE h' = Append([h EXCEPT ![Len(h)].calls = {}], SwitchMeta)
    <3>1. h' = Append([h EXCEPT ![Len(h)] = bare], SwitchMeta)
      BY <1>1, <2>2
    <3>2. /\ [h EXCEPT ![Len(h)] = bare] \in Seq(Message)
          /\ Alternating([h EXCEPT ![Len(h)] = bare])
      BY <1>1, <1>2, AlternatingRewrite
    <3>. QED BY <1>2, <3>1, <3>2, AlternatingAppend
  <2>. QED BY <2>1, <2>2 DEF Switch, SanitizeAndPush
<1>. QED BY <1>2, <1>3 DEF UserSpokeLast, Last, Switch
\* No step breaks the alternation of the roles.
LEMMA AlternationStep ==
  ASSUME AlternationInv, ~LateCancel, "tools" \notin CtrlC, [AgentNext]_agentVars
  PROVE  AlternationInv'
<1>1. AgentInv'
  BY AgentInvStep DEF AlternationInv
<1>2. /\ messages \in Seq(Message) /\ Alternating(messages) /\ AgentInv /\ UserSpokeLast
      /\ \A m \in Message : m.role = "user" \/ m.role = "assistant"
  BY DEF AlternationInv, AgentInv, AgentTypeOK, Message
<1>3. CASE SubmitPrompt
  <2>1. messages' = Append(messages, Prompt) /\ Prompt \in Message /\ Prompt.role = "user"
    BY <1>3, MessagesMade DEF SubmitPrompt, Push, Prompt, Bare
  <2>. QED BY <1>1, <1>2, <2>1, AlternatingAppend DEF AlternationInv, UserSpokeLast, Last
<1>4. CASE CompactionSucceeds
  <2>1. cut \in Nat
    BY <1>2 DEF AgentInv, AgentTypeOK
  <2>2. messages' = Append(messages, Marker(cut)) /\ Marker(cut) \in Message
        /\ Marker(cut).role = "user"
    BY <1>4, <2>1, MessagesMade DEF CompactionSucceeds, Mark, Push, Marker, Bare
  <2>. QED BY <1>1, <1>2, <2>2, AlternatingAppend DEF AlternationInv, UserSpokeLast, Last
<1>5. CASE \E names \in Replies : StreamAnswers(names)
  <2>1. PICK names \in Replies : StreamAnswers(names)
    BY <1>5
  <2>2. messages[Len(messages)].role = "user"
    BY <1>2, <2>1 DEF StreamAnswers, UserSpokeLast, Last
  <2> DEFINE ids == {Len(messages) + 1} \X names
  <2>3. ids \in SUBSET (Nat \X (Tool \cup SwitchCall))
    BY <1>2, AgentAssumption
  <2>4. messages' = Append(messages, Reply(ids)) /\ Reply(ids) \in Message
    BY <2>1, <2>3, MessagesMade DEF StreamAnswers, Push
  <2>5. Alternating(messages')
    BY <1>2, <2>2, <2>4, AlternatingAppend
  <2>6. pc' \notin {"head", "streaming", "cutting", "summarizing"}
    BY <2>1 DEF StreamAnswers
  <2>. QED BY <1>1, <2>5, <2>6 DEF AlternationInv, UserSpokeLast
<1>6. CASE ToolsEnd
  <2>1. Last \in Message
    BY <1>2, <1>6 DEF ToolsEnd, AgentInv, OpenAtReply, Open, Last
  <2>2. messages' = Append(messages, Results(Last.calls)) /\ Results(Last.calls) \in Message
        /\ Results(Last.calls).role = "user"
    BY <1>6, <2>1, MessagesMade DEF ToolsEnd, Answer, Push, Results, Bare, Message
  <2>. QED BY <1>1, <1>2, <1>6, <2>2, AlternatingAppend
       DEF AlternationInv, UserSpokeLast, Last, ToolsEnd
<1>7. CASE Cancel
  BY <1>1, <1>7, CancelAlternates DEF AlternationInv
<1>8. CASE \E to \in Model : Switch(to)
  BY <1>1, <1>8, SwitchAlternates DEF AlternationInv
<1>9. CASE EndTurn /\ UNCHANGED messages
  BY <1>1, <1>2, <1>9 DEF AlternationInv, UserSpokeLast, EndTurn
<1>10. CASE Compact
  BY <1>1, <1>2, <1>10 DEF AlternationInv, UserSpokeLast, Compact, session
<1>11. CASE \/ CompactionFails \/ \E c \in Boundaries(messages) : Summarize(c)
            \/ Request \/ StreamRetries \/ StreamOverflows
  <2>1. UNCHANGED messages
    BY <1>11 DEF CompactionFails, Summarize, Request, StreamRetries, StreamOverflows, session
  <2>2. UserSpokeLast'
    BY <1>2, <1>11, <2>1 DEF UserSpokeLast, Last, CompactionFails, EndTurn, Summarize, Request,
       StreamRetries, StreamOverflows, session, pending
  <2>. QED BY <1>1, <1>2, <2>1, <2>2 DEF AlternationInv
<1>12. CASE RefuseSwitch \/ ToolEnds \/ UNCHANGED agentVars
  BY <1>1, <1>2, <1>12 DEF AlternationInv, UserSpokeLast, Last, RefuseSwitch, ToolEnds, agentVars,
     session, pending
<1>13. Interrupt \/ Exceed \/ StreamFails \/ TurnEnds => EndTurn /\ UNCHANGED messages
  BY DEF Interrupt, Exceed, StreamFails, TurnEnds, session
<1>. QED BY <1>3, <1>4, <1>5, <1>6, <1>7, <1>8, <1>9, <1>10, <1>11, <1>12, <1>13
     DEF AgentNext, User, Compaction, Loop

\* While Esc comes in time and Ctrl+C does not hit a tool, the roles of the
\* assistant never meet: every interruption closes a turn that is open
\* (agent.ts:66-71).
THEOREM RolesAlternate ==
  ~LateCancel /\ "tools" \notin CtrlC => (AgentSpec => []RepliesAlternate)
<1>. SUFFICES ASSUME ~LateCancel, "tools" \notin CtrlC PROVE AgentSpec => []RepliesAlternate
  OBVIOUS
<1>1. AgentInit => AlternationInv
  <2>. SUFFICES ASSUME AgentInit PROVE AlternationInv
    OBVIOUS
  <2>1. AgentInv
    BY AgentInvInit
  <2>2. DOMAIN messages = {} /\ pc = "idle"
    BY DEF AgentInit
  <2>. QED BY <2>1, <2>2 DEF AlternationInv, Alternating, UserSpokeLast
<1>2. AlternationInv /\ [AgentNext]_agentVars => AlternationInv'
  BY AlternationStep
<1>3. AlternationInv => RepliesAlternate
  <2>. SUFFICES ASSUME AlternationInv PROVE RepliesAlternate
    OBVIOUS
  <2>1. messages \in Seq(Message) /\ Alternating(messages)
    BY DEF AlternationInv, AgentInv, AgentTypeOK
  <2>2. \A i \in 1 .. Len(messages) - 1 : i \in DOMAIN messages /\ i # Len(messages)
    BY <2>1
  <2>. QED BY <2>1, <2>2 DEF Alternating, RepliesAlternate
<1>. QED BY <1>1, <1>2, <1>3, PTL DEF AgentSpec

-----------------------------------------------------------------------------
(* The saves of a session.                                                 *)

\* A transcript, of whatever messages.
IsHistory(h) == \E S : h \in Seq(S)

\* h has all of the turns that were saved at their end.
HasSettled(h) ==
    /\ settled <= Len(h)
    /\ \A i \in 1 .. settled : h[i] = messages[i]

\* What the file holds and what a save is about to put there.
SettledKept ==
    /\ IsHistory(messages) /\ IsHistory(saved)
    /\ settled \in Nat /\ settled <= Len(messages)
    /\ HasSettled(saved)
    /\ \A s \in Saver : save[s] = "transcript" =>
         IsHistory(snapshot[s]) /\ HasSettled(snapshot[s])

\* The last save of a turn runs alone, while the turn ends, and what it
\* writes is the beginning of the history.
FinalAlone ==
    /\ save["final"] # "off" =>
         pc = "ending" /\ (reason = "manual" \/ save["progress"] = "off")
    /\ save["final"] = "transcript" =>
         /\ Len(snapshot["final"]) <= Len(messages)
         /\ \A i \in 1 .. Len(snapshot["final"]) : snapshot["final"][i] = messages[i]

SaversOK ==
    /\ save \in [Saver -> {"off", "opening", "metadata", "transcript"}]
    /\ DOMAIN snapshot = Saver

\* The reply a switch rewrites belongs to the turn underway.
SwitchIsUnsettled == pc = "resolving" => settled < Len(messages)

SettledInv == SaversOK /\ SettledKept /\ FinalAlone /\ SwitchIsUnsettled

\* session.json, once there is one.
Described(d) == d.model \in Model /\ d.autoEnabled \in BOOLEAN

Presentable(h) == h \in Seq(Message) /\ Sound(h) /\ Closed(h)

\* What can reach the files can be resumed from and sent.
ResumableInv ==
    /\ Open => save["progress"] \in {"off", "transcript"}
    /\ Presentable(saved)
    /\ metadata # Nothing => Described(metadata)
    /\ \A s \in Saver : /\ save[s] = "metadata" => Described(snapshot[s])
                        /\ save[s] = "transcript" => Presentable(snapshot[s])

-----------------------------------------------------------------------------
(* What is settled.                                                        *)

\* Every step is one of the loop, of a save alone, or a restart.
LoopMove == SubmitPrompt \/ Compact \/ Cancel \/ Compaction \/ Loop

\* The history only grows, and what is settled stays as it was.
LEMMA SettledHistoryStays ==
  ASSUME IsHistory(messages), settled \in Nat, settled <= Len(messages), SwitchIsUnsettled,
         LoopMove, settled' = settled
  PROVE  /\ IsHistory(messages') /\ settled' <= Len(messages')
         /\ \A h : HasSettled(h) =>
              settled' <= Len(h) /\ \A i \in 1 .. settled' : h[i] = messages'[i]
         /\ pc # "resolving" =>
              /\ Len(messages) <= Len(messages')
              /\ \A i \in 1 .. Len(messages) : messages'[i] = messages[i]
         /\ SwitchIsUnsettled'
<1>1. PICK S : messages \in Seq(S)
  BY DEF IsHistory
<1>2. AgentNext
  BY DEF LoopMove, AgentNext, User
<1>3. /\ \E T : messages' \in Seq(T)
      /\ Len(messages') >= Len(messages)
      /\ \A i \in DOMAIN messages :
           \/ messages'[i] = messages[i]
           \/ i = Len(messages) /\ pc = "resolving" /\ model' # model
  BY <1>1, <1>2, HistoryStep
<1>4. DOMAIN messages = 1 .. Len(messages) /\ Len(messages) \in Nat
  BY <1>1
<1>5. Len(messages') \in Nat
  BY <1>3
<1>6. settled' <= Len(messages')
  BY <1>3, <1>4, <1>5
<1>7. \A i \in 1 .. settled : messages'[i] = messages[i]
  BY <1>3, <1>4 DEF SwitchIsUnsettled
<1>8. \A h : HasSettled(h) =>
        settled' <= Len(h) /\ \A i \in 1 .. settled' : h[i] = messages'[i]
  BY <1>7 DEF HasSettled
<1>9. pc # "resolving" =>
        /\ Len(messages) <= Len(messages')
        /\ \A i \in 1 .. Len(messages) : messages'[i] = messages[i]
  BY <1>3, <1>4, <1>5
<1>10. SwitchIsUnsettled'
  <2>. SUFFICES ASSUME pc' = "resolving" PROVE settled' < Len(messages')
    BY DEF SwitchIsUnsettled
  <2>1. \E names \in Replies : StreamAnswers(names)
    BY DEF LoopMove, Compaction, Loop, SubmitPrompt, Compact, Cancel, Awaiting, EndTurn,
       CompactionFails, CompactionSucceeds, AfterCompaction, Summarize, Request, Exceed,
       StreamRetries, StreamFails, StreamOverflows, RefuseSwitch, Switch, ToolEnds, ToolsEnd, TurnEnds
  <2>2. Len(messages') = Len(messages) + 1
    BY <1>1, <2>1 DEF StreamAnswers, Push
  <2>. QED BY <1>4, <2>2
<1>. QED BY <1>3, <1>6, <1>8, <1>9, <1>10 DEF IsHistory

\* The user's steps and the loop's, with the saves they start.
LEMMA LoopKeepsSettled ==
  ASSUME SettledInv, UserStep \/ LoopStep
  PROVE  SettledInv'
<1>1. LoopMove /\ settled' = settled /\ snapshot' = snapshot
  BY DEF UserStep, LoopStep, Prompted, Requested, Streamed, Stream, Unsaved, LoopMove, Loop,
     storeVars
<1>2. \/ save' = save
      \/ /\ Request
         /\ save' = [save EXCEPT !["progress"] = "opening"]
  BY DEF UserStep, LoopStep, Prompted, Requested, Streamed, Unsaved, storeVars
<1>3. saved' = saved \/ saved' = messages'
  BY DEF UserStep, LoopStep, Prompted, Requested, Streamed, Unsaved, storeVars
<1>4. /\ IsHistory(messages') /\ settled' <= Len(messages')
      /\ \A h : HasSettled(h) =>
           settled' <= Len(h) /\ \A i \in 1 .. settled' : h[i] = messages'[i]
      /\ pc # "resolving" =>
           /\ Len(messages) <= Len(messages')
           /\ \A i \in 1 .. Len(messages) : messages'[i] = messages[i]
      /\ SwitchIsUnsettled'
  BY <1>1, SettledHistoryStays DEF SettledInv, SettledKept
<1>5. SaversOK'
  BY <1>1, <1>2 DEF SettledInv, SaversOK, Saver
<1>6. \A s \in Saver : save'[s] = "transcript" => save[s] = "transcript"
  BY <1>2 DEF SettledInv, SaversOK, Saver
<1>7. IsHistory(saved') /\ HasSettled(saved)'
  BY <1>1, <1>3, <1>4 DEF SettledInv, SettledKept, HasSettled
<1>8. ASSUME NEW s \in Saver, save'[s] = "transcript"
      PROVE  IsHistory(snapshot'[s]) /\ HasSettled(snapshot[s])'
  <2>1. HasSettled(snapshot[s]) /\ IsHistory(snapshot[s])
    BY <1>6, <1>8 DEF SettledInv, SettledKept
  <2>. QED BY <1>1, <1>4, <2>1 DEF HasSettled
<1>9. SettledKept'
  BY <1>1, <1>4, <1>7, <1>8 DEF SettledInv, SettledKept
<1>10. ASSUME save["final"] = "off" PROVE FinalAlone'
  <2>1. save'["final"] = "off"
    BY <1>2, <1>10 DEF SettledInv, SaversOK, Saver
  <2>. QED BY <2>1 DEF FinalAlone
<1>11. ASSUME save["final"] # "off" PROVE FinalAlone'
  <2>1. pc = "ending"
    BY <1>11 DEF SettledInv, FinalAlone
  <2>2. Cancel /\ save' = save
    BY <2>1 DEF UserStep, LoopStep, Prompted, SubmitPrompt, Compact, Requested, Request, Streamed,
       Stream, StreamRetries, StreamFails, StreamOverflows, StreamAnswers, Unsaved, Compaction,
       CompactionFails, CompactionSucceeds, Summarize, Exceed, RefuseSwitch, Switch, ToolEnds,
       ToolsEnd, storeVars
  <2>3. pc' = pc /\ reason' = reason
    BY <2>1, <2>2 DEF Cancel, Awaiting, pending
  <2>4. save["final"] = "transcript" =>
          /\ Len(snapshot["final"]) <= Len(messages')
          /\ \A i \in 1 .. Len(snapshot["final"]) : snapshot["final"][i] = messages'[i]
    <3>. SUFFICES ASSUME save["final"] = "transcript"
                  PROVE  /\ Len(snapshot["final"]) <= Len(messages')
                         /\ \A i \in 1 .. Len(snapshot["final"]) :
                               snapshot["final"][i] = messages'[i]
      OBVIOUS
    <3> DEFINE h == snapshot["final"]
    <3>1. PICK S, T, U : messages \in Seq(S) /\ messages' \in Seq(T) /\ h \in Seq(U)
      BY <1>4 DEF SettledInv, SettledKept, IsHistory, Saver
    <3>2. Len(messages) \in Nat /\ Len(messages') \in Nat /\ Len(h) \in Nat
      BY <3>1
    <3>3. Len(h) <= Len(messages) /\ \A i \in 1 .. Len(h) : h[i] = messages[i]
      BY DEF SettledInv, FinalAlone
    <3>4. /\ Len(messages) <= Len(messages')
          /\ \A i \in 1 .. Len(messages) : messages'[i] = messages[i]
      BY <1>4, <2>1
    <3>. HIDE DEF h
    <3>5. \A i \in 1 .. Len(h) : h[i] = messages'[i]
      BY <3>2, <3>3, <3>4
    <3>. QED BY <3>2, <3>3, <3>4, <3>5 DEF h
  <2>. QED BY <1>1, <2>1, <2>2, <2>3, <2>4 DEF SettledInv, FinalAlone
<1>12. FinalAlone'
  BY <1>10, <1>11
<1>. QED BY <1>4, <1>5, <1>9, <1>12 DEF SettledInv

\* A save that opens, or a turn that starts its last one.
LEMMA OpeningKeepsSettled ==
  ASSUME SettledInv, StartFinal \/ \E s \in Saver : OpenSave(s)
  PROVE  SettledInv'
<1>1. /\ UNCHANGED <<messages, saved, settled, pc, reason>>
      /\ SaversOK'
      /\ \A s \in Saver : save'[s] = "transcript" =>
           save[s] = "transcript" /\ snapshot'[s] = snapshot[s]
  BY DEF SettledInv, SaversOK, StartFinal, OpenSave, agentVars, session, pending, Saver
<1>2. save'["final"] # "off" => pc = "ending" /\ (reason = "manual" \/ save'["progress"] = "off")
  BY DEF SettledInv, SaversOK, FinalAlone, StartFinal, OpenSave, Saving, Saver
<1>3. SettledKept'
  BY <1>1 DEF SettledInv, SettledKept, HasSettled
<1>4. FinalAlone'
  BY <1>1, <1>2 DEF SettledInv, FinalAlone, Saver
<1>5. SwitchIsUnsettled'
  BY <1>1 DEF SettledInv, SwitchIsUnsettled
<1>. QED BY <1>1, <1>3, <1>4, <1>5 DEF SettledInv

\* A save that serializes the transcript, which holds what is settled.
LEMMA SerializingKeepsSettled ==
  ASSUME SettledInv, NEW s \in Saver, SaveMetadata(s)
  PROVE  SettledInv'
<1>1. /\ UNCHANGED <<messages, saved, settled, pc, reason>>
      /\ save[s] = "metadata" /\ snapshot' = [snapshot EXCEPT ![s] = messages]
      /\ save' = [save EXCEPT ![s] = "transcript"]
  BY DEF SaveMetadata, agentVars, session, pending
<1>2. PICK S : messages \in Seq(S)
  BY DEF SettledInv, SettledKept, IsHistory
<1>3. /\ SaversOK'
      /\ snapshot'[s] = messages
      /\ \A t \in Saver : t # s => save'[t] = save[t] /\ snapshot'[t] = snapshot[t]
  BY <1>1 DEF SettledInv, SaversOK
<1>4. SettledKept'
  <2>1. ASSUME NEW t \in Saver, save'[t] = "transcript"
        PROVE  IsHistory(snapshot'[t]) /\ HasSettled(snapshot[t])'
    BY <1>1, <1>3, <2>1 DEF SettledInv, SettledKept, HasSettled
  <2>. QED BY <1>1, <2>1 DEF SettledInv, SettledKept, HasSettled
<1>5. FinalAlone'
  <2>1. CASE s = "final"
    <3>1. save["progress"] = save'["progress"] /\ save["final"] # "off"
      BY <1>1, <1>3, <2>1 DEF Saver
    <3>2. snapshot'["final"] = messages /\ Len(messages) \in Nat
      BY <1>2, <1>3, <2>1
    <3>. QED BY <1>1, <3>1, <3>2 DEF SettledInv, FinalAlone
  <2>2. CASE s # "final"
    <3>1. save["final"] = save'["final"] /\ snapshot'["final"] = snapshot["final"]
      BY <1>3, <2>2 DEF Saver
    <3>2. save["progress"] # "off"
      BY <1>1, <2>2 DEF Saver
    <3>. QED BY <1>1, <3>1, <3>2 DEF SettledInv, FinalAlone
  <2>. QED BY <2>1, <2>2
<1>6. SwitchIsUnsettled'
  BY <1>1 DEF SettledInv, SwitchIsUnsettled
<1>. QED BY <1>3, <1>4, <1>5, <1>6 DEF SettledInv

\* A save that lands or is given up.
LEMMA EndingKeepsSettled ==
  ASSUME SettledInv, NEW s \in Saver,
         \/ s = "progress" /\ ProgressSaved
         \/ s = "final" /\ FinalSaved
         \/ SaveFails(s)
  PROVE  SettledInv'
<1>1. /\ messages' = messages
      /\ save' = [save EXCEPT ![s] = "off"]
      /\ snapshot' = [snapshot EXCEPT ![s] = Nothing]
      /\ IF s = "final" THEN pc = "ending" /\ pc' = "idle" ELSE UNCHANGED <<pc, reason>>
      /\ save[s] # "off"
  BY DEF ProgressSaved, FinalSaved, SaveFails, SaveTranscript, TurnEnds, EndTurn, agentVars,
     session, pending, Saving
<1>2. /\ SaversOK'
      /\ save'[s] = "off"
      /\ \A t \in Saver : t # s => save'[t] = save[t] /\ snapshot'[t] = snapshot[t]
  BY <1>1 DEF SettledInv, SaversOK
<1>3. \/ UNCHANGED <<saved, settled>>
      \/ /\ save[s] = "transcript" /\ saved' = snapshot[s] /\ settled' = settled
      \/ /\ save[s] = "transcript" /\ saved' = snapshot[s] /\ s = "final"
         /\ reason # "manual" /\ settled' = Len(snapshot[s])
  BY DEF ProgressSaved, FinalSaved, SaveFails, SaveTranscript
<1>4. ASSUME settled' = settled PROVE SettledKept'
  <2>1. ASSUME NEW t \in Saver, save'[t] = "transcript"
        PROVE  IsHistory(snapshot'[t]) /\ HasSettled(snapshot[t])'
    BY <1>1, <1>2, <1>4, <2>1 DEF SettledInv, SettledKept, HasSettled
  <2>2. IsHistory(saved') /\ HasSettled(saved)'
    BY <1>1, <1>3, <1>4 DEF SettledInv, SettledKept, HasSettled
  <2>. QED BY <1>1, <1>4, <2>1, <2>2 DEF SettledInv, SettledKept
<1>5. ASSUME save[s] = "transcript", saved' = snapshot[s], s = "final",
             reason # "manual", settled' = Len(snapshot[s])
      PROVE  SettledKept'
  <2> DEFINE h == snapshot["final"]
  <2>1. PICK T : h \in Seq(T)
    BY <1>5 DEF SettledInv, SettledKept, IsHistory
  <2>2. Len(h) \in Nat
    BY <2>1
  <2>3. /\ Len(h) <= Len(messages) /\ save["progress"] = "off"
        /\ \A i \in 1 .. Len(h) : h[i] = messages[i]
    BY <1>5 DEF SettledInv, FinalAlone
  <2>4. \A t \in Saver : save'[t] = "off"
    BY <1>2, <1>5, <2>3 DEF Saver
  <2>5. IsHistory(messages') /\ IsHistory(saved')
    BY <1>1, <1>5 DEF SettledInv, SettledKept
  <2>. HIDE DEF h
  <2>6. saved' = h /\ settled' = Len(h)
    BY <1>5 DEF h
  <2>. QED BY <1>1, <2>2, <2>3, <2>4, <2>5, <2>6 DEF SettledKept, HasSettled
<1>6. FinalAlone'
  <2>1. CASE s = "final"
    BY <1>2, <2>1 DEF FinalAlone
  <2>2. CASE s # "final"
    <3>1. /\ save["final"] = save'["final"] /\ snapshot'["final"] = snapshot["final"]
          /\ save'["progress"] = "off"
      BY <1>2, <2>2 DEF Saver
    <3>. QED BY <1>1, <2>2, <3>1 DEF SettledInv, FinalAlone
  <2>. QED BY <2>1, <2>2
<1>7. SwitchIsUnsettled'
  <2>1. CASE s = "final"
    BY <1>1, <2>1 DEF SwitchIsUnsettled
  <2>2. CASE s # "final"
    <3>1. settled' = settled
      BY <1>3, <2>2
    <3>. QED BY <1>1, <2>2, <3>1 DEF SettledInv, SwitchIsUnsettled
  <2>. QED BY <2>1, <2>2
<1>. QED BY <1>2, <1>3, <1>4, <1>5, <1>6, <1>7 DEF SettledInv

\* A restart finds at least what was settled, and begins with it.
LEMMA CrashKeepsSettled ==
  ASSUME SettledInv, Crash
  PROVE  SettledInv'
<1>1. /\ messages' = saved /\ saved' = saved /\ settled' = settled /\ pc' = "idle"
      /\ save' = [t \in Saver |-> "off"] /\ snapshot' = [t \in Saver |-> Nothing]
  BY DEF Crash, EndTurn
<1>2. SaversOK' /\ \A t \in Saver : save'[t] = "off"
  BY <1>1 DEF SaversOK
<1>3. SettledKept'
  BY <1>1, <1>2 DEF SettledInv, SettledKept, HasSettled
<1>4. FinalAlone' /\ SwitchIsUnsettled'
  BY <1>1, <1>2 DEF FinalAlone, SwitchIsUnsettled, Saver
<1>. QED BY <1>2, <1>3, <1>4 DEF SettledInv

\* The invariant holds at the start and every step keeps it.
LEMMA SettledInvariant == SessionSpec => []SettledInv
<1>1. SessionInit => SettledInv
  <2>. SUFFICES ASSUME SessionInit PROVE SettledInv
    OBVIOUS
  <2>1. /\ messages = <<>> /\ saved = <<>> /\ settled = 0 /\ pc = "idle"
        /\ save = [s \in Saver |-> "off"] /\ snapshot = [s \in Saver |-> Nothing]
    BY DEF SessionInit, AgentInit
  <2>2. IsHistory(messages) /\ IsHistory(saved) /\ Len(saved) = 0
    <3>1. <<>> \in Seq({}) /\ Len(<<>>) = 0
      OBVIOUS
    <3>. QED BY <2>1, <3>1 DEF IsHistory
  <2>. QED BY <2>1, <2>2 DEF SettledInv, SaversOK, SettledKept, HasSettled, FinalAlone,
       SwitchIsUnsettled, Saver
<1>2. SettledInv /\ [SessionNext]_sessionVars => SettledInv'
  <2>. SUFFICES ASSUME SettledInv, [SessionNext]_sessionVars PROVE SettledInv'
    OBVIOUS
  <2>1. CASE SessionNext
    <3>1. "progress" \in Saver /\ "final" \in Saver
      BY DEF Saver
    <3>. QED BY <2>1, <3>1, LoopKeepsSettled, OpeningKeepsSettled, SerializingKeepsSettled,
         EndingKeepsSettled, CrashKeepsSettled DEF SessionNext
  <2>2. CASE UNCHANGED sessionVars
    BY <2>2 DEF SettledInv, SaversOK, SettledKept, HasSettled, FinalAlone, SwitchIsUnsettled,
       sessionVars, storeVars, agentVars, session, pending
  <2>. QED BY <2>1, <2>2
<1>. QED BY <1>1, <1>2, PTL DEF SessionSpec

\* A turn saved at its end is never taken back, by no save that is late, that
\* fails or that overtakes another, on a slow disk and across restarts
\* (controller.ts:748-750, "a late progress save can never land last").
THEOREM SettledStays == SessionSpec => []SettledSurvives
<1>1. SettledInv => SettledSurvives
  BY DEF SettledInv, SettledKept, HasSettled, SettledSurvives
<1>. QED BY <1>1, SettledInvariant, PTL

-----------------------------------------------------------------------------
(* What can be resumed.                                                    *)

\* A restart takes up a history that is sound and closed, behind the summary
\* its last marker stands for.
LEMMA ResumeKeepsAgentInv ==
  ASSUME AgentInv, ResumableInv, Crash
  PROVE  AgentInv'
<1>1. /\ saved \in Seq(Message) /\ Sound(saved) /\ Closed(saved)
      /\ Described(metadata)
  BY DEF ResumableInv, Presentable, Crash
<1>2. /\ messages' = saved /\ model' = metadata.model /\ autoEnabled' = metadata.autoEnabled
      /\ EndTurn /\ UNCHANGED bounds
      /\ summarized' = (1 .. TailStart(saved) - 1) \ Markers(saved)
  BY DEF Crash
<1>3. /\ TailStart(saved) \in 1 .. Len(saved) + 1
      /\ DOMAIN saved = 1 .. Len(saved) /\ Len(saved) \in Nat
  BY <1>1, TailStartsAtAssistant DEF Sound
<1>4. Partition(messages', summarized')
  BY <1>2, <1>3 DEF Partition, Context
<1>5. summarized' \subseteq DOMAIN messages'
  BY <1>2, <1>3
<1>6. AgentTypeOK'
  <2>1. {switched', overflowed'} \subseteq BOOLEAN
    BY <1>2 DEF EndTurn
  <2>2. model' \in Model /\ autoEnabled' \in BOOLEAN
    BY <1>1, <1>2 DEF Described
  <2>. QED BY <1>1, <1>2, <1>3, <1>5, <2>1, <2>2, BoundsAreNumbers
       DEF AgentInv, AgentTypeOK, EndTurn, bounds
<1>7. OpenAtReply' /\ Begun' /\ Guarded' /\ CutSound' /\ SwitchesCounted'
  BY <1>1, <1>2 DEF EndTurn, OpenAtReply, Open, Begun, Guarded, CutSound, SwitchesCounted
<1>. QED BY <1>1, <1>2, <1>4, <1>6, <1>7 DEF AgentInv

\* Seen from the agent loop, a session steps, waits or restarts.
LEMMA SessionMoves ==
  ASSUME [SessionNext]_sessionVars
  PROVE  LoopMove \/ UNCHANGED agentVars \/ Crash
  BY DEF SessionNext, sessionVars, UserStep, LoopStep, Prompted, Requested, Streamed, Stream,
     Unsaved, LoopMove, Loop, StartFinal, ProgressSaved, FinalSaved, OpenSave, SaveMetadata, SaveFails

\* The loop's invariant holds of a session too.
LEMMA SessionKeepsAgentInv ==
  ASSUME AgentInv, ResumableInv, [SessionNext]_sessionVars
  PROVE  AgentInv'
  BY SessionMoves, LoopInvStep, AgentInvStutters, ResumeKeepsAgentInv DEF LoopMove

\* The user and the loop start a save only between iterations.
LEMMA LoopKeepsResumable ==
  ASSUME ~SlowDisk, AgentInv, AgentInv', SettledInv, ResumableInv, UserStep \/ LoopStep
  PROVE  ResumableInv'
<1>1. snapshot' = snapshot
  BY DEF UserStep, LoopStep, Prompted, Requested, Streamed, Unsaved, storeVars
<1>2. \/ save' = save
      \/ Request /\ save' = [save EXCEPT !["progress"] = "opening"]
  BY DEF UserStep, LoopStep, Prompted, Requested, Streamed, Unsaved, storeVars
<1>3. \/ UNCHANGED <<metadata, saved>>
      \/ SubmitPrompt /\ metadata' = Metadata /\ saved' = messages'
  BY DEF UserStep, LoopStep, Prompted, Requested, Streamed, Unsaved, storeVars
<1>4. \A s \in Saver : save'[s] \in {"metadata", "transcript"} => save'[s] = save[s]
  BY <1>2 DEF SettledInv, SaversOK, Saver
<1>5. Open' => save'["progress"] \in {"off", "transcript"}
  <2>. SUFFICES ASSUME Open' PROVE save'["progress"] \in {"off", "transcript"}
    OBVIOUS
  <2>1. save' = save
    BY <1>2 DEF Open, Request
  <2>2. Open \/ Streamed
    BY DEF Open, UserStep, LoopStep, Prompted, SubmitPrompt, Compact, Cancel, Awaiting, EndTurn,
       Requested, Request, Unsaved, Compaction, CompactionFails, CompactionSucceeds,
       AfterCompaction, Summarize, Exceed, Switch, RefuseSwitch, ToolEnds, ToolsEnd
  <2>. QED BY <2>1, <2>2 DEF Streamed, ResumableInv
<1>6. ASSUME SubmitPrompt, metadata' = Metadata, saved' = messages'
      PROVE  Presentable(saved') /\ Described(metadata')
  <2>1. ~Open'
    BY <1>6 DEF SubmitPrompt, Open
  <2>2. Presentable(messages')
    BY <2>1 DEF AgentInv, AgentTypeOK, OpenAtReply, Presentable
  <2>. QED BY <1>6, <2>2 DEF AgentInv, AgentTypeOK, Metadata, Described
<1>7. Presentable(saved') /\ (metadata' # Nothing => Described(metadata'))
  BY <1>3, <1>6 DEF ResumableInv
<1>8. \A s \in Saver : /\ save'[s] = "metadata" => Described(snapshot'[s])
                       /\ save'[s] = "transcript" => Presentable(snapshot'[s])
  BY <1>1, <1>4 DEF ResumableInv
<1>. QED BY <1>5, <1>7, <1>8 DEF ResumableInv, Presentable, Described

\* A transcript is serialized while no call is open.
LEMMA SaveKeepsResumable ==
  ASSUME AgentInv, SettledInv, ResumableInv,
         \/ StartFinal \/ ProgressSaved \/ FinalSaved
         \/ \E s \in Saver : OpenSave(s) \/ SaveMetadata(s) \/ SaveFails(s)
  PROVE  ResumableInv'
<1>1. CASE StartFinal
  <2>1. /\ UNCHANGED <<pc, metadata, saved, snapshot>>
        /\ save' = [save EXCEPT !["final"] = "opening"]
    BY <1>1 DEF StartFinal, agentVars
  <2>2. /\ save'["progress"] = save["progress"] /\ save'["final"] = "opening"
    BY <2>1 DEF SettledInv, SaversOK, Saver
  <2>. QED BY <2>1, <2>2 DEF ResumableInv, Presentable, Described, Open, Saver
<1>2. ASSUME NEW s \in Saver, OpenSave(s) PROVE ResumableInv'
  <2>1. /\ UNCHANGED <<pc, metadata, saved>> /\ save[s] = "opening"
        /\ save' = [save EXCEPT ![s] = "metadata"]
        /\ snapshot' = [snapshot EXCEPT ![s] = Metadata]
    BY <1>2 DEF OpenSave, agentVars
  <2>2. /\ save'[s] = "metadata" /\ snapshot'[s] = Metadata
        /\ \A t \in Saver : t # s => save'[t] = save[t] /\ snapshot'[t] = snapshot[t]
    BY <2>1 DEF SettledInv, SaversOK
  <2>3. Described(Metadata)
    BY DEF AgentInv, AgentTypeOK, Metadata, Described
  <2>4. Open' => save'["progress"] \in {"off", "transcript"}
    BY <2>1, <2>2 DEF ResumableInv, Open, Saver
  <2>. QED BY <2>1, <2>2, <2>3, <2>4 DEF ResumableInv, Presentable, Described
<1>3. ASSUME NEW s \in Saver, SaveMetadata(s) PROVE ResumableInv'
  <2>1. /\ UNCHANGED <<pc, saved>> /\ save[s] = "metadata" /\ metadata' = snapshot[s]
        /\ save' = [save EXCEPT ![s] = "transcript"]
        /\ snapshot' = [snapshot EXCEPT ![s] = messages]
    BY <1>3 DEF SaveMetadata, agentVars
  <2>2. /\ save'[s] = "transcript" /\ snapshot'[s] = messages
        /\ \A t \in Saver : t # s => save'[t] = save[t] /\ snapshot'[t] = snapshot[t]
    BY <2>1 DEF SettledInv, SaversOK
  <2>3. ~Open
    BY <2>1 DEF ResumableInv, SettledInv, FinalAlone, Open, Saver
  <2>4. Presentable(messages)
    BY <2>3 DEF AgentInv, AgentTypeOK, OpenAtReply, Presentable
  <2>5. Described(metadata')
    BY <2>1 DEF ResumableInv
  <2>6. Open' => save'["progress"] \in {"off", "transcript"}
    BY <2>1, <2>3 DEF Open
  <2>. QED BY <2>1, <2>2, <2>4, <2>5, <2>6 DEF ResumableInv, Presentable, Described
<1>4. ASSUME NEW s \in Saver,
             (s = "progress" /\ ProgressSaved) \/ (s = "final" /\ FinalSaved) \/ SaveFails(s)
      PROVE  ResumableInv'
  <2>1. /\ metadata' = metadata
        /\ save' = [save EXCEPT ![s] = "off"] /\ snapshot' = [snapshot EXCEPT ![s] = Nothing]
        /\ saved' = saved \/ (save[s] = "transcript" /\ saved' = snapshot[s])
        /\ pc' = pc \/ pc' = "idle"
    BY <1>4 DEF ProgressSaved, FinalSaved, SaveFails, SaveTranscript, TurnEnds, EndTurn, agentVars
  <2>2. /\ save'[s] = "off"
        /\ \A t \in Saver : t # s => save'[t] = save[t] /\ snapshot'[t] = snapshot[t]
    BY <2>1 DEF SettledInv, SaversOK
  <2>3. Presentable(saved')
    BY <2>1 DEF ResumableInv
  <2>4. Open' => save'["progress"] \in {"off", "transcript"}
    BY <2>1, <2>2 DEF ResumableInv, Open, Saver
  <2>. QED BY <2>1, <2>2, <2>3, <2>4 DEF ResumableInv, Presentable, Described
<1>5. "progress" \in Saver /\ "final" \in Saver
  BY DEF Saver
<1>. QED BY <1>1, <1>2, <1>3, <1>4, <1>5

\* All three invariants together, at the start and after every step.
LEMMA ResumableInvariant ==
  ~SlowDisk => (SessionSpec => [](AgentInv /\ SettledInv /\ ResumableInv))
<1>. SUFFICES ASSUME ~SlowDisk
              PROVE  SessionSpec => [](AgentInv /\ SettledInv /\ ResumableInv)
  OBVIOUS
<1>1. SessionInit => AgentInv /\ ResumableInv
  <2>. SUFFICES ASSUME SessionInit PROVE AgentInv /\ ResumableInv
    OBVIOUS
  <2>1. AgentInv
    BY AgentInvInit DEF SessionInit
  <2>2. saved = messages /\ pc = "idle" /\ metadata = Nothing
        /\ save = [s \in Saver |-> "off"]
    BY DEF SessionInit, AgentInit
  <2>3. Presentable(saved)
    BY <2>1, <2>2 DEF AgentInv, AgentTypeOK, OpenAtReply, Open, Presentable
  <2>. QED BY <2>1, <2>2, <2>3 DEF ResumableInv, Open
<1>2. AgentInv /\ SettledInv /\ ResumableInv /\ [SessionNext]_sessionVars => AgentInv'
  BY SessionKeepsAgentInv
<1>3. AgentInv /\ AgentInv' /\ SettledInv /\ ResumableInv /\ [SessionNext]_sessionVars
        => ResumableInv'
  <2>. SUFFICES ASSUME AgentInv, AgentInv', SettledInv, ResumableInv, [SessionNext]_sessionVars
                PROVE  ResumableInv'
    OBVIOUS
  <2>1. CASE Crash
    <3>1. /\ UNCHANGED <<metadata, saved>> /\ save' = [s \in Saver |-> "off"] /\ pc' = "idle"
      BY <2>1 DEF Crash, EndTurn
    <3>. QED BY <3>1 DEF ResumableInv, Presentable, Described, Open
  <2>2. CASE UNCHANGED sessionVars
    BY <2>2 DEF ResumableInv, Presentable, Described, Open, sessionVars, storeVars, agentVars
  <2>. QED BY <2>1, <2>2, LoopKeepsResumable, SaveKeepsResumable DEF SessionNext
<1>. QED BY <1>1, <1>2, <1>3, SettledInvariant, PTL DEF SessionSpec

\* What a crash leaves behind at any moment can be sent, when a transcript is
\* serialized before the provider answers (controller.ts:752-755).
THEOREM SavesArePaired == ~SlowDisk => (SessionSpec => []SavedIsPaired)
<1>1. ResumableInv => SavedIsPaired
  BY HistoryPaired DEF ResumableInv, Presentable, SavedIsPaired
<1>. QED BY <1>1, ResumableInvariant, PTL

\* And so the requests of a session are paired however often it is resumed
\* (loadSession, and compaction.ts:124-130).
THEOREM ResumedRequestsPaired == ~SlowDisk => (SessionSpec => RequestsArePaired)
<1>. SUFFICES ASSUME ~SlowDisk PROVE SessionSpec => RequestsArePaired
  OBVIOUS
<1> DEFINE Step == /\ (pc # "streaming" /\ pc' = "streaming") =>
                          ValidlyPaired(messages, Context(messages))
                   /\ (pc # "summarizing" /\ pc' = "summarizing") =>
                          ValidlyPaired(messages', Prefix')
<1>1. ASSUME AgentInv, AgentInv', [SessionNext]_sessionVars PROVE [Step]_agentVars
  <2>1. CASE LoopMove
    BY <1>1, <2>1, RequestStep DEF LoopMove, AgentNext, User
  <2>2. CASE Crash
    BY <2>2 DEF Crash, EndTurn
  <2>. QED BY <1>1, <2>1, <2>2, SessionMoves
<1>. QED BY <1>1, ResumableInvariant, PTL DEF SessionSpec, RequestsArePaired
=============================================================================
