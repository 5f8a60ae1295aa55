-------------------------- MODULE ProviderCall_proofs --------------------------
(***************************************************************************)
(* What the agent collects of a request is what EventStream allows, in     *)
(* each protocol, for any number of items, chunks and retries.             *)
(*                                                                         *)
(* The collected log with what is still queued is Lawful: each event may   *)
(* come after those before it.  Reaches says where a lawful log has got    *)
(* to: the content begun, the content ended, the calls told.  A decoder    *)
(* matches a log when its state names exactly the content that is open, so *)
(* each handler of a chunk extends a lawful log lawfully, and the flush    *)
(* ends all that is open before it finishes.                               *)
(***************************************************************************)
EXTENDS ProviderCall, Lowering_proofs

-----------------------------------------------------------------------------
(* What a log of events has come to.                                       *)

Of(L, type) == {n \in 1..Len(L) : L[n].type = type}
Begun(L)    == {Key(L[n]) : n \in Of(L, "start")}
Shut(L)     == {Key(L[n]) : n \in Of(L, "end")}
Told(L)     == {L[n].id : n \in Of(L, "call")}
Over(L)     == Of(L, "finish") # {}

\* EventStream lets e come next.
May(L, e) ==
    /\ ~ Over(L)
    /\ \/ e.type = "start" /\ Key(e) \notin Begun(L)
       \/ e.type \in {"delta", "end"} /\ Key(e) \in Begun(L) \ Shut(L)
       \/ e.type = "call" /\ <<"tool", e.id>> \in Shut(L) /\ e.id \notin Told(L)
       \/ e.type = "provider-error"
       \/ e.type = "finish" /\ \A k \in Begun(L) : k \in Shut(L) /\ (k[1] = "tool" => k[2] \in Told(L))

Lawful(L) == Sequential(L) /\ \A n \in 1..Len(L) : May(SubSeq(L, 1, n - 1), L[n])

\* A lawful log that goes on: S is begun, E of it ended, the calls T told.
Reaches(L, S, E, T) ==
    Lawful(L) /\ ~ Over(L) /\ Begun(L) = S /\ Shut(L) = E /\ Told(L) = T

LEMMA Beginnings ==
    ASSUME NEW s, Sequential(s), NEW x
    PROVE  /\ SubSeq(s, 1, Len(s)) = s
           /\ SubSeq(Append(s, x), 1, Len(s)) = s
           /\ \A n \in 1..Len(s) : SubSeq(Append(s, x), 1, n - 1) = SubSeq(s, 1, n - 1)
<1>1. PICK S : s \in Seq(S) /\ <<x>> \in Seq(S)
    BY OneElement, CommonSet
<1>2. x \in S
    <2>1. <<x>> \in Seq(S) /\ 1 \in 1..Len(<<x>>) /\ <<x>>[1] = x
        BY <1>1, OneElement
    <2>. QED
        BY <2>1, ElementOfSeq
<1>3. SubSeq(s, 1, Len(s)) = s
    BY <1>1, SubSeqFull
<1>4. Append(s, x) = s \o <<x>>
    BY Appended
<1>5. SubSeq(Append(s, x), 1, Len(s)) = s
    BY <1>1, <1>2
<1>6. ASSUME NEW n \in 1..Len(s)
      PROVE  SubSeq(Append(s, x), 1, n - 1) = SubSeq(s, 1, n - 1)
    BY <1>1, <1>2
<1>. QED
    BY <1>3, <1>5, <1>6

\* The log M is L and the event e.
Grew(M, L, e) ==
    /\ Begun(M) = Begun(L) \cup (IF e.type = "start" THEN {Key(e)} ELSE {})
    /\ Shut(M) = Shut(L) \cup (IF e.type = "end" THEN {Key(e)} ELSE {})
    /\ Told(M) = Told(L) \cup (IF e.type = "call" THEN {e.id} ELSE {})
    /\ Over(M) = (Over(L) \/ e.type = "finish")

LEMMA LogGrows ==
    ASSUME NEW L, Sequential(L), NEW e, NEW M, M = Append(L, e)
    PROVE  Grew(M, L, e)
<1>. PICK l \in Nat : l = Len(L)
    BY SequenceIs
<1>1. Len(M) = l + 1 /\ M[l + 1] = e /\ \A n \in 1..l : M[n] = L[n]
    BY Appended
<1>2. \A n \in 1..l + 1 : n \in 1..l \/ n = l + 1
    OBVIOUS
<1>3. l + 1 \in 1..l + 1 /\ \A n \in 1..l : n \in 1..l + 1 /\ n # l + 1
    OBVIOUS
<1>4. ASSUME NEW type
      PROVE  Of(M, type) = Of(L, type) \cup (IF e.type = type THEN {l + 1} ELSE {})
    BY <1>1, <1>2, <1>3 DEF Of
<1>5. \A type : \A n \in Of(L, type) : M[n] = L[n]
    BY <1>1 DEF Of
<1>6. Begun(M) = Begun(L) \cup (IF e.type = "start" THEN {Key(e)} ELSE {})
    <2>1. Of(M, "start") = Of(L, "start") \cup (IF e.type = "start" THEN {l + 1} ELSE {})
        BY <1>4
    <2>2. \A n \in Of(L, "start") : M[n] = L[n]
        BY <1>5
    <2>. QED
        BY <1>1, <2>1, <2>2 DEF Begun
<1>7. Shut(M) = Shut(L) \cup (IF e.type = "end" THEN {Key(e)} ELSE {})
    <2>1. Of(M, "end") = Of(L, "end") \cup (IF e.type = "end" THEN {l + 1} ELSE {})
        BY <1>4
    <2>2. \A n \in Of(L, "end") : M[n] = L[n]
        BY <1>5
    <2>. QED
        BY <1>1, <2>1, <2>2 DEF Shut
<1>8. Told(M) = Told(L) \cup (IF e.type = "call" THEN {e.id} ELSE {})
    <2>1. Of(M, "call") = Of(L, "call") \cup (IF e.type = "call" THEN {l + 1} ELSE {})
        BY <1>4
    <2>2. \A n \in Of(L, "call") : M[n] = L[n]
        BY <1>5
    <2>. QED
        <3>1. CASE e.type = "call"
            <4>1. Of(M, "call") = Of(L, "call") \cup {l + 1}
                BY <2>1, <3>1
            <4>2. M[l + 1].id = e.id /\ \A n \in Of(L, "call") : M[n].id = L[n].id
                BY <1>1, <2>2
            <4>3. Told(M) = Told(L) \cup {e.id}
                <5>1. ASSUME NEW x \in Told(M)
                      PROVE  x \in Told(L) \/ x = e.id
                    <6>1. PICK n \in Of(M, "call") : x = M[n].id
                        BY <5>1 DEF Told
                    <6>. QED
                        BY <4>1, <4>2, <6>1 DEF Told
                <5>2. ASSUME NEW x \in Told(L)
                      PROVE  x \in Told(M)
                    <6>1. PICK n \in Of(L, "call") : x = L[n].id
                        BY <5>2 DEF Told
                    <6>. QED
                        BY <4>1, <4>2, <6>1 DEF Told
                <5>3. e.id \in Told(M)
                    BY <4>1, <4>2 DEF Told
                <5>. QED
                    BY <5>1, <5>2, <5>3
            <4>. QED
                BY <3>1, <4>3
        <3>2. CASE e.type # "call"
            BY <2>1, <2>2, <3>2 DEF Told
        <3>. QED
            BY <3>1, <3>2
<1>9. Over(M) = (Over(L) \/ e.type = "finish")
    <2>1. Of(M, "finish") = Of(L, "finish") \cup (IF e.type = "finish" THEN {l + 1} ELSE {})
        BY <1>4
    <2>. QED
        BY <2>1 DEF Over
<1>. QED
    BY <1>6, <1>7, <1>8, <1>9 DEF Grew

LEMMA LawfulGrows ==
    ASSUME NEW L, Lawful(L), NEW e, May(L, e)
    PROVE  Lawful(Append(L, e))
<1>. PICK l \in Nat : l = Len(L) /\ Sequential(L)
    BY SequenceIs DEF Lawful
<1>. PICK M : M = Append(L, e)
    OBVIOUS
<1>1. Sequential(M) /\ Len(M) = l + 1 /\ M[l + 1] = e /\ \A n \in 1..l : M[n] = L[n]
    BY Appended
<1>2. SubSeq(M, 1, l) = L /\ \A n \in 1..l : SubSeq(M, 1, n - 1) = SubSeq(L, 1, n - 1)
    BY Beginnings
<1>3. ASSUME NEW n \in 1..l + 1
      PROVE  May(SubSeq(M, 1, n - 1), M[n])
    <2>1. CASE n = l + 1
        <3>1. n - 1 = l
            BY <2>1
        <3>. QED
            BY <1>1, <1>2, <2>1, <3>1
    <2>2. CASE n # l + 1
        <3>1. n \in 1..l
            BY <2>2
        <3>. QED
            BY <1>1, <1>2, <3>1 DEF Lawful
    <2>. QED
        BY <2>1, <2>2
<1>. QED
    BY <1>1, <1>3 DEF Lawful

LEMMA EventShapes ==
    ASSUME NEW kind, NEW id, NEW data
    PROVE  /\ Start(kind, id).type = "start" /\ Key(Start(kind, id)) = <<kind, id>>
           /\ Delta(kind, id, data).type = "delta" /\ Key(Delta(kind, id, data)) = <<kind, id>>
           /\ End(kind, id).type = "end" /\ Key(End(kind, id)) = <<kind, id>>
           /\ Call(id, data).type = "call" /\ Call(id, data).id = id
           /\ ProviderError.type = "provider-error" /\ Finish(kind).type = "finish"
BY DEF Start, Delta, End, Call, ProviderError, Finish, Event, Key

LEMMA Goes ==
    ASSUME NEW L, Lawful(L), ~ Over(L), NEW e, May(L, e), e.type # "finish"
    PROVE  Reaches(Append(L, e),
                   Begun(L) \cup (IF e.type = "start" THEN {Key(e)} ELSE {}),
                   Shut(L) \cup (IF e.type = "end" THEN {Key(e)} ELSE {}),
                   Told(L) \cup (IF e.type = "call" THEN {e.id} ELSE {}))
<1>. PICK M : M = Append(L, e)
    OBVIOUS
<1>1. Lawful(M)
    BY LawfulGrows
<1>2. Grew(M, L, e)
    BY LogGrows DEF Lawful
<1>. QED
    BY <1>1, <1>2 DEF Grew, Reaches

\* The log goes on with one event.
LEMMA NextEvent ==
    ASSUME NEW L, NEW S, NEW E, NEW T, Reaches(L, S, E, T), NEW kind, NEW id, NEW data
    PROVE  /\ <<kind, id>> \notin S =>
                Reaches(Append(L, Start(kind, id)), S \cup {<<kind, id>>}, E, T)
           /\ <<kind, id>> \in S \ E =>
                /\ Reaches(Append(L, Delta(kind, id, data)), S, E, T)
                /\ Reaches(Append(L, End(kind, id)), S, E \cup {<<kind, id>>}, T)
           /\ <<"tool", id>> \in E /\ id \notin T =>
                Reaches(Append(L, Call(id, data)), S, E, T \cup {id})
           /\ Reaches(Append(L, ProviderError), S, E, T)
           /\ (\A k \in S : k \in E /\ (k[1] = "tool" => k[2] \in T)) =>
                Lawful(Append(L, Finish(kind)))
<1>. Sequential(L) /\ Lawful(L) /\ ~ Over(L) /\ Begun(L) = S /\ Shut(L) = E /\ Told(L) = T
    BY DEF Reaches, Lawful
<1>1. ASSUME <<kind, id>> \notin S
      PROVE  Reaches(Append(L, Start(kind, id)), S \cup {<<kind, id>>}, E, T)
    <2>. PICK e : e = Start(kind, id) /\ e.type = "start" /\ Key(e) = <<kind, id>>
        BY EventShapes
    <2>1. May(L, e)
        BY <1>1 DEF May
    <2>. QED
        BY <2>1, Goes
<1>2. ASSUME <<kind, id>> \in S \ E
      PROVE  Reaches(Append(L, Delta(kind, id, data)), S, E, T)
    <2>. PICK e : e = Delta(kind, id, data) /\ e.type = "delta" /\ Key(e) = <<kind, id>>
        BY EventShapes
    <2>1. May(L, e)
        BY <1>2 DEF May
    <2>. QED
        BY <2>1, Goes
<1>3. ASSUME <<kind, id>> \in S \ E
      PROVE  Reaches(Append(L, End(kind, id)), S, E \cup {<<kind, id>>}, T)
    <2>. PICK e : e = End(kind, id) /\ e.type = "end" /\ Key(e) = <<kind, id>>
        BY EventShapes
    <2>1. May(L, e)
        BY <1>3 DEF May
    <2>. QED
        BY <2>1, Goes
<1>4. ASSUME <<"tool", id>> \in E, id \notin T
      PROVE  Reaches(Append(L, Call(id, data)), S, E, T \cup {id})
    <2>. PICK e : e = Call(id, data) /\ e.type = "call" /\ e.id = id
        BY EventShapes
    <2>1. May(L, e)
        BY <1>4 DEF May
    <2>. QED
        BY <2>1, Goes
<1>5. Reaches(Append(L, ProviderError), S, E, T)
    <2>. PICK e : e = ProviderError /\ e.type = "provider-error"
        BY EventShapes
    <2>1. May(L, e)
        BY DEF May
    <2>. QED
        BY <2>1, Goes
<1>6. ASSUME \A k \in S : k \in E /\ (k[1] = "tool" => k[2] \in T)
      PROVE  Lawful(Append(L, Finish(kind)))
    <2>. PICK e : e = Finish(kind) /\ e.type = "finish"
        BY EventShapes
    <2>1. May(L, e)
        BY <1>6 DEF May
    <2>. QED
        BY <2>1, LawfulGrows
<1>. QED
    BY <1>1, <1>2, <1>3, <1>4, <1>5, <1>6

LEMMA Pair ==
    ASSUME NEW a, NEW b
    PROVE  /\ Sequential(<<a, b>>) /\ Len(<<a, b>>) = 2
           /\ <<a, b>>[1] = a /\ <<a, b>>[2] = b
           /\ <<a>> \o <<b>> = <<a, b>>
<1>1. <<a, b>> \in Seq({a, b}) /\ <<a>> \in Seq({a, b}) /\ <<b>> \in Seq({a, b})
    OBVIOUS
<1>2. Sequential(<<a, b>>)
    BY <1>1 DEF Sequential
<1>3. Len(<<a, b>>) = 2 /\ <<a, b>>[1] = a /\ <<a, b>>[2] = b
    OBVIOUS
<1>4. <<a>> \o <<b>> = <<a, b>>
    <2>. DEFINE u == <<a>> \o <<b>>
                v == <<a, b>>
    <2>1. u \in Seq({a, b}) /\ v \in Seq({a, b}) /\ Len(u) = 2 /\ Len(v) = 2
        BY <1>1
    <2>2. u[1] = a /\ u[2] = b /\ v[1] = a /\ v[2] = b
        BY <1>1
    <2>3. \A i \in 1..2 : i = 1 \/ i = 2
        OBVIOUS
    <2>. HIDE DEF u, v
    <2>4. \A i \in 1..Len(u) : u[i] = v[i]
        BY <2>1, <2>2, <2>3
    <2>5. u = v
        BY <2>1, <2>4, SeqEqual
    <2>. QED
        BY <2>5 DEF u, v
<1>. QED
    BY <1>2, <1>3, <1>4

LEMMA TwoElements ==
    ASSUME NEW s, Sequential(s), NEW a, NEW b
    PROVE  s \o <<a, b>> = Append(Append(s, a), b)
<1>1. Sequential(<<a>>) /\ Sequential(<<b>>) /\ <<a>> \o <<b>> = <<a, b>>
    BY OneElement, Pair
<1>2. (s \o <<a>>) \o <<b>> = s \o (<<a>> \o <<b>>)
    BY <1>1, JoinsAssociate
<1>3. Append(s, a) = s \o <<a>> /\ Sequential(Append(s, a))
    BY Appended
<1>4. Append(Append(s, a), b) = Append(s, a) \o <<b>>
    BY <1>3, Appended
<1>. QED
    BY <1>1, <1>2, <1>3, <1>4

-----------------------------------------------------------------------------
(* Events that follow a log.                                               *)

\* After the events the log is lawful and goes on, with S begun, E of it ended
\* and the calls T told.
Runs(L, events, S, E, T) ==
    Sequential(L) /\ Sequential(events) /\ Reaches(L \o events, S, E, T)

\* The log ends lawfully with the events.
Closes(L, events) == Sequential(events) /\ Lawful(L \o events) /\ events # <<>>

LEMMA NoEvents ==
    ASSUME NEW L, NEW S, NEW E, NEW T, Reaches(L, S, E, T)
    PROVE  Runs(L, <<>>, S, E, T)
<1>1. Sequential(L)
    BY DEF Reaches, Lawful
<1>. QED
    BY <1>1, Nothing DEF Runs

OneStep(L, events, e) ==
    /\ Sequential(events \o <<e>>) /\ events \o <<e>> # <<>>
    /\ L \o (events \o <<e>>) = Append(L \o events, e)

TwoSteps(L, events, a, b) ==
    /\ Sequential(events \o <<a, b>>)
    /\ L \o (events \o <<a, b>>) = Append(Append(L \o events, a), b)

LEMMA OneStepOn ==
    ASSUME NEW L, Sequential(L), NEW events, Sequential(events), NEW e
    PROVE  OneStep(L, events, e)
<1>1. Joins(events \o <<e>>, events, <<e>>) /\ Len(<<e>>) = 1
    BY Joining, OneElement
<1>2. Len(events \o <<e>>) = Len(events) + 1 /\ Len(events) \in Nat
    BY <1>1, SequenceIs DEF Joins
<1>3. events \o <<e>> # <<>>
    <2>1. Len(events \o <<e>>) # 0
        BY <1>2
    <2>2. Len(<<>>) = 0
        BY Nothing
    <2>. QED
        BY <2>1, <2>2, Zenon
<1>4. Sequential(events \o <<e>>)
    BY <1>1 DEF Joins
<1>5. L \o (events \o <<e>>) = Append(L \o events, e)
    <2>1. Sequential(<<e>>) /\ Sequential(L \o events)
        BY OneElement, Joining DEF Joins
    <2>2. L \o (events \o <<e>>) = (L \o events) \o <<e>>
        BY <2>1, JoinsAssociate
    <2>. QED
        BY <2>1, <2>2, Appended
<1>. QED
    BY <1>3, <1>4, <1>5 DEF OneStep

LEMMA TwoStepsOn ==
    ASSUME NEW L, Sequential(L), NEW events, Sequential(events), NEW a, NEW b
    PROVE  TwoSteps(L, events, a, b)
<1>1. Sequential(<<a, b>>) /\ Sequential(L \o events)
    BY Pair, Joining DEF Joins
<1>2. /\ Sequential(events \o <<a, b>>)
      /\ L \o (events \o <<a, b>>) = (L \o events) \o <<a, b>>
    BY <1>1, Joining, JoinsAssociate DEF Joins
<1>3. Append(Append(L \o events, a), b) = (L \o events) \o <<a, b>>
    BY <1>1, TwoElements
<1>. QED
    BY <1>2, <1>3 DEF TwoSteps

\* What may be said next.
LEMMA RunsOn ==
    ASSUME NEW L, NEW events, NEW S, NEW E, NEW T, Runs(L, events, S, E, T),
           NEW kind, NEW id, NEW data
    PROVE  /\ <<kind, id>> \notin S =>
                Runs(L, events \o <<Start(kind, id)>>, S \cup {<<kind, id>>}, E, T)
           /\ <<kind, id>> \in S \ E =>
                /\ Runs(L, events \o <<Delta(kind, id, data)>>, S, E, T)
                /\ Runs(L, events \o <<End(kind, id)>>, S, E \cup {<<kind, id>>}, T)
           /\ Runs(L, events \o <<ProviderError>>, S, E, T)
           /\ (\A k \in S : k \in E /\ (k[1] = "tool" => k[2] \in T)) =>
                Closes(L, events \o <<Finish(kind)>>)
<1>. Sequential(L) /\ Sequential(events) /\ Reaches(L \o events, S, E, T)
    BY DEF Runs
<1>. PICK M : M = L \o events
    OBVIOUS
<1>1. ASSUME NEW e, NEW SS, NEW EE, NEW TT, Reaches(Append(M, e), SS, EE, TT)
      PROVE  Runs(L, events \o <<e>>, SS, EE, TT)
    <2>1. OneStep(L, events, e)
        BY OneStepOn
    <2>. QED
        BY <1>1, <2>1 DEF OneStep, Runs
<1>2. ASSUME NEW e, Lawful(Append(M, e))
      PROVE  Closes(L, events \o <<e>>)
    <2>1. OneStep(L, events, e)
        BY OneStepOn
    <2>. QED
        BY <1>2, <2>1 DEF OneStep, Closes
<1>3. ASSUME <<kind, id>> \notin S
      PROVE  Runs(L, events \o <<Start(kind, id)>>, S \cup {<<kind, id>>}, E, T)
    <2>1. Reaches(Append(M, Start(kind, id)), S \cup {<<kind, id>>}, E, T)
        BY <1>3, NextEvent
    <2>. QED
        BY <1>1, <2>1
<1>4. ASSUME <<kind, id>> \in S \ E
      PROVE  /\ Runs(L, events \o <<Delta(kind, id, data)>>, S, E, T)
             /\ Runs(L, events \o <<End(kind, id)>>, S, E \cup {<<kind, id>>}, T)
    <2>1. /\ Reaches(Append(M, Delta(kind, id, data)), S, E, T)
          /\ Reaches(Append(M, End(kind, id)), S, E \cup {<<kind, id>>}, T)
        BY <1>4, NextEvent
    <2>. QED
        BY <1>1, <2>1
<1>5. Runs(L, events \o <<ProviderError>>, S, E, T)
    <2>1. Reaches(Append(M, ProviderError), S, E, T)
        BY NextEvent
    <2>. QED
        BY <1>1, <2>1
<1>6. ASSUME \A k \in S : k \in E /\ (k[1] = "tool" => k[2] \in T)
      PROVE  Closes(L, events \o <<Finish(kind)>>)
    <2>1. Lawful(Append(M, Finish(kind)))
        BY <1>6, NextEvent
    <2>. QED
        BY <1>2, <2>1
<1>. QED
    BY <1>3, <1>4, <1>5, <1>6

\* A call is ended and told.
LEMMA CallRunsOn ==
    ASSUME NEW L, NEW events, NEW S, NEW E, NEW T, Runs(L, events, S, E, T),
           NEW id, NEW args, <<"tool", id>> \in S \ E, id \notin T
    PROVE  Runs(L, events \o <<End("tool", id), Call(id, args)>>,
                S, E \cup {<<"tool", id>>}, T \cup {id})
<1>. Sequential(L) /\ Sequential(events) /\ Reaches(L \o events, S, E, T)
    BY DEF Runs
<1>. PICK M : M = L \o events
    OBVIOUS
<1>1. ASSUME NEW a, NEW b, NEW SS, NEW EE, NEW TT, Reaches(Append(Append(M, a), b), SS, EE, TT)
      PROVE  Runs(L, events \o <<a, b>>, SS, EE, TT)
    <2>1. TwoSteps(L, events, a, b)
        BY TwoStepsOn
    <2>. QED
        BY <1>1, <2>1 DEF TwoSteps, Runs
<1>. PICK a, b : a = End("tool", id) /\ b = Call(id, args)
    OBVIOUS
<1>2. Reaches(Append(M, a), S, E \cup {<<"tool", id>>}, T)
    BY NextEvent
<1>3. Reaches(Append(Append(M, a), b), S, E \cup {<<"tool", id>>}, T \cup {id})
    BY <1>2, NextEvent
<1>. QED
    BY <1>1, <1>3

\* A text is begun with its first piece.
LEMMA TextRunsOn ==
    ASSUME NEW L, NEW events, NEW S, NEW E, NEW T, Runs(L, events, S, E, T),
           NEW kind, NEW id, NEW data, <<kind, id>> \notin S, <<kind, id>> \notin E
    PROVE  Runs(L, events \o <<Start(kind, id), Delta(kind, id, data)>>,
                S \cup {<<kind, id>>}, E, T)
<1>. Sequential(L) /\ Sequential(events) /\ Reaches(L \o events, S, E, T)
    BY DEF Runs
<1>. PICK M : M = L \o events
    OBVIOUS
<1>1. ASSUME NEW a, NEW b, NEW SS, NEW EE, NEW TT, Reaches(Append(Append(M, a), b), SS, EE, TT)
      PROVE  Runs(L, events \o <<a, b>>, SS, EE, TT)
    <2>1. TwoSteps(L, events, a, b)
        BY TwoStepsOn
    <2>. QED
        BY <1>1, <2>1 DEF TwoSteps, Runs
<1>. PICK a, b : a = Start(kind, id) /\ b = Delta(kind, id, data)
    OBVIOUS
<1>2. Reaches(Append(M, a), S \cup {<<kind, id>>}, E, T)
    BY NextEvent
<1>3. Reaches(Append(Append(M, a), b), S \cup {<<kind, id>>}, E, T)
    BY <1>2, NextEvent
<1>. QED
    BY <1>1, <1>3

\* Three sequences, whichever two come first.
Regrouped(s, t, u) == Sequential(s \o t) /\ Sequential(t \o u) /\ s \o (t \o u) = (s \o t) \o u

LEMMA Regrouping ==
    ASSUME NEW s, NEW t, NEW u, Sequential(s), Sequential(t), Sequential(u)
    PROVE  Regrouped(s, t, u)
BY Joining, JoinsAssociate DEF Joins, Regrouped

\* The first members of a sequence, and one more.
LEMMA Growing ==
    ASSUME NEW s, Sequential(s), NEW i \in 1..Len(s)
    PROVE  /\ Sequential(SubSeq(s, 1, i - 1))
           /\ SubSeq(s, 1, i) = SubSeq(s, 1, i - 1) \o <<s[i]>>
<1>1. PICK S : s \in Seq(S)
    BY DEF Sequential
<1>2. Len(s) \in Nat /\ s[i] \in S
    BY <1>1, ElementOfSeq
<1>. DEFINE u == SubSeq(s, 1, i)
            v == SubSeq(s, 1, i - 1)
<1>3. u \in Seq(S) /\ Len(u) = i /\ \A n \in 1..i : u[n] = s[n]
    BY <1>1, <1>2
<1>4. v \in Seq(S) /\ Len(v) = i - 1 /\ \A n \in 1..i - 1 : v[n] = s[n]
    BY <1>1, <1>2
<1>. HIDE DEF u, v
<1>5. Append(v, s[i]) \in Seq(S) /\ Len(Append(v, s[i])) = i
    BY <1>2, <1>4
<1>6. Sequential(v)
    BY <1>4 DEF Sequential
<1>7. Append(v, s[i])[i] = s[i] /\ \A n \in 1..i - 1 : Append(v, s[i])[n] = v[n]
    BY <1>2, <1>4, <1>6
<1>8. \A n \in 1..i : u[n] = Append(v, s[i])[n]
    <2>1. \A n \in 1..i : n = i \/ n \in 1..i - 1
        BY <1>2
    <2>. QED
        BY <1>3, <1>4, <1>7, <2>1
<1>9. u = Append(v, s[i])
    BY <1>3, <1>5, <1>8, SeqEqual
<1>10. Append(v, s[i]) = v \o <<s[i]>>
    BY <1>6, Appended
<1>. QED
    BY <1>6, <1>9, <1>10 DEF u, v
-----------------------------------------------------------------------------
(* The assembler.                                                          *)

\* The entries are the calls whose input is begun and not ended; the input of
\* the others is ended, and they are told.
CallsMatch(entries, S, E, T) ==
    /\ Sequential(entries)
    /\ \A n \in 1..Len(entries) :
          /\ entries[n] = [id |-> entries[n].id, args |-> entries[n].args]
          /\ <<"tool", entries[n].id>> \in S \ E
    /\ \A m, n \in 1..Len(entries) : entries[m].id = entries[n].id => m = n
    /\ \A k \in S \ E : k[1] = "tool" => \E n \in 1..Len(entries) : k = <<"tool", entries[n].id>>
    /\ E \subseteq S
    /\ \A k \in E : k[1] = "tool" => k[2] \in T
    /\ \A id \in T : <<"tool", id>> \in E

LEMMA NoCalls == CallsMatch(<<>>, {}, {}, {})
BY Nothing DEF CallsMatch

LEMMA CallsStart ==
    ASSUME NEW entries, NEW S, NEW E, NEW T, CallsMatch(entries, S, E, T),
           NEW id, <<"tool", id>> \notin S
    PROVE  CallsMatch(StartEntry(entries, id), S \cup {<<"tool", id>>}, E, T)
<1>. PICK l \in Nat : l = Len(entries) /\ Sequential(entries)
    BY SequenceIs DEF CallsMatch
<1>. PICK next : next = StartEntry(entries, id)
    OBVIOUS
<1>1. /\ Sequential(next) /\ Len(next) = l + 1 /\ next[l + 1] = [id |-> id, args |-> <<>>]
      /\ \A n \in 1..l : next[n] = entries[n]
    BY Appended DEF StartEntry
<1>2. \A n \in 1..l + 1 : n \in 1..l \/ n = l + 1
    OBVIOUS
<1>3. l + 1 \in 1..l + 1 /\ \A n \in 1..l : n \in 1..l + 1
    OBVIOUS
<1>4. <<"tool", id>> \notin E
    BY DEF CallsMatch
<1>5. ASSUME NEW n \in 1..l + 1
      PROVE  /\ next[n] = [id |-> next[n].id, args |-> next[n].args]
             /\ <<"tool", next[n].id>> \in (S \cup {<<"tool", id>>}) \ E
    <2>1. CASE n = l + 1
        BY <1>1, <1>4, <2>1
    <2>2. CASE n # l + 1
        <3>1. n \in 1..l
            BY <2>2
        <3>. QED
            BY <1>1, <3>1 DEF CallsMatch
    <2>. QED
        BY <2>1, <2>2
<1>6. \A n \in 1..l : entries[n].id # id
    BY DEF CallsMatch
<1>7. \A m, n \in 1..l + 1 : next[m].id = next[n].id => m = n
    BY <1>1, <1>2, <1>6 DEF CallsMatch
<1>8. ASSUME NEW k \in (S \cup {<<"tool", id>>}) \ E, k[1] = "tool"
      PROVE  \E n \in 1..l + 1 : k = <<"tool", next[n].id>>
    <2>1. CASE k = <<"tool", id>>
        BY <1>1, <1>3, <2>1
    <2>2. CASE k # <<"tool", id>>
        <3>1. PICK n \in 1..l : k = <<"tool", entries[n].id>>
            BY <1>8, <2>2 DEF CallsMatch
        <3>. QED
            BY <1>1, <1>3, <3>1
    <2>. QED
        BY <2>1, <2>2
<1>9. CallsMatch(next, S \cup {<<"tool", id>>}, E, T)
    BY <1>1, <1>5, <1>7, <1>8 DEF CallsMatch
<1>. QED
    BY <1>9

LEMMA CallsTakeArgs ==
    ASSUME NEW entries, NEW S, NEW E, NEW T, CallsMatch(entries, S, E, T), NEW id, NEW piece
    PROVE  CallsMatch(AppendArgs(entries, id, piece), S, E, T)
<1>. PICK l \in Nat : l = Len(entries) /\ Sequential(entries) /\ DOMAIN entries = 1..l
    BY SequenceIs DEF CallsMatch
<1>. PICK next : next = AppendArgs(entries, id, piece)
    OBVIOUS
<1>1. next = [n \in 1..l |-> next[n]]
    BY DEF AppendArgs
<1>2. Sequential(next) /\ Len(next) = l
    BY <1>1, FunctionIsSequence
<1>3. ASSUME NEW n \in 1..l
      PROVE  /\ next[n] = [id |-> next[n].id, args |-> next[n].args]
             /\ next[n].id = entries[n].id
    <2>1. entries[n] = [id |-> entries[n].id, args |-> entries[n].args]
        BY DEF CallsMatch
    <2>2. next[n] = IF entries[n].id = id
                    THEN [entries[n] EXCEPT !.args = Append(entries[n].args, piece)]
                    ELSE entries[n]
        BY DEF AppendArgs
    <2>. QED
        BY <2>1, <2>2
<1>4. \A n \in 1..l : <<"tool", next[n].id>> \in S \ E
    BY <1>3 DEF CallsMatch
<1>5. \A m, n \in 1..l : next[m].id = next[n].id => m = n
    BY <1>3 DEF CallsMatch
<1>6. ASSUME NEW k \in S \ E, k[1] = "tool"
      PROVE  \E n \in 1..l : k = <<"tool", next[n].id>>
    <2>1. PICK n \in 1..l : k = <<"tool", entries[n].id>>
        BY <1>6 DEF CallsMatch
    <2>. QED
        BY <1>3, <2>1
<1>7. /\ E \subseteq S
      /\ \A k \in E : k[1] = "tool" => k[2] \in T
      /\ \A i \in T : <<"tool", i>> \in E
    BY DEF CallsMatch
<1>8. \A n \in 1..l : next[n] = [id |-> next[n].id, args |-> next[n].args]
    BY <1>3
<1>9. CallsMatch(next, S, E, T)
    BY <1>2, <1>4, <1>5, <1>6, <1>7, <1>8 DEF CallsMatch
<1>. QED
    BY <1>9

\* Texts and reasonings are no calls.
LEMMA CallsStay ==
    ASSUME NEW entries, NEW S, NEW E, NEW T, CallsMatch(entries, S, E, T), NEW begun, NEW ended,
           \A k \in begun \cup ended : k[1] # "tool" /\ \A id : k # <<"tool", id>>,
           ended \subseteq S \cup begun
    PROVE  CallsMatch(entries, S \cup begun, E \cup ended, T)
<1>1. \A n \in 1..Len(entries) : <<"tool", entries[n].id>> \in (S \cup begun) \ (E \cup ended)
    BY DEF CallsMatch
<1>2. ASSUME NEW k \in (S \cup begun) \ (E \cup ended), k[1] = "tool"
      PROVE  \E n \in 1..Len(entries) : k = <<"tool", entries[n].id>>
    <2>1. k \in S \ E
        BY <1>2
    <2>. QED
        BY <1>2, <2>1 DEF CallsMatch
<1>3. /\ E \cup ended \subseteq S \cup begun
      /\ \A k \in E \cup ended : k[1] = "tool" => k[2] \in T
      /\ \A id \in T : <<"tool", id>> \in E \cup ended
    BY DEF CallsMatch
<1>4. /\ Sequential(entries)
      /\ \A n \in 1..Len(entries) : entries[n] = [id |-> entries[n].id, args |-> entries[n].args]
      /\ \A m, n \in 1..Len(entries) : entries[m].id = entries[n].id => m = n
    BY DEF CallsMatch
<1>. QED
    BY <1>1, <1>2, <1>3, <1>4, Zenon DEF CallsMatch

LEMMA CallsApart ==
    ASSUME NEW entries, NEW S, NEW E, NEW T, CallsMatch(entries, S, E, T),
           NEW kind, NEW id, kind # "tool"
    PROVE  /\ CallsMatch(entries, S \cup {<<kind, id>>}, E, T)
           /\ <<kind, id>> \in S => CallsMatch(entries, S, E \cup {<<kind, id>>}, T)
<1>. PICK k : k = <<kind, id>>
    OBVIOUS
<1>1. k[1] # "tool" /\ \A x : k # <<"tool", x>>
    OBVIOUS
<1>2. CallsMatch(entries, S \cup {k}, E \cup {}, T)
    BY <1>1, CallsStay
<1>3. ASSUME k \in S
      PROVE  CallsMatch(entries, S \cup {}, E \cup {k}, T)
    <2>1. \A j \in {} \cup {k} : j[1] # "tool" /\ \A x : j # <<"tool", x>>
        BY <1>1
    <2>2. {k} \subseteq S \cup {}
        BY <1>3
    <2>. QED
        BY <2>1, <2>2, CallsStay
<1>4. E \cup {} = E /\ S \cup {} = S
    OBVIOUS
<1>. QED
    BY <1>2, <1>3, <1>4

\* finishAll ends and tells every call.
Keyed(entries) == {<<"tool", entries[n].id>> : n \in 1..Len(entries)}
Named(entries) == {entries[n].id : n \in 1..Len(entries)}

LEMMA CallsAllEnd ==
    ASSUME NEW L, NEW events, NEW S, NEW E, NEW T, Runs(L, events, S, E, T),
           NEW entries, CallsMatch(entries, S, E, T)
    PROVE  /\ Sequential(EndAll(entries))
           /\ Runs(L, events \o EndAll(entries), S, E \cup Keyed(entries), T \cup Named(entries))
           /\ CallsMatch(<<>>, S, E \cup Keyed(entries), T \cup Named(entries))
           /\ \A k \in S : k[1] = "tool" => k \in E \cup Keyed(entries)
<1>. PICK l \in Nat : l = Len(entries) /\ Sequential(entries) /\ DOMAIN entries = 1..l
    BY SequenceIs DEF CallsMatch
<1>. Sequential(L) /\ Sequential(events)
    BY DEF Runs
<1>. DEFINE w == [n \in 1..l |-> EntryEvents(entries[n])]
<1>1. Sequential(w) /\ Len(w) = l
    BY FunctionIsSequence
<1>2. \A n \in 1..l : w[n] = EntryEvents(entries[n])
    OBVIOUS
<1>3. EndAll(entries) = FlattenSeq(w)
    BY DEF EndAll
<1>. HIDE DEF w
<1>4. ASSUME NEW n \in 1..l
      PROVE  Sequential(w[n])
    <2>1. Sequential(EntryEvents(entries[n]))
        BY Pair DEF EntryEvents
    <2>. QED
        BY <1>2, <2>1
<1>5. PICK f : Stages(f, w, l) /\ FlattenSeq(w) = f[l] /\ \A i \in 0..l : Sequential(f[i])
    BY <1>1, <1>4, Flattening
<1>. DEFINE K(i) == {<<"tool", entries[n].id>> : n \in 1..i}
            I(i) == {entries[n].id : n \in 1..i}
            Done == {i \in 0..l : Runs(L, events \o f[i], S, E \cup K(i), T \cup I(i))}
<1>6. 0 \in Done
    <2>1. f[0] = <<>> /\ K(0) = {} /\ I(0) = {}
        BY <1>5 DEF Stages
    <2>2. events \o f[0] = events
        BY <2>1, Nothing
    <2>3. 0 \in 0..l
        OBVIOUS
    <2>. HIDE DEF K, I
    <2>. QED
        BY <2>1, <2>2, <2>3
<1>7. ASSUME NEW i \in 1..l, i - 1 \in Done
      PROVE  i \in Done
    <2>. DEFINE id == entries[i].id
    <2>1. i - 1 \in 0..l /\ i \in 0..l
        OBVIOUS
    <2>2. Runs(L, events \o f[i - 1], S, E \cup K(i - 1), T \cup I(i - 1))
        BY <1>7
    <2>3. K(i) = K(i - 1) \cup {<<"tool", id>>} /\ I(i) = I(i - 1) \cup {id}
        <3>1. \A n \in 1..i : n \in 1..i - 1 \/ n = i
            OBVIOUS
        <3>2. \A n \in 1..i - 1 : n \in 1..i
            OBVIOUS
        <3>3. i \in 1..i
            OBVIOUS
        <3>. QED
            BY <3>1, <3>2, <3>3
    <2>4. /\ <<"tool", id>> \in S \ (E \cup K(i - 1))
          /\ id \notin T \cup I(i - 1)
        <3>1. \A n \in 1..i - 1 : n \in 1..l /\ n # i
            OBVIOUS
        <3>2. \A n \in 1..i - 1 : entries[n].id # id
            BY <3>1 DEF CallsMatch
        <3>3. <<"tool", id>> \in S \ E /\ id \notin T
            BY DEF CallsMatch
        <3>. QED
            BY <3>2, <3>3
    <2>. HIDE DEF K, I
    <2>5. Runs(L, (events \o f[i - 1]) \o EntryEvents(entries[i]), S, (E \cup K(i - 1)) \cup {<<"tool", id>>},
               (T \cup I(i - 1)) \cup {id})
        BY <2>2, <2>4, CallRunsOn DEF EntryEvents
    <2>6. (E \cup K(i - 1)) \cup {<<"tool", id>>} = E \cup K(i)
          /\ (T \cup I(i - 1)) \cup {id} = T \cup I(i)
        BY <2>3
    <2>7. events \o f[i] = (events \o f[i - 1]) \o EntryEvents(entries[i])
        <3>1. f[i] = f[i - 1] \o w[i]
            BY <1>5 DEF Stages
        <3>2. Sequential(f[i - 1]) /\ Sequential(w[i])
            BY <1>4, <1>5, <2>1
        <3>3. Regrouped(events, f[i - 1], w[i])
            BY <3>2, Regrouping
        <3>. QED
            BY <1>2, <3>1, <3>3 DEF Regrouped
    <2>. QED
        BY <2>1, <2>5, <2>6, <2>7
<1>8. l \in Done
    <2>1. l \in 0..l
        OBVIOUS
    <2>. HIDE DEF Done
    <2>. QED
        BY <1>6, <1>7, <2>1, Climbing
<1>9. K(l) = Keyed(entries) /\ I(l) = Named(entries)
    BY DEF Keyed, Named
<1>10. Runs(L, events \o EndAll(entries), S, E \cup Keyed(entries), T \cup Named(entries))
    <2>. HIDE DEF K, I
    <2>. QED
        BY <1>3, <1>5, <1>8, <1>9
<1>11. Sequential(EndAll(entries))
    <2>1. l \in 0..l
        OBVIOUS
    <2>. QED
        BY <1>3, <1>5, <2>1
<1>12. \A k \in S : k[1] = "tool" => k \in E \cup Keyed(entries)
    BY DEF Keyed, CallsMatch
<1>13. CallsMatch(<<>>, S, E \cup Keyed(entries), T \cup Named(entries))
    <2>1. ASSUME NEW k \in Keyed(entries)
          PROVE  k \in S /\ k[1] = "tool" /\ k[2] \in Named(entries)
        <3>1. PICK n \in 1..l : k = <<"tool", entries[n].id>>
            BY <2>1 DEF Keyed
        <3>2. <<"tool", entries[n].id>> \in S
            BY DEF CallsMatch
        <3>. QED
            BY <3>1, <3>2 DEF Named
    <2>2. \A id \in Named(entries) : <<"tool", id>> \in Keyed(entries)
        BY DEF Keyed, Named
    <2>. QED
        BY <1>12, <2>1, <2>2, Nothing DEF CallsMatch
<1>. QED
    BY <1>10, <1>11, <1>12, <1>13

\* finish ends and tells one call, when it is open.
LEMMA CallEnds1 ==
    ASSUME NEW L, NEW S, NEW E, NEW T, Reaches(L, S, E, T),
           NEW entries, CallsMatch(entries, S, E, T), NEW id, IsOpen(entries, id)
    PROVE  /\ Runs(L, EntryEvents(Entry(entries, id)), S, E \cup {<<"tool", id>>}, T \cup {id})
           /\ CallsMatch(Without(entries, id), S, E \cup {<<"tool", id>>}, T \cup {id})
<1>. PICK l \in Nat : l = Len(entries) /\ Sequential(entries) /\ DOMAIN entries = 1..l
    BY SequenceIs DEF CallsMatch
<1>1. PICK o \in 1..l : Entry(entries, id) = entries[o] /\ entries[o].id = id
    BY DEF IsOpen, Entry
<1>2. <<"tool", id>> \in S \ E /\ id \notin T
    BY <1>1 DEF CallsMatch
<1>3. Runs(L, EntryEvents(Entry(entries, id)), S, E \cup {<<"tool", id>>}, T \cup {id})
    <2>1. Runs(L, <<>>, S, E, T)
        BY NoEvents
    <2>2. Runs(L, <<>> \o EntryEvents(entries[o]), S, E \cup {<<"tool", id>>}, T \cup {id})
        BY <1>1, <1>2, <2>1, CallRunsOn DEF EntryEvents
    <2>3. Sequential(EntryEvents(entries[o]))
        BY Pair DEF EntryEvents
    <2>4. <<>> \o EntryEvents(entries[o]) = EntryEvents(entries[o])
        BY <2>3, Nothing
    <2>. QED
        BY <1>1, <2>2, <2>4
<1>. DEFINE X == {n \in 1..l : entries[n].id # id}
            rest == Without(entries, id)
<1>4. rest = Picked(entries, X)
    <2>1. [n \in 1..l |-> IF entries[n].id # id THEN <<entries[n]>> ELSE <<>>]
            = [n \in 1..l |-> IF n \in X THEN <<entries[n]>> ELSE <<>>]
        OBVIOUS
    <2>. QED
        BY <2>1 DEF Without, Select, Picked
<1>5. Part(rest, entries, X)
    BY <1>4, Parting
<1>6. Sequential(rest) /\ Len(rest) \in Nat
    BY <1>5, SequenceIs DEF Part
<1>. HIDE DEF rest
<1>7. PICK p : /\ p \in [1..Len(rest) -> X]
               /\ \A i, j \in 1..Len(rest) : p[i] = p[j] => i = j
               /\ \A x \in X : \E i \in 1..Len(rest) : p[i] = x
               /\ \A i \in 1..Len(rest) : rest[i] = entries[p[i]]
    <2>. HIDE DEF X
    <2>. QED
        BY <1>5 DEF Part
<1>8. \A i \in 1..Len(rest) : p[i] \in 1..l /\ entries[p[i]].id # id
    BY <1>7
<1>9. ASSUME NEW n \in 1..Len(rest)
      PROVE  /\ rest[n] = [id |-> rest[n].id, args |-> rest[n].args]
             /\ <<"tool", rest[n].id>> \in S \ (E \cup {<<"tool", id>>})
    <2>1. rest[n] = entries[p[n]] /\ p[n] \in 1..l /\ entries[p[n]].id # id
        BY <1>7, <1>8
    <2>2. /\ entries[p[n]] = [id |-> entries[p[n]].id, args |-> entries[p[n]].args]
          /\ <<"tool", entries[p[n]].id>> \in S \ E
        BY <2>1 DEF CallsMatch
    <2>. QED
        BY <2>1, <2>2
<1>10. ASSUME NEW m \in 1..Len(rest), NEW n \in 1..Len(rest), rest[m].id = rest[n].id
       PROVE  m = n
    <2>1. entries[p[m]].id = entries[p[n]].id /\ p[m] \in 1..l /\ p[n] \in 1..l
        BY <1>7, <1>8, <1>10
    <2>2. p[m] = p[n]
        BY <2>1 DEF CallsMatch
    <2>. QED
        BY <1>7, <2>2
<1>11. ASSUME NEW k \in S \ (E \cup {<<"tool", id>>}), k[1] = "tool"
       PROVE  \E n \in 1..Len(rest) : k = <<"tool", rest[n].id>>
    <2>1. PICK m \in 1..l : k = <<"tool", entries[m].id>>
        BY <1>11 DEF CallsMatch
    <2>2. m \in X
        BY <1>11, <2>1
    <2>3. PICK n \in 1..Len(rest) : p[n] = m
        BY <1>7, <2>2
    <2>. QED
        BY <1>7, <2>1, <2>3
<1>12. /\ E \cup {<<"tool", id>>} \subseteq S
       /\ \A k \in E \cup {<<"tool", id>>} : k[1] = "tool" => k[2] \in T \cup {id}
       /\ \A i \in T \cup {id} : <<"tool", i>> \in E \cup {<<"tool", id>>}
    BY <1>2 DEF CallsMatch
<1>13. CallsMatch(rest, S, E \cup {<<"tool", id>>}, T \cup {id})
    <2>. HIDE DEF X
    <2>. QED
        BY <1>6, <1>9, <1>10, <1>11, <1>12 DEF CallsMatch
<1>. QED
    BY <1>3, <1>13 DEF rest

\* Texts and reasonings that end together.
TextKeys(gone) == {<<gone[n].kind, gone[n].id>> : n \in 1..Len(gone)}
EndsOf(gone)   == [n \in DOMAIN gone |-> End(gone[n].kind, gone[n].id)]

LEMMA TextsEnd ==
    ASSUME NEW L, NEW events, NEW S, NEW E, NEW T, Runs(L, events, S, E, T),
           NEW entries, CallsMatch(entries, S, E, T),
           NEW gone, Sequential(gone),
           \A n \in 1..Len(gone) : gone[n].kind # "tool" /\ <<gone[n].kind, gone[n].id>> \in S \ E,
           \A m, n \in 1..Len(gone) :
               gone[m].kind = gone[n].kind /\ gone[m].id = gone[n].id => m = n
    PROVE  /\ Sequential(EndsOf(gone))
           /\ Runs(L, events \o EndsOf(gone), S, E \cup TextKeys(gone), T)
           /\ CallsMatch(entries, S, E \cup TextKeys(gone), T)
<1>. PICK l \in Nat : l = Len(gone) /\ DOMAIN gone = 1..l
    BY SequenceIs
<1>. Sequential(L) /\ Sequential(events)
    BY DEF Runs
<1>. DEFINE ends == EndsOf(gone)
<1>1. Sequential(ends) /\ Len(ends) = l
    BY FunctionIsSequence DEF EndsOf
<1>2. \A n \in 1..l : ends[n] = End(gone[n].kind, gone[n].id)
    BY DEF EndsOf
<1>. HIDE DEF ends
<1>. DEFINE K(i) == {<<gone[n].kind, gone[n].id>> : n \in 1..i}
            Done == {i \in 0..l : Runs(L, events \o SubSeq(ends, 1, i), S, E \cup K(i), T)}
<1>3. 0 \in Done
    <2>1. SubSeq(ends, 1, 0) = <<>> /\ K(0) = {}
        <3>1. PICK D : ends \in Seq(D)
            BY <1>1 DEF Sequential
        <3>. QED
            BY <3>1, SubSeqEmpty
    <2>2. events \o <<>> = events
        BY Nothing
    <2>3. 0 \in 0..l
        OBVIOUS
    <2>. HIDE DEF K
    <2>. QED
        BY <2>1, <2>2, <2>3
<1>4. ASSUME NEW i \in 1..l, i - 1 \in Done
      PROVE  i \in Done
    <2>. DEFINE head == SubSeq(ends, 1, i - 1)
                kind == gone[i].kind
                id   == gone[i].id
    <2>1. Runs(L, events \o head, S, E \cup K(i - 1), T)
        BY <1>4
    <2>2. K(i) = K(i - 1) \cup {<<kind, id>>}
        <3>1. \A n \in 1..i : n \in 1..i - 1 \/ n = i
            OBVIOUS
        <3>2. \A n \in 1..i - 1 : n \in 1..i
            OBVIOUS
        <3>3. i \in 1..i
            OBVIOUS
        <3>. QED
            BY <3>1, <3>2, <3>3
    <2>3. <<kind, id>> \in S \ (E \cup K(i - 1))
        <3>1. \A n \in 1..i - 1 : n \in 1..l /\ n # i
            OBVIOUS
        <3>2. \A n \in 1..i - 1 : <<gone[n].kind, gone[n].id>> # <<kind, id>>
            BY <3>1
        <3>. QED
            BY <3>2
    <2>. HIDE DEF K
    <2>4. Runs(L, (events \o head) \o <<End(kind, id)>>, S, (E \cup K(i - 1)) \cup {<<kind, id>>}, T)
        BY <2>1, <2>3, RunsOn
    <2>5. (E \cup K(i - 1)) \cup {<<kind, id>>} = E \cup K(i)
        BY <2>2
    <2>6. Sequential(head) /\ SubSeq(ends, 1, i) = head \o <<End(kind, id)>>
        BY <1>1, <1>2, Growing
    <2>7. Regrouped(events, head, <<End(kind, id)>>)
        BY <2>6, OneElement, Regrouping
    <2>8. i \in 0..l
        OBVIOUS
    <2>. QED
        BY <2>4, <2>5, <2>6, <2>7, <2>8 DEF Regrouped
<1>5. l \in Done
    <2>1. l \in 0..l
        OBVIOUS
    <2>. HIDE DEF Done
    <2>. QED
        BY <1>3, <1>4, <2>1, Climbing
<1>6. SubSeq(ends, 1, l) = ends /\ K(l) = TextKeys(gone)
    BY <1>1, Beginnings DEF TextKeys
<1>7. Runs(L, events \o ends, S, E \cup TextKeys(gone), T)
    <2>. HIDE DEF K
    <2>. QED
        BY <1>5, <1>6
<1>8. CallsMatch(entries, S, E \cup TextKeys(gone), T)
    <2>1. ASSUME NEW k \in TextKeys(gone)
          PROVE  k \in S /\ k[1] # "tool" /\ \A id : k # <<"tool", id>>
        <3>1. PICK n \in 1..l : k = <<gone[n].kind, gone[n].id>>
            BY <2>1 DEF TextKeys
        <3>. QED
            BY <3>1
    <2>. QED
        <3>1. CallsMatch(entries, S \cup {}, E \cup TextKeys(gone), T)
            BY <2>1, CallsStay
        <3>. QED
            BY <3>1
<1>. QED
    BY <1>1, <1>7, <1>8 DEF ends

-----------------------------------------------------------------------------
(* Chat completions.                                                       *)

Texts == {"text", "reasoning"}

\* The decoder's fields are those of its record, and hold what the log has
\* come to: the text and the reasoning that are open, the numbers given out and
\* the calls that were begun.
ChatMatch(d, S, E, T) ==
    /\ d = [entries |-> d.entries, known |-> d.known, open |-> d.open,
            started |-> d.started, reason |-> d.reason]
    /\ d.open = [kind \in Texts |-> d.open[kind]]
    /\ d.started = [kind \in Texts |-> d.started[kind]]
    /\ CallsMatch(d.entries, S, E, T)
    /\ \A kind \in Texts :
          /\ d.started[kind] \in Nat
          /\ d.open[kind] # 0 => <<kind, d.open[kind]>> \in S \ E
          /\ \A n \in Nat : n > d.started[kind] => <<kind, n>> \notin S
    /\ \A k \in S \ E : k[1] # "tool" =>
          \E kind \in Texts : d.open[kind] # 0 /\ k = <<kind, d.open[kind]>>
    /\ \A id : /\ <<"tool", id>> \in S => id \in d.known
               /\ id \in d.known => <<"tool", id>> \in S \ E

\* What a part of the handler has come to.
ChatGoes(L, r) ==
    /\ r = [state |-> r.state, events |-> r.events, error |-> "none"]
    /\ \E S, E, T : Runs(L, r.events, S, E, T) /\ ChatMatch(r.state, S, E, T)

LEMMA ChatSame ==
    /\ \A s, e : O!Emits(s, e) = Emits(s, e) /\ O!Fails(s, e) = Fails(s, e)
    /\ \A k, i, d : /\ O!Start(k, i) = Start(k, i) /\ O!End(k, i) = End(k, i)
                    /\ O!Delta(k, i, d) = Delta(k, i, d)
                    /\ O!Finish(k) = Finish(k)
    /\ \A e, i, p : /\ O!StartEntry(e, i) = StartEntry(e, i)
                    /\ O!AppendArgs(e, i, p) = AppendArgs(e, i, p)
    /\ \A s : O!FinishCalls(s) = FinishCalls(s)
<1>1. \A s, e : O!Emits(s, e) = Emits(s, e) /\ O!Fails(s, e) = Fails(s, e)
    BY DEF O!Emits, Emits, O!Fails, Fails
<1>2. \A k, i, d : /\ O!Start(k, i) = Start(k, i) /\ O!End(k, i) = End(k, i)
                   /\ O!Delta(k, i, d) = Delta(k, i, d)
                   /\ O!Finish(k) = Finish(k)
    BY DEF O!Start, Start, O!End, End, O!Delta, Delta, O!Finish, Finish, O!Event, Event
<1>3. \A e, i, p : /\ O!StartEntry(e, i) = StartEntry(e, i)
                   /\ O!AppendArgs(e, i, p) = AppendArgs(e, i, p)
    BY DEF O!StartEntry, StartEntry, O!AppendArgs, AppendArgs
<1>4. \A s : O!FinishCalls(s) = FinishCalls(s)
    <2>1. \A e : O!EndAll(e) = EndAll(e)
        BY DEF O!EndAll, EndAll, O!EntryEvents, EntryEvents, O!End, End, O!Call, Call,
               O!Event, Event, O!FlattenSeq, FlattenSeq
    <2>2. \A e : O!AllParse(e) = AllParse(e)
        BY DEF O!AllParse, AllParse, O!Parses, Parses
    <2>. QED
        BY <1>1, <2>1, <2>2 DEF O!FinishCalls, FinishCalls
<1>. QED
    BY <1>1, <1>2, <1>3, <1>4

LEMMA ChatStarts == \A d : d = O!Decoder => ChatMatch(d, {}, {}, {})
BY NoCalls DEF O!Decoder, ChatMatch, Texts

LEMMA ChatCloses ==
    ASSUME NEW L, NEW r, ChatGoes(L, r), NEW kind \in Texts
    PROVE  /\ ChatGoes(L, O!Close(r, kind))
           /\ O!Close(r, kind).state.open[kind] = 0
           /\ \A other \in Texts \ {kind} :
                 O!Close(r, kind).state.open[other] = r.state.open[other]
<1>. PICK S, E, T : Runs(L, r.events, S, E, T) /\ ChatMatch(r.state, S, E, T)
    BY DEF ChatGoes
<1>. DEFINE d == r.state
            id == d.open[kind]
<1>1. CASE id = 0
    BY <1>1 DEF O!Close
<1>2. CASE id # 0
    <2>. DEFINE next == [d EXCEPT !.open[kind] = 0]
    <2>1. next = [entries |-> d.entries, known |-> d.known,
                  open |-> [k \in Texts |-> IF k = kind THEN 0 ELSE d.open[k]],
                  started |-> d.started, reason |-> d.reason]
        BY DEF ChatMatch
    <2>2. O!Close(r, kind) = [state |-> next, events |-> r.events \o <<End(kind, id)>>, error |-> "none"]
        BY <1>2, ChatSame DEF O!Close, O!Plus, Emits
    <2>. HIDE DEF next
    <2>3. <<kind, id>> \in S \ E
        BY <1>2 DEF ChatMatch
    <2>4. Runs(L, r.events \o <<End(kind, id)>>, S, E \cup {<<kind, id>>}, T)
        BY <2>3, RunsOn
    <2>5. CallsMatch(d.entries, S, E \cup {<<kind, id>>}, T)
        <3>1. kind # "tool" /\ CallsMatch(d.entries, S, E, T)
            BY DEF Texts, ChatMatch
        <3>. QED
            BY <2>3, <3>1, CallsApart
    <2>6. ChatMatch(next, S, E \cup {<<kind, id>>}, T)
        <3>1. \A k \in Texts : k # kind => <<k, d.open[k]>> # <<kind, id>>
            OBVIOUS
        <3>2. \A k \in Texts :
                /\ next.started[k] \in Nat
                /\ next.open[k] # 0 => <<k, next.open[k]>> \in S \ (E \cup {<<kind, id>>})
                /\ \A n \in Nat : n > next.started[k] => <<k, n>> \notin S
            BY <2>1, <3>1 DEF ChatMatch
        <3>3. ASSUME NEW k \in S \ (E \cup {<<kind, id>>}), k[1] # "tool"
              PROVE  \E o \in Texts : next.open[o] # 0 /\ k = <<o, next.open[o]>>
            <4>1. PICK o \in Texts : d.open[o] # 0 /\ k = <<o, d.open[o]>>
                BY <3>3 DEF ChatMatch
            <4>2. o # kind
                BY <3>3, <4>1
            <4>. QED
                BY <2>1, <4>1, <4>2
        <3>4. \A x : /\ <<"tool", x>> \in S => x \in next.known
                     /\ x \in next.known => <<"tool", x>> \in S \ (E \cup {<<kind, id>>})
            <4>1. \A x : <<"tool", x>> # <<kind, id>>
                BY DEF Texts
            <4>. QED
                BY <2>1, <4>1 DEF ChatMatch
        <3>. QED
            BY <2>1, <2>5, <3>2, <3>3, <3>4 DEF ChatMatch
    <2>7. ChatGoes(L, O!Close(r, kind))
        BY <2>2, <2>4, <2>6 DEF ChatGoes
    <2>. QED
        BY <2>1, <2>2, <2>7
<1>. QED
    BY <1>1, <1>2

\* The parts of the handler that begin or extend something.
ChatNumber(r, kind) == r.state.started[kind] + 1
ChatOpened(r, kind) ==
    O!Plus(r, [r.state EXCEPT !.started[kind] = ChatNumber(r, kind),
                              !.open[kind] = ChatNumber(r, kind)],
           <<O!Start(kind, ChatNumber(r, kind))>>)
ChatSaid(r, kind, piece) ==
    O!Plus(r, r.state, <<O!Delta(kind, r.state.open[kind], piece)>>)
ChatBegun(r, id) ==
    O!Plus(r, [r.state EXCEPT !.known = @ \cup {id}, !.entries = O!StartEntry(@, id)],
           <<O!Start("tool", id)>>)
ChatGiven(r, id, piece) ==
    O!Plus(r, [r.state EXCEPT !.entries = O!AppendArgs(@, id, piece)],
           <<O!Delta("tool", id, piece)>>)

LEMMA ChatOpens ==
    ASSUME NEW L, NEW r, ChatGoes(L, r), NEW kind \in Texts, r.state.open[kind] = 0
    PROVE  /\ ChatGoes(L, ChatOpened(r, kind))
           /\ ChatOpened(r, kind).state.open[kind] # 0
<1>. PICK S, E, T : Runs(L, r.events, S, E, T) /\ ChatMatch(r.state, S, E, T)
    BY DEF ChatGoes
<1>. DEFINE d == r.state
            n == ChatNumber(r, kind)
            k == <<kind, n>>
            next == [d EXCEPT !.started[kind] = n, !.open[kind] = n]
<1>0. n \in Nat \ {0} /\ n > d.started[kind] /\ d.started[kind] \in Nat
    <2>1. d.started[kind] \in Nat
        BY DEF ChatMatch
    <2>. QED
        BY <2>1 DEF ChatNumber
<1>. HIDE DEF n
<1>1. next = [entries |-> d.entries, known |-> d.known,
              open |-> [o \in Texts |-> IF o = kind THEN n ELSE d.open[o]],
              started |-> [o \in Texts |-> IF o = kind THEN n ELSE d.started[o]],
              reason |-> d.reason]
    <2>1. /\ d = [entries |-> d.entries, known |-> d.known, open |-> d.open,
                  started |-> d.started, reason |-> d.reason]
          /\ d.open = [o \in Texts |-> d.open[o]] /\ d.started = [o \in Texts |-> d.started[o]]
        BY DEF ChatMatch
    <2>. DEFINE c == [d EXCEPT !.started[kind] = n]
    <2>. HIDE DEF d
    <2>2. c = [entries |-> d.entries, known |-> d.known, open |-> d.open,
               started |-> [o \in Texts |-> IF o = kind THEN n ELSE d.started[o]],
               reason |-> d.reason]
        BY <2>1
    <2>3. next = [c EXCEPT !.open[kind] = n]
        BY <2>1
    <2>. HIDE DEF c, next
    <2>4. [c EXCEPT !.open[kind] = n]
            = [entries |-> d.entries, known |-> d.known,
               open |-> [o \in Texts |-> IF o = kind THEN n ELSE d.open[o]],
               started |-> [o \in Texts |-> IF o = kind THEN n ELSE d.started[o]],
               reason |-> d.reason]
        BY <2>1, <2>2
    <2>. QED
        BY <2>3, <2>4
<1>2. ChatOpened(r, kind)
        = [state |-> next, events |-> r.events \o <<Start(kind, n)>>, error |-> "none"]
    BY ChatSame DEF ChatOpened, O!Plus, Emits, n
<1>. HIDE DEF next
<1>3. k \notin S /\ k \notin E
    BY <1>0 DEF ChatMatch, CallsMatch
<1>4. Runs(L, r.events \o <<Start(kind, n)>>, S \cup {k}, E, T)
    BY <1>3, RunsOn
<1>5. CallsMatch(d.entries, S \cup {k}, E, T)
    <2>1. kind # "tool" /\ CallsMatch(d.entries, S, E, T)
        BY DEF Texts, ChatMatch
    <2>. QED
        BY <2>1, CallsApart
<1>6. \A o \in Texts :
        /\ next.started[o] \in Nat
        /\ next.open[o] # 0 => <<o, next.open[o]>> \in (S \cup {k}) \ E
        /\ \A m \in Nat : m > next.started[o] => <<o, m>> \notin S \cup {k}
    <2>1. ASSUME NEW o \in Texts, o # kind
          PROVE  next.started[o] = d.started[o] /\ next.open[o] = d.open[o] /\ \A m : <<o, m>> # k
        BY <1>1, <2>1
    <2>2. next.started[kind] = n /\ next.open[kind] = n
        BY <1>1
    <2>3. ASSUME NEW m \in Nat, m > n PROVE <<kind, m>> \notin S \cup {k}
        <3>1. m > d.started[kind] /\ m # n
            BY <1>0, <2>3
        <3>. QED
            BY <3>1 DEF ChatMatch
    <2>4. \A o \in Texts : o # kind =>
            /\ next.started[o] \in Nat
            /\ next.open[o] # 0 => <<o, next.open[o]>> \in (S \cup {k}) \ E
            /\ \A m \in Nat : m > next.started[o] => <<o, m>> \notin S \cup {k}
        BY <2>1 DEF ChatMatch
    <2>. QED
        BY <1>0, <1>3, <2>2, <2>3, <2>4
<1>7. ASSUME NEW j \in (S \cup {k}) \ E, j[1] # "tool"
      PROVE  \E o \in Texts : next.open[o] # 0 /\ j = <<o, next.open[o]>>
    <2>1. CASE j = k
        BY <1>0, <1>1, <2>1
    <2>2. CASE j # k
        <3>1. PICK o \in Texts : d.open[o] # 0 /\ j = <<o, d.open[o]>>
            BY <1>7, <2>2 DEF ChatMatch
        <3>2. o # kind
            BY <3>1
        <3>. QED
            BY <1>1, <3>1, <3>2
    <2>. QED
        BY <2>1, <2>2
<1>8. \A x : /\ <<"tool", x>> \in S \cup {k} => x \in next.known
             /\ x \in next.known => <<"tool", x>> \in (S \cup {k}) \ E
    <2>1. \A x : <<"tool", x>> # k
        BY DEF Texts
    <2>. QED
        BY <1>1, <2>1 DEF ChatMatch
<1>9. ChatMatch(next, S \cup {k}, E, T)
    <2>1. next.open = [o \in Texts |-> next.open[o]] /\ next.started = [o \in Texts |-> next.started[o]]
        BY <1>1
    <2>2. next = [entries |-> next.entries, known |-> next.known, open |-> next.open,
                  started |-> next.started, reason |-> next.reason]
          /\ next.entries = d.entries
        BY <1>1
    <2>. QED
        BY <1>5, <1>6, <1>7, <1>8, <2>1, <2>2 DEF ChatMatch
<1>10. ChatGoes(L, ChatOpened(r, kind))
    BY <1>2, <1>4, <1>9 DEF ChatGoes
<1>. QED
    BY <1>0, <1>1, <1>2, <1>10

LEMMA ChatSays ==
    ASSUME NEW L, NEW r, ChatGoes(L, r), NEW kind \in Texts, r.state.open[kind] # 0, NEW piece
    PROVE  ChatGoes(L, ChatSaid(r, kind, piece))
<1>. PICK S, E, T : Runs(L, r.events, S, E, T) /\ ChatMatch(r.state, S, E, T)
    BY DEF ChatGoes
<1>. DEFINE id == r.state.open[kind]
<1>1. ChatSaid(r, kind, piece)
        = [state |-> r.state, events |-> r.events \o <<Delta(kind, id, piece)>>, error |-> "none"]
    BY ChatSame DEF ChatSaid, O!Plus, Emits
<1>2. <<kind, id>> \in S \ E
    BY DEF ChatMatch
<1>3. Runs(L, r.events \o <<Delta(kind, id, piece)>>, S, E, T)
    BY <1>2, RunsOn
<1>. QED
    BY <1>1, <1>3 DEF ChatGoes

LEMMA ChatExtends ==
    ASSUME NEW L, NEW r, ChatGoes(L, r), NEW kind \in Texts, NEW piece
    PROVE  ChatGoes(L, O!Extend(r, kind, piece))
<1>. DEFINE q == O!Close(r, O!Other(kind))
            o == IF q.state.open[kind] # 0 THEN q ELSE ChatOpened(q, kind)
<1>1. O!Extend(r, kind, piece) = IF piece = "" THEN r ELSE ChatSaid(o, kind, piece)
    BY DEF O!Extend, ChatOpened, ChatNumber, ChatSaid
<1>2. ChatGoes(L, q)
    <2>1. O!Other(kind) \in Texts
        BY DEF O!Other, Texts
    <2>. QED
        BY <2>1, ChatCloses
<1>. HIDE DEF q
<1>3. ChatGoes(L, o) /\ o.state.open[kind] # 0
    <2>1. CASE q.state.open[kind] # 0
        BY <1>2, <2>1
    <2>2. CASE q.state.open[kind] = 0
        <3>1. ChatGoes(L, ChatOpened(q, kind)) /\ ChatOpened(q, kind).state.open[kind] # 0
            BY <1>2, <2>2, ChatOpens
        <3>. QED
            BY <2>2, <3>1
    <2>. QED
        BY <2>1, <2>2
<1>. HIDE DEF o
<1>. QED
    BY <1>1, <1>3, ChatSays

LEMMA ChatBegins ==
    ASSUME NEW L, NEW r, ChatGoes(L, r), NEW id, id \notin r.state.known
    PROVE  ChatGoes(L, ChatBegun(r, id)) /\ id \in ChatBegun(r, id).state.known
<1>. PICK S, E, T : Runs(L, r.events, S, E, T) /\ ChatMatch(r.state, S, E, T)
    BY DEF ChatGoes
<1>. DEFINE d == r.state
            k == <<"tool", id>>
            entries == StartEntry(d.entries, id)
            next == [d EXCEPT !.known = d.known \cup {id}, !.entries = entries]
<1>1. next = [entries |-> entries, known |-> d.known \cup {id}, open |-> d.open,
              started |-> d.started, reason |-> d.reason]
    <2>1. d = [entries |-> d.entries, known |-> d.known, open |-> d.open,
               started |-> d.started, reason |-> d.reason]
        BY DEF ChatMatch
    <2>. DEFINE c == [d EXCEPT !.known = d.known \cup {id}]
    <2>. HIDE DEF entries, d
    <2>2. c = [entries |-> d.entries, known |-> d.known \cup {id}, open |-> d.open,
               started |-> d.started, reason |-> d.reason]
        BY <2>1
    <2>3. next = [c EXCEPT !.entries = entries]
        BY <2>1
    <2>. HIDE DEF c, next
    <2>4. [c EXCEPT !.entries = entries]
            = [entries |-> entries, known |-> d.known \cup {id}, open |-> d.open,
               started |-> d.started, reason |-> d.reason]
        BY <2>2
    <2>. QED
        BY <2>3, <2>4
<1>2. ChatBegun(r, id)
        = [state |-> next, events |-> r.events \o <<Start("tool", id)>>, error |-> "none"]
    BY ChatSame DEF ChatBegun, O!Plus, Emits
<1>. HIDE DEF next
<1>3. k \notin S /\ k \notin E
    BY DEF ChatMatch, CallsMatch
<1>4. Runs(L, r.events \o <<Start("tool", id)>>, S \cup {k}, E, T)
    BY <1>3, RunsOn
<1>5. CallsMatch(entries, S \cup {k}, E, T)
    <2>1. CallsMatch(d.entries, S, E, T)
        BY DEF ChatMatch
    <2>. QED
        BY <1>3, <2>1, CallsStart
<1>. HIDE DEF entries
<1>6. \A o \in Texts :
        /\ next.started[o] \in Nat
        /\ next.open[o] # 0 => <<o, next.open[o]>> \in (S \cup {k}) \ E
        /\ \A m \in Nat : m > next.started[o] => <<o, m>> \notin S \cup {k}
    <2>1. \A o \in Texts : \A m : <<o, m>> # k
        BY DEF Texts
    <2>. QED
        BY <1>1, <2>1 DEF ChatMatch
<1>7. ASSUME NEW j \in (S \cup {k}) \ E, j[1] # "tool"
      PROVE  \E o \in Texts : next.open[o] # 0 /\ j = <<o, next.open[o]>>
    <2>1. j \in S \ E
        BY <1>7
    <2>2. PICK o \in Texts : d.open[o] # 0 /\ j = <<o, d.open[o]>>
        BY <1>7, <2>1 DEF ChatMatch
    <2>. QED
        BY <1>1, <2>2
<1>8. \A x : /\ <<"tool", x>> \in S \cup {k} => x \in next.known
             /\ x \in next.known => <<"tool", x>> \in (S \cup {k}) \ E
    BY <1>1, <1>3 DEF ChatMatch
<1>9. ChatMatch(next, S \cup {k}, E, T)
    <2>1. next.open = [o \in Texts |-> next.open[o]] /\ next.started = [o \in Texts |-> next.started[o]]
        BY <1>1 DEF ChatMatch
    <2>2. next = [entries |-> next.entries, known |-> next.known, open |-> next.open,
                  started |-> next.started, reason |-> next.reason]
          /\ next.entries = entries
        BY <1>1
    <2>. QED
        BY <1>5, <1>6, <1>7, <1>8, <2>1, <2>2 DEF ChatMatch
<1>10. ChatGoes(L, ChatBegun(r, id))
    BY <1>2, <1>4, <1>9 DEF ChatGoes
<1>. QED
    BY <1>1, <1>2, <1>10

LEMMA ChatTakesArgs ==
    ASSUME NEW L, NEW r, ChatGoes(L, r), NEW id, id \in r.state.known, NEW piece
    PROVE  ChatGoes(L, ChatGiven(r, id, piece))
<1>. PICK S, E, T : Runs(L, r.events, S, E, T) /\ ChatMatch(r.state, S, E, T)
    BY DEF ChatGoes
<1>. DEFINE d == r.state
            entries == AppendArgs(d.entries, id, piece)
            next == [d EXCEPT !.entries = entries]
<1>1. next = [entries |-> entries, known |-> d.known, open |-> d.open,
              started |-> d.started, reason |-> d.reason]
    <2>1. d = [entries |-> d.entries, known |-> d.known, open |-> d.open,
               started |-> d.started, reason |-> d.reason]
        BY DEF ChatMatch
    <2>. HIDE DEF entries, d
    <2>. QED
        BY <2>1
<1>2. ChatGiven(r, id, piece)
        = [state |-> next, events |-> r.events \o <<Delta("tool", id, piece)>>, error |-> "none"]
    BY ChatSame DEF ChatGiven, O!Plus, Emits
<1>. HIDE DEF next
<1>3. <<"tool", id>> \in S \ E
    BY DEF ChatMatch
<1>4. Runs(L, r.events \o <<Delta("tool", id, piece)>>, S, E, T)
    BY <1>3, RunsOn
<1>5. CallsMatch(entries, S, E, T)
    <2>1. CallsMatch(d.entries, S, E, T)
        BY DEF ChatMatch
    <2>. QED
        BY <2>1, CallsTakeArgs
<1>. HIDE DEF entries
<1>6. ChatMatch(next, S, E, T)
    BY <1>1, <1>5 DEF ChatMatch
<1>. QED
    BY <1>2, <1>4, <1>6 DEF ChatGoes

\* Folding over one fragment is handling it.
LEMMA OneFragment ==
    ASSUME NEW r, NEW f
    PROVE  O!FoldLeft(O!Fragment, r, <<f>>) = O!Fragment(r, f)
<1>. DEFINE Is(h) == h = [s \in SUBSET {1} |->
                            IF s = {} THEN r
                            ELSE O!Fragment(h[s \ {O!Max(s)}], <<f>>[O!Max(s)])]
            g == [s \in SUBSET {1} |-> IF s = {} THEN r ELSE O!Fragment(r, f)]
<1>1. DOMAIN <<f>> = {1} /\ <<f>>[1] = f
    OBVIOUS
<1>2. O!FoldLeft(O!Fragment, r, <<f>>) = (CHOOSE h : Is(h))[{1}]
    BY <1>1 DEF O!FoldLeft, O!MapThenFoldSet
<1>3. O!Max({1}) = 1
    BY DEF O!Max
<1>4. \A s \in SUBSET {1} : s = {} \/ s = {1}
    OBVIOUS
<1>5. Is(g)
    <2>1. g[{}] = r
        OBVIOUS
    <2>2. \A s \in SUBSET {1} : s # {} => O!Fragment(g[s \ {O!Max(s)}], <<f>>[O!Max(s)]) = O!Fragment(r, f)
        <3>1. {1} \ {1} = {}
            OBVIOUS
        <3>. HIDE DEF g
        <3>. QED
            BY <1>1, <1>3, <1>4, <2>1, <3>1
    <2>. QED
        BY <2>2
<1>6. PICK h : Is(h) /\ O!FoldLeft(O!Fragment, r, <<f>>) = h[{1}]
    <2>. HIDE DEF Is, g
    <2>. QED
        BY <1>2, <1>5
<1>7. h[{}] = r /\ h[{1}] = O!Fragment(h[{1} \ {O!Max({1})}], <<f>>[O!Max({1})])
    BY <1>6
<1>8. {1} \ {1} = {}
    OBVIOUS
<1>. QED
    BY <1>1, <1>3, <1>6, <1>7, <1>8

LEMMA ChatFragments ==
    ASSUME NEW L, NEW r, ChatGoes(L, r), NEW f
    PROVE  ChatGoes(L, O!Fragment(r, f))
<1>. DEFINE o == IF f.index \in r.state.known THEN r ELSE ChatBegun(r, f.index)
<1>1. O!Fragment(r, f) = IF f.data = "" THEN o ELSE ChatGiven(o, f.index, f.data)
    BY DEF O!Fragment, ChatBegun, ChatGiven
<1>2. ChatGoes(L, o) /\ f.index \in o.state.known
    <2>1. CASE f.index \in r.state.known
        BY <2>1
    <2>2. CASE f.index \notin r.state.known
        BY <2>2, ChatBegins
    <2>. QED
        BY <2>1, <2>2
<1>. HIDE DEF o
<1>3. ChatGoes(L, ChatGiven(o, f.index, f.data))
    BY <1>2, ChatTakesArgs
<1>. QED
    BY <1>1, <1>2, <1>3

-----------------------------------------------------------------------------
(* What a handler and a flush may come to.                                 *)

ChatAt(L, d) == \E S, E, T : Reaches(L, S, E, T) /\ ChatMatch(d, S, E, T)

ChatHandled(L, r) ==
    IF r.error = "none" THEN Sequential(r.events) /\ ChatAt(L \o r.events, r.state)
                        ELSE r.events = <<>>

\* A flush ends the log, or fails.
FlushedWell(L, r) == IF r.error = "none" THEN Closes(L, r.events) ELSE r.events = <<>>

LEMMA ChatBeginsHandling ==
    ASSUME NEW L, NEW d, ChatAt(L, d)
    PROVE  ChatGoes(L, O!Emits(d, <<>>)) /\ O!Emits(d, <<>>).state = d
<1>1. O!Emits(d, <<>>) = [state |-> d, events |-> <<>>, error |-> "none"]
    BY DEF O!Emits
<1>2. PICK S, E, T : Reaches(L, S, E, T) /\ ChatMatch(d, S, E, T)
    BY DEF ChatAt
<1>3. Runs(L, <<>>, S, E, T)
    BY <1>2, NoEvents
<1>. QED
    BY <1>1, <1>2, <1>3 DEF ChatGoes

LEMMA ChatHandles ==
    ASSUME NEW L, NEW d, ChatAt(L, d), NEW c,
           c = O!ErrorChunk \/ c = O!NoCallsChunk
             \/ \E t, x, f, n : c = O!Chunk(t, x, f, n) /\ (f = <<>> \/ \E e : f = <<e>>)
    PROVE  ChatHandled(L, O!HandleChunk(d, c))
<1>1. CASE c = O!ErrorChunk
    <2>1. O!HandleChunk(d, c) = O!Fails(d, "fatal")
        BY <1>1 DEF O!HandleChunk, O!ErrorChunk
    <2>. QED
        BY <2>1 DEF O!Fails, ChatHandled
<1>2. CASE \E t, x, f, n : c = O!Chunk(t, x, f, n) /\ (f = <<>> \/ \E e : f = <<e>>)
    <2>. PICK t, x, f, n : c = O!Chunk(t, x, f, n) /\ (f = <<>> \/ \E e : f = <<e>>)
        BY <1>2
    <2>1. c.type = "delta" /\ c.reasoning = t /\ c.content = x /\ c.fragments = f /\ c.finish = n
        BY DEF O!Chunk
    <2>. DEFINE start == O!Emits(d, <<>>)
                one   == O!Extend(start, "reasoning", t)
                said  == O!Extend(one, "text", x)
                shut  == O!Close(O!Close(said, "text"), "reasoning")
                done  == O!ToolCalls(said, f)
                last  == O!Plus(done, [done.state EXCEPT !.reason = n], <<>>)
    <2>2. O!HandleChunk(d, c) = IF n = "" THEN done ELSE last
        <3>1. O!HandleChunk(d, c) =
                IF c.finish = "" THEN O!ToolCalls(O!Extend(O!Extend(start, "reasoning", c.reasoning),
                                                           "text", c.content), c.fragments)
                ELSE O!Plus(O!ToolCalls(O!Extend(O!Extend(start, "reasoning", c.reasoning),
                                                           "text", c.content), c.fragments),
                            [O!ToolCalls(O!Extend(O!Extend(start, "reasoning", c.reasoning),
                                                           "text", c.content), c.fragments).state
                                EXCEPT !.reason = c.finish], <<>>)
            BY <2>1 DEF O!HandleChunk
        <3>. QED
            BY <2>1, <3>1
    <2>3. ChatGoes(L, start)
        BY ChatBeginsHandling
    <2>. HIDE DEF start
    <2>4. "text" \in Texts /\ "reasoning" \in Texts
        BY DEF Texts
    <2>5. ChatGoes(L, one)
        BY <2>3, <2>4, ChatExtends
    <2>. HIDE DEF one
    <2>6. ChatGoes(L, said)
        BY <2>4, <2>5, ChatExtends
    <2>. HIDE DEF said
    <2>7. ChatGoes(L, shut)
        BY <2>4, <2>6, ChatCloses
    <2>8. ChatGoes(L, done)
        <3>1. CASE f = <<>>
            BY <2>6, <3>1 DEF O!ToolCalls, O!Shut
        <3>2. CASE f # <<>>
            <4>1. PICK e : f = <<e>>
                BY <3>2
            <4>2. done = O!FoldLeft(O!Fragment, shut, <<e>>)
                BY <3>2, <4>1 DEF O!ToolCalls, O!Shut
            <4>. HIDE DEF shut, done
            <4>3. done = O!Fragment(shut, e)
                BY <4>2, OneFragment
            <4>. QED
                BY <2>7, <4>3, ChatFragments
        <3>. QED
            BY <3>1, <3>2
    <2>. HIDE DEF done
    <2>9. ChatGoes(L, last)
        <3>. PICK S, E, T : Runs(L, done.events, S, E, T) /\ ChatMatch(done.state, S, E, T)
            BY <2>8 DEF ChatGoes
        <3>. DEFINE s == done.state
                    next == [s EXCEPT !.reason = n]
        <3>1. next = [entries |-> s.entries, known |-> s.known, open |-> s.open,
                      started |-> s.started, reason |-> n]
            <4>1. s = [entries |-> s.entries, known |-> s.known, open |-> s.open,
                       started |-> s.started, reason |-> s.reason]
                BY DEF ChatMatch
            <4>. HIDE DEF s
            <4>. QED
                BY <4>1
        <3>2. last = [state |-> next, events |-> done.events \o <<>>, error |-> "none"]
            BY ChatSame DEF O!Plus, Emits
        <3>. HIDE DEF next
        <3>3. ChatMatch(next, S, E, T)
            BY <3>1 DEF ChatMatch
        <3>4. done.events \o <<>> = done.events
            BY Nothing DEF Runs
        <3>. QED
            BY <3>2, <3>3, <3>4 DEF ChatGoes
    <2>10. \A r : ChatGoes(L, r) => ChatHandled(L, r)
        BY DEF ChatGoes, ChatHandled, ChatAt, Runs
    <2>. HIDE DEF last
    <2>. QED
        BY <2>2, <2>8, <2>9, <2>10
<1>3. CASE c = O!NoCallsChunk
    <2>. DEFINE start == O!Emits(d, <<>>)
                one   == O!Close(start, "text")
                shut  == O!Close(one, "reasoning")
    <2>1. O!HandleChunk(d, c) = shut
        BY <1>3 DEF O!HandleChunk, O!NoCallsChunk, O!Shut
    <2>2. ChatGoes(L, start)
        BY ChatBeginsHandling
    <2>. HIDE DEF start
    <2>3. "text" \in Texts /\ "reasoning" \in Texts
        BY DEF Texts
    <2>4. ChatGoes(L, one)
        BY <2>2, <2>3, ChatCloses
    <2>. HIDE DEF one
    <2>5. ChatGoes(L, shut)
        BY <2>3, <2>4, ChatCloses
    <2>. HIDE DEF shut
    <2>. QED
        BY <2>1, <2>5 DEF ChatGoes, ChatHandled, ChatAt, Runs
<1>. QED
    BY <1>1, <1>2, <1>3

\* When nothing but calls is open, finishing them leaves nothing open.
LEMMA AllFinishes ==
    ASSUME NEW L, NEW events, NEW S, NEW E, NEW T, Runs(L, events, S, E, T),
           NEW entries, CallsMatch(entries, S, E, T), \A k \in S \ E : k[1] = "tool",
           NEW reason
    PROVE  Closes(L, events \o (EndAll(entries) \o <<Finish(reason)>>))
<1>. DEFINE ends == EndAll(entries)
            E2 == E \cup Keyed(entries)
            T2 == T \cup Named(entries)
<1>1. /\ Sequential(ends) /\ Runs(L, events \o ends, S, E2, T2) /\ CallsMatch(<<>>, S, E2, T2)
      /\ \A k \in S : k[1] = "tool" => k \in E2
    BY CallsAllEnd
<1>. HIDE DEF ends
<1>2. \A k \in S : k \in E2 /\ (k[1] = "tool" => k[2] \in T2)
    <2>1. \A k \in S : k \in E2
        BY <1>1
    <2>. HIDE DEF E2, T2
    <2>. QED
        BY <1>1, <2>1 DEF CallsMatch
<1>. HIDE DEF E2, T2
<1>3. Closes(L, (events \o ends) \o <<Finish(reason)>>)
    BY <1>1, <1>2, RunsOn
<1>4. Regrouped(events, ends, <<Finish(reason)>>)
    BY <1>1, OneElement, Regrouping DEF Runs
<1>. QED
    BY <1>3, <1>4 DEF Regrouped, ends

LEMMA ChatFlushes ==
    ASSUME NEW L, NEW d, ChatAt(L, d)
    PROVE  FlushedWell(L, O!Flush(d))
<1>. DEFINE start  == O!Emits(d, <<>>)
            one    == O!Close(start, "text")
            shut   == O!Close(one, "reasoning")
            calls  == FinishCalls(shut.state)
            entries == shut.state.entries
<1>1. O!Flush(d) = IF calls.error # "none" THEN calls
                   ELSE O!Plus(shut, calls.state, calls.events \o <<Finish(d.reason)>>)
    BY ChatSame DEF O!Flush, O!Shut
<1>2. ChatGoes(L, start)
    BY ChatBeginsHandling
<1>. HIDE DEF start
<1>3. "text" \in Texts /\ "reasoning" \in Texts /\ \A k \in Texts : k = "text" \/ k = "reasoning"
    BY DEF Texts
<1>4. ChatGoes(L, one) /\ one.state.open["text"] = 0
    BY <1>2, <1>3, ChatCloses
<1>. HIDE DEF one
<1>5. ChatGoes(L, shut) /\ shut.state.open["reasoning"] = 0
    BY <1>3, <1>4, ChatCloses
<1>6. shut.state.open["text"] = 0
    <2>1. "text" \in Texts \ {"reasoning"}
        BY <1>3
    <2>. QED
        BY <1>3, <1>4, <2>1, ChatCloses
<1>. HIDE DEF shut
<1>. PICK S, E, T : Runs(L, shut.events, S, E, T) /\ ChatMatch(shut.state, S, E, T)
    BY <1>5 DEF ChatGoes
<1>7. \A k \in S \ E : k[1] = "tool"
    BY <1>3, <1>5, <1>6 DEF ChatMatch
<1>8. CASE ~ AllParse(entries)
    <2>1. calls = [state |-> shut.state, events |-> <<>>, error |-> "invalid-provider-output"]
        BY <1>8 DEF FinishCalls, Fails
    <2>. QED
        BY <1>1, <2>1 DEF FlushedWell
<1>9. CASE AllParse(entries)
    <2>1. calls.error = "none" /\ calls.events = EndAll(entries)
        BY <1>9 DEF FinishCalls, Emits
    <2>. HIDE DEF calls
    <2>2. O!Flush(d) = [state |-> calls.state,
                        events |-> shut.events \o (EndAll(entries) \o <<Finish(d.reason)>>),
                        error |-> "none"]
        BY <1>1, <2>1, ChatSame DEF O!Plus, Emits
    <2>3. CallsMatch(entries, S, E, T)
        BY DEF ChatMatch
    <2>4. Closes(L, shut.events \o (EndAll(entries) \o <<Finish(d.reason)>>))
        BY <1>7, <2>3, AllFinishes
    <2>. QED
        BY <2>2, <2>4 DEF FlushedWell
<1>. QED
    BY <1>8, <1>9

-----------------------------------------------------------------------------
(* A handler's only event.                                                 *)

LEMMA SaysOne ==
    ASSUME NEW L, NEW S, NEW E, NEW T, Reaches(L, S, E, T), NEW kind, NEW id, NEW data
    PROVE  /\ <<kind, id>> \notin S =>
                Runs(L, <<Start(kind, id)>>, S \cup {<<kind, id>>}, E, T)
           /\ <<kind, id>> \in S \ E =>
                /\ Runs(L, <<Delta(kind, id, data)>>, S, E, T)
                /\ Runs(L, <<End(kind, id)>>, S, E \cup {<<kind, id>>}, T)
           /\ Runs(L, <<ProviderError>>, S, E, T)
<1>1. Runs(L, <<>>, S, E, T)
    BY NoEvents
<1>2. ASSUME NEW e PROVE <<>> \o <<e>> = <<e>>
    BY Nothing, OneElement
<1>3. <<kind, id>> \notin S => Runs(L, <<>> \o <<Start(kind, id)>>, S \cup {<<kind, id>>}, E, T)
    BY <1>1, RunsOn
<1>4. <<kind, id>> \in S \ E =>
                /\ Runs(L, <<>> \o <<Delta(kind, id, data)>>, S, E, T)
                /\ Runs(L, <<>> \o <<End(kind, id)>>, S, E \cup {<<kind, id>>}, T)
    BY <1>1, RunsOn
<1>5. Runs(L, <<>> \o <<ProviderError>>, S, E, T)
    BY <1>1, RunsOn
<1>. QED
    BY <1>2, <1>3, <1>4, <1>5

LEMMA FlattenNone == FlattenSeq(<<>>) = <<>>
BY DEF FlattenSeq

LEMMA FlattenOne ==
    ASSUME NEW w, Sequential(w), Len(w) = 1, Sequential(w[1])
    PROVE  FlattenSeq(w) = w[1]
<1>1. \A i \in 1..Len(w) : Sequential(w[i])
    OBVIOUS
<1>2. PICK f : Stages(f, w, Len(w)) /\ FlattenSeq(w) = f[Len(w)]
    BY <1>1, Flattening
<1>3. f[0] = <<>> /\ \A i \in 1..1 : f[i] = f[i - 1] \o w[i]
    BY <1>2 DEF Stages
<1>4. f[1] = <<>> \o w[1]
    <2>1. 1 \in 1..1 /\ 1 - 1 = 0
        OBVIOUS
    <2>2. ASSUME NEW i \in 1..1, NEW j, j = i - 1
          PROVE  f[i] = f[j] \o w[i]
        BY <1>3, <2>2
    <2>. QED
        BY <1>3, <2>1, <2>2
<1>. QED
    BY <1>2, <1>4, Nothing

-----------------------------------------------------------------------------
(* Anthropic's blocks.                                                     *)

LEMMA AnthropicSame ==
    /\ \A s, e : A!Emits(s, e) = Emits(s, e) /\ A!Fails(s, e) = Fails(s, e)
    /\ \A k, i, d : /\ A!Start(k, i) = Start(k, i) /\ A!End(k, i) = End(k, i)
                    /\ A!Delta(k, i, d) = Delta(k, i, d)
                    /\ A!Finish(k) = Finish(k)
    /\ A!ProviderError = ProviderError /\ A!Kinds = Kinds
    /\ \A e, i, p : /\ A!StartEntry(e, i) = StartEntry(e, i)
                    /\ A!AppendArgs(e, i, p) = AppendArgs(e, i, p)
    /\ \A s : A!FinishCalls(s) = FinishCalls(s)
<1>1. \A s, e : A!Emits(s, e) = Emits(s, e) /\ A!Fails(s, e) = Fails(s, e)
    BY DEF A!Emits, Emits, A!Fails, Fails
<1>2. \A k, i, d : /\ A!Start(k, i) = Start(k, i) /\ A!End(k, i) = End(k, i)
                   /\ A!Delta(k, i, d) = Delta(k, i, d)
                   /\ A!Finish(k) = Finish(k)
    BY DEF A!Start, Start, A!End, End, A!Delta, Delta, A!Finish, Finish, A!Event, Event
<1>3. A!ProviderError = ProviderError /\ A!Kinds = Kinds
    BY DEF A!ProviderError, ProviderError, A!Event, Event, A!Kinds, Kinds
<1>4. \A e, i, p : /\ A!StartEntry(e, i) = StartEntry(e, i)
                   /\ A!AppendArgs(e, i, p) = AppendArgs(e, i, p)
    BY DEF A!StartEntry, StartEntry, A!AppendArgs, AppendArgs
<1>5. \A s : A!FinishCalls(s) = FinishCalls(s)
    <2>1. \A e : A!EndAll(e) = EndAll(e)
        BY DEF A!EndAll, EndAll, A!EntryEvents, EntryEvents, A!End, End, A!Call, Call,
               A!Event, Event, A!FlattenSeq, FlattenSeq
    <2>2. \A e : A!AllParse(e) = AllParse(e)
        BY DEF A!AllParse, AllParse, A!Parses, Parses
    <2>. QED
        BY <1>1, <2>1, <2>2 DEF A!FinishCalls, FinishCalls
<1>. QED
    BY <1>1, <1>2, <1>3, <1>4, <1>5

\* Removed is the map of blocks without the one of an index, Spoken those that
\* are no calls.
Removed(blocks, index) == A!Select(blocks, LAMBDA b : b.index # index)
Spoken(blocks)         == A!Select(blocks, LAMBDA b : b.kind # "tool")

LEMMA NoBlock ==
    ASSUME NEW s, s.blocks = <<>>, NEW index
    PROVE  A!BlockAt(s, index) = <<>> /\ Removed(s.blocks, index) = <<>> /\ Spoken(s.blocks) = <<>>
<1>1. \A x : [n \in DOMAIN <<>> |-> x] = <<>>
    OBVIOUS
<1>2. A!FlattenSeq(<<>>) = <<>>
    BY FlattenNone DEF A!FlattenSeq, FlattenSeq
<1>3. [n \in DOMAIN s.blocks |-> IF s.blocks[n].index = index THEN <<s.blocks[n]>> ELSE <<>>] = <<>>
    OBVIOUS
<1>4. [n \in DOMAIN s.blocks |-> IF s.blocks[n].index # index THEN <<s.blocks[n]>> ELSE <<>>] = <<>>
    OBVIOUS
<1>5. [n \in DOMAIN s.blocks |-> IF s.blocks[n].kind # "tool" THEN <<s.blocks[n]>> ELSE <<>>] = <<>>
    OBVIOUS
<1>6. A!BlockAt(s, index) = <<>>
    BY <1>2, <1>3 DEF A!BlockAt, A!Select
<1>7. Removed(s.blocks, index) = <<>>
    BY <1>2, <1>4 DEF Removed, A!Select
<1>8. Spoken(s.blocks) = <<>>
    BY <1>2, <1>5 DEF Spoken, A!Select
<1>. QED
    BY <1>6, <1>7, <1>8

LEMMA OneBlock ==
    ASSUME NEW s, NEW b, s.blocks = <<b>>, NEW index
    PROVE  /\ A!BlockAt(s, index) = IF b.index = index THEN <<b>> ELSE <<>>
           /\ Removed(s.blocks, index) = IF b.index # index THEN <<b>> ELSE <<>>
           /\ Spoken(s.blocks) = IF b.kind # "tool" THEN <<b>> ELSE <<>>
<1>. PICK bs : bs = s.blocks /\ bs = <<b>>
    OBVIOUS
<1>1. DOMAIN bs = 1..1 /\ bs[1] = b
    OBVIOUS
<1>2. ASSUME NEW w, w = [n \in 1..1 |-> w[n]], w[1] = <<b>> \/ w[1] = <<>>
      PROVE  A!FlattenSeq(w) = w[1]
    <2>1. Sequential(w) /\ Len(w) = 1
        BY <1>2, FunctionIsSequence
    <2>2. Sequential(w[1])
        BY <1>2, Nothing, OneElement
    <2>3. FlattenSeq(w) = w[1]
        BY <2>1, <2>2, FlattenOne
    <2>. QED
        BY <2>3 DEF A!FlattenSeq, FlattenSeq
<1>3. A!BlockAt(s, index) = IF b.index = index THEN <<b>> ELSE <<>>
    <2>. DEFINE w == [n \in DOMAIN bs |-> IF bs[n].index = index THEN <<bs[n]>> ELSE <<>>]
    <2>1. A!BlockAt(s, index) = A!FlattenSeq(w)
        BY DEF A!BlockAt, A!Select
    <2>2. w = [n \in 1..1 |-> w[n]] /\ w[1] = IF b.index = index THEN <<b>> ELSE <<>>
        BY <1>1
    <2>. HIDE DEF w
    <2>. QED
        BY <1>2, <2>1, <2>2
<1>4. Removed(s.blocks, index) = IF b.index # index THEN <<b>> ELSE <<>>
    <2>. DEFINE w == [n \in DOMAIN bs |-> IF bs[n].index # index THEN <<bs[n]>> ELSE <<>>]
    <2>1. Removed(s.blocks, index) = A!FlattenSeq(w)
        BY DEF Removed, A!Select
    <2>2. w = [n \in 1..1 |-> w[n]] /\ w[1] = IF b.index # index THEN <<b>> ELSE <<>>
        BY <1>1
    <2>. HIDE DEF w
    <2>. QED
        BY <1>2, <2>1, <2>2
<1>5. Spoken(s.blocks) = IF b.kind # "tool" THEN <<b>> ELSE <<>>
    <2>. DEFINE w == [n \in DOMAIN bs |-> IF bs[n].kind # "tool" THEN <<bs[n]>> ELSE <<>>]
    <2>1. Spoken(s.blocks) = A!FlattenSeq(w)
        BY DEF Spoken, A!Select
    <2>2. w = [n \in 1..1 |-> w[n]] /\ w[1] = IF b.kind # "tool" THEN <<b>> ELSE <<>>
        BY <1>1
    <2>. HIDE DEF w
    <2>. QED
        BY <1>2, <2>1, <2>2
<1>. QED
    BY <1>3, <1>4, <1>5

\* At most one block is open, and it is the content that is.
AnthropicMatch(d, n, open, S, E, T) ==
    /\ d = [entries |-> d.entries, blocks |-> d.blocks, started |-> d.started, reason |-> d.reason]
    /\ d.started = [kind \in Kinds |-> d.started[kind]]
    /\ CallsMatch(d.entries, S, E, T)
    /\ \A kind \in Texts :
          /\ d.started[kind] \in Nat
          /\ \A m \in Nat : m > d.started[kind] => <<kind, m>> \notin S
    /\ \A id : <<"tool", id>> \in S => id \in 1..n
    /\ \/ d.blocks = <<>> /\ S \subseteq E
       \/ \E b : /\ d.blocks = <<b>> /\ b.index \in open
                 /\ <<b.kind, b.id>> \in S \ E /\ S \ E \subseteq {<<b.kind, b.id>>}

AnthropicAt(L, d, n, open) ==
    \E S, E, T : Reaches(L, S, E, T) /\ AnthropicMatch(d, n, open, S, E, T)

AnthropicHandled(L, r, n, open) ==
    IF r.error = "none" THEN Sequential(r.events) /\ AnthropicAt(L \o r.events, r.state, n, open)
                        ELSE r.events = <<>>

LEMMA AnthropicStarts ==
    \A d : d = A!Decoder => AnthropicMatch(d, 0, {}, {}, {}, {})
<1>. SUFFICES ASSUME NEW d, d = A!Decoder
              PROVE  AnthropicMatch(d, 0, {}, {}, {}, {})
    OBVIOUS
<1>1. d = [entries |-> <<>>, blocks |-> <<>>, started |-> [k \in Kinds |-> 0], reason |-> "unknown"]
    BY AnthropicSame DEF A!Decoder
<1>2. \A kind \in Texts : d.started[kind] \in Nat
    BY <1>1 DEF Texts, Kinds
<1>. QED
    BY <1>1, <1>2, NoCalls DEF AnthropicMatch

LEMMA AnthropicSays ==
    ASSUME NEW L, NEW r, NEW n, NEW open, NEW S, NEW E, NEW T,
           r = [state |-> r.state, events |-> r.events, error |-> "none"],
           Runs(L, r.events, S, E, T), AnthropicMatch(r.state, n, open, S, E, T)
    PROVE  AnthropicHandled(L, r, n, open)
<1>1. r.error = "none"
    OBVIOUS
<1>. QED
    BY <1>1 DEF AnthropicHandled, AnthropicAt, Runs

\* A block starts when none is open.
LEMMA AnthropicStartBlock ==
    ASSUME NEW L, NEW n \in Nat, NEW d, AnthropicAt(L, d, n, {}), NEW kind, NEW data,
           NEW c, c = A!Chunk("content_block_start", n + 1, kind, data)
    PROVE  AnthropicHandled(L, A!StartBlock(d, c), n + 1, {n + 1})
<1>. PICK S, E, T : Reaches(L, S, E, T) /\ AnthropicMatch(d, n, {}, S, E, T)
    BY DEF AnthropicAt
<1>0. c.block = kind /\ c.index = n + 1
    BY DEF A!Chunk
<1>1. d.blocks = <<>> /\ S \subseteq E /\ E \subseteq S
    BY DEF AnthropicMatch, CallsMatch
<1>2. \A id : <<"tool", id>> \in S => id \in 1..n + 1 /\ id # n + 1
    BY DEF AnthropicMatch
<1>3. CASE kind \notin Kinds
    <2>1. A!StartBlock(d, c) = [state |-> d, events |-> <<>>, error |-> "none"]
        BY <1>0, <1>3, AnthropicSame DEF A!StartBlock, Emits
    <2>2. AnthropicMatch(d, n + 1, {n + 1}, S, E, T)
        BY <1>1, <1>2 DEF AnthropicMatch
    <2>3. Runs(L, <<>>, S, E, T)
        BY NoEvents
    <2>. QED
        BY <2>1, <2>2, <2>3, AnthropicSays
<1>4. CASE kind \in Kinds
    <2>. DEFINE m     == d.started[kind] + 1
                id    == IF kind = "tool" THEN n + 1 ELSE m
                b     == [index |-> n + 1, kind |-> kind, id |-> id]
                k     == <<kind, id>>
                entries == IF kind = "tool" THEN StartEntry(d.entries, id) ELSE d.entries
                mid   == [d EXCEPT !.started[kind] = m]
                t     == [d EXCEPT !.started[kind] = m, !.blocks = <<b>>]
                next  == [entries |-> entries, blocks |-> <<b>>,
                          started |-> [o \in Kinds |-> IF o = kind THEN m ELSE d.started[o]],
                          reason |-> d.reason]
    <2>1. A!SetBlock(d, b) = <<b>>
        <3>. HIDE DEF b
        <3>1. A!BlockAt(d, b.index) = <<>>
            BY <1>1, NoBlock
        <3>2. Append(<<>>, b) = <<b>>
            OBVIOUS
        <3>. QED
            BY <1>1, <3>1, <3>2 DEF A!SetBlock
    <2>2. A!StartBlock(d, c)
            = [state |-> IF kind = "tool" THEN [t EXCEPT !.entries = StartEntry(t.entries, id)] ELSE t,
               events |-> <<Start(kind, id)>>, error |-> "none"]
        <3>1. A!StartBlock(d, c)
                = A!Emits(IF kind = "tool" THEN [t EXCEPT !.entries = A!StartEntry(t.entries, id)] ELSE t,
                          <<A!Start(kind, id)>>)
            BY <1>0, <1>4, <2>1, AnthropicSame DEF A!StartBlock
        <3>. HIDE DEF t, id
        <3>. QED
            BY <3>1, AnthropicSame DEF Emits
    <2>. HIDE DEF m, id, b
    <2>3. t = [entries |-> d.entries, blocks |-> <<b>>,
               started |-> [o \in Kinds |-> IF o = kind THEN m ELSE d.started[o]],
               reason |-> d.reason]
        <3>1. /\ d = [entries |-> d.entries, blocks |-> d.blocks, started |-> d.started,
                      reason |-> d.reason]
              /\ d.started = [o \in Kinds |-> d.started[o]]
            BY DEF AnthropicMatch
        <3>2. mid = [entries |-> d.entries, blocks |-> d.blocks,
                     started |-> [o \in Kinds |-> IF o = kind THEN m ELSE d.started[o]],
                     reason |-> d.reason]
            BY <3>1
        <3>3. t = [mid EXCEPT !.blocks = <<b>>]
            BY <3>1
        <3>. HIDE DEF mid, t
        <3>. QED
            BY <3>2, <3>3
    <2>. HIDE DEF t
    <2>4. A!StartBlock(d, c) = [state |-> next, events |-> <<Start(kind, id)>>, error |-> "none"]
        <3>. HIDE DEF next
        <3>1. next = IF kind = "tool" THEN [t EXCEPT !.entries = StartEntry(t.entries, id)] ELSE t
            BY <2>3 DEF next
        <3>. QED
            BY <2>2, <3>1
    <2>5. k \notin S /\ k \notin E
        <3>1. CASE kind = "tool"
            BY <1>1, <1>2, <3>1 DEF id
        <3>2. CASE kind # "tool"
            <4>1. kind \in Texts
                BY <1>4, <3>2 DEF Kinds, Texts
            <4>2. d.started[kind] \in Nat
                BY <4>1 DEF AnthropicMatch
            <4>3. m \in Nat /\ m > d.started[kind]
                BY <4>2 DEF m
            <4>4. id = m
                BY <3>2 DEF id
            <4>. QED
                BY <1>1, <4>1, <4>3, <4>4 DEF AnthropicMatch
        <3>. QED
            BY <3>1, <3>2
    <2>6. Runs(L, <<Start(kind, id)>>, S \cup {k}, E, T)
        BY <2>5, SaysOne
    <2>7. CallsMatch(entries, S \cup {k}, E, T)
        <3>1. CallsMatch(d.entries, S, E, T)
            BY DEF AnthropicMatch
        <3>2. CASE kind = "tool"
            BY <2>5, <3>1, <3>2, CallsStart
        <3>3. CASE kind # "tool"
            BY <3>1, <3>3, CallsApart
        <3>. QED
            BY <3>2, <3>3
    <2>. HIDE DEF entries
    <2>8. AnthropicMatch(next, n + 1, {n + 1}, S \cup {k}, E, T)
        <3>1. \A o \in Texts :
                /\ next.started[o] \in Nat
                /\ \A j \in Nat : j > next.started[o] => <<o, j>> \notin S \cup {k}
            <4>. TAKE o \in Texts
            <4>0. o \in Kinds /\ o # "tool"
                BY DEF Kinds, Texts
            <4>1. CASE o = kind
                <5>1. d.started[o] \in Nat /\ next.started[o] = m /\ id = m /\ m = d.started[o] + 1
                    BY <4>0, <4>1 DEF AnthropicMatch, id, m
                <5>2. ASSUME NEW j \in Nat, j > m
                      PROVE  <<o, j>> \notin S \cup {k}
                    <6>1. j > d.started[o] /\ j # id
                        BY <5>1, <5>2
                    <6>. QED
                        BY <6>1 DEF AnthropicMatch
                <5>. QED
                    BY <5>1, <5>2
            <4>2. CASE o # kind
                <5>1. next.started[o] = d.started[o] /\ \A j : <<o, j>> # k
                    BY <4>0, <4>2
                <5>. QED
                    BY <5>1 DEF AnthropicMatch
            <4>. QED
                BY <4>1, <4>2
        <3>2. \A x : <<"tool", x>> \in S \cup {k} => x \in 1..n + 1
            <4>1. CASE kind = "tool"
                BY <1>2, <4>1 DEF id
            <4>2. CASE kind # "tool"
                BY <1>2, <4>2
            <4>. QED
                BY <4>1, <4>2
        <3>3. /\ next.blocks = <<b>> /\ b.index \in {n + 1}
              /\ <<b.kind, b.id>> \in (S \cup {k}) \ E
              /\ (S \cup {k}) \ E \subseteq {<<b.kind, b.id>>}
            BY <1>1, <2>5 DEF b
        <3>4. /\ next = [entries |-> next.entries, blocks |-> next.blocks,
                         started |-> next.started, reason |-> next.reason]
              /\ next.started = [o \in Kinds |-> next.started[o]]
              /\ next.entries = entries
            OBVIOUS
        <3>. HIDE DEF next
        <3>. QED
            BY <2>7, <3>1, <3>2, <3>3, <3>4 DEF AnthropicMatch
    <2>. HIDE DEF next
    <2>. QED
        BY <2>4, <2>6, <2>8, AnthropicSays
<1>. QED
    BY <1>3, <1>4

\* What the map of blocks holds, when the provider's only open block is i.
HoldsBlock(d, i, S, E) ==
    \/ d.blocks = <<>> /\ A!BlockAt(d, i) = <<>> /\ Removed(d.blocks, i) = <<>> /\ S \subseteq E
    \/ \E b : /\ d.blocks = <<b>> /\ A!BlockAt(d, i) = <<b>> /\ Removed(d.blocks, i) = <<>>
              /\ Head(A!BlockAt(d, i)) = b /\ A!BlockAt(d, i) # <<>>
              /\ <<b.kind, b.id>> \in S \ E /\ S \ E \subseteq {<<b.kind, b.id>>}

LEMMA AnthropicIsOpen ==
    ASSUME NEW d, NEW n, NEW open, NEW S, NEW E, NEW T, AnthropicMatch(d, n, open, S, E, T),
           NEW i, open \subseteq {i}
    PROVE  HoldsBlock(d, i, S, E)
<1>1. CASE d.blocks = <<>> /\ S \subseteq E
    BY <1>1, NoBlock DEF HoldsBlock
<1>2. CASE \E b : /\ d.blocks = <<b>> /\ b.index \in open
                  /\ <<b.kind, b.id>> \in S \ E /\ S \ E \subseteq {<<b.kind, b.id>>}
    <2>1. PICK b : /\ d.blocks = <<b>> /\ b.index \in open
                   /\ <<b.kind, b.id>> \in S \ E /\ S \ E \subseteq {<<b.kind, b.id>>}
        BY <1>2
    <2>2. A!BlockAt(d, i) = <<b>> /\ Removed(d.blocks, i) = <<>>
        BY <2>1, OneBlock
    <2>3. Head(<<b>>) = b /\ <<b>> # <<>>
        OBVIOUS
    <2>. QED
        BY <2>1, <2>2, <2>3 DEF HoldsBlock
<1>. QED
    BY <1>1, <1>2 DEF AnthropicMatch

\* A delta goes to the block that is open, or to none.
LEMMA AnthropicDeltaBlock ==
    ASSUME NEW L, NEW n, NEW d, NEW open, AnthropicAt(L, d, n, open),
           NEW i, open \subseteq {i}, NEW kind, NEW data,
           NEW c, c = A!Chunk("content_block_delta", i, kind, data)
    PROVE  AnthropicHandled(L, A!DeltaBlock(d, c), n, open)
<1>. PICK S, E, T : Reaches(L, S, E, T) /\ AnthropicMatch(d, n, open, S, E, T)
    BY DEF AnthropicAt
<1>0. c.block = kind /\ c.index = i /\ c.data = data
    BY DEF A!Chunk
<1>1. CASE A!DeltaBlock(d, c) = A!Emits(d, <<>>)
    <2>1. A!DeltaBlock(d, c) = [state |-> d, events |-> <<>>, error |-> "none"]
        BY <1>1, AnthropicSame DEF Emits
    <2>2. Runs(L, <<>>, S, E, T)
        BY NoEvents
    <2>. QED
        BY <2>1, <2>2, AnthropicSays
<1>2. CASE A!DeltaBlock(d, c) # A!Emits(d, <<>>)
    <2>1. A!BlockAt(d, i) # <<>>
        BY <1>0, <1>2 DEF A!DeltaBlock
    <2>2. PICK b : /\ d.blocks = <<b>> /\ Head(A!BlockAt(d, i)) = b
                   /\ <<b.kind, b.id>> \in S \ E
        <3>1. HoldsBlock(d, i, S, E)
            BY AnthropicIsOpen
        <3>. QED
            BY <2>1, <3>1 DEF HoldsBlock
    <2>. DEFINE next == IF b.kind = "tool"
                        THEN [d EXCEPT !.entries = AppendArgs(d.entries, b.id, data)] ELSE d
    <2>3. A!DeltaBlock(d, c) = [state |-> next, events |-> <<Delta(b.kind, b.id, data)>>, error |-> "none"]
        BY <1>0, <1>2, <2>1, <2>2, AnthropicSame DEF A!DeltaBlock, Emits
    <2>4. AnthropicMatch(next, n, open, S, E, T)
        <3>1. CASE b.kind = "tool"
            <4>1. CallsMatch(d.entries, S, E, T)
                BY DEF AnthropicMatch
            <4>. DEFINE entries == AppendArgs(d.entries, b.id, data)
            <4>2. CallsMatch(entries, S, E, T)
                BY <4>1, CallsTakeArgs
            <4>. HIDE DEF entries
            <4>3. next = [entries |-> entries, blocks |-> d.blocks, started |-> d.started,
                          reason |-> d.reason]
                BY <3>1 DEF AnthropicMatch, entries
            <4>. HIDE DEF next
            <4>. QED
                BY <4>2, <4>3 DEF AnthropicMatch
        <3>2. CASE b.kind # "tool"
            BY <3>2
        <3>. QED
            BY <3>1, <3>2
    <2>5. Runs(L, <<Delta(b.kind, b.id, data)>>, S, E, T)
        BY <2>2, SaysOne
    <2>. HIDE DEF next
    <2>. QED
        BY <2>3, <2>4, <2>5, AnthropicSays
<1>. QED
    BY <1>1, <1>2

\* What is open ends with its block.
LEMMA AnthropicStopBlock ==
    ASSUME NEW L, NEW n, NEW d, NEW open, AnthropicAt(L, d, n, open),
           NEW i, open \subseteq {i}, NEW kind, NEW data,
           NEW c, c = A!Chunk("content_block_stop", i, kind, data)
    PROVE  AnthropicHandled(L, A!StopBlock(d, c), n, {})
<1>. PICK S, E, T : Reaches(L, S, E, T) /\ AnthropicMatch(d, n, open, S, E, T)
    BY DEF AnthropicAt
<1>0. c.index = i
    BY DEF A!Chunk
<1>1. CallsMatch(d.entries, S, E, T) /\ E \subseteq S
    BY DEF AnthropicMatch, CallsMatch
<1>. DEFINE t == [entries |-> d.entries, blocks |-> <<>>, started |-> d.started, reason |-> d.reason]
            t0 == [d EXCEPT !.blocks = A!Select(@, LAMBDA b : b.index # c.index)]
<1>9. HoldsBlock(d, i, S, E)
    BY AnthropicIsOpen
<1>2. Removed(d.blocks, i) = <<>>
    BY <1>9 DEF HoldsBlock
<1>3. t0 = t
    <2>0. A!Select(d.blocks, LAMBDA b : b.index # c.index) = Removed(d.blocks, c.index)
        BY DEF Removed
    <2>1. A!Select(d.blocks, LAMBDA b : b.index # c.index) = Removed(d.blocks, i)
        BY <1>0, <2>0
    <2>2. d = [entries |-> d.entries, blocks |-> d.blocks, started |-> d.started, reason |-> d.reason]
        BY DEF AnthropicMatch
    <2>3. t0 = [d EXCEPT !.blocks = <<>>]
        BY <1>2, <2>1
    <2>. HIDE DEF t0
    <2>. QED
        BY <2>2, <2>3
<1>4. A!StopBlock(d, c) =
          IF A!BlockAt(d, i) = <<>> THEN Emits(t, <<>>)
          ELSE IF Head(A!BlockAt(d, i)).kind = "tool" THEN FinishCalls(t)
               ELSE Emits(t, <<End(Head(A!BlockAt(d, i)).kind, Head(A!BlockAt(d, i)).id)>>)
    <2>1. A!StopBlock(d, c) =
          IF A!BlockAt(d, i) = <<>> THEN A!Emits(t0, <<>>)
          ELSE IF Head(A!BlockAt(d, i)).kind = "tool" THEN A!FinishCalls(t0)
               ELSE A!Emits(t0, <<A!End(Head(A!BlockAt(d, i)).kind, Head(A!BlockAt(d, i)).id)>>)
        BY <1>0 DEF A!StopBlock
    <2>. HIDE DEF t0, t
    <2>. QED
        BY <1>3, <2>1, AnthropicSame
<1>5. t.entries = d.entries /\ t.blocks = <<>> /\ t.started = d.started
    OBVIOUS
<1>6. ASSUME NEW E2, NEW T2, NEW u,
             u = [entries |-> u.entries, blocks |-> <<>>, started |-> d.started, reason |-> d.reason],
             CallsMatch(u.entries, S, E2, T2), S \subseteq E2
      PROVE  AnthropicMatch(u, n, {}, S, E2, T2)
    <2>1. u.blocks = <<>> /\ u.started = d.started
        BY <1>6
    <2>. QED
        BY <1>6, <2>1 DEF AnthropicMatch
<1>. HIDE DEF t0
<1>7. CASE A!BlockAt(d, i) = <<>>
    <2>1. S \subseteq E
        BY <1>7, <1>9 DEF HoldsBlock
    <2>2. AnthropicMatch(t, n, {}, S, E, T)
        BY <1>1, <1>6, <2>1
    <2>. HIDE DEF t
    <2>3. A!StopBlock(d, c) = [state |-> t, events |-> <<>>, error |-> "none"]
        BY <1>4, <1>7 DEF Emits
    <2>4. Runs(L, <<>>, S, E, T)
        BY NoEvents
    <2>. QED
        BY <2>2, <2>3, <2>4, AnthropicSays
<1>8. CASE A!BlockAt(d, i) # <<>>
    <2>1. PICK b : /\ Head(A!BlockAt(d, i)) = b
                   /\ <<b.kind, b.id>> \in S \ E /\ S \ E \subseteq {<<b.kind, b.id>>}
        BY <1>8, <1>9 DEF HoldsBlock
    <2>2. CASE b.kind # "tool"
        <3>. DEFINE k == <<b.kind, b.id>>
        <3>1. CallsMatch(d.entries, S, E \cup {k}, T) /\ S \subseteq E \cup {k}
            BY <1>1, <2>1, <2>2, CallsApart
        <3>2. AnthropicMatch(t, n, {}, S, E \cup {k}, T)
            BY <1>6, <3>1
        <3>3. Runs(L, <<End(b.kind, b.id)>>, S, E \cup {k}, T)
            BY <2>1, SaysOne
        <3>. HIDE DEF t, k
        <3>4. A!StopBlock(d, c) = [state |-> t, events |-> <<End(b.kind, b.id)>>, error |-> "none"]
            BY <1>4, <1>8, <2>1, <2>2 DEF Emits
        <3>. QED
            BY <3>2, <3>3, <3>4, AnthropicSays
    <2>3. CASE b.kind = "tool"
        <3>. DEFINE E2 == E \cup Keyed(d.entries)
                    T2 == T \cup Named(d.entries)
                    u  == [entries |-> <<>>, blocks |-> <<>>, started |-> d.started, reason |-> d.reason]
        <3>1. A!StopBlock(d, c) = FinishCalls(t)
            BY <1>4, <1>8, <2>1, <2>3
        <3>2. Runs(L, <<>>, S, E, T)
            BY NoEvents
        <3>3. /\ Sequential(EndAll(d.entries)) /\ Runs(L, <<>> \o EndAll(d.entries), S, E2, T2)
              /\ CallsMatch(<<>>, S, E2, T2)
              /\ \A k \in S : k[1] = "tool" => k \in E2
            BY <1>1, <3>2, CallsAllEnd
        <3>4. S \subseteq E2
            BY <2>1, <2>3, <3>3
        <3>. HIDE DEF E2, T2
        <3>5. AnthropicMatch(u, n, {}, S, E2, T2)
            BY <1>6, <3>3, <3>4
        <3>6. <<>> \o EndAll(d.entries) = EndAll(d.entries)
            BY <3>3, Nothing
        <3>7. CASE AllParse(d.entries)
            <4>1. [t EXCEPT !.entries = <<>>] = u
                OBVIOUS
            <4>2. FinishCalls(t) = Emits([t EXCEPT !.entries = <<>>], EndAll(t.entries))
                BY <1>5, <3>7 DEF FinishCalls
            <4>. HIDE DEF u
            <4>3. FinishCalls(t) = [state |-> u, events |-> EndAll(d.entries), error |-> "none"]
                BY <1>5, <4>1, <4>2 DEF Emits
            <4>. QED
                BY <3>1, <3>3, <3>5, <3>6, <4>3, AnthropicSays
        <3>8. CASE ~ AllParse(d.entries)
            <4>1. FinishCalls(t).error # "none" /\ FinishCalls(t).events = <<>>
                BY <1>5, <3>8 DEF FinishCalls, Fails
            <4>. QED
                BY <3>1, <4>1 DEF AnthropicHandled
        <3>. QED
            BY <3>7, <3>8
    <2>. QED
        BY <2>2, <2>3
<1>. QED
    BY <1>7, <1>8

LEMMA AnthropicReason ==
    ASSUME NEW d, NEW n, NEW open, NEW S, NEW E, NEW T, AnthropicMatch(d, n, open, S, E, T), NEW y
    PROVE  AnthropicMatch([d EXCEPT !.reason = y], n, open, S, E, T)
<1>. DEFINE next == [d EXCEPT !.reason = y]
<1>1. d = [entries |-> d.entries, blocks |-> d.blocks, started |-> d.started, reason |-> d.reason]
    BY DEF AnthropicMatch
<1>2. next = [entries |-> d.entries, blocks |-> d.blocks, started |-> d.started, reason |-> y]
    BY <1>1
<1>. HIDE DEF next
<1>3. /\ next.entries = d.entries /\ next.blocks = d.blocks /\ next.started = d.started
      /\ next = [entries |-> next.entries, blocks |-> next.blocks, started |-> next.started,
                 reason |-> next.reason]
    BY <1>2
<1>4. AnthropicMatch(next, n, open, S, E, T)
    BY <1>3 DEF AnthropicMatch
<1>. QED
    BY <1>4 DEF next

LEMMA Failing ==
    ASSUME NEW s, NEW reason, reason # "none"
    PROVE  Fails(s, reason).error # "none" /\ Fails(s, reason).events = <<>>
BY DEF Fails

\* What the decoder makes of the chunks the protocol allows.
LEMMA AnthropicOthers ==
    ASSUME NEW L, NEW n, NEW d, NEW open, AnthropicAt(L, d, n, open), NEW c,
           \/ \E x : c = A!Chunk("message_delta", 0, "", x)
           \/ \E x : c = A!Chunk("error", 0, "", x)
    PROVE  AnthropicHandled(L, A!HandleChunk(d, c), n, open)
<1>. PICK S, E, T : Reaches(L, S, E, T) /\ AnthropicMatch(d, n, open, S, E, T)
    BY DEF AnthropicAt
<1>1. CASE \E x : c = A!Chunk("message_delta", 0, "", x)
    <2>. PICK x : c = A!Chunk("message_delta", 0, "", x)
        BY <1>1
    <2>. DEFINE next == [d EXCEPT !.reason = c.data]
    <2>1. c.type = "message_delta"
        BY DEF A!Chunk
    <2>2. A!HandleChunk(d, c) = [state |-> next, events |-> <<>>, error |-> "none"]
        BY <2>1, AnthropicSame DEF A!HandleChunk, Emits
    <2>5. AnthropicMatch(next, n, open, S, E, T)
        BY AnthropicReason
    <2>6. Runs(L, <<>>, S, E, T)
        BY NoEvents
    <2>. QED
        BY <2>2, <2>5, <2>6, AnthropicSays
<1>2. CASE \E x : c = A!Chunk("error", 0, "", x)
    <2>. PICK x : c = A!Chunk("error", 0, "", x)
        BY <1>2
    <2>1. c.type = "error"
        BY DEF A!Chunk
    <2>2. A!HandleChunk(d, c) = A!HandleError(d, c)
        BY <2>1 DEF A!HandleChunk
    <2>3. CASE c.data = "unrecognized"
        <3>1. A!HandleChunk(d, c) = [state |-> d, events |-> <<ProviderError>>, error |-> "none"]
            BY <2>2, <2>3, AnthropicSame DEF A!HandleError, Emits
        <3>2. Runs(L, <<ProviderError>>, S, E, T)
            BY SaysOne
        <3>. QED
            BY <3>1, <3>2, AnthropicSays
    <2>4. CASE c.data # "unrecognized"
        <3>1. A!HandleChunk(d, c) = [state |-> d, events |-> <<>>, error |-> c.data]
            BY <2>2, <2>4, AnthropicSame DEF A!HandleError, Fails
        <3>2. Runs(L, <<>>, S, E, T)
            BY NoEvents
        <3>3. CASE c.data = "none"
            BY <3>1, <3>2, <3>3, AnthropicSays
        <3>4. CASE c.data # "none"
            <4>0. A!HandleChunk(d, c) = Fails(d, c.data)
                BY <3>1 DEF Fails
            <4>1. A!HandleChunk(d, c).error # "none" /\ A!HandleChunk(d, c).events = <<>>
                BY <3>4, <4>0, Failing
            <4>. QED
                BY <4>1 DEF AnthropicHandled
        <3>. QED
            BY <3>3, <3>4
    <2>. QED
        BY <2>3, <2>4
<1>. QED
    BY <1>1, <1>2

LEMMA AnthropicHandles ==
    ASSUME NEW L, NEW n \in Nat, NEW d, NEW open, AnthropicAt(L, d, n, open), NEW c
    PROVE  /\ \A kind, data : open = {} /\ c = A!Chunk("content_block_start", n + 1, kind, data)
                => AnthropicHandled(L, A!HandleChunk(d, c), n + 1, {n + 1})
           /\ \A i, kind, data : open \subseteq {i} /\ c = A!Chunk("content_block_delta", i, kind, data)
                => AnthropicHandled(L, A!HandleChunk(d, c), n, open)
           /\ \A i, kind, data : open \subseteq {i} /\ c = A!Chunk("content_block_stop", i, kind, data)
                => AnthropicHandled(L, A!HandleChunk(d, c), n, {})
<1>1. ASSUME NEW kind, NEW data, open = {}, c = A!Chunk("content_block_start", n + 1, kind, data)
      PROVE  AnthropicHandled(L, A!HandleChunk(d, c), n + 1, {n + 1})
    <2>1. A!HandleChunk(d, c) = A!StartBlock(d, c)
        BY <1>1 DEF A!HandleChunk, A!Chunk
    <2>2. AnthropicAt(L, d, n, {})
        BY <1>1
    <2>. QED
        BY <1>1, <2>1, <2>2, AnthropicStartBlock
<1>2. ASSUME NEW i, NEW kind, NEW data, open \subseteq {i},
             c = A!Chunk("content_block_delta", i, kind, data)
      PROVE  AnthropicHandled(L, A!HandleChunk(d, c), n, open)
    <2>1. A!HandleChunk(d, c) = A!DeltaBlock(d, c)
        BY <1>2 DEF A!HandleChunk, A!Chunk
    <2>. QED
        BY <1>2, <2>1, AnthropicDeltaBlock
<1>3. ASSUME NEW i, NEW kind, NEW data, open \subseteq {i},
             c = A!Chunk("content_block_stop", i, kind, data)
      PROVE  AnthropicHandled(L, A!HandleChunk(d, c), n, {})
    <2>1. A!HandleChunk(d, c) = A!StopBlock(d, c)
        BY <1>3 DEF A!HandleChunk, A!Chunk
    <2>. QED
        BY <1>3, <2>1, AnthropicStopBlock
<1>. QED
    BY <1>1, <1>2, <1>3

\* When texts end and calls are finished, the stream may finish.
LEMMA EndsAndFinishes ==
    ASSUME NEW L, NEW ends, NEW S, NEW E, NEW T, Runs(L, ends, S, E, T),
           NEW entries, CallsMatch(entries, S, E, T), \A k \in S \ E : k[1] = "tool", NEW reason
    PROVE  Closes(L, ends \o EndAll(entries) \o <<Finish(reason)>>)
<1>1. Sequential(ends) /\ Sequential(EndAll(entries)) /\ Sequential(<<Finish(reason)>>)
    BY CallsAllEnd, OneElement DEF Runs
<1>2. Regrouped(ends, EndAll(entries), <<Finish(reason)>>)
    BY <1>1, Regrouping
<1>3. Closes(L, ends \o (EndAll(entries) \o <<Finish(reason)>>))
    BY AllFinishes
<1>4. ends \o (EndAll(entries) \o <<Finish(reason)>>) = ends \o EndAll(entries) \o <<Finish(reason)>>
    BY <1>2 DEF Regrouped
<1>. QED
    BY <1>3, <1>4

LEMMA AnthropicFlushes ==
    ASSUME NEW L, NEW n, NEW d, NEW open, AnthropicAt(L, d, n, open)
    PROVE  FlushedWell(L, A!Flush(d))
<1>. PICK S, E, T : Reaches(L, S, E, T) /\ AnthropicMatch(d, n, open, S, E, T)
    BY DEF AnthropicAt
<1>. DEFINE gone  == Spoken(d.blocks)
            ends  == EndsOf(gone)
            calls == FinishCalls(d)
<1>1. A!Flush(d) = IF calls.error # "none" THEN calls
                   ELSE Emits([calls.state EXCEPT !.blocks = <<>>],
                              ends \o calls.events \o <<Finish(d.reason)>>)
    <2>1. ends = [k \in DOMAIN gone |-> A!End(gone[k].kind, gone[k].id)]
        BY AnthropicSame DEF EndsOf
    <2>2. gone = A!Select(d.blocks, LAMBDA b : b.kind # "tool")
        BY DEF Spoken
    <2>3. calls = A!FinishCalls(d) /\ <<Finish(d.reason)>> = <<A!Finish(d.reason)>>
        BY AnthropicSame
    <2>. HIDE DEF ends, gone, calls
    <2>4. A!Flush(d) = IF calls.error # "none" THEN calls
                   ELSE A!Emits([calls.state EXCEPT !.blocks = <<>>],
                              ends \o calls.events \o <<A!Finish(d.reason)>>)
        BY <2>1, <2>2, <2>3 DEF A!Flush
    <2>. QED
        BY <2>3, <2>4, AnthropicSame
<1>2. CallsMatch(d.entries, S, E, T)
    BY DEF AnthropicMatch
<1>3. \/ gone = <<>> /\ S \subseteq E
      \/ \E b : /\ gone = IF b.kind # "tool" THEN <<b>> ELSE <<>>
                /\ <<b.kind, b.id>> \in S \ E /\ S \ E \subseteq {<<b.kind, b.id>>}
    <2>1. CASE d.blocks = <<>> /\ S \subseteq E
        BY <2>1, NoBlock
    <2>2. ASSUME NEW b, d.blocks = <<b>>, <<b.kind, b.id>> \in S \ E, S \ E \subseteq {<<b.kind, b.id>>}
          PROVE  /\ gone = IF b.kind # "tool" THEN <<b>> ELSE <<>>
                 /\ <<b.kind, b.id>> \in S \ E /\ S \ E \subseteq {<<b.kind, b.id>>}
        BY <2>2, OneBlock
    <2>. HIDE DEF gone
    <2>. QED
        BY <2>1, <2>2 DEF AnthropicMatch
<1>. HIDE DEF gone
<1>4. /\ Sequential(gone)
      /\ \A k \in 1..Len(gone) : gone[k].kind # "tool" /\ <<gone[k].kind, gone[k].id>> \in S \ E
      /\ \A k, m \in 1..Len(gone) : gone[k].kind = gone[m].kind /\ gone[k].id = gone[m].id => k = m
      /\ \A k \in S \ E : k[1] # "tool" => k \in TextKeys(gone)
    <2>1. CASE gone = <<>> /\ S \subseteq E
        BY <2>1, Nothing
    <2>2. ASSUME NEW b, gone = IF b.kind # "tool" THEN <<b>> ELSE <<>>,
                 <<b.kind, b.id>> \in S \ E, S \ E \subseteq {<<b.kind, b.id>>}
          PROVE  <1>4!:
        <3>1. CASE b.kind = "tool"
            BY <2>2, <3>1, Nothing
        <3>2. CASE b.kind # "tool"
            <4>1. Sequential(gone) /\ Len(gone) = 1 /\ gone[1] = b
                BY <2>2, <3>2, OneElement
            <4>2. <<b.kind, b.id>> \in TextKeys(gone)
                BY <4>1 DEF TextKeys
            <4>. QED
                BY <2>2, <3>2, <4>1, <4>2
        <3>. QED
            BY <3>1, <3>2
    <2>. QED
        BY <1>3, <2>1, <2>2
<1>. DEFINE E2 == E \cup TextKeys(gone)
<1>5. Runs(L, <<>>, S, E, T)
    BY NoEvents
<1>6. Sequential(ends) /\ Runs(L, <<>> \o ends, S, E2, T) /\ CallsMatch(d.entries, S, E2, T)
    <2>1. /\ Sequential(gone)
          /\ \A k \in 1..Len(gone) : gone[k].kind # "tool" /\ <<gone[k].kind, gone[k].id>> \in S \ E
          /\ \A m, k \in 1..Len(gone) : gone[m].kind = gone[k].kind /\ gone[m].id = gone[k].id => m = k
        BY <1>4
    <2>2. /\ Sequential(EndsOf(gone))
          /\ Runs(L, <<>> \o EndsOf(gone), S, E \cup TextKeys(gone), T)
          /\ CallsMatch(d.entries, S, E \cup TextKeys(gone), T)
        <3>. HIDE DEF ends
        <3>. QED
            BY <1>2, <1>5, <2>1, TextsEnd
    <2>. QED
        BY <2>2
<1>7. <<>> \o ends = ends
    BY <1>6, Nothing
<1>8. \A k \in S \ E2 : k[1] = "tool"
    BY <1>4
<1>. HIDE DEF ends, E2
<1>9. Closes(L, ends \o EndAll(d.entries) \o <<Finish(d.reason)>>)
    BY <1>6, <1>7, <1>8, EndsAndFinishes
<1>10. CASE ~ AllParse(d.entries)
    <2>1. calls = [state |-> d, events |-> <<>>, error |-> "invalid-provider-output"]
        BY <1>10 DEF FinishCalls, Fails
    <2>. QED
        BY <1>1, <2>1 DEF FlushedWell
<1>11. CASE AllParse(d.entries)
    <2>1. calls.error = "none" /\ calls.events = EndAll(d.entries)
        BY <1>11 DEF FinishCalls, Emits
    <2>. HIDE DEF calls
    <2>2. A!Flush(d).error = "none"
          /\ A!Flush(d).events = ends \o EndAll(d.entries) \o <<Finish(d.reason)>>
        BY <1>1, <2>1 DEF Emits
    <2>. QED
        BY <1>9, <2>2 DEF FlushedWell
<1>. QED
    BY <1>10, <1>11

-----------------------------------------------------------------------------
(* Codex's items.                                                          *)

LEMMA CodexSame ==
    /\ \A s, e : C!Emits(s, e) = Emits(s, e) /\ C!Fails(s, e) = Fails(s, e)
    /\ \A k, i, d : /\ C!Start(k, i) = Start(k, i) /\ C!End(k, i) = End(k, i)
                    /\ C!Delta(k, i, d) = Delta(k, i, d)
                    /\ C!Finish(k) = Finish(k)
    /\ C!Kinds = Kinds
    /\ \A e, i, p : /\ C!StartEntry(e, i) = StartEntry(e, i)
                    /\ C!AppendArgs(e, i, p) = AppendArgs(e, i, p)
    /\ \A s : C!FinishCalls(s) = FinishCalls(s)
    /\ \A s, i : C!FinishCall(s, i) = FinishCall(s, i)
<1>1. \A s, e : C!Emits(s, e) = Emits(s, e) /\ C!Fails(s, e) = Fails(s, e)
    BY DEF C!Emits, Emits, C!Fails, Fails
<1>2. \A k, i, d : /\ C!Start(k, i) = Start(k, i) /\ C!End(k, i) = End(k, i)
                   /\ C!Delta(k, i, d) = Delta(k, i, d)
                   /\ C!Finish(k) = Finish(k)
    BY DEF C!Start, Start, C!End, End, C!Delta, Delta, C!Finish, Finish, C!Event, Event
<1>3. C!Kinds = Kinds
    BY DEF C!Kinds, Kinds
<1>4. \A e, i, p : /\ C!StartEntry(e, i) = StartEntry(e, i)
                   /\ C!AppendArgs(e, i, p) = AppendArgs(e, i, p)
    BY DEF C!StartEntry, StartEntry, C!AppendArgs, AppendArgs
<1>5. \A s : C!FinishCalls(s) = FinishCalls(s)
    <2>1. \A e : C!EndAll(e) = EndAll(e)
        BY DEF C!EndAll, EndAll, C!EntryEvents, EntryEvents, C!End, End, C!Call, Call,
               C!Event, Event, C!FlattenSeq, FlattenSeq
    <2>2. \A e : C!AllParse(e) = AllParse(e)
        BY DEF C!AllParse, AllParse, C!Parses, Parses
    <2>. QED
        BY <1>1, <2>1, <2>2 DEF C!FinishCalls, FinishCalls
<1>6. \A s, i : C!FinishCall(s, i) = FinishCall(s, i)
    <2>1. \A e, i : C!IsOpen(e, i) = IsOpen(e, i) /\ C!Entry(e, i) = Entry(e, i)
        BY DEF C!IsOpen, IsOpen, C!Entry, Entry
    <2>2. \A e, i : C!Without(e, i) = Without(e, i)
        BY DEF C!Without, Without, C!Select, Select, C!FlattenSeq, FlattenSeq
    <2>3. \A e : C!EntryEvents(e) = EntryEvents(e)
        BY DEF C!EntryEvents, EntryEvents, C!End, End, C!Call, Call, C!Event, Event
    <2>4. \A a : C!Parses(a) = Parses(a)
        BY DEF C!Parses, Parses
    <2>. QED
        BY <1>1, <2>1, <2>2, <2>3, <2>4 DEF C!FinishCall, FinishCall
<1>. QED
    BY <1>1, <1>2, <1>3, <1>4, <1>5, <1>6

\* The decoder's numbers, its open texts and what it knows of the calls.
CodexNumbers(started, S) ==
    /\ started = [kind \in Kinds |-> started[kind]]
    /\ \A kind \in Texts :
          /\ started[kind] \in Nat
          /\ \A m \in Nat : m > started[kind] => <<kind, m>> \notin S

CodexOpen(open, S, E) ==
    /\ Sequential(open)
    /\ \A k \in 1..Len(open) : open[k].kind \in Texts /\ <<open[k].kind, open[k].id>> \in S \ E
    /\ \A k, m \in 1..Len(open) : open[k].kind = open[m].kind /\ open[k].id = open[m].id => k = m
    /\ \A x \in S \ E : x[1] # "tool" =>
          \E k \in 1..Len(open) : x = <<open[k].kind, open[k].id>>

CodexTools(tools, n, S, E) ==
    /\ Sequential(tools)
    /\ \A k \in 1..Len(tools) :
          /\ tools[k] = [item |-> tools[k].item, sawDelta |-> tools[k].sawDelta,
                         finished |-> tools[k].finished]
          /\ tools[k].finished \/ <<"tool", tools[k].item>> \in S \ E
    /\ \A id : <<"tool", id>> \in S => id \in 1..n

CodexMatch(d, n, S, E, T) ==
    /\ d = [entries |-> d.entries, open |-> d.open, tools |-> d.tools, started |-> d.started,
            reason |-> d.reason]
    /\ CallsMatch(d.entries, S, E, T)
    /\ CodexNumbers(d.started, S)
    /\ CodexOpen(d.open, S, E)
    /\ CodexTools(d.tools, n, S, E)

CodexAt(L, d, n) == \E S, E, T : Reaches(L, S, E, T) /\ CodexMatch(d, n, S, E, T)

CodexHandled(L, r, n) ==
    IF r.error = "none" THEN Sequential(r.events) /\ CodexAt(L \o r.events, r.state, n)
                        ELSE r.events = <<>>

LEMMA CodexStarts ==
    \A d : d = C!Decoder => CodexMatch(d, 0, {}, {}, {})
<1>. SUFFICES ASSUME NEW d, d = C!Decoder
              PROVE  CodexMatch(d, 0, {}, {}, {})
    OBVIOUS
<1>1. d = [entries |-> <<>>, open |-> <<>>, tools |-> <<>>, started |-> [k \in Kinds |-> 0],
           reason |-> "unknown"]
    BY CodexSame DEF C!Decoder
<1>2. CodexNumbers(d.started, {})
    BY <1>1 DEF CodexNumbers, Texts, Kinds
<1>3. CodexOpen(<<>>, {}, {}) /\ CodexTools(<<>>, 0, {}, {})
    BY Nothing DEF CodexOpen, CodexTools
<1>. QED
    BY <1>1, <1>2, <1>3, NoCalls DEF CodexMatch

LEMMA CodexSays ==
    ASSUME NEW L, NEW r, NEW n, NEW S, NEW E, NEW T,
           r = [state |-> r.state, events |-> r.events, error |-> "none"],
           Runs(L, r.events, S, E, T), CodexMatch(r.state, n, S, E, T)
    PROVE  CodexHandled(L, r, n)
<1>1. r.error = "none"
    OBVIOUS
<1>. QED
    BY <1>1 DEF CodexHandled, CodexAt, Runs

\* A text begins: its number is new.
LEMMA CodexTextBegins ==
    ASSUME NEW entries, NEW started, NEW open, NEW tools, NEW n, NEW S, NEW E, NEW T,
           CallsMatch(entries, S, E, T), CodexNumbers(started, S), CodexOpen(open, S, E),
           CodexTools(tools, n, S, E), NEW kind \in Texts, NEW item
    PROVE  LET m == started[kind] + 1
               k == <<kind, m>>
           IN  /\ k \notin S /\ k \notin E
               /\ CallsMatch(entries, S \cup {k}, E, T)
               /\ CodexNumbers([started EXCEPT ![kind] = m], S \cup {k})
               /\ CodexOpen(Append(open, [kind |-> kind, item |-> item, id |-> m]), S \cup {k}, E)
               /\ CodexTools(tools, n, S \cup {k}, E)
<1>. DEFINE m == started[kind] + 1
            k == <<kind, m>>
            o == [kind |-> kind, item |-> item, id |-> m]
            more == Append(open, o)
            numbers == [started EXCEPT ![kind] = m]
<1>0. kind \in Kinds /\ kind # "tool"
    BY DEF Texts, Kinds
<1>1. started[kind] \in Nat
    BY DEF CodexNumbers
<1>2. m \in Nat /\ m > started[kind]
    BY <1>1
<1>. HIDE DEF m
<1>3. k \notin S
    BY <1>2 DEF CodexNumbers
<1>4. k \notin E
    BY <1>3 DEF CallsMatch
<1>5. CallsMatch(entries, S \cup {k}, E, T)
    BY <1>0, CallsApart
<1>6. CodexNumbers(numbers, S \cup {k})
    <2>1. numbers = [x \in Kinds |-> IF x = kind THEN m ELSE started[x]]
        BY DEF CodexNumbers
    <2>. HIDE DEF numbers
    <2>2. ASSUME NEW x \in Texts
          PROVE  /\ numbers[x] \in Nat
                 /\ \A j \in Nat : j > numbers[x] => <<x, j>> \notin S \cup {k}
        <3>0. x \in Kinds
            BY DEF Kinds, Texts
        <3>1. CASE x = kind
            <4>1. numbers[x] = m
                BY <2>1, <3>0, <3>1
            <4>2. ASSUME NEW j \in Nat, j > m
                  PROVE  <<x, j>> \notin S \cup {k}
                <5>1. j > started[x] /\ j # m
                    BY <1>1, <1>2, <3>1, <4>2
                <5>. QED
                    BY <5>1 DEF CodexNumbers
            <4>. QED
                BY <1>2, <4>1, <4>2
        <3>2. CASE x # kind
            <4>1. numbers[x] = started[x] /\ \A j : <<x, j>> # k
                BY <2>1, <3>0, <3>2
            <4>. QED
                BY <4>1 DEF CodexNumbers
        <3>. QED
            BY <3>1, <3>2
    <2>3. numbers = [x \in Kinds |-> numbers[x]]
        BY <2>1
    <2>. QED
        BY <2>2, <2>3 DEF CodexNumbers
<1>7. CodexOpen(more, S \cup {k}, E)
    <2>1. Sequential(open) /\ Len(open) \in Nat
        BY SequenceIs DEF CodexOpen
    <2>2. o.kind = kind /\ o.id = m
        OBVIOUS
    <2>. HIDE DEF o
    <2>3. /\ Sequential(more) /\ Len(more) = Len(open) + 1 /\ more[Len(open) + 1] = o
          /\ \A j \in 1..Len(open) : more[j] = open[j]
        BY <2>1, Appended
    <2>. HIDE DEF more
    <2>4. \A j \in 1..Len(more) : j \in 1..Len(open) \/ j = Len(open) + 1
        BY <2>1, <2>3
    <2>5. \A j \in 1..Len(more) : more[j].kind \in Texts /\ <<more[j].kind, more[j].id>> \in (S \cup {k}) \ E
        BY <1>4, <2>2, <2>3, <2>4 DEF CodexOpen
    <2>6. \A i, j \in 1..Len(more) : more[i].kind = more[j].kind /\ more[i].id = more[j].id => i = j
        <3>1. \A j \in 1..Len(open) : <<open[j].kind, open[j].id>> # k
            BY <1>3 DEF CodexOpen
        <3>2. \A j \in 1..Len(open) : ~ (open[j].kind = kind /\ open[j].id = m)
            BY <3>1
        <3>3. \A j \in 1..Len(open) : ~ (more[j].kind = kind /\ more[j].id = m)
            BY <2>3, <3>2
        <3>4. \A i, j \in 1..Len(open) : more[i].kind = more[j].kind /\ more[i].id = more[j].id => i = j
            BY <2>3 DEF CodexOpen
        <3>. QED
            BY <2>2, <2>3, <2>4, <3>3, <3>4
    <2>7. ASSUME NEW x \in (S \cup {k}) \ E, x[1] # "tool"
          PROVE  \E j \in 1..Len(more) : x = <<more[j].kind, more[j].id>>
        <3>1. CASE x = k
            <4>1. Len(open) + 1 \in 1..Len(more)
                BY <2>1, <2>3
            <4>. QED
                BY <2>2, <2>3, <3>1, <4>1
        <3>2. CASE x \in S \ E
            <4>1. PICK j \in 1..Len(open) : x = <<open[j].kind, open[j].id>>
                BY <2>7, <3>2 DEF CodexOpen
            <4>2. j \in 1..Len(more)
                BY <2>1, <2>3
            <4>. QED
                BY <2>3, <4>1, <4>2
        <3>. QED
            BY <3>1, <3>2
    <2>. QED
        BY <2>3, <2>5, <2>6, <2>7 DEF CodexOpen
<1>8. CodexTools(tools, n, S \cup {k}, E)
    <2>1. \A id : <<"tool", id>> # k
        BY <1>0
    <2>. QED
        BY <2>1 DEF CodexTools
<1>. QED
    BY <1>3, <1>4, <1>5, <1>6, <1>7, <1>8 DEF m

\* A call is no text.
LEMMA CodexOpenApart ==
    ASSUME NEW started, NEW open, NEW S, NEW E, CodexNumbers(started, S), CodexOpen(open, S, E),
           NEW id
    PROVE  /\ CodexNumbers(started, S \cup {<<"tool", id>>})
           /\ CodexOpen(open, S \cup {<<"tool", id>>}, E)
           /\ CodexOpen(open, S, E \cup {<<"tool", id>>})
<1>. DEFINE k == <<"tool", id>>
<1>1. \A kind \in Texts : \A m : <<kind, m>> # k
    BY DEF Texts
<1>2. k[1] = "tool"
    OBVIOUS
<1>. HIDE DEF k
<1>3. CodexNumbers(started, S \cup {k})
    BY <1>1 DEF CodexNumbers
<1>4. \A j \in 1..Len(open) : <<open[j].kind, open[j].id>> # k
    BY <1>1 DEF CodexOpen
<1>5. CodexOpen(open, S \cup {k}, E)
    <2>1. \A j \in 1..Len(open) : open[j].kind \in Texts /\ <<open[j].kind, open[j].id>> \in (S \cup {k}) \ E
        BY DEF CodexOpen
    <2>2. \A x \in (S \cup {k}) \ E : x[1] # "tool" => x \in S \ E
        BY <1>2
    <2>. QED
        BY <2>1, <2>2 DEF CodexOpen
<1>6. CodexOpen(open, S, E \cup {k})
    <2>1. \A j \in 1..Len(open) : open[j].kind \in Texts /\ <<open[j].kind, open[j].id>> \in S \ (E \cup {k})
        BY <1>4 DEF CodexOpen
    <2>. QED
        BY <2>1 DEF CodexOpen
<1>. QED
    BY <1>3, <1>5, <1>6 DEF k

LEMMA CodexToolBegins ==
    ASSUME NEW entries, NEW tools, NEW n \in Nat, NEW S, NEW E, NEW T,
           CallsMatch(entries, S, E, T), CodexTools(tools, n, S, E), NEW tool,
           tool = [item |-> n + 1, sawDelta |-> FALSE, finished |-> FALSE]
    PROVE  /\ <<"tool", n + 1>> \notin S
           /\ CallsMatch(StartEntry(entries, n + 1), S \cup {<<"tool", n + 1>>}, E, T)
           /\ CodexTools(Append(tools, tool), n + 1, S \cup {<<"tool", n + 1>>}, E)
<1>. DEFINE k    == <<"tool", n + 1>>
            more == Append(tools, tool)
<1>1. ~ (n + 1 \in 1..n)
    OBVIOUS
<1>2. k \notin S
    BY <1>1 DEF CodexTools
<1>3. k \notin E
    BY <1>2 DEF CallsMatch
<1>4. CallsMatch(StartEntry(entries, n + 1), S \cup {k}, E, T)
    BY <1>2, CallsStart
<1>5. CodexTools(more, n + 1, S \cup {k}, E)
    <2>1. Sequential(tools) /\ Len(tools) \in Nat
        BY SequenceIs DEF CodexTools
    <2>2. /\ Sequential(more) /\ Len(more) = Len(tools) + 1 /\ more[Len(tools) + 1] = tool
          /\ \A j \in 1..Len(tools) : more[j] = tools[j]
        BY <2>1, Appended
    <2>3. /\ tool = [item |-> tool.item, sawDelta |-> tool.sawDelta, finished |-> tool.finished]
          /\ <<"tool", tool.item>> = k
        OBVIOUS
    <2>. HIDE DEF more, k
    <2>4. \A j \in 1..Len(more) : j \in 1..Len(tools) \/ j = Len(tools) + 1
        BY <2>1, <2>2
    <2>5. ASSUME NEW j \in 1..Len(more)
          PROVE  /\ more[j] = [item |-> more[j].item, sawDelta |-> more[j].sawDelta,
                               finished |-> more[j].finished]
                 /\ more[j].finished \/ <<"tool", more[j].item>> \in (S \cup {k}) \ E
        <3>1. CASE j = Len(tools) + 1
            BY <1>3, <2>2, <2>3, <3>1
        <3>2. CASE j \in 1..Len(tools)
            BY <2>2, <3>2 DEF CodexTools
        <3>. QED
            BY <2>4, <3>1, <3>2
    <2>6. \A id : <<"tool", id>> \in S \cup {k} => id \in 1..n + 1
        <3>1. ASSUME NEW id, <<"tool", id>> \in S PROVE id \in 1..n + 1
            <4>1. id \in 1..n
                BY <3>1 DEF CodexTools
            <4>. QED
                BY <4>1
        <3>2. \A id : <<"tool", id>> = k => id \in 1..n + 1
            BY DEF k
        <3>. QED
            BY <3>1, <3>2
    <2>. QED
        BY <2>2, <2>5, <2>6 DEF CodexTools
<1>. QED
    BY <1>2, <1>4, <1>5

\* What is known of one call changes; its input may have ended, when it is finished.
Changes(changed, tools, item) ==
    /\ changed = [k \in DOMAIN tools |->
                     IF tools[k].item = item THEN changed[k] ELSE tools[k]]
    /\ \A k \in DOMAIN tools : tools[k].item = item =>
          /\ changed[k] = [item |-> item, sawDelta |-> changed[k].sawDelta,
                           finished |-> changed[k].finished]
          /\ tools[k].finished => changed[k].finished

LEMMA CodexToolChanges ==
    ASSUME NEW tools, NEW n, NEW S, NEW E, CodexTools(tools, n, S, E), NEW item, NEW changed,
           Changes(changed, tools, item)
    PROVE  /\ CodexTools(changed, n, S, E)
           /\ (\A k \in DOMAIN tools : tools[k].item = item => changed[k].finished)
                 => CodexTools(changed, n, S, E \cup {<<"tool", item>>})
<1>0. /\ changed = [k \in DOMAIN tools |->
                     IF tools[k].item = item THEN changed[k] ELSE tools[k]]
      /\ \A k \in DOMAIN tools : tools[k].item = item =>
          /\ changed[k] = [item |-> item, sawDelta |-> changed[k].sawDelta,
                           finished |-> changed[k].finished]
          /\ tools[k].finished => changed[k].finished
    BY DEF Changes
<1>1. DOMAIN tools = 1..Len(tools) /\ Len(tools) \in Nat
    BY SequenceIs DEF CodexTools
<1>2. Sequential(changed) /\ Len(changed) = Len(tools) /\ DOMAIN changed = 1..Len(tools)
    <2>1. \A k \in 1..Len(tools) : changed[k] = IF tools[k].item = item THEN changed[k] ELSE tools[k]
        BY <1>0, <1>1
    <2>2. changed = [k \in 1..Len(tools) |-> changed[k]]
        BY <1>0, <1>1, <2>1
    <2>. QED
        BY <1>1, <2>2, FunctionIsSequence
<1>3. \A k \in 1..Len(tools) : tools[k].item # item => changed[k] = tools[k]
    BY <1>0, <1>1
<1>4. \A k \in 1..Len(tools) :
          /\ changed[k] = [item |-> changed[k].item, sawDelta |-> changed[k].sawDelta,
                           finished |-> changed[k].finished]
          /\ changed[k].item = tools[k].item
          /\ tools[k].finished => changed[k].finished
    <2>. TAKE k \in 1..Len(tools)
    <2>1. CASE tools[k].item = item
        <3>1. /\ changed[k] = [item |-> item, sawDelta |-> changed[k].sawDelta,
                               finished |-> changed[k].finished]
              /\ tools[k].finished => changed[k].finished
            BY <1>0, <1>1, <2>1
        <3>2. changed[k].item = item
            BY <3>1
        <3>. QED
            BY <2>1, <3>1, <3>2
    <2>2. CASE tools[k].item # item
        BY <1>3, <2>2 DEF CodexTools
    <2>. QED
        BY <2>1, <2>2
<1>5. CodexTools(changed, n, S, E)
    BY <1>2, <1>4 DEF CodexTools
<1>6. ASSUME \A k \in DOMAIN tools : tools[k].item = item => changed[k].finished
      PROVE  CodexTools(changed, n, S, E \cup {<<"tool", item>>})
    <2>1. ASSUME NEW k \in 1..Len(tools)
          PROVE  changed[k].finished \/ <<"tool", changed[k].item>> \in S \ (E \cup {<<"tool", item>>})
        <3>1. CASE tools[k].item = item
            BY <1>1, <1>6, <3>1
        <3>2. CASE tools[k].item # item
            BY <1>4, <1>5, <1>2, <3>2 DEF CodexTools
        <3>. QED
            BY <3>1, <3>2
    <2>. QED
        BY <1>2, <1>4, <1>5, <2>1 DEF CodexTools
<1>. QED
    BY <1>5, <1>6

\* The open texts at X are closed.
TextsClosed(L, events, d, n, X, S, E, T) ==
    LET gone == Picked(d.open, X)
        rest == Picked(d.open, (1..Len(d.open)) \ X)
        E2   == E \cup TextKeys(gone)
    IN  /\ Sequential(EndsOf(gone))
        /\ Runs(L, events \o EndsOf(gone), S, E2, T)
        /\ CodexMatch([d EXCEPT !.open = rest], n, S, E2, T)
        /\ X = 1..Len(d.open) => rest = <<>>

LEMMA CodexTextsClose ==
    ASSUME NEW L, NEW events, NEW S, NEW E, NEW T, Runs(L, events, S, E, T),
           NEW d, NEW n, CodexMatch(d, n, S, E, T), NEW X \in SUBSET (1..Len(d.open))
    PROVE  TextsClosed(L, events, d, n, X, S, E, T)
<1>. PICK gone : gone = Picked(d.open, X)
    OBVIOUS
<1>. PICK rest : rest = Picked(d.open, (1..Len(d.open)) \ X)
    OBVIOUS
<1>. DEFINE E2   == E \cup TextKeys(gone)
            open == d.open
            next == [d EXCEPT !.open = rest]
<1>1. CodexOpen(open, S, E) /\ Sequential(open) /\ CallsMatch(d.entries, S, E, T)
    BY DEF CodexMatch, CodexOpen
<1>. HIDE DEF open
<1>2. X \in SUBSET (1..Len(open)) /\ (1..Len(open)) \ X \in SUBSET (1..Len(open))
    BY DEF open
<1>3. Part(gone, open, X) /\ Part(rest, open, (1..Len(open)) \ X)
    BY <1>1, <1>2, Parting DEF open
<1>. DEFINE K(j) == <<open[j].kind, open[j].id>>
<1>4. PICK p : /\ p \in [1..Len(gone) -> X]
               /\ \A i, j \in 1..Len(gone) : p[i] = p[j] => i = j
               /\ \A x \in X : \E i \in 1..Len(gone) : p[i] = x
               /\ \A i \in 1..Len(gone) : gone[i] = open[p[i]]
    BY <1>3 DEF Part
<1>5. PICK q : /\ q \in [1..Len(rest) -> (1..Len(open)) \ X]
               /\ \A i, j \in 1..Len(rest) : q[i] = q[j] => i = j
               /\ \A x \in (1..Len(open)) \ X : \E i \in 1..Len(rest) : q[i] = x
               /\ \A i \in 1..Len(rest) : rest[i] = open[q[i]]
    BY <1>3 DEF Part
<1>6. Sequential(gone) /\ Sequential(rest)
    BY <1>3 DEF Part
<1>7. /\ \A j \in 1..Len(open) : open[j].kind \in Texts /\ K(j) \in S \ E /\ open[j].kind # "tool"
      /\ \A i, j \in 1..Len(open) : K(i) = K(j) => i = j
      /\ \A i, j \in 1..Len(open) : open[i].kind = open[j].kind /\ open[i].id = open[j].id => i = j
    <2>1. \A j \in 1..Len(open) : open[j].kind \in Texts /\ K(j) \in S \ E
        BY <1>1 DEF CodexOpen
    <2>2. \A j \in 1..Len(open) : open[j].kind # "tool"
        BY <2>1 DEF Texts
    <2>3. \A i, j \in 1..Len(open) : open[i].kind = open[j].kind /\ open[i].id = open[j].id => i = j
        BY <1>1 DEF CodexOpen
    <2>4. \A i, j \in 1..Len(open) : K(i) = K(j) => i = j
        BY <2>3
    <2>. QED
        BY <2>1, <2>2, <2>3, <2>4
<1>8. \A j \in 1..Len(gone) : gone[j].kind # "tool" /\ <<gone[j].kind, gone[j].id>> \in S \ E
    <2>. TAKE j \in 1..Len(gone)
    <2>1. p[j] \in 1..Len(open) /\ gone[j] = open[p[j]]
        BY <1>2, <1>4
    <2>2. open[p[j]].kind # "tool" /\ K(p[j]) \in S \ E
        BY <1>7, <2>1
    <2>. QED
        BY <2>1, <2>2
<1>9. \A i, j \in 1..Len(gone) : gone[i].kind = gone[j].kind /\ gone[i].id = gone[j].id => i = j
    <2>. SUFFICES ASSUME NEW i \in 1..Len(gone), NEW j \in 1..Len(gone),
                         gone[i].kind = gone[j].kind, gone[i].id = gone[j].id
                  PROVE  i = j
        OBVIOUS
    <2>1. p[i] \in 1..Len(open) /\ p[j] \in 1..Len(open)
        BY <1>2, <1>4
    <2>2. p[i] = p[j]
        BY <1>4, <1>7, <2>1
    <2>. QED
        BY <1>4, <2>2
<1>. HIDE DEF K
<1>10. /\ Sequential(EndsOf(gone)) /\ Runs(L, events \o EndsOf(gone), S, E2, T)
       /\ CallsMatch(d.entries, S, E2, T)
    <2>1. /\ Sequential(EndsOf(gone)) /\ Runs(L, events \o EndsOf(gone), S, E \cup TextKeys(gone), T)
          /\ CallsMatch(d.entries, S, E \cup TextKeys(gone), T)
        <3>. HIDE DEF next
        <3>. QED
            BY <1>1, <1>6, <1>8, <1>9, TextsEnd
    <2>. QED
        BY <2>1
<1>11. TextKeys(gone) = {K(j) : j \in X}
    <2>1. ASSUME NEW j \in 1..Len(gone)
          PROVE  <<gone[j].kind, gone[j].id>> \in {K(x) : x \in X}
        BY <1>4 DEF K
    <2>2. ASSUME NEW x \in X
          PROVE  \E j \in 1..Len(gone) : K(x) = <<gone[j].kind, gone[j].id>>
        BY <1>4 DEF K
    <2>. QED
        <3>1. TextKeys(gone) \subseteq {K(x) : x \in X}
            BY <2>1 DEF TextKeys
        <3>2. \A x \in X : K(x) \in TextKeys(gone)
            BY <2>2 DEF TextKeys
        <3>. QED
            BY <3>1, <3>2
<1>. HIDE DEF E2
<1>12. CodexOpen(rest, S, E2)
    <2>1. ASSUME NEW i \in 1..Len(rest)
          PROVE  rest[i].kind \in Texts /\ <<rest[i].kind, rest[i].id>> \in S \ E2
        <3>1. q[i] \in 1..Len(open) /\ q[i] \notin X /\ rest[i] = open[q[i]]
            BY <1>5
        <3>2. K(q[i]) \in S \ E /\ K(q[i]) \notin TextKeys(gone)
            BY <1>2, <1>7, <1>11, <3>1
        <3>. QED
            BY <1>7, <3>1, <3>2 DEF E2, K
    <2>2. ASSUME NEW i \in 1..Len(rest), NEW j \in 1..Len(rest),
                 rest[i].kind = rest[j].kind, rest[i].id = rest[j].id
          PROVE  i = j
        <3>1. q[i] \in 1..Len(open) /\ q[j] \in 1..Len(open)
            BY <1>5
        <3>2. q[i] = q[j]
            <4>1. rest[i] = open[q[i]] /\ rest[j] = open[q[j]]
                BY <1>5
            <4>2. open[q[i]].kind = open[q[j]].kind /\ open[q[i]].id = open[q[j]].id
                BY <2>2, <4>1
            <4>. QED
                BY <1>7, <3>1, <4>2
        <3>. QED
            BY <1>5, <3>2
    <2>3. ASSUME NEW x \in S \ E2, x[1] # "tool"
          PROVE  \E i \in 1..Len(rest) : x = <<rest[i].kind, rest[i].id>>
        <3>1. x \in S \ E /\ x \notin TextKeys(gone)
            BY <2>3 DEF E2
        <3>2. PICK j \in 1..Len(open) : x = K(j)
            BY <1>1, <2>3, <3>1 DEF CodexOpen, K
        <3>3. j \notin X
            BY <1>11, <3>1, <3>2
        <3>4. PICK i \in 1..Len(rest) : q[i] = j
            BY <1>5, <3>3
        <3>. QED
            BY <1>5, <3>2, <3>4 DEF K
    <2>. QED
        BY <1>6, <2>1, <2>2, <2>3 DEF CodexOpen
<1>13. CodexTools(d.tools, n, S, E2)
    <2>1. \A id : <<"tool", id>> \notin TextKeys(gone)
        BY <1>8 DEF TextKeys
    <2>2. CodexTools(d.tools, n, S, E)
        BY DEF CodexMatch
    <2>. QED
        BY <2>1, <2>2 DEF CodexTools, E2
<1>14. CodexMatch(next, n, S, E2, T)
    <2>1. d = [entries |-> d.entries, open |-> d.open, tools |-> d.tools, started |-> d.started,
               reason |-> d.reason] /\ CodexNumbers(d.started, S)
        BY DEF CodexMatch
    <2>2. next = [entries |-> d.entries, open |-> rest, tools |-> d.tools, started |-> d.started,
                  reason |-> d.reason]
        BY <2>1
    <2>. HIDE DEF next
    <2>3. /\ next = [entries |-> next.entries, open |-> next.open, tools |-> next.tools,
                     started |-> next.started, reason |-> next.reason]
          /\ next.entries = d.entries /\ next.open = rest /\ next.tools = d.tools
          /\ next.started = d.started
        BY <2>2
    <2>. QED
        BY <1>10, <1>12, <1>13, <2>1, <2>3 DEF CodexMatch
<1>15. X = 1..Len(d.open) => rest = <<>>
    <2>. SUFFICES ASSUME X = 1..Len(open) PROVE rest = <<>>
        BY DEF open
    <2>1. \A i \in 1..Len(rest) : FALSE
        BY <1>5
    <2>2. Len(rest) \in Nat /\ rest = [i \in 1..Len(rest) |-> rest[i]]
        BY <1>6, SequenceIs
    <2>3. ~ (1 \in 1..Len(rest))
        BY <2>1
    <2>4. Len(rest) = 0
        BY <2>2, <2>3
    <2>. QED
        BY <2>2, <2>4
<1>. QED
    BY <1>10, <1>14, <1>15 DEF E2, TextsClosed

\* A text that is open for an item is found there.
FindsOpen(d, kind, item, S, E) ==
    C!OpenAt(d, kind, item) # <<>> => <<kind, Head(C!OpenAt(d, kind, item)).id>> \in S \ E

LEMMA CodexOpenAt ==
    ASSUME NEW d, NEW S, NEW E, CodexOpen(d.open, S, E), NEW kind, NEW item
    PROVE  FindsOpen(d, kind, item, S, E)
<1>. SUFFICES ASSUME C!OpenAt(d, kind, item) # <<>>, NEW id, id = Head(C!OpenAt(d, kind, item)).id
              PROVE  <<kind, id>> \in S \ E
    BY DEF FindsOpen
<1>. DEFINE open == d.open
            X    == {k \in 1..Len(open) : open[k].kind = kind /\ open[k].item = item}
            at   == Picked(open, X)
<1>1. Sequential(open) /\ DOMAIN open = 1..Len(open)
    BY SequenceIs DEF CodexOpen
<1>2. C!OpenAt(d, kind, item) = at
    <2>1. C!OpenAt(d, kind, item) =
            C!FlattenSeq([n \in DOMAIN open |-> IF open[n].kind = kind /\ open[n].item = item
                                                THEN <<open[n]>> ELSE <<>>])
        BY DEF C!OpenAt, C!Select
    <2>2. [n \in DOMAIN open |-> IF open[n].kind = kind /\ open[n].item = item THEN <<open[n]>> ELSE <<>>]
            = [n \in DOMAIN open |-> IF n \in X THEN <<open[n]>> ELSE <<>>]
        BY <1>1
    <2>3. \A w : C!FlattenSeq(w) = FlattenSeq(w)
        BY DEF C!FlattenSeq, FlattenSeq
    <2>. HIDE DEF open, X
    <2>. QED
        BY <2>1, <2>2, <2>3 DEF Picked
<1>3. X \in SUBSET (1..Len(open))
    OBVIOUS
<1>4. Part(at, open, X)
    <2>. HIDE DEF X, open
    <2>. QED
        BY <1>1, <1>3, Parting
<1>5. at # <<>> /\ id = Head(at).id
    BY <1>2
<1>. HIDE DEF at
<1>6. PICK p : p \in [1..Len(at) -> X] /\ \A i \in 1..Len(at) : at[i] = open[p[i]]
    BY <1>4 DEF Part
<1>7. Len(at) \in Nat /\ at = [i \in 1..Len(at) |-> at[i]]
    BY <1>4, SequenceIs DEF Part
<1>8. 1 \in 1..Len(at) /\ Head(at) = at[1]
    <2>1. Len(at) # 0
        BY <1>5, <1>7
    <2>2. at[1] = Head(at)
        <3>1. PICK V : at \in Seq(V)
            BY <1>4 DEF Part, Sequential
        <3>. QED
            BY <1>5, <3>1
    <2>. QED
        BY <1>7, <2>1, <2>2
<1>9. p[1] \in 1..Len(open) /\ open[p[1]].kind = kind /\ at[1] = open[p[1]]
    BY <1>6, <1>8
<1>. HIDE DEF X
<1>. QED
    BY <1>5, <1>8, <1>9 DEF CodexOpen

\* A delta extends the text that is open for the item, or begins one.
LEMMA CodexDeltaOf ==
    ASSUME NEW L, NEW n, NEW d, CodexAt(L, d, n), NEW item, NEW kind \in Texts, NEW data,
           NEW c, c = C!Chunk("delta", item, kind, data)
    PROVE  CodexHandled(L, C!DeltaOf(d, c), n)
<1>. PICK S, E, T : Reaches(L, S, E, T) /\ CodexMatch(d, n, S, E, T)
    BY DEF CodexAt
<1>0. c.kind = kind /\ c.item = item /\ c.data = data
    BY DEF C!Chunk
<1>. DEFINE at == C!OpenAt(d, kind, item)
            m  == d.started[kind] + 1
            o  == [kind |-> kind, item |-> item, id |-> m]
            next == [d EXCEPT !.started[kind] = m, !.open = Append(@, o)]
<1>1. C!DeltaOf(d, c) =
        IF data = "" THEN Emits(d, <<>>)
        ELSE IF at # <<>> THEN Emits(d, <<Delta(kind, Head(at).id, data)>>)
        ELSE Emits(next, <<Start(kind, m), Delta(kind, m, data)>>)
    <2>1. C!DeltaOf(d, c) =
        IF data = "" THEN C!Emits(d, <<>>)
        ELSE IF at # <<>> THEN C!Emits(d, <<C!Delta(kind, Head(at).id, data)>>)
        ELSE C!Emits(next, <<C!Start(kind, m), C!Delta(kind, m, data)>>)
        BY <1>0 DEF C!DeltaOf
    <2>. HIDE DEF at, m, next
    <2>. QED
        BY <2>1, CodexSame
<1>2. Runs(L, <<>>, S, E, T)
    BY NoEvents
<1>3. /\ CallsMatch(d.entries, S, E, T) /\ CodexNumbers(d.started, S) /\ CodexOpen(d.open, S, E)
      /\ CodexTools(d.tools, n, S, E)
    BY DEF CodexMatch
<1>. HIDE DEF next
<1>4. CASE data = ""
    <2>1. C!DeltaOf(d, c) = [state |-> d, events |-> <<>>, error |-> "none"]
        BY <1>1, <1>4 DEF Emits
    <2>. QED
        BY <1>2, <2>1, CodexSays
<1>5. CASE data # "" /\ at # <<>>
    <2>. PICK id : id = Head(at).id
        OBVIOUS
    <2>1. C!DeltaOf(d, c) = [state |-> d, events |-> <<Delta(kind, id, data)>>, error |-> "none"]
        BY <1>1, <1>5 DEF Emits
    <2>2. <<kind, id>> \in S \ E
        <3>1. FindsOpen(d, kind, item, S, E)
            BY <1>3, CodexOpenAt
        <3>. QED
            BY <1>5, <3>1 DEF FindsOpen
    <2>3. Runs(L, <<Delta(kind, id, data)>>, S, E, T)
        BY <2>2, SaysOne
    <2>. QED
        BY <2>1, <2>3, CodexSays
<1>6. CASE data # "" /\ at = <<>>
    <2>. DEFINE k == <<kind, m>>
                numbers == [d.started EXCEPT ![kind] = m]
                more    == Append(d.open, o)
    <2>1. /\ k \notin S /\ k \notin E
          /\ CallsMatch(d.entries, S \cup {k}, E, T)
          /\ CodexNumbers(numbers, S \cup {k})
          /\ CodexOpen(more, S \cup {k}, E)
          /\ CodexTools(d.tools, n, S \cup {k}, E)
        BY <1>3, CodexTextBegins
    <2>2. C!DeltaOf(d, c) = [state |-> next, events |-> <<Start(kind, m), Delta(kind, m, data)>>,
                             error |-> "none"]
        BY <1>1, <1>6 DEF Emits
    <2>3. next = [entries |-> d.entries, open |-> more, tools |-> d.tools, started |-> numbers,
                  reason |-> d.reason]
        <3>. DEFINE mid == [d EXCEPT !.started[kind] = m]
        <3>1. d = [entries |-> d.entries, open |-> d.open, tools |-> d.tools, started |-> d.started,
                   reason |-> d.reason]
            BY DEF CodexMatch
        <3>2. mid = [entries |-> d.entries, open |-> d.open, tools |-> d.tools, started |-> numbers,
                     reason |-> d.reason]
            <4>. HIDE DEF m
            <4>. QED
                BY <3>1
        <3>3. next = [mid EXCEPT !.open = Append(d.open, o)]
            BY <3>1 DEF next
        <3>. HIDE DEF mid, numbers, o
        <3>. QED
            BY <3>2, <3>3
    <2>. HIDE DEF numbers, more, k
    <2>4. CodexMatch(next, n, S \cup {k}, E, T)
        <3>1. /\ next = [entries |-> next.entries, open |-> next.open, tools |-> next.tools,
                         started |-> next.started, reason |-> next.reason]
              /\ next.entries = d.entries /\ next.open = more /\ next.tools = d.tools
              /\ next.started = numbers
            BY <2>3
        <3>. QED
            BY <2>1, <3>1 DEF CodexMatch
    <2>5. Runs(L, <<Start(kind, m), Delta(kind, m, data)>>, S \cup {k}, E, T)
        <3>. HIDE DEF m
        <3>1. Runs(L, <<>> \o <<Start(kind, m), Delta(kind, m, data)>>, S \cup {k}, E, T)
            BY <1>2, <2>1, TextRunsOn DEF k
        <3>2. Sequential(<<Start(kind, m), Delta(kind, m, data)>>)
            BY Pair
        <3>. QED
            BY <3>1, <3>2, Nothing
    <2>. HIDE DEF m
    <2>. QED
        BY <2>2, <2>4, <2>5, CodexSays
<1>. QED
    BY <1>4, <1>5, <1>6

\* The handler's part that closes the open texts at X.
LEMMA CodexCloses ==
    ASSUME NEW L, NEW n, NEW d, CodexAt(L, d, n), NEW X \in SUBSET (1..Len(d.open)), NEW r,
           r = [state  |-> [d EXCEPT !.open = Picked(d.open, (1..Len(d.open)) \ X)],
                events |-> EndsOf(Picked(d.open, X)), error |-> "none"]
    PROVE  CodexHandled(L, r, n)
<1>. PICK S, E, T : Reaches(L, S, E, T) /\ CodexMatch(d, n, S, E, T)
    BY DEF CodexAt
<1>. PICK gone : gone = Picked(d.open, X)
    OBVIOUS
<1>. PICK rest : rest = Picked(d.open, (1..Len(d.open)) \ X)
    OBVIOUS
<1>. DEFINE next == [d EXCEPT !.open = rest]
<1>1. r = [state |-> next, events |-> EndsOf(gone), error |-> "none"]
    OBVIOUS
<1>2. Runs(L, <<>>, S, E, T)
    BY NoEvents
<1>. DEFINE E2 == E \cup TextKeys(gone)
<1>3. Sequential(EndsOf(gone)) /\ Runs(L, <<>> \o EndsOf(gone), S, E2, T) /\ CodexMatch(next, n, S, E2, T)
    <2>1. TextsClosed(L, <<>>, d, n, X, S, E, T)
        BY <1>2, CodexTextsClose
    <2>. QED
        BY <2>1 DEF TextsClosed
<1>. HIDE DEF E2, next
<1>4. Runs(L, EndsOf(gone), S, E2, T)
    BY <1>3, Nothing
<1>. QED
    BY <1>1, <1>3, <1>4, CodexSays

\* The end of an item closes the texts that are open for it.
DoneText(d, kind, item) == C!CloseItems(d, LAMBDA o : o.kind = kind /\ o.item = item)
DoneItem(d, item)       == C!CloseItems(d, LAMBDA o : o.item = item)

LEMMA CodexDone ==
    ASSUME NEW L, NEW n, NEW d, CodexAt(L, d, n), NEW kind, NEW item
    PROVE  CodexHandled(L, DoneText(d, kind, item), n) /\ CodexHandled(L, DoneItem(d, item), n)
<1>. PICK S, E, T : Reaches(L, S, E, T) /\ CodexMatch(d, n, S, E, T)
    BY DEF CodexAt
<1>. DEFINE open == d.open
            N    == 1..Len(open)
<1>1. DOMAIN open = N
    BY SequenceIs DEF CodexMatch, CodexOpen
<1>2. \A w : C!FlattenSeq(w) = FlattenSeq(w)
    BY DEF C!FlattenSeq, FlattenSeq
<1>3. \A gone : [k \in DOMAIN gone |-> C!End(gone[k].kind, gone[k].id)] = EndsOf(gone)
    BY CodexSame DEF EndsOf
<1>4. CodexHandled(L, DoneText(d, kind, item), n)
    <2>. DEFINE X == {k \in N : open[k].kind = kind /\ open[k].item = item}
                gone == C!FlattenSeq([k \in DOMAIN open |->
                            IF open[k].kind = kind /\ open[k].item = item THEN <<open[k]>> ELSE <<>>])
                rest == C!FlattenSeq([k \in DOMAIN open |->
                            IF ~ (open[k].kind = kind /\ open[k].item = item) THEN <<open[k]>> ELSE <<>>])
    <2>1. DoneText(d, kind, item)
            = C!Emits([d EXCEPT !.open = rest], [k \in DOMAIN gone |-> C!End(gone[k].kind, gone[k].id)])
        BY DEF DoneText, C!CloseItems, C!Select
    <2>2. gone = Picked(open, X)
        <3>1. [k \in DOMAIN open |->
                  IF open[k].kind = kind /\ open[k].item = item THEN <<open[k]>> ELSE <<>>]
                = [k \in DOMAIN open |-> IF k \in X THEN <<open[k]>> ELSE <<>>]
            BY <1>1
        <3>. HIDE DEF X, open
        <3>. QED
            BY <1>2, <3>1 DEF Picked
    <2>3. rest = Picked(open, N \ X)
        <3>1. [k \in DOMAIN open |->
                  IF ~ (open[k].kind = kind /\ open[k].item = item) THEN <<open[k]>> ELSE <<>>]
                = [k \in DOMAIN open |-> IF k \in N \ X THEN <<open[k]>> ELSE <<>>]
            BY <1>1
        <3>. HIDE DEF X, open, N
        <3>. QED
            BY <1>2, <3>1 DEF Picked
    <2>4. X \in SUBSET N
        OBVIOUS
    <2>. HIDE DEF gone, rest, X
    <2>. DEFINE r == DoneText(d, kind, item)
    <2>5. r = [state |-> [d EXCEPT !.open = Picked(d.open, (1..Len(d.open)) \ X)],
               events |-> EndsOf(Picked(d.open, X)), error |-> "none"]
        BY <1>3, <2>1, <2>2, <2>3, CodexSame DEF Emits
    <2>. HIDE DEF r
    <2>6. CodexHandled(L, r, n)
        BY <2>4, <2>5, CodexCloses
    <2>. QED
        BY <2>6 DEF r
<1>5. CodexHandled(L, DoneItem(d, item), n)
    <2>. DEFINE X == {k \in N : open[k].item = item}
                gone == C!FlattenSeq([k \in DOMAIN open |->
                            IF open[k].item = item THEN <<open[k]>> ELSE <<>>])
                rest == C!FlattenSeq([k \in DOMAIN open |->
                            IF ~ (open[k].item = item) THEN <<open[k]>> ELSE <<>>])
    <2>1. DoneItem(d, item)
            = C!Emits([d EXCEPT !.open = rest], [k \in DOMAIN gone |-> C!End(gone[k].kind, gone[k].id)])
        BY DEF DoneItem, C!CloseItems, C!Select
    <2>2. gone = Picked(open, X)
        <3>1. [k \in DOMAIN open |-> IF open[k].item = item THEN <<open[k]>> ELSE <<>>]
                = [k \in DOMAIN open |-> IF k \in X THEN <<open[k]>> ELSE <<>>]
            BY <1>1
        <3>. HIDE DEF X, open
        <3>. QED
            BY <1>2, <3>1 DEF Picked
    <2>3. rest = Picked(open, N \ X)
        <3>1. [k \in DOMAIN open |-> IF ~ (open[k].item = item) THEN <<open[k]>> ELSE <<>>]
                = [k \in DOMAIN open |-> IF k \in N \ X THEN <<open[k]>> ELSE <<>>]
            BY <1>1
        <3>. HIDE DEF X, open, N
        <3>. QED
            BY <1>2, <3>1 DEF Picked
    <2>4. X \in SUBSET N
        OBVIOUS
    <2>. HIDE DEF gone, rest, X
    <2>. DEFINE r == DoneItem(d, item)
    <2>5. r = [state |-> [d EXCEPT !.open = Picked(d.open, (1..Len(d.open)) \ X)],
               events |-> EndsOf(Picked(d.open, X)), error |-> "none"]
        BY <1>3, <2>1, <2>2, <2>3, CodexSame DEF Emits
    <2>. HIDE DEF r
    <2>6. CodexHandled(L, r, n)
        BY <2>4, <2>5, CodexCloses
    <2>. QED
        BY <2>6 DEF r
<1>. QED
    BY <1>4, <1>5

\* A function call is added.
LEMMA CodexTracks ==
    ASSUME NEW L, NEW n \in Nat, NEW d, CodexAt(L, d, n)
    PROVE  CodexHandled(L, C!TrackFunctionCall(d, n + 1), n + 1)
<1>. PICK S, E, T : Reaches(L, S, E, T) /\ CodexMatch(d, n, S, E, T)
    BY DEF CodexAt
<1>. DEFINE k    == <<"tool", n + 1>>
            tool == [item |-> n + 1, sawDelta |-> FALSE, finished |-> FALSE]
            more == Append(d.tools, tool)
            entries == StartEntry(d.entries, n + 1)
            mid  == [d EXCEPT !.tools = more]
            next == [d EXCEPT !.tools = Append(@, tool), !.entries = StartEntry(@, n + 1)]
<1>1. /\ CallsMatch(d.entries, S, E, T) /\ CodexNumbers(d.started, S) /\ CodexOpen(d.open, S, E)
      /\ CodexTools(d.tools, n, S, E)
      /\ d = [entries |-> d.entries, open |-> d.open, tools |-> d.tools, started |-> d.started,
              reason |-> d.reason]
    BY DEF CodexMatch
<1>2. k \notin S /\ CallsMatch(entries, S \cup {k}, E, T) /\ CodexTools(more, n + 1, S \cup {k}, E)
    BY <1>1, CodexToolBegins
<1>3. CodexNumbers(d.started, S \cup {k}) /\ CodexOpen(d.open, S \cup {k}, E)
    BY <1>1, CodexOpenApart
<1>4. C!TrackFunctionCall(d, n + 1) = [state |-> next, events |-> <<Start("tool", n + 1)>>, error |-> "none"]
    <2>1. C!TrackFunctionCall(d, n + 1) = C!Emits(next, <<C!Start("tool", n + 1)>>)
        BY CodexSame DEF C!TrackFunctionCall
    <2>. HIDE DEF next
    <2>. QED
        BY <2>1, CodexSame DEF Emits
<1>. HIDE DEF tool
<1>5. next = [entries |-> entries, open |-> d.open, tools |-> more, started |-> d.started,
              reason |-> d.reason]
    <2>1. next = [mid EXCEPT !.entries = StartEntry(mid.entries, n + 1)]
        BY <1>1
    <2>2. mid = [entries |-> d.entries, open |-> d.open, tools |-> more, started |-> d.started,
                 reason |-> d.reason]
        <3>. HIDE DEF more
        <3>. QED
            BY <1>1
    <2>. HIDE DEF mid, next, more
    <2>. QED
        BY <2>1, <2>2
<1>. HIDE DEF next, more, entries, k
<1>6. CodexMatch(next, n + 1, S \cup {k}, E, T)
    <2>1. /\ next = [entries |-> next.entries, open |-> next.open, tools |-> next.tools,
                     started |-> next.started, reason |-> next.reason]
          /\ next.entries = entries /\ next.open = d.open /\ next.tools = more
          /\ next.started = d.started
        BY <1>5
    <2>. QED
        BY <1>2, <1>3, <2>1 DEF CodexMatch
<1>7. Runs(L, <<Start("tool", n + 1)>>, S \cup {k}, E, T)
    BY <1>2, SaysOne DEF k
<1>. QED
    BY <1>4, <1>6, <1>7, CodexSays

\* What is known of a call: Tool finds it.
LEMMA CodexTool ==
    ASSUME NEW d, NEW n, NEW S, NEW E, CodexTools(d.tools, n, S, E), NEW item,
           C!KnownTool(d, item), ~ C!Tool(d, item).finished
    PROVE  <<"tool", item>> \in S \ E
<1>1. PICK k \in DOMAIN d.tools : d.tools[k].item = item
    BY DEF C!KnownTool
<1>2. PICK j \in DOMAIN d.tools : d.tools[j].item = item /\ C!Tool(d, item) = d.tools[j]
    BY <1>1 DEF C!Tool
<1>3. DOMAIN d.tools = 1..Len(d.tools)
    BY SequenceIs DEF CodexTools
<1>. QED
    BY <1>2, <1>3 DEF CodexTools

\* A piece of a call's input.
LEMMA CodexArguments ==
    ASSUME NEW L, NEW n, NEW d, CodexAt(L, d, n), NEW item, NEW kind, NEW data,
           NEW c, c = C!Chunk("arguments.delta", item, kind, data)
    PROVE  CodexHandled(L, C!ArgumentsDelta(d, c), n)
<1>. PICK S, E, T : Reaches(L, S, E, T) /\ CodexMatch(d, n, S, E, T)
    BY DEF CodexAt
<1>0. c.item = item /\ c.data = data
    BY DEF C!Chunk
<1>. DEFINE changed == [k \in DOMAIN d.tools |->
                          IF d.tools[k].item = item
                          THEN [d.tools[k] EXCEPT !.sawDelta = TRUE] ELSE d.tools[k]]
            entries == AppendArgs(d.entries, item, data)
            mid     == [d EXCEPT !.tools = changed]
            next    == [mid EXCEPT !.entries = AppendArgs(mid.entries, item, data)]
<1>1. C!ArgumentsDelta(d, c) =
        IF ~ C!KnownTool(d, item) \/ data = "" THEN Emits(d, <<>>)
        ELSE IF C!Tool(d, item).finished THEN Emits(d, <<>>)
        ELSE Emits(next, <<Delta("tool", item, data)>>)
    <2>1. C!Change(d, item, LAMBDA e : [e EXCEPT !.sawDelta = TRUE]) = mid
        BY DEF C!Change
    <2>. HIDE DEF mid
    <2>2. C!ArgumentsDelta(d, c) =
        IF ~ C!KnownTool(d, item) \/ data = "" THEN C!Emits(d, <<>>)
        ELSE IF C!Tool(d, item).finished THEN C!Emits(d, <<>>)
        ELSE C!Emits(next, <<C!Delta("tool", item, data)>>)
        BY <1>0, <2>1, CodexSame DEF C!ArgumentsDelta
    <2>. HIDE DEF next
    <2>. QED
        BY <2>2, CodexSame
<1>2. Runs(L, <<>>, S, E, T)
    BY NoEvents
<1>. HIDE DEF next
<1>3. CASE C!ArgumentsDelta(d, c) = Emits(d, <<>>)
    <2>1. C!ArgumentsDelta(d, c) = [state |-> d, events |-> <<>>, error |-> "none"]
        BY <1>3 DEF Emits
    <2>. QED
        BY <1>2, <2>1, CodexSays
<1>4. CASE C!ArgumentsDelta(d, c) # Emits(d, <<>>)
    <2>1. C!KnownTool(d, item) /\ ~ C!Tool(d, item).finished
        BY <1>1, <1>4
    <2>2. C!ArgumentsDelta(d, c) = [state |-> next, events |-> <<Delta("tool", item, data)>>,
                                    error |-> "none"]
        BY <1>1, <1>4 DEF Emits
    <2>3. /\ CallsMatch(d.entries, S, E, T) /\ CodexNumbers(d.started, S) /\ CodexOpen(d.open, S, E)
          /\ CodexTools(d.tools, n, S, E)
          /\ d = [entries |-> d.entries, open |-> d.open, tools |-> d.tools, started |-> d.started,
                  reason |-> d.reason]
        BY DEF CodexMatch
    <2>4. <<"tool", item>> \in S \ E
        BY <2>1, <2>3, CodexTool
    <2>5. Runs(L, <<Delta("tool", item, data)>>, S, E, T)
        BY <2>4, SaysOne
    <2>6. CallsMatch(entries, S, E, T)
        BY <2>3, CallsTakeArgs
    <2>7. CodexTools(changed, n, S, E)
        <3>1. DOMAIN d.tools = 1..Len(d.tools)
            BY <2>3, SequenceIs DEF CodexTools
        <3>2. ASSUME NEW k \in DOMAIN d.tools, d.tools[k].item = item
              PROVE  /\ changed[k] = [item |-> item, sawDelta |-> changed[k].sawDelta,
                                      finished |-> changed[k].finished]
                     /\ d.tools[k].finished => changed[k].finished
            <4>. DEFINE t == d.tools[k]
            <4>1. t = [item |-> t.item, sawDelta |-> t.sawDelta, finished |-> t.finished] /\ t.item = item
                BY <2>3, <3>1, <3>2 DEF CodexTools
            <4>2. changed[k] = [t EXCEPT !.sawDelta = TRUE]
                BY <3>2
            <4>. HIDE DEF t
            <4>3. changed[k] = [item |-> item, sawDelta |-> TRUE, finished |-> t.finished]
                BY <4>1, <4>2
            <4>. HIDE DEF changed
            <4>. QED
                BY <4>3 DEF t
        <3>3. \A k \in DOMAIN d.tools : changed[k] =
                  IF d.tools[k].item = item THEN changed[k] ELSE d.tools[k]
            OBVIOUS
        <3>4. changed = [k \in DOMAIN d.tools |->
                            IF d.tools[k].item = item THEN changed[k] ELSE d.tools[k]]
            BY <3>3
        <3>. HIDE DEF changed
        <3>5. Changes(changed, d.tools, item)
            BY <3>2, <3>4 DEF Changes
        <3>. QED
            BY <2>3, <3>5, CodexToolChanges
    <2>8. next = [entries |-> entries, open |-> d.open, tools |-> changed, started |-> d.started,
                  reason |-> d.reason]
        <3>. HIDE DEF changed
        <3>1. mid = [entries |-> d.entries, open |-> d.open, tools |-> changed, started |-> d.started,
                     reason |-> d.reason]
            BY <2>3
        <3>. HIDE DEF mid
        <3>. QED
            BY <3>1 DEF next
    <2>. HIDE DEF changed, entries
    <2>9. CodexMatch(next, n, S, E, T)
        <3>1. /\ next = [entries |-> next.entries, open |-> next.open, tools |-> next.tools,
                         started |-> next.started, reason |-> next.reason]
              /\ next.entries = entries /\ next.open = d.open /\ next.tools = changed
              /\ next.started = d.started
            BY <2>8
        <3>. QED
            BY <2>3, <2>6, <2>7, <3>1 DEF CodexMatch
    <2>. QED
        BY <2>2, <2>5, <2>9, CodexSays
<1>. QED
    BY <1>3, <1>4

\* finish of a call, when it is marked as finished.
LEMMA CodexFinish ==
    ASSUME NEW L, NEW n, NEW u, NEW item, NEW S, NEW E, NEW T, Reaches(L, S, E, T),
           CodexMatch(u, n, S, E, T), CodexTools(u.tools, n, S, E \cup {<<"tool", item>>})
    PROVE  CodexHandled(L, FinishCall(u, item), n)
<1>. DEFINE k  == <<"tool", item>>
            E2 == E \cup {k}
            e  == Entry(u.entries, item)
            rest == Without(u.entries, item)
            next == [u EXCEPT !.entries = Without(@, item)]
<1>1. /\ CallsMatch(u.entries, S, E, T) /\ CodexNumbers(u.started, S) /\ CodexOpen(u.open, S, E)
      /\ u = [entries |-> u.entries, open |-> u.open, tools |-> u.tools, started |-> u.started,
              reason |-> u.reason]
    BY DEF CodexMatch
<1>2. CASE ~ IsOpen(u.entries, item)
    <2>1. FinishCall(u, item) = [state |-> u, events |-> <<>>, error |-> "none"]
        BY <1>2 DEF FinishCall, Emits
    <2>2. Runs(L, <<>>, S, E, T)
        BY NoEvents
    <2>. QED
        BY <2>1, <2>2, CodexSays
<1>3. CASE IsOpen(u.entries, item) /\ ~ Parses(e.args)
    <2>1. FinishCall(u, item) = Fails(u, "invalid-provider-output")
        BY <1>3 DEF FinishCall
    <2>2. "invalid-provider-output" # "none"
        OBVIOUS
    <2>. QED
        BY <2>1, <2>2, Failing DEF CodexHandled
<1>4. CASE IsOpen(u.entries, item) /\ Parses(e.args)
    <2>. HIDE DEF next
    <2>1. FinishCall(u, item) = [state |-> next, events |-> EntryEvents(e), error |-> "none"]
        BY <1>4 DEF FinishCall, Emits, next
    <2>2. /\ Runs(L, EntryEvents(e), S, E2, T \cup {item})
          /\ CallsMatch(rest, S, E2, T \cup {item})
        BY <1>1, <1>4, CallEnds1
    <2>3. CodexOpen(u.open, S, E2)
        BY <1>1, CodexOpenApart
    <2>4. next = [entries |-> rest, open |-> u.open, tools |-> u.tools, started |-> u.started,
                  reason |-> u.reason]
        <3>1. next = [u EXCEPT !.entries = rest]
            BY DEF next
        <3>. HIDE DEF rest
        <3>. QED
            BY <1>1, <3>1
    <2>. HIDE DEF rest, e, E2
    <2>5. CodexMatch(next, n, S, E2, T \cup {item})
        <3>1. /\ next = [entries |-> next.entries, open |-> next.open, tools |-> next.tools,
                         started |-> next.started, reason |-> next.reason]
              /\ next.entries = rest /\ next.open = u.open /\ next.tools = u.tools
              /\ next.started = u.started
            BY <2>4
        <3>2. CodexTools(u.tools, n, S, E2)
            BY DEF E2
        <3>. QED
            BY <1>1, <2>2, <2>3, <3>1, <3>2 DEF CodexMatch
    <2>. QED
        BY <2>1, <2>2, <2>5, CodexSays
<1>. QED
    BY <1>2, <1>3, <1>4

\* The end of a call's input, which may bring the whole of it.
LEMMA CodexFinishes ==
    ASSUME NEW L, NEW n, NEW d, CodexAt(L, d, n), NEW item, NEW final
    PROVE  CodexHandled(L, C!FinishFunctionCall(d, item, final), n)
<1>. PICK S, E, T : Reaches(L, S, E, T) /\ CodexMatch(d, n, S, E, T)
    BY DEF CodexAt
<1>. DEFINE changed == [k \in DOMAIN d.tools |->
                          IF d.tools[k].item = item
                          THEN [d.tools[k] EXCEPT !.finished = TRUE] ELSE d.tools[k]]
            given == AppendArgs(d.entries, item, final)
            t     == [d EXCEPT !.tools = changed]
            t2    == [t EXCEPT !.entries = AppendArgs(@, item, final)]
            taken == C!Tool(d, item).sawDelta \/ final = ""
            u     == IF taken THEN t ELSE t2
<1>1. C!FinishFunctionCall(d, item, final) =
        IF ~ C!KnownTool(d, item) THEN Emits(d, <<>>)
        ELSE IF C!Tool(d, item).finished THEN Emits(d, <<>>)
        ELSE FinishCall(u, item)
    <2>1. C!Change(d, item, LAMBDA e : [e EXCEPT !.finished = TRUE]) = t
        BY DEF C!Change
    <2>. HIDE DEF t
    <2>2. C!FinishFunctionCall(d, item, final) =
        IF ~ C!KnownTool(d, item) THEN C!Emits(d, <<>>)
        ELSE IF C!Tool(d, item).finished THEN C!Emits(d, <<>>)
        ELSE C!FinishCall(u, item)
        BY <2>1, CodexSame DEF C!FinishFunctionCall
    <2>. HIDE DEF u
    <2>. QED
        BY <2>2, CodexSame
<1>2. Runs(L, <<>>, S, E, T)
    BY NoEvents
<1>. HIDE DEF u, taken
<1>3. CASE ~ C!KnownTool(d, item) \/ C!Tool(d, item).finished
    <2>1. C!FinishFunctionCall(d, item, final) = [state |-> d, events |-> <<>>, error |-> "none"]
        BY <1>1, <1>3 DEF Emits
    <2>. QED
        BY <1>2, <2>1, CodexSays
<1>4. CASE C!KnownTool(d, item) /\ ~ C!Tool(d, item).finished
    <2>1. C!FinishFunctionCall(d, item, final) = FinishCall(u, item)
        BY <1>1, <1>4
    <2>2. /\ CallsMatch(d.entries, S, E, T) /\ CodexNumbers(d.started, S) /\ CodexOpen(d.open, S, E)
          /\ CodexTools(d.tools, n, S, E)
          /\ d = [entries |-> d.entries, open |-> d.open, tools |-> d.tools, started |-> d.started,
                  reason |-> d.reason]
        BY DEF CodexMatch
    <2>3. CallsMatch(given, S, E, T)
        BY <2>2, CallsTakeArgs
    <2>4. CodexTools(changed, n, S, E) /\ CodexTools(changed, n, S, E \cup {<<"tool", item>>})
        <3>1. DOMAIN d.tools = 1..Len(d.tools)
            BY <2>2, SequenceIs DEF CodexTools
        <3>2. ASSUME NEW k \in DOMAIN d.tools, d.tools[k].item = item
              PROVE  /\ changed[k] = [item |-> item, sawDelta |-> changed[k].sawDelta,
                                      finished |-> changed[k].finished]
                     /\ d.tools[k].finished => changed[k].finished
                     /\ changed[k].finished
            <4>. DEFINE x == d.tools[k]
            <4>1. x = [item |-> x.item, sawDelta |-> x.sawDelta, finished |-> x.finished] /\ x.item = item
                BY <2>2, <3>1, <3>2 DEF CodexTools
            <4>2. changed[k] = [x EXCEPT !.finished = TRUE]
                BY <3>2
            <4>. HIDE DEF x
            <4>3. changed[k] = [item |-> item, sawDelta |-> x.sawDelta, finished |-> TRUE]
                BY <4>1, <4>2
            <4>. HIDE DEF changed
            <4>. QED
                BY <4>3 DEF x
        <3>3. \A k \in DOMAIN d.tools : changed[k] =
                  IF d.tools[k].item = item THEN changed[k] ELSE d.tools[k]
            OBVIOUS
        <3>4. changed = [k \in DOMAIN d.tools |->
                            IF d.tools[k].item = item THEN changed[k] ELSE d.tools[k]]
            BY <3>3
        <3>. HIDE DEF changed
        <3>5. Changes(changed, d.tools, item)
            BY <3>2, <3>4 DEF Changes
        <3>. QED
            BY <2>2, <3>2, <3>5, CodexToolChanges
    <2>. HIDE DEF changed
    <2>5. t = [entries |-> d.entries, open |-> d.open, tools |-> changed, started |-> d.started,
               reason |-> d.reason]
        BY <2>2
    <2>. HIDE DEF t
    <2>6. t2 = [entries |-> given, open |-> d.open, tools |-> changed, started |-> d.started,
                reason |-> d.reason]
        BY <2>5
    <2>. HIDE DEF t2, given
    <2>7. /\ u = [entries |-> u.entries, open |-> u.open, tools |-> u.tools, started |-> u.started,
                  reason |-> u.reason]
          /\ u.open = d.open /\ u.tools = changed /\ u.started = d.started
          /\ u.entries = d.entries \/ u.entries = given
        <3>1. CASE taken
            BY <2>5, <3>1 DEF u
        <3>2. CASE ~ taken
            BY <2>6, <3>2 DEF u
        <3>. QED
            BY <3>1, <3>2
    <2>8. CodexMatch(u, n, S, E, T)
        BY <2>2, <2>3, <2>4, <2>7 DEF CodexMatch
    <2>9. CodexTools(u.tools, n, S, E \cup {<<"tool", item>>})
        BY <2>4, <2>7
    <2>. QED
        BY <2>1, <2>8, <2>9, CodexFinish
<1>. QED
    BY <1>3, <1>4

LEMMA CodexReason ==
    ASSUME NEW d, NEW n, NEW S, NEW E, NEW T, CodexMatch(d, n, S, E, T), NEW y
    PROVE  CodexMatch([d EXCEPT !.reason = y], n, S, E, T)
<1>. DEFINE next == [d EXCEPT !.reason = y]
<1>1. d = [entries |-> d.entries, open |-> d.open, tools |-> d.tools, started |-> d.started,
           reason |-> d.reason]
    BY DEF CodexMatch
<1>2. next = [entries |-> d.entries, open |-> d.open, tools |-> d.tools, started |-> d.started,
              reason |-> y]
    BY <1>1
<1>. HIDE DEF next
<1>3. /\ next = [entries |-> next.entries, open |-> next.open, tools |-> next.tools,
                 started |-> next.started, reason |-> next.reason]
      /\ next.entries = d.entries /\ next.open = d.open /\ next.tools = d.tools
      /\ next.started = d.started
    BY <1>2
<1>4. CodexMatch(next, n, S, E, T)
    BY <1>3 DEF CodexMatch
<1>. QED
    BY <1>4 DEF next

LEMMA CodexMore ==
    ASSUME NEW L, NEW n \in Nat, NEW d, CodexAt(L, d, n)
    PROVE  CodexHandled(L, Emits(d, <<>>), n + 1)
<1>. PICK S, E, T : Reaches(L, S, E, T) /\ CodexMatch(d, n, S, E, T)
    BY DEF CodexAt
<1>1. CodexTools(d.tools, n + 1, S, E)
    <2>1. CodexTools(d.tools, n, S, E)
        BY DEF CodexMatch
    <2>2. \A id : id \in 1..n => id \in 1..n + 1
        OBVIOUS
    <2>. QED
        BY <2>1, <2>2 DEF CodexTools
<1>2. CodexMatch(d, n + 1, S, E, T)
    BY <1>1 DEF CodexMatch
<1>3. Emits(d, <<>>) = [state |-> d, events |-> <<>>, error |-> "none"]
    BY DEF Emits
<1>4. Runs(L, <<>>, S, E, T)
    BY NoEvents
<1>. QED
    BY <1>2, <1>3, <1>4, CodexSays

\* What the decoder makes of the chunks the backend sends.
CodexHandledAll(L, d, n, c) ==
    /\ \A item, data : \A kind \in Texts : c = C!Chunk("delta", item, kind, data)
         => CodexHandled(L, C!HandleChunk(d, c), n)
    /\ \A item, kind, data :
         /\ \/ c = C!Chunk("done", item, kind, data) \/ c = C!Chunk("item.done", item, kind, data)
            \/ c = C!Chunk("arguments.delta", item, kind, data)
            \/ c = C!Chunk("arguments.done", item, kind, data)
            \/ c = C!Chunk("completed", item, kind, data)
            \/ c = C!Chunk("failed", item, kind, data) /\ data # "none"
         => CodexHandled(L, C!HandleChunk(d, c), n)
    /\ \A kind, data : c = C!Chunk("item.added", n + 1, kind, data)
         => CodexHandled(L, C!HandleChunk(d, c), n + 1)

LEMMA CodexHandles ==
    ASSUME NEW L, NEW n \in Nat, NEW d, CodexAt(L, d, n), NEW c
    PROVE  CodexHandledAll(L, d, n, c)
<1>. DEFINE r == C!HandleChunk(d, c)
<1>1. ASSUME NEW item, NEW kind \in Texts, NEW data, c = C!Chunk("delta", item, kind, data)
      PROVE  CodexHandled(L, r, n)
    <2>1. r = C!DeltaOf(d, c)
        BY <1>1 DEF C!HandleChunk, C!Chunk
    <2>. QED
        BY <1>1, <2>1, CodexDeltaOf
<1>2. ASSUME NEW item, NEW kind, NEW data, c = C!Chunk("done", item, kind, data)
      PROVE  CodexHandled(L, r, n)
    <2>0. c.type = "done" /\ c.kind = kind /\ c.item = item
        BY <1>2 DEF C!Chunk
    <2>1. r = DoneText(d, c.kind, c.item)
        BY <2>0 DEF C!HandleChunk, DoneText, C!CloseItems
    <2>. QED
        BY <2>1, CodexDone
<1>3. ASSUME NEW item, NEW kind, NEW data, c = C!Chunk("item.done", item, kind, data)
      PROVE  CodexHandled(L, r, n)
    <2>1. r = C!ItemDone(d, c)
        BY <1>3 DEF C!HandleChunk, C!Chunk
    <2>2. CASE c.kind = "tool"
        <3>1. r = C!FinishFunctionCall(d, c.item, "")
            BY <2>1, <2>2 DEF C!ItemDone
        <3>. QED
            BY <3>1, CodexFinishes
    <2>3. CASE c.kind # "tool"
        <3>1. r = DoneItem(d, c.item)
            BY <2>1, <2>3 DEF C!ItemDone, DoneItem, C!CloseItems
        <3>. QED
            BY <3>1, CodexDone
    <2>. QED
        BY <2>2, <2>3
<1>4. ASSUME NEW item, NEW kind, NEW data, c = C!Chunk("arguments.delta", item, kind, data)
      PROVE  CodexHandled(L, r, n)
    <2>1. r = C!ArgumentsDelta(d, c)
        BY <1>4 DEF C!HandleChunk, C!Chunk
    <2>. QED
        BY <1>4, <2>1, CodexArguments
<1>5. ASSUME NEW item, NEW kind, NEW data, c = C!Chunk("arguments.done", item, kind, data)
      PROVE  CodexHandled(L, r, n)
    <2>1. r = C!FinishFunctionCall(d, c.item, c.data)
        BY <1>5 DEF C!HandleChunk, C!Chunk
    <2>. QED
        BY <2>1, CodexFinishes
<1>6. ASSUME NEW item, NEW kind, NEW data, c = C!Chunk("completed", item, kind, data)
      PROVE  CodexHandled(L, r, n)
    <2>. PICK S, E, T : Reaches(L, S, E, T) /\ CodexMatch(d, n, S, E, T)
        BY DEF CodexAt
    <2>1. c.type = "completed"
        BY <1>6 DEF C!Chunk
    <2>. DEFINE next == [d EXCEPT !.reason = c.data]
    <2>2. r = [state |-> next, events |-> <<>>, error |-> "none"]
        BY <2>1, CodexSame DEF C!HandleChunk, Emits
    <2>3. CodexMatch(next, n, S, E, T)
        BY CodexReason
    <2>4. Runs(L, <<>>, S, E, T)
        BY NoEvents
    <2>. HIDE DEF next, r
    <2>. QED
        BY <2>2, <2>3, <2>4, CodexSays
<1>7. ASSUME NEW item, NEW kind, NEW data, c = C!Chunk("failed", item, kind, data), data # "none"
      PROVE  CodexHandled(L, r, n)
    <2>1. c.type = "failed" /\ c.data = data
        BY <1>7 DEF C!Chunk
    <2>2. r = Fails(d, data)
        BY <2>1, CodexSame DEF C!HandleChunk
    <2>. HIDE DEF r
    <2>. QED
        BY <1>7, <2>2, Failing DEF CodexHandled
<1>8. ASSUME NEW kind, NEW data, c = C!Chunk("item.added", n + 1, kind, data)
      PROVE  CodexHandled(L, r, n + 1)
    <2>1. c.type = "item.added" /\ c.item = n + 1
        BY <1>8 DEF C!Chunk
    <2>2. r = IF c.kind = "tool" THEN C!TrackFunctionCall(d, n + 1) ELSE Emits(d, <<>>)
        BY <2>1, CodexSame DEF C!HandleChunk
    <2>. QED
        BY <2>2, CodexTracks, CodexMore
<1>. HIDE DEF r
<1>9. /\ \A item, data : \A kind \in Texts : c = C!Chunk("delta", item, kind, data)
           => CodexHandled(L, r, n)
      /\ \A item, kind, data :
           /\ \/ c = C!Chunk("done", item, kind, data) \/ c = C!Chunk("item.done", item, kind, data)
              \/ c = C!Chunk("arguments.delta", item, kind, data)
              \/ c = C!Chunk("arguments.done", item, kind, data)
              \/ c = C!Chunk("completed", item, kind, data)
              \/ c = C!Chunk("failed", item, kind, data) /\ data # "none"
           => CodexHandled(L, r, n)
      /\ \A kind, data : c = C!Chunk("item.added", n + 1, kind, data)
           => CodexHandled(L, r, n + 1)
    BY <1>1, <1>2, <1>3, <1>4, <1>5, <1>6, <1>7, <1>8
<1>. QED
    BY <1>9 DEF CodexHandledAll, r

\* The end of the stream closes the texts, then the reasonings, then the calls.
LEMMA CodexFlushes ==
    ASSUME NEW L, NEW n, NEW d, CodexAt(L, d, n)
    PROVE  FlushedWell(L, C!Flush(d))
<1>. PICK S, E, T : Reaches(L, S, E, T) /\ CodexMatch(d, n, S, E, T)
    BY DEF CodexAt
<1>. DEFINE X    == {k \in 1..Len(d.open) : d.open[k].kind = "text"}
            one  == [d EXCEPT !.open = Picked(d.open, (1..Len(d.open)) \ X)]
            Y    == 1..Len(one.open)
            two  == [one EXCEPT !.open = Picked(one.open, (1..Len(one.open)) \ Y)]
            texts == EndsOf(Picked(d.open, X))
            rest == EndsOf(Picked(one.open, Y))
            calls == FinishCalls(two)
            E2   == E \cup TextKeys(Picked(d.open, X))
            E3   == E2 \cup TextKeys(Picked(one.open, Y))
<1>1. \A w : C!FlattenSeq(w) = FlattenSeq(w)
    BY DEF C!FlattenSeq, FlattenSeq
<1>2. \A gone : [k \in DOMAIN gone |-> C!End(gone[k].kind, gone[k].id)] = EndsOf(gone)
    BY CodexSame DEF EndsOf
<1>3. X \in SUBSET (1..Len(d.open)) /\ Y \in SUBSET (1..Len(one.open))
    OBVIOUS
<1>. HIDE DEF Y
<1>4. TextsClosed(L, <<>>, d, n, X, S, E, T)
    <2>. HIDE DEF X
    <2>1. Runs(L, <<>>, S, E, T)
        BY NoEvents
    <2>. QED
        BY <1>3, <2>1, CodexTextsClose
<1>5. Sequential(texts) /\ Runs(L, texts, S, E2, T) /\ CodexMatch(one, n, S, E2, T)
    <2>. HIDE DEF X
    <2>1. Sequential(texts) /\ Runs(L, <<>> \o texts, S, E2, T) /\ CodexMatch(one, n, S, E2, T)
        BY <1>4 DEF TextsClosed
    <2>2. <<>> \o texts = texts
        <3>. HIDE DEF texts
        <3>. QED
            BY <2>1, Nothing
    <2>. QED
        BY <2>1, <2>2
<1>. DEFINE textsRun == C!CloseItems(d, LAMBDA o : o.kind = "text")
            restRun  == C!CloseItems(one, LAMBDA o : TRUE)
<1>6. textsRun = [state |-> one, events |-> texts, error |-> "none"]
    <2>. DEFINE open == d.open
                gone == C!FlattenSeq([k \in DOMAIN open |->
                            IF open[k].kind = "text" THEN <<open[k]>> ELSE <<>>])
                kept == C!FlattenSeq([k \in DOMAIN open |->
                            IF ~ (open[k].kind = "text") THEN <<open[k]>> ELSE <<>>])
    <2>1. DOMAIN open = 1..Len(open)
        BY SequenceIs DEF CodexMatch, CodexOpen
    <2>2. textsRun = C!Emits([d EXCEPT !.open = kept], [k \in DOMAIN gone |-> C!End(gone[k].kind, gone[k].id)])
        BY DEF C!CloseItems, C!Select
    <2>3. gone = Picked(open, X)
        <3>1. [k \in DOMAIN open |-> IF open[k].kind = "text" THEN <<open[k]>> ELSE <<>>]
                = [k \in DOMAIN open |-> IF k \in X THEN <<open[k]>> ELSE <<>>]
            BY <2>1
        <3>. HIDE DEF X, open
        <3>. QED
            BY <1>1, <3>1 DEF Picked
    <2>4. kept = Picked(open, (1..Len(open)) \ X)
        <3>1. [k \in DOMAIN open |-> IF ~ (open[k].kind = "text") THEN <<open[k]>> ELSE <<>>]
                = [k \in DOMAIN open |-> IF k \in (1..Len(open)) \ X THEN <<open[k]>> ELSE <<>>]
            BY <2>1
        <3>. HIDE DEF X, open
        <3>. QED
            BY <1>1, <3>1 DEF Picked
    <2>. HIDE DEF textsRun, gone, kept, X
    <2>. QED
        BY <1>2, <2>2, <2>3, <2>4, CodexSame DEF Emits
<1>. HIDE DEF X
<1>7. TextsClosed(L, texts, one, n, Y, S, E2, T)
    <2>. HIDE DEF one, texts, E2
    <2>. QED
        BY <1>3, <1>5, CodexTextsClose
<1>8. /\ Sequential(rest) /\ Runs(L, texts \o rest, S, E3, T) /\ CodexMatch(two, n, S, E3, T)
      /\ Picked(one.open, (1..Len(one.open)) \ Y) = <<>>
    <2>. HIDE DEF one, texts, E2
    <2>. QED
        BY <1>7 DEF TextsClosed, Y
<1>9. restRun = [state |-> two, events |-> rest, error |-> "none"]
    <2>. DEFINE open == one.open
                gone == C!FlattenSeq([k \in DOMAIN open |-> IF TRUE THEN <<open[k]>> ELSE <<>>])
                kept == C!FlattenSeq([k \in DOMAIN open |-> IF ~ TRUE THEN <<open[k]>> ELSE <<>>])
    <2>. HIDE DEF one
    <2>1. DOMAIN open = 1..Len(open)
        BY <1>5, SequenceIs DEF CodexMatch, CodexOpen
    <2>2. restRun = C!Emits([one EXCEPT !.open = kept], [k \in DOMAIN gone |-> C!End(gone[k].kind, gone[k].id)])
        BY DEF C!CloseItems, C!Select
    <2>3. gone = Picked(open, Y)
        <3>1. [k \in DOMAIN open |-> IF TRUE THEN <<open[k]>> ELSE <<>>]
                = [k \in DOMAIN open |-> IF k \in Y THEN <<open[k]>> ELSE <<>>]
            BY <2>1 DEF Y
        <3>. HIDE DEF open
        <3>. QED
            BY <1>1, <3>1 DEF Picked
    <2>4. kept = Picked(open, (1..Len(open)) \ Y)
        <3>1. [k \in DOMAIN open |-> IF ~ TRUE THEN <<open[k]>> ELSE <<>>]
                = [k \in DOMAIN open |-> IF k \in (1..Len(open)) \ Y THEN <<open[k]>> ELSE <<>>]
            BY <2>1 DEF Y
        <3>. HIDE DEF open
        <3>. QED
            BY <1>1, <3>1 DEF Picked
    <2>. HIDE DEF restRun, gone, kept
    <2>. QED
        BY <1>2, <2>2, <2>3, <2>4, CodexSame DEF Emits
<1>10. C!Flush(d) = IF calls.error # "none" THEN calls
                    ELSE Emits(calls.state, texts \o rest \o calls.events \o <<Finish(d.reason)>>)
    <2>. HIDE DEF one
    <2>1. textsRun.state = one /\ textsRun.events = texts
        BY <1>6
    <2>2. restRun.state = two /\ restRun.events = rest
        BY <1>9
    <2>. HIDE DEF two, texts, rest
    <2>3. C!Flush(d) = IF C!FinishCalls(restRun.state).error # "none" THEN C!FinishCalls(restRun.state)
                       ELSE C!Emits(C!FinishCalls(restRun.state).state,
                                    textsRun.events \o restRun.events \o C!FinishCalls(restRun.state).events
                                        \o <<C!Finish(d.reason)>>)
        BY <2>1 DEF C!Flush
    <2>. HIDE DEF textsRun, restRun
    <2>. QED
        BY <2>1, <2>2, <2>3, CodexSame
<1>. HIDE DEF textsRun, restRun
<1>11. two.entries = d.entries /\ two.open = <<>>
    <2>1. one.entries = d.entries /\ one.open = Picked(d.open, (1..Len(d.open)) \ X)
        BY DEF CodexMatch
    <2>2. two.entries = one.entries /\ two.open = Picked(one.open, (1..Len(one.open)) \ Y)
        <3>. HIDE DEF one
        <3>. QED
            BY <1>5 DEF CodexMatch
    <2>. HIDE DEF one, two
    <2>. QED
        BY <1>8, <2>1, <2>2
<1>. HIDE DEF two, one, texts, rest, E3, E2
<1>12. CallsMatch(d.entries, S, E3, T) /\ \A k \in S \ E3 : k[1] = "tool"
    <2>1. CallsMatch(two.entries, S, E3, T) /\ CodexOpen(two.open, S, E3)
        BY <1>8 DEF CodexMatch
    <2>. QED
        BY <1>11, <2>1 DEF CodexOpen
<1>13. Closes(L, (texts \o rest) \o EndAll(d.entries) \o <<Finish(d.reason)>>)
    BY <1>8, <1>12, EndsAndFinishes
<1>14. CASE ~ AllParse(d.entries)
    <2>1. calls = Fails(two, "invalid-provider-output")
        BY <1>11, <1>14 DEF FinishCalls
    <2>2. calls.error # "none" /\ calls.events = <<>>
        BY <2>1, Failing
    <2>. QED
        BY <1>10, <2>2 DEF FlushedWell
<1>15. CASE AllParse(d.entries)
    <2>1. calls.error = "none" /\ calls.events = EndAll(d.entries)
        BY <1>11, <1>15 DEF FinishCalls, Emits
    <2>. HIDE DEF calls
    <2>2. C!Flush(d).error = "none"
          /\ C!Flush(d).events = texts \o rest \o EndAll(d.entries) \o <<Finish(d.reason)>>
        BY <1>10, <2>1 DEF Emits
    <2>. QED
        BY <1>13, <2>2 DEF FlushedWell
<1>. QED
    BY <1>14, <1>15

-----------------------------------------------------------------------------
(* The inductive invariant.                                                *)

\* The provider's items: what is ended was begun, Anthropic has one block open
\* at a time, and the Codex backend has items of the kinds that are known.
ItemsInv ==
    /\ Sequential(items) /\ closed \subseteq DOMAIN items
    /\ protocol = "anthropic" => \E i : Open \subseteq {i}
    /\ protocol = "codex" => \A i \in DOMAIN items : items[i] \in Kinds

\* The decoder holds what the events of the attempt have come to.
DecoderInv(L) ==
    /\ protocol = "anthropic" => AnthropicAt(L, decoder, Len(items), Open)
    /\ protocol = "chat"      => ChatAt(L, decoder)
    /\ protocol = "codex"     => CodexAt(L, decoder, Len(items))

StreamInv ==
    /\ protocol \in {"anthropic", "chat", "codex"}
    /\ Sequential(out) /\ Sequential(queue) /\ Lawful(out \o queue)
    /\ phase \in {"sending", "streaming"} => DecoderInv(out \o queue)
    /\ phase \in {"sending", "streaming", "flushing", "backoff"} => ~ Over(out)
    /\ phase = "flushing" => queue # <<>>
    /\ ItemsInv

\* The next event that is delivered may come next.
LEMMA HeadMay ==
    ASSUME NEW L, NEW q, Sequential(L), Sequential(q), q # <<>>, Lawful(L \o q)
    PROVE  /\ May(L, Head(q))
           /\ Sequential(Append(L, Head(q))) /\ Sequential(Tail(q))
           /\ Append(L, Head(q)) \o Tail(q) = L \o q
<1>. PICK V : L \in Seq(V) /\ q \in Seq(V)
    BY CommonSet
<1>1. Head(q) \in V /\ Tail(q) \in Seq(V) /\ Len(q) \in Nat /\ Len(q) # 0 /\ Len(L) \in Nat
    OBVIOUS
<1>. DEFINE M == L \o q
            k == Len(L) + 1
<1>2. M \in Seq(V) /\ Len(M) = Len(L) + Len(q)
    OBVIOUS
<1>3. k \in 1..Len(M) /\ M[k] = Head(q) /\ SubSeq(M, 1, Len(L)) = L
    <2>1. k \in 1..Len(M)
        BY <1>1, <1>2
    <2>2. M[k] = q[1]
        BY <1>1
    <2>3. q[1] = Head(q)
        BY <1>1
    <2>4. SubSeq(M, 1, Len(L)) = L
        BY <1>1
    <2>. QED
        BY <2>1, <2>2, <2>3, <2>4
<1>. HIDE DEF M
<1>4. May(SubSeq(M, 1, k - 1), M[k])
    BY <1>3 DEF Lawful, M
<1>5. k - 1 = Len(L)
    BY <1>1
<1>. HIDE DEF k
<1>6. May(L, Head(q))
    BY <1>3, <1>4, <1>5
<1>7. Sequential(Append(L, Head(q))) /\ Sequential(Tail(q))
    BY <1>1 DEF Sequential
<1>8. Append(L, Head(q)) \o Tail(q) = L \o q
    BY <1>1
<1>. QED
    BY <1>6, <1>7, <1>8

LEMMA LawfulNothing == Lawful(<<>>) /\ Begun(<<>>) = {} /\ Shut(<<>>) = {} /\ Told(<<>>) = {} /\ ~ Over(<<>>)
<1>1. Sequential(<<>>) /\ Len(<<>>) = 0
    BY Nothing
<1>2. \A type : Of(<<>>, type) = {}
    BY <1>1 DEF Of
<1>. QED
    BY <1>1, <1>2 DEF Lawful, Begun, Shut, Told, Over

LEMMA StreamStarts == CallInit => StreamInv
<1>. SUFFICES ASSUME CallInit PROVE StreamInv
    OBVIOUS
<1>1. protocol \in {"anthropic", "chat", "codex"}
    BY ProviderAssumption DEF CallInit
<1>2. Sequential(<<>>) /\ Len(<<>>) = 0 /\ <<>> \o <<>> = <<>> /\ DOMAIN <<>> = {}
    BY Nothing
<1>3. Reaches(<<>>, {}, {}, {})
    BY LawfulNothing DEF Reaches
<1>4. items = <<>> /\ closed = {} /\ Open = {} /\ Len(items) = 0 /\ out \o queue = <<>>
    BY <1>2 DEF CallInit, Open
<1>5. DecoderInv(<<>>)
    <2>1. protocol = "anthropic" => decoder = A!Decoder
        BY DEF CallInit, NewDecoder
    <2>2. protocol = "chat" => decoder = O!Decoder
        BY DEF CallInit, NewDecoder
    <2>3. protocol = "codex" => decoder = C!Decoder
        BY DEF CallInit, NewDecoder
    <2>4. protocol = "anthropic" => AnthropicAt(<<>>, decoder, 0, {})
        BY <1>3, <2>1, AnthropicStarts DEF AnthropicAt
    <2>5. protocol = "chat" => ChatAt(<<>>, decoder)
        BY <1>3, <2>2, ChatStarts DEF ChatAt
    <2>6. protocol = "codex" => CodexAt(<<>>, decoder, 0)
        BY <1>3, <2>3, CodexStarts DEF CodexAt
    <2>. QED
        BY <1>4, <2>4, <2>5, <2>6 DEF DecoderInv
<1>6. ItemsInv
    BY <1>2, <1>4 DEF ItemsInv
<1>. QED
    BY <1>1, <1>2, <1>4, <1>5, <1>6, LawfulNothing DEF StreamInv, CallInit


\* What the log can be when an attempt goes on.
LEMMA OutGoesOn ==
    ASSUME StreamInv, queue = <<>>
    PROVE  /\ out \o queue = out /\ Lawful(out)
           /\ phase \in {"sending", "streaming"} => DecoderInv(out) /\ ~ Over(out)
<1>1. out \o queue = out
    BY Nothing DEF StreamInv
<1>. QED
    BY <1>1 DEF StreamInv

\* A chunk is handled.
LEMMA Receives ==
    ASSUME StreamInv, Pulling, NEW c, Receive(c), ItemsInv',
           protocol = "anthropic" => AnthropicHandled(out, Handle(c), Len(items'), Open'),
           protocol = "chat" => ChatHandled(out, Handle(c)),
           protocol = "codex" => CodexHandled(out, Handle(c), Len(items'))
    PROVE  StreamInv' /\ out' = out
<1>. DEFINE r == Handle(c)
<1>1. /\ decoder' = r.state /\ queue' = r.events /\ out' = out /\ protocol' = protocol
      /\ IF r.error = "none" THEN UNCHANGED <<phase, error>> ELSE AttemptFails(r.error)
    BY DEF Receive
<1>2. queue = <<>> /\ phase = "streaming"
    BY DEF Pulling
<1>3. Lawful(out) /\ ~ Over(out) /\ Sequential(out) /\ protocol \in {"anthropic", "chat", "codex"}
    BY <1>2, OutGoesOn DEF StreamInv
<1>. HIDE DEF r
<1>4. /\ protocol = "anthropic" => AnthropicHandled(out, r, Len(items'), Open')
      /\ protocol = "chat" => ChatHandled(out, r)
      /\ protocol = "codex" => CodexHandled(out, r, Len(items'))
    BY DEF r
<1>5. CASE r.error = "none"
    <2>1. /\ protocol = "anthropic" => AnthropicAt(out \o r.events, r.state, Len(items'), Open')
          /\ protocol = "chat" => ChatAt(out \o r.events, r.state)
          /\ protocol = "codex" => CodexAt(out \o r.events, r.state, Len(items'))
          /\ Sequential(r.events)
        BY <1>3, <1>4, <1>5 DEF AnthropicHandled, ChatHandled, CodexHandled
    <2>2. DecoderInv(out \o queue)'
        BY <1>1, <2>1 DEF DecoderInv
    <2>3. Lawful(out \o r.events)
        BY <1>3, <2>1 DEF AnthropicAt, ChatAt, CodexAt, Reaches
    <2>4. phase' = "streaming"
        BY <1>1, <1>2, <1>5
    <2>. QED
        BY <1>1, <1>3, <2>1, <2>2, <2>3, <2>4 DEF StreamInv
<1>6. CASE r.error # "none"
    <2>1. r.events = <<>>
        BY <1>3, <1>4, <1>6 DEF AnthropicHandled, ChatHandled, CodexHandled
    <2>2. phase' \in {"backoff", "failed"}
        BY <1>1, <1>6 DEF AttemptFails
    <2>3. Sequential(<<>>) /\ out \o <<>> = out
        BY <1>3, Nothing
    <2>. QED
        BY <1>1, <1>3, <2>1, <2>2, <2>3 DEF StreamInv
<1>. QED
    BY <1>5, <1>6

\* The provider's items, after a step of it.
LEMMA ItemsStay ==
    ASSUME ItemsInv, protocol' = protocol, items' = items,
           closed' = closed \/ \E i \in DOMAIN items : closed' = closed \cup {i}
    PROVE  ItemsInv' /\ Open' \subseteq Open
<1>1. closed' \subseteq DOMAIN items'
    BY DEF ItemsInv
<1>2. Open' \subseteq Open
    BY DEF Open
<1>3. protocol' = "anthropic" => \E i : Open' \subseteq {i}
    BY <1>2 DEF ItemsInv
<1>. QED
    BY <1>1, <1>2, <1>3 DEF ItemsInv

LEMMA ItemsBegin ==
    ASSUME ItemsInv, protocol' = protocol, closed' = closed, NEW kind, items' = Append(items, kind),
           protocol = "anthropic" => Open = {}, protocol = "codex" => kind \in Kinds
    PROVE  /\ ItemsInv' /\ Len(items) \in Nat /\ Len(items') = Len(items) + 1
           /\ protocol = "anthropic" => Open' = {Len(items) + 1}
<1>1. Sequential(items) /\ Len(items) \in Nat /\ DOMAIN items = 1..Len(items)
    BY SequenceIs DEF ItemsInv
<1>2. /\ Sequential(items') /\ Len(items') = Len(items) + 1 /\ items'[Len(items) + 1] = kind
      /\ \A n \in 1..Len(items) : items'[n] = items[n]
    BY <1>1, Appended
<1>3. DOMAIN items' = 1..Len(items) + 1
    BY <1>2, SequenceIs
<1>4. closed' \subseteq DOMAIN items' /\ Len(items) + 1 \notin closed
    BY <1>1, <1>3 DEF ItemsInv
<1>5. \A n \in DOMAIN items' : n \in DOMAIN items \/ n = Len(items) + 1
    BY <1>1, <1>3
<1>6. protocol = "anthropic" => Open' = {Len(items) + 1}
    <2>. SUFFICES ASSUME Open = {} PROVE Open' = {Len(items) + 1}
        OBVIOUS
    <2>1. \A n \in DOMAIN items : n \in closed
        BY DEF Open
    <2>2. Len(items) + 1 \in DOMAIN items'
        BY <1>1, <1>3
    <2>. QED
        BY <1>4, <1>5, <2>1, <2>2 DEF Open
<1>7. protocol' = "codex" => \A i \in DOMAIN items' : items'[i] \in Kinds
    BY <1>1, <1>2, <1>5 DEF ItemsInv
<1>. QED
    BY <1>1, <1>2, <1>4, <1>6, <1>7 DEF ItemsInv

LEMMA AnthropicStep ==
    ASSUME StreamInv, AnthropicSends
    PROVE  StreamInv' /\ out' = out
<1>0. /\ protocol = "anthropic" /\ Pulling /\ queue = <<>> /\ phase = "streaming" /\ ItemsInv
    BY DEF AnthropicSends, Pulling, StreamInv
<1>1. AnthropicAt(out, decoder, Len(items), Open)
    BY <1>0, OutGoesOn DEF DecoderInv
<1>2. Len(items) \in Nat /\ DOMAIN items = 1..Len(items)
    BY <1>0, SequenceIs DEF ItemsInv
<1>3. \A c : Handle(c) = A!HandleChunk(decoder, c)
    BY <1>0 DEF Handle
<1>4. \A c : Receive(c) => protocol' = protocol
    BY DEF Receive
<1>5. \A i \in Open : Open \subseteq {i} /\ i \in DOMAIN items
    BY <1>0 DEF ItemsInv, Open
<1>6. ASSUME NEW k, Open = {}, Begins(k),
             Receive(A!Chunk("content_block_start", Len(items) + 1, k, "")), UNCHANGED <<closed, wire>>
      PROVE  StreamInv' /\ out' = out
    <2>. PICK c : c = A!Chunk("content_block_start", Len(items) + 1, k, "")
        OBVIOUS
    <2>1. Receive(c)
        BY <1>6
    <2>2. ItemsInv' /\ Len(items') = Len(items) + 1 /\ Open' = {Len(items) + 1}
        BY <1>0, <1>4, <1>6, <2>1, ItemsBegin DEF Begins
    <2>3. AnthropicHandled(out, Handle(c), Len(items) + 1, {Len(items) + 1})
        BY <1>1, <1>2, <1>3, <1>6, AnthropicHandles
    <2>. QED
        BY <1>0, <2>1, <2>2, <2>3, Receives
<1>7. ASSUME NEW i \in Open, NEW k, NEW x, Receive(A!Chunk("content_block_delta", i, k, x)),
             UNCHANGED <<items, closed>>
      PROVE  StreamInv' /\ out' = out
    <2>. PICK c : c = A!Chunk("content_block_delta", i, k, x)
        OBVIOUS
    <2>1. Receive(c)
        BY <1>7
    <2>2. ItemsInv' /\ items' = items /\ Open' = Open
        BY <1>0, <1>4, <1>7, <2>1, ItemsStay DEF Open
    <2>3. AnthropicHandled(out, Handle(c), Len(items), Open)
        BY <1>1, <1>2, <1>3, <1>5, AnthropicHandles
    <2>. QED
        BY <1>0, <2>1, <2>2, <2>3, Receives
<1>8. ASSUME NEW i \in Open, Ends(i), NEW k, Receive(A!Chunk("content_block_stop", i, k, "")),
             UNCHANGED <<items, wire>>
      PROVE  StreamInv' /\ out' = out
    <2>. PICK c : c = A!Chunk("content_block_stop", i, k, "")
        OBVIOUS
    <2>1. Receive(c)
        BY <1>8
    <2>2. ItemsInv' /\ items' = items
        BY <1>0, <1>4, <1>5, <1>8, <2>1, ItemsStay DEF Ends
    <2>3. Open' = {}
        BY <1>5, <1>8 DEF Open, Ends
    <2>4. AnthropicHandled(out, Handle(c), Len(items), {})
        BY <1>1, <1>2, <1>3, <1>5, AnthropicHandles
    <2>. QED
        BY <1>0, <2>1, <2>2, <2>3, <2>4, Receives
<1>9. ASSUME NEW c \in {A!Chunk("message_delta", 0, "", "stop"), A!Chunk("error", 0, "", "overloaded"),
                        A!Chunk("error", 0, "", "unrecognized")},
             Receive(c), UNCHANGED <<items, closed, wire>>
      PROVE  StreamInv' /\ out' = out
    <2>1. ItemsInv' /\ items' = items /\ Open' = Open
        BY <1>0, <1>4, <1>9, ItemsStay DEF Open
    <2>2. AnthropicHandled(out, Handle(c), Len(items), Open)
        BY <1>1, <1>3, AnthropicOthers
    <2>. QED
        BY <1>0, <1>9, <2>1, <2>2, Receives
<1>. QED
    BY <1>6, <1>7, <1>8, <1>9 DEF AnthropicSends

LEMMA ChatStep ==
    ASSUME StreamInv, ChatSends
    PROVE  StreamInv' /\ out' = out
<1>0. /\ protocol = "chat" /\ Pulling /\ queue = <<>> /\ phase = "streaming" /\ ItemsInv
    BY DEF ChatSends, Pulling, StreamInv
<1>1. ChatAt(out, decoder)
    BY <1>0, OutGoesOn DEF DecoderInv
<1>2. \A c : Handle(c) = O!HandleChunk(decoder, c)
    BY <1>0 DEF Handle
<1>3. ASSUME NEW c, Receive(c),
             c = O!ErrorChunk \/ c = O!NoCallsChunk
               \/ \E t, x, f, n : c = O!Chunk(t, x, f, n) /\ (f = <<>> \/ \E e : f = <<e>>),
             \/ items' = items
             \/ \E k : items' = Append(items, k),
             closed' = closed
      PROVE  StreamInv' /\ out' = out
    <2>1. protocol' = protocol
        BY <1>3 DEF Receive
    <2>2. ItemsInv'
        <3>1. CASE items' = items
            BY <1>0, <1>3, <2>1, <3>1, ItemsStay
        <3>2. ASSUME NEW k, items' = Append(items, k)
              PROVE  ItemsInv'
            BY <1>0, <1>3, <2>1, <3>2, ItemsBegin
        <3>. QED
            BY <1>3, <3>1, <3>2
    <2>3. ChatHandled(out, Handle(c))
        BY <1>1, <1>2, <1>3, ChatHandles
    <2>. QED
        BY <1>0, <1>3, <2>2, <2>3, Receives
<1>4. ASSUME NEW t, NEW x, NEW f, NEW n, f = <<>> \/ \E e : f = <<e>>, Receive(O!Chunk(t, x, f, n)),
             \/ items' = items
             \/ \E k : items' = Append(items, k),
             closed' = closed
      PROVE  StreamInv' /\ out' = out
    <2>. PICK c : c = O!Chunk(t, x, f, n)
        OBVIOUS
    <2>. QED
        BY <1>3, <1>4
<1>5. ASSUME NEW k, NEW d, Receive(O!Chunk(IF k = "reasoning" THEN d ELSE "", IF k = "text" THEN d ELSE "", <<>>, "")),
             UNCHANGED <<items, closed>>
      PROVE  StreamInv' /\ out' = out
    BY <1>4, <1>5
<1>6. ASSUME NEW r, NEW t, Receive(O!Chunk(r, t, <<>>, "")), UNCHANGED <<items, closed>>
      PROVE  StreamInv' /\ out' = out
    BY <1>4, <1>6
<1>7. ASSUME NEW whole, Begins("tool"),
             Receive(O!Chunk("", "", <<[index |-> Len(items) + 1, data |-> IF whole THEN "whole" ELSE ""]>>, "")),
             UNCHANGED closed
      PROVE  StreamInv' /\ out' = out
    <2>. PICK e : e = [index |-> Len(items) + 1, data |-> IF whole THEN "whole" ELSE ""]
        OBVIOUS
    <2>1. items' = Append(items, "tool") /\ closed' = closed /\ Receive(O!Chunk("", "", <<e>>, ""))
        BY <1>7 DEF Begins
    <2>. QED
        BY <1>4, <2>1
<1>8. ASSUME NEW i, NEW d, Receive(O!Chunk("", "", <<[index |-> i, data |-> d]>>, "")),
             UNCHANGED <<items, closed>>
      PROVE  StreamInv' /\ out' = out
    <2>. PICK e : e = [index |-> i, data |-> d]
        OBVIOUS
    <2>1. items' = items /\ closed' = closed /\ Receive(O!Chunk("", "", <<e>>, ""))
        BY <1>8
    <2>. QED
        BY <1>4, <2>1
<1>9. ASSUME NEW c \in {O!Chunk("", "", <<>>, "stop"), O!NoCallsChunk, O!ErrorChunk}, Receive(c),
             UNCHANGED <<items, closed, wire>>
      PROVE  StreamInv' /\ out' = out
    BY <1>3, <1>9
<1>. QED
    BY <1>5, <1>6, <1>7, <1>8, <1>9 DEF ChatSends

LEMMA CodexStep ==
    ASSUME StreamInv, CodexSends
    PROVE  StreamInv' /\ out' = out
<1>0. /\ protocol = "codex" /\ Pulling /\ queue = <<>> /\ phase = "streaming" /\ ItemsInv
    BY DEF CodexSends, Pulling, StreamInv
<1>1. CodexAt(out, decoder, Len(items))
    BY <1>0, OutGoesOn DEF DecoderInv
<1>2. Len(items) \in Nat /\ DOMAIN items = 1..Len(items)
    BY <1>0, SequenceIs DEF ItemsInv
<1>3. \A c : CodexHandledAll(out, decoder, Len(items), c)
    BY <1>1, <1>2, CodexHandles
<1>4. \A c : Handle(c) = C!HandleChunk(decoder, c)
    BY <1>0 DEF Handle
<1>5. \A c : Receive(c) => protocol' = protocol
    BY DEF Receive
<1>6. \A i \in Open : i \in DOMAIN items
    BY DEF Open
<1>7. ASSUME NEW c, Receive(c), CodexHandled(out, Handle(c), Len(items)), items' = items,
             closed' = closed \/ \E i \in DOMAIN items : closed' = closed \cup {i}
      PROVE  StreamInv' /\ out' = out
    <2>1. ItemsInv'
        BY <1>0, <1>5, <1>7, ItemsStay
    <2>. QED
        BY <1>0, <1>7, <2>1, Receives
<1>8. ASSUME NEW k \in Kinds, Begins(k), Receive(C!Chunk("item.added", Len(items) + 1, k, "")),
             UNCHANGED <<closed, wire>>
      PROVE  StreamInv' /\ out' = out
    <2>. PICK c : c = C!Chunk("item.added", Len(items) + 1, k, "")
        OBVIOUS
    <2>1. Receive(c)
        BY <1>8
    <2>2. ItemsInv' /\ Len(items') = Len(items) + 1
        BY <1>0, <1>5, <1>8, <2>1, ItemsBegin DEF Begins
    <2>3. CodexHandled(out, Handle(c), Len(items) + 1)
        BY <1>3, <1>4 DEF CodexHandledAll
    <2>. QED
        BY <1>0, <2>1, <2>2, <2>3, Receives
<1>9. ASSUME NEW i \in Open, NEW d,
             Receive(C!Chunk(IF items[i] = "tool" THEN "arguments.delta" ELSE "delta", i, items[i], d)),
             UNCHANGED <<items, closed>>
      PROVE  StreamInv' /\ out' = out
    <2>. PICK k : k = items[i]
        OBVIOUS
    <2>. PICK c : c = C!Chunk(IF k = "tool" THEN "arguments.delta" ELSE "delta", i, k, d)
        OBVIOUS
    <2>1. Receive(c) /\ items' = items /\ closed' = closed
        BY <1>9
    <2>2. CodexHandled(out, Handle(c), Len(items))
        <3>1. CASE k = "tool"
            <4>1. c = C!Chunk("arguments.delta", i, k, d)
                BY <3>1
            <4>. QED
                BY <1>3, <1>4, <4>1 DEF CodexHandledAll
        <3>2. CASE k # "tool"
            <4>1. c = C!Chunk("delta", i, k, d)
                BY <3>2
            <4>2. k \in Texts
                BY <1>0, <1>6, <3>2 DEF ItemsInv, Kinds, Texts
            <4>. QED
                BY <1>3, <1>4, <4>1, <4>2 DEF CodexHandledAll
        <3>. QED
            BY <3>1, <3>2
    <2>. QED
        BY <1>7, <2>1, <2>2
<1>10. ASSUME NEW i \in Open, Ends(i), Receive(C!Chunk("arguments.done", i, "tool", "whole")),
              UNCHANGED items
       PROVE  StreamInv' /\ out' = out
    <2>. PICK c : c = C!Chunk("arguments.done", i, "tool", "whole")
        OBVIOUS
    <2>1. Receive(c) /\ items' = items /\ closed' = closed \cup {i} /\ i \in DOMAIN items
        BY <1>6, <1>10 DEF Ends
    <2>2. CodexHandled(out, Handle(c), Len(items))
        BY <1>3, <1>4 DEF CodexHandledAll
    <2>. QED
        BY <1>7, <2>1, <2>2
<1>11. ASSUME NEW i \in DOMAIN items, Ends(i), UNCHANGED <<items, wire>>, NEW c, Receive(c),
              c = C!Chunk("item.done", i, items[i], "") \/ c = C!Chunk("done", i, items[i], "")
       PROVE  StreamInv' /\ out' = out
    <2>1. items' = items /\ closed' = closed \cup {i}
        BY <1>11 DEF Ends
    <2>2. CodexHandled(out, Handle(c), Len(items))
        BY <1>3, <1>4, <1>11 DEF CodexHandledAll
    <2>. QED
        BY <1>7, <1>11, <2>1, <2>2
<1>12. ASSUME NEW i \in DOMAIN items, Ends(i), UNCHANGED <<items, wire>>,
              \E c \in {C!Chunk("item.done", i, items[i], "")}
                       \cup IF items[i] = "tool" THEN {} ELSE {C!Chunk("done", i, items[i], "")} : Receive(c)
       PROVE  StreamInv' /\ out' = out
    BY <1>11, <1>12
<1>13. ASSUME NEW c \in {C!Chunk("completed", 0, "", "stop"), C!Chunk("failed", 0, "", "fatal")}, Receive(c),
              UNCHANGED <<items, closed, wire>>
       PROVE  StreamInv' /\ out' = out
    <2>1. CodexHandled(out, Handle(c), Len(items))
        <3>1. CASE c = C!Chunk("completed", 0, "", "stop")
            BY <1>3, <1>4, <3>1 DEF CodexHandledAll
        <3>2. CASE c = C!Chunk("failed", 0, "", "fatal")
            <4>1. "fatal" # "none"
                OBVIOUS
            <4>. QED
                BY <1>3, <1>4, <3>2, <4>1 DEF CodexHandledAll
        <3>. QED
            BY <1>13, <3>1, <3>2
    <2>. QED
        BY <1>7, <1>13, <2>1
<1>. QED
    BY <1>8, <1>9, <1>10, <1>12, <1>13 DEF CodexSends

-----------------------------------------------------------------------------
(* The client's steps.                                                     *)

\* A log that goes on is not over yet.
LEMMA NotOverYet ==
    ASSUME NEW L, NEW q, Sequential(L), Sequential(q), q # <<>>, Lawful(L \o q)
    PROVE  ~ Over(L)
BY HeadMay DEF May

\* An attempt fails; what it delivered is thrown away later, if at all.
LEMMA AttemptFailsStep ==
    ASSUME StreamInv, phase \in {"sending", "streaming", "flushing"}, NEW r, AttemptFails(r),
           UNCHANGED <<protocol, decoder, queue, out, provider>>
    PROVE  StreamInv' /\ out' = out
<1>1. phase' \in {"backoff", "failed"}
    BY DEF AttemptFails
<1>2. ~ Over(out)
    BY DEF StreamInv
<1>3. ItemsInv'
    BY DEF StreamInv, ItemsInv, Open, provider
<1>. QED
    BY <1>1, <1>2, <1>3 DEF StreamInv

LEMMA FlushedIs ==
    ASSUME StreamInv, phase = "streaming", queue = <<>>
    PROVE  FlushedWell(out, Flushed)
<1>1. DecoderInv(out) /\ protocol \in {"anthropic", "chat", "codex"}
    BY OutGoesOn DEF StreamInv
<1>2. CASE protocol = "anthropic"
    BY <1>1, <1>2, AnthropicFlushes DEF Flushed, DecoderInv
<1>3. CASE protocol = "chat"
    BY <1>1, <1>3, ChatFlushes DEF Flushed, DecoderInv
<1>4. CASE protocol = "codex"
    BY <1>1, <1>4, CodexFlushes DEF Flushed, DecoderInv
<1>. QED
    BY <1>1, <1>2, <1>3, <1>4

LEMMA StreamEndsStep ==
    ASSUME StreamInv, StreamEnds
    PROVE  StreamInv' /\ out' = out
<1>. DEFINE r == Flushed
<1>1. /\ phase = "streaming" /\ queue = <<>> /\ decoder' = r.state /\ queue' = r.events /\ out' = out
      /\ protocol' = protocol /\ items' = items /\ closed' = closed
      /\ IF r.error = "none" THEN phase' = "flushing" /\ UNCHANGED error ELSE AttemptFails(r.error)
    BY DEF StreamEnds, AllTaken, provider
<1>2. FlushedWell(out, r)
    BY <1>1, FlushedIs
<1>. HIDE DEF r
<1>3. Lawful(out) /\ ~ Over(out) /\ Sequential(out) /\ protocol \in {"anthropic", "chat", "codex"}
    BY <1>1, OutGoesOn DEF StreamInv
<1>4. ItemsInv'
    BY <1>1 DEF StreamInv, ItemsInv, Open
<1>5. CASE r.error = "none"
    <2>1. Sequential(r.events) /\ Lawful(out \o r.events) /\ r.events # <<>>
        BY <1>2, <1>5 DEF FlushedWell, Closes
    <2>2. phase' = "flushing"
        BY <1>1, <1>5
    <2>. QED
        BY <1>1, <1>3, <1>4, <2>1, <2>2 DEF StreamInv
<1>6. CASE r.error # "none"
    <2>1. r.events = <<>>
        BY <1>2, <1>6 DEF FlushedWell
    <2>2. phase' \in {"backoff", "failed"}
        BY <1>1, <1>6 DEF AttemptFails
    <2>3. Sequential(<<>>) /\ out \o <<>> = out
        BY <1>3, Nothing
    <2>. QED
        BY <1>1, <1>3, <1>4, <2>1, <2>2, <2>3 DEF StreamInv
<1>. QED
    BY <1>5, <1>6

LEMMA DeliverStep ==
    ASSUME StreamInv, Deliver
    PROVE  StreamInv' /\ Sequential(out) /\ May(out, Head(queue)) /\ out' = Append(out, Head(queue))
<1>1. /\ phase \in {"streaming", "flushing"} /\ queue # <<>>
      /\ out' = Append(out, Head(queue)) /\ queue' = Tail(queue)
      /\ protocol' = protocol /\ decoder' = decoder /\ items' = items /\ closed' = closed
      /\ phase' = IF phase = "flushing" /\ queue' = <<>> THEN "collected" ELSE phase
    BY DEF Deliver, provider
<1>2. Sequential(out) /\ Sequential(queue) /\ Lawful(out \o queue) /\ protocol \in {"anthropic", "chat", "codex"}
    BY DEF StreamInv
<1>3. May(out, Head(queue)) /\ Sequential(out') /\ Sequential(queue') /\ out' \o queue' = out \o queue
    BY <1>1, <1>2, HeadMay
<1>4. ItemsInv'
    BY <1>1 DEF StreamInv, ItemsInv, Open
<1>5. CASE phase = "streaming"
    <2>1. phase' = "streaming" /\ DecoderInv(out \o queue)
        BY <1>1, <1>5 DEF StreamInv
    <2>2. DecoderInv(out \o queue)'
        BY <1>1, <1>3, <2>1 DEF DecoderInv, Open
    <2>3. ~ Over(out')
        <3>1. \E S, E, T : Reaches(out' \o queue', S, E, T)
            BY <1>2, <1>3, <2>1 DEF DecoderInv, AnthropicAt, ChatAt, CodexAt
        <3>2. ~ Over(out' \o queue')
            BY <3>1 DEF Reaches
        <3>3. CASE queue' = <<>>
            <4>1. out' \o queue' = out'
                BY <1>3, <3>3, Nothing
            <4>. QED
                BY <3>2, <4>1
        <3>4. CASE queue' # <<>>
            <4>1. Lawful(out' \o queue')
                BY <1>2, <1>3
            <4>. QED
                BY <1>3, <3>4, <4>1, NotOverYet
        <3>. QED
            BY <3>3, <3>4
    <2>. QED
        BY <1>1, <1>2, <1>3, <1>4, <2>1, <2>2, <2>3 DEF StreamInv
<1>6. CASE phase = "flushing" /\ queue' = <<>>
    <2>1. phase' = "collected"
        BY <1>1, <1>6
    <2>. QED
        BY <1>1, <1>2, <1>3, <1>4, <2>1 DEF StreamInv
<1>7. CASE phase = "flushing" /\ queue' # <<>>
    <2>1. phase' = "flushing"
        BY <1>1, <1>7
    <2>2. ~ Over(out')
        <3>1. Lawful(out' \o queue')
            BY <1>2, <1>3
        <3>. QED
            BY <1>3, <1>7, <3>1, NotOverYet
    <2>. QED
        BY <1>1, <1>2, <1>3, <1>4, <1>7, <2>1, <2>2 DEF StreamInv
<1>. QED
    BY <1>1, <1>2, <1>3, <1>5, <1>6, <1>7

LEMMA ResendStep ==
    ASSUME StreamInv, Resend
    PROVE  StreamInv' /\ Sequential(out) /\ ~ Over(out) /\ out' = <<>>
<1>1. /\ phase = "backoff" /\ phase' = "sending" /\ protocol' = protocol
      /\ decoder' = NewDecoder /\ queue' = <<>> /\ out' = <<>> /\ items' = <<>> /\ closed' = {}
    BY DEF Resend
<1>2. protocol \in {"anthropic", "chat", "codex"} /\ Sequential(out) /\ ~ Over(out)
    BY <1>1 DEF StreamInv
<1>3. Sequential(<<>>) /\ Len(<<>>) = 0 /\ <<>> \o <<>> = <<>> /\ DOMAIN <<>> = {}
    BY Nothing
<1>4. Reaches(<<>>, {}, {}, {})
    BY LawfulNothing DEF Reaches
<1>5. Open' = {} /\ Len(items') = 0 /\ out' \o queue' = <<>>
    BY <1>1, <1>3 DEF Open
<1>6. DecoderInv(out \o queue)'
    <2>1. protocol = "anthropic" => decoder' = A!Decoder
        BY <1>1 DEF NewDecoder
    <2>2. protocol = "chat" => decoder' = O!Decoder
        BY <1>1 DEF NewDecoder
    <2>3. protocol = "codex" => decoder' = C!Decoder
        BY <1>1 DEF NewDecoder
    <2>4. protocol = "anthropic" => AnthropicAt(<<>>, decoder', 0, {})
        BY <1>4, <2>1, AnthropicStarts DEF AnthropicAt
    <2>5. protocol = "chat" => ChatAt(<<>>, decoder')
        BY <1>4, <2>2, ChatStarts DEF ChatAt
    <2>6. protocol = "codex" => CodexAt(<<>>, decoder', 0)
        BY <1>4, <2>3, CodexStarts DEF CodexAt
    <2>. QED
        BY <1>1, <1>5, <2>4, <2>5, <2>6 DEF DecoderInv
<1>7. ItemsInv'
    BY <1>1, <1>3, <1>5 DEF ItemsInv
<1>. QED
    BY <1>1, <1>2, <1>3, <1>5, <1>6, <1>7, LawfulNothing DEF StreamInv

\* How a step changes what the agent has collected.
Grows == Sequential(out) /\ May(out, Head(queue)) /\ out' = Append(out, Head(queue))
Drops == Sequential(out) /\ ~ Over(out) /\ out' = <<>>

LEMMA StreamStep ==
    ASSUME StreamInv, [CallNext]_callVars
    PROVE  StreamInv' /\ (out' = out \/ Grows \/ Drops)
<1>1. CASE RequestFails
    BY <1>1, AttemptFailsStep DEF RequestFails
<1>2. CASE RequestAccepted
    <2>1. /\ phase = "sending" /\ phase' = "streaming" /\ out' = out /\ queue' = queue
          /\ protocol' = protocol /\ decoder' = decoder /\ items' = items /\ closed' = closed
        BY <1>2 DEF RequestAccepted, provider
    <2>2. DecoderInv(out \o queue)' /\ ItemsInv'
        BY <2>1 DEF StreamInv, DecoderInv, ItemsInv, Open
    <2>. QED
        BY <2>1, <2>2 DEF StreamInv
<1>3. CASE StreamBreaks
    BY <1>3, AttemptFailsStep DEF StreamBreaks
<1>4. CASE StreamEnds
    BY <1>4, StreamEndsStep
<1>5. CASE Deliver
    BY <1>5, DeliverStep DEF Grows
<1>6. CASE Stall
    BY <1>6, AttemptFailsStep DEF Stall
<1>7. CASE WallCapHits
    BY <1>7, AttemptFailsStep DEF WallCapHits
<1>8. CASE Resend
    BY <1>8, ResendStep DEF Drops
<1>9. CASE Summarized
    <2>1. /\ phase' \in {"answered", "failed"} /\ out' = out /\ queue' = queue
          /\ protocol' = protocol /\ items' = items /\ closed' = closed
        BY <1>9 DEF Summarized, provider
    <2>2. ItemsInv'
        BY <2>1 DEF StreamInv, ItemsInv, Open
    <2>. QED
        BY <2>1, <2>2 DEF StreamInv
<1>10. CASE AnthropicSends
    BY <1>10, AnthropicStep
<1>11. CASE ChatSends
    BY <1>11, ChatStep
<1>12. CASE CodexSends
    BY <1>12, CodexStep
<1>13. CASE UNCHANGED <<client, items, closed, wire>>
    BY <1>13 DEF client, StreamInv, DecoderInv, ItemsInv, Open
<1>14. CASE UNCHANGED callVars \/ RunsAway \/ TakeMore
    BY <1>13, <1>14 DEF callVars, provider, RunsAway, TakeMore
<1>. QED
    BY <1>1, <1>2, <1>3, <1>4, <1>5, <1>6, <1>7, <1>8, <1>9, <1>10, <1>11, <1>12, <1>14
       DEF CallNext, ClientNext

-----------------------------------------------------------------------------
(* What EventStream says of the log.                                       *)

LEMMA LogIs ==
    ASSUME Sequential(out)
    PROVE  /\ \A k : Abstract!Started(k) <=> (k \in Begun(out))
           /\ \A k : Abstract!Ended(k) <=> (k \in Shut(out))
           /\ \A id : Abstract!Called(id) <=> (id \in Told(out))
           /\ Abstract!Finished <=> Over(out)
           /\ Abstract!Keys = Begun(out)
<1>1. DOMAIN out = 1..Len(out)
    BY SequenceIs
<1>2. \A e : Abstract!Key(e) = Key(e)
    BY DEF Abstract!Key, Key
<1>3. \A k : Abstract!Started(k) <=> (k \in Begun(out))
    BY <1>1, <1>2 DEF Abstract!Started, Begun, Of
<1>4. \A k : Abstract!Ended(k) <=> (k \in Shut(out))
    BY <1>1, <1>2 DEF Abstract!Ended, Shut, Of
<1>5. \A id : Abstract!Called(id) <=> (id \in Told(out))
    BY <1>1 DEF Abstract!Called, Told, Of
<1>6. Abstract!Finished <=> Over(out)
    BY <1>1 DEF Abstract!Finished, Over, Of
<1>7. Abstract!Keys = Begun(out)
    BY <1>1, <1>2 DEF Abstract!Keys, Begun, Of
<1>. QED
    BY <1>3, <1>4, <1>5, <1>6, <1>7

LEMMA GrowsIsEmit == Grows => Abstract!StreamNext
<1>. SUFFICES ASSUME Grows PROVE Abstract!StreamNext
    OBVIOUS
<1>. PICK e : e = Head(queue)
    OBVIOUS
<1>1. Sequential(out) /\ May(out, e) /\ out' = Append(out, e)
    BY DEF Grows
<1>2. Sequential(out') /\ Len(out') = Len(out) + 1 /\ Len(out) \in Nat /\ out'[Len(out) + 1] = e
    BY <1>1, Appended, SequenceIs
<1>3. out' # <<>> /\ Abstract!Last(out') = e
    <2>1. Len(out') # 0
        BY <1>2
    <2>2. out' # <<>>
        BY <2>1, Nothing
    <2>. QED
        BY <1>2, <2>2 DEF Abstract!Last
<1>4. ~ Abstract!Finished
    BY <1>1, LogIs DEF May
<1>5. \/ Abstract!StartContent(e) \/ Abstract!ExtendContent(e) \/ Abstract!EndContent(e)
      \/ Abstract!AnnounceCall(e) \/ Abstract!NoteError(e) \/ Abstract!FinishStream(e)
    <2>1. Abstract!Key(e) = Key(e)
        BY DEF Abstract!Key, Key
    <2>2. CASE e.type = "start" /\ Key(e) \notin Begun(out)
        BY <1>1, <2>1, <2>2, LogIs DEF Abstract!StartContent
    <2>3. CASE e.type = "delta" /\ Key(e) \in Begun(out) \ Shut(out)
        BY <1>1, <2>1, <2>3, LogIs DEF Abstract!ExtendContent, Abstract!IsOpenContent
    <2>4. CASE e.type = "end" /\ Key(e) \in Begun(out) \ Shut(out)
        BY <1>1, <2>1, <2>4, LogIs DEF Abstract!EndContent, Abstract!IsOpenContent
    <2>5. CASE e.type = "call" /\ <<"tool", e.id>> \in Shut(out) /\ e.id \notin Told(out)
        BY <1>1, <2>5, LogIs DEF Abstract!AnnounceCall
    <2>6. CASE e.type = "provider-error"
        BY <2>6 DEF Abstract!NoteError
    <2>7. CASE e.type = "finish" /\ \A k \in Begun(out) : k \in Shut(out) /\ (k[1] = "tool" => k[2] \in Told(out))
        BY <1>1, <2>7, LogIs DEF Abstract!FinishStream
    <2>. QED
        BY <1>1, <2>2, <2>3, <2>4, <2>5, <2>6, <2>7 DEF May
<1>6. Abstract!Emit(e)
    BY <1>1, <1>4, <1>5 DEF Abstract!Emit
<1>. QED
    BY <1>3, <1>6 DEF Abstract!StreamNext

LEMMA DropsIsRetry == Drops => Abstract!StreamNext
BY LogIs DEF Drops, Abstract!StreamNext, Abstract!Retry

\* What is collected with what is queued stays lawful, and while an attempt runs
\* its decoder stands where that log has got to: handleChunk and flush of the
\* three decoders, streamOnce of core/src/agent.ts.
THEOREM StreamInvariant == CallSpec => []StreamInv
<1>1. StreamInv /\ [CallNext]_callVars => StreamInv'
    BY StreamStep
<1>. QED
    BY StreamStarts, <1>1, PTL DEF CallSpec

\* Whatever the protocol, and whatever a provider that keeps to it sends, the
\* agent collects nothing but what EventStream allows: the decoders of the three
\* protocols, streamOnce and the retries of core/src/agent.ts.
THEOREM CallImplementsEventStream == CallSpec => ImplementsEventStream
<1>1. CallInit => Abstract!StreamInit
    BY DEF CallInit, Abstract!StreamInit
<1>2. StreamInv /\ [CallNext]_callVars => [Abstract!StreamNext]_out
    BY StreamStep, GrowsIsEmit, DropsIsRetry
<1>. QED
    BY <1>1, <1>2, StreamInvariant, PTL DEF CallSpec, ImplementsEventStream, Abstract!StreamSpec

\* Of every paired transcript each protocol makes a request that says every call
\* and result of it once, each result after its call and where the backend looks
\* for it, or refuses one that holds a reply without a text or a call: lowerMessages of
\* llms/src/protocols.
THEOREM RequestsKeepPairs == CallSpec => []RequestKeepsPairs
<1>1. ASSUME StreamInv, NEW h \in Histories
      PROVE  /\ Lowered(h).refused => h = <<>> \/ \E n \in DOMAIN h : SaysNothing(h[n])
             /\ ~ Lowered(h).refused => Keeps(Lowered(h).wire, h)
    <2>. PICK r : r = Lowered(h)
        OBVIOUS
    <2>0. Paired(h)
        BY ProviderAssumption
    <2>1. CASE protocol = "anthropic"
        <3>1. r = LowerAnthropic(h)
            BY <2>1 DEF Lowered
        <3>2. r.refused => h = <<>> \/ \E n \in DOMAIN h : SaysNothing(h[n])
            BY <2>0, <3>1, AnthropicRefuses, Zenon
        <3>3. ~ r.refused => Keeps(r.wire, h)
            BY <2>0, <3>1, AnthropicKeeps
        <3>. QED
            BY <3>2, <3>3, Zenon
    <2>2. CASE protocol = "chat"
        <3>1. r = LowerChat(h)
            BY <2>2 DEF Lowered
        <3>2. ~ r.refused /\ Keeps(r.wire, h)
            BY <2>0, <3>1, ChatKeeps
        <3>. QED
            BY <3>2, Zenon
    <2>3. CASE protocol = "codex"
        <3>1. r = LowerCodex(h)
            BY <2>3 DEF Lowered
        <3>2. ~ r.refused /\ Keeps(r.wire, h)
            BY <2>0, <3>1, CodexKeeps
        <3>. QED
            BY <3>2, Zenon
    <2>. QED
        BY <1>1, <2>1, <2>2, <2>3, Zenon DEF StreamInv
<1>2. StreamInv => RequestKeepsPairs
    BY <1>1, Zenon DEF RequestKeepsPairs, Keeps
<1>. QED
    BY <1>2, StreamInvariant, PTL
=============================================================================
