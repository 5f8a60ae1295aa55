----------------------------- MODULE Reply_proofs ---------------------------
(***************************************************************************)
(* That a reply is what the provider said.                                 *)
(*                                                                         *)
(* A decoder is ahead of the reply: what it has made of the chunks waits   *)
(* in the queue, and the reply is folded from the events one by one.  So   *)
(* what is kept, ReplyInv, is about the summary t that the queue leads to  *)
(* from the one there is: t agrees with all that was sent, and the decoder *)
(* holds what of it is not told.  A handler leads from t to the summary of *)
(* the next chunk, a delivery leaves t where it is, and when the queue is  *)
(* empty the reply is t.                                                   *)
(***************************************************************************)
EXTENDS ProviderCall_proofs

-----------------------------------------------------------------------------
(* Sequences that grow.                                                    *)

\* A sequence of sequences, and one of a length.
Nested(s)  == Sequential(s) /\ \A i \in 1..Len(s) : Sequential(s[i])
Long(s, n) == n \in Nat /\ Sequential(s) /\ Len(s) = n

\* s with one member more, and the members of s and then those of t.
Adds(u, s, x)    == u = Append(s, x)
Follows(u, s, t) == u = s \o t

LEMMA LongIs ==
    ASSUME NEW s, Sequential(s)
    PROVE  \E n \in Nat : Long(s, n) /\ DOMAIN s = 1..n
BY SequenceIs DEF Long

LEMMA LongAppend ==
    ASSUME NEW n, NEW s, Long(s, n), NEW x, NEW t, Adds(t, s, x)
    PROVE  Long(t, n + 1) /\ t[n + 1] = x /\ \A i \in 1..n : t[i] = s[i]
<1>1. Sequential(s) /\ n = Len(s) /\ n \in Nat
    BY DEF Long
<1>. t = Append(s, x)
    BY DEF Adds
<1>2. n + 1 \in Nat
    BY <1>1
<1>3. /\ Sequential(Append(s, x)) /\ Len(Append(s, x)) = Len(s) + 1
      /\ Append(s, x)[Len(s) + 1] = x
      /\ \A i \in 1..Len(s) : Append(s, x)[i] = s[i]
    BY <1>1, Appended
<1>4. Len(Append(s, x)) = n + 1 /\ Append(s, x)[n + 1] = x /\ \A i \in 1..n : Append(s, x)[i] = s[i]
    BY <1>1, <1>3, Zenon
<1>. QED
    BY <1>2, <1>3, <1>4, Zenon DEF Long

LEMMA UpTo ==
    ASSUME NEW n \in Nat, NEW i \in 1..n + 1
    PROVE  i \in 1..n \/ i = n + 1
OBVIOUS

LEMMA NestedAppend ==
    ASSUME NEW s, Nested(s), NEW x, Sequential(x), NEW t, Adds(t, s, x)
    PROVE  Nested(t)
<1>. PICK n \in Nat : Long(s, n)
    BY LongIs DEF Nested
<1>1. \A i \in 1..n : Sequential(s[i])
    BY DEF Nested, Long
<1>2. Long(t, n + 1) /\ t[n + 1] = x /\ \A i \in 1..n : t[i] = s[i]
    BY LongAppend
<1>3. \A i \in 1..n + 1 : Sequential(t[i])
    BY <1>1, <1>2, UpTo
<1>. QED
    BY <1>2, <1>3 DEF Nested, Long

\* The stages of a sequence are those of its beginning, as far as that goes.
LEMMA SameStages ==
    ASSUME NEW s, NEW t, NEW n \in Nat, NEW f, NEW g,
           Stages(f, s, n), Stages(g, t, n + 1), \A i \in 1..n : s[i] = t[i]
    PROVE  Follows(g[n + 1], f[n], t[n + 1])
<1>. DEFINE T == {i \in 0..n : f[i] = g[i]}
<1>1. 0 \in T
    BY DEF Stages
<1>2. ASSUME NEW i \in 1..n, i - 1 \in T
      PROVE  i \in T
    <2>1. i \in 1..(n + 1) /\ i \in 0..n
        OBVIOUS
    <2>2. f[i] = f[i - 1] \o s[i] /\ g[i] = g[i - 1] \o t[i]
        BY <2>1 DEF Stages
    <2>. QED
        BY <1>2, <2>1, <2>2
<1>. HIDE DEF T
<1>3. \A i \in 0..n : i \in T
    BY <1>1, <1>2, Climbing
<1>4. n \in T
    BY <1>3
<1>5. f[n] = g[n]
    BY <1>4 DEF T
<1>6. n + 1 \in 1..(n + 1) /\ (n + 1) - 1 = n
    OBVIOUS
<1>7. g[n + 1] = g[n] \o t[n + 1]
    BY <1>6 DEF Stages
<1>. QED
    BY <1>5, <1>7 DEF Follows

LEMMA FlattenIs ==
    ASSUME NEW s, Nested(s), NEW n, Long(s, n)
    PROVE  \E f : Stages(f, s, n) /\ FlattenSeq(s) = f[n] /\ Sequential(FlattenSeq(s))
                  /\ \A i \in 0..n : Sequential(f[i])
<1>1. PICK f : Stages(f, s, Len(s)) /\ FlattenSeq(s) = f[Len(s)] /\ \A i \in 0..Len(s) : Sequential(f[i])
    BY Flattening DEF Nested
<1>2. Len(s) = n /\ n \in Nat
    BY DEF Long
<1>3. n \in 0..n
    BY <1>2
<1>. QED
    BY <1>1, <1>2, <1>3, Zenon

LEMMA FlattenAppend ==
    ASSUME NEW s, Nested(s), NEW x, Sequential(x), NEW t, Adds(t, s, x)
    PROVE  Sequential(FlattenSeq(s)) /\ Follows(FlattenSeq(t), FlattenSeq(s), x)
<1>. PICK n \in Nat : Long(s, n)
    BY LongIs DEF Nested
<1>1. Long(t, n + 1) /\ t[n + 1] = x /\ \A i \in 1..n : t[i] = s[i]
    BY LongAppend
<1>2. Nested(t)
    BY NestedAppend
<1>3. PICK f : Stages(f, s, n) /\ FlattenSeq(s) = f[n] /\ Sequential(FlattenSeq(s))
    BY FlattenIs
<1>4. PICK g : Stages(g, t, n + 1) /\ FlattenSeq(t) = g[n + 1]
    BY <1>1, <1>2, FlattenIs
<1>5. \A i \in 1..n : s[i] = t[i]
    BY <1>1
<1>6. Follows(g[n + 1], f[n], t[n + 1])
    BY <1>3, <1>4, <1>5, SameStages
<1>. QED
    BY <1>1, <1>3, <1>4, <1>6, Zenon

LEMMA SameSequence ==
    ASSUME NEW n, NEW s, NEW t, Long(s, n), Long(t, n), \A i \in 1..n : s[i] = t[i]
    PROVE  s = t
<1>1. Sequential(s) /\ Sequential(t) /\ Len(s) = Len(t) /\ \A i \in 1..Len(s) : s[i] = t[i]
    BY Zenon DEF Long
<1>. PICK S : s \in Seq(S) /\ t \in Seq(S)
    BY <1>1, CommonSet
<1>. QED
    BY <1>1, SeqEqual

LEMMA LongNext ==
    ASSUME NEW n, NEW s, Long(s, n)
    PROVE  n \in Nat /\ n + 1 \in Nat /\ Sequential(s) /\ DOMAIN s = 1..n /\ n + 1 \in 1..(n + 1)
           /\ \A i \in 1..n : i \in 1..(n + 1)
<1>1. n \in Nat /\ Sequential(s)
    BY DEF Long
<1>2. DOMAIN s = 1..n
    BY SequenceIs, Zenon DEF Long
<1>3. n + 1 \in Nat /\ n + 1 \in 1..(n + 1) /\ \A i \in 1..n : i \in 1..(n + 1)
    BY <1>1
<1>. QED
    BY <1>1, <1>2, <1>3

LEMMA AddsIs ==
    ASSUME NEW n, NEW s, Long(s, n), NEW t, Long(t, n + 1), \A i \in 1..n : t[i] = s[i]
    PROVE  Adds(t, s, t[n + 1])
<1>. PICK x : x = t[n + 1]
    OBVIOUS
<1>. PICK u : Adds(u, s, x)
    BY DEF Adds
<1>1. Long(u, n + 1) /\ u[n + 1] = x /\ \A i \in 1..n : u[i] = s[i]
    BY LongAppend
<1>2. n \in Nat
    BY LongNext
<1>3. \A i \in 1..(n + 1) : u[i] = t[i]
    <2>. TAKE i \in 1..(n + 1)
    <2>1. i \in 1..n \/ i = n + 1
        BY <1>2, UpTo
    <2>. QED
        BY <1>1, <2>1
<1>4. u = t
    BY <1>1, <1>3, SameSequence
<1>. QED
    BY <1>4

\* f is a function of 1..n.
Lists(f, n) == n \in Nat /\ f = [i \in 1..n |-> f[i]]

LEMMA ListsIs ==
    ASSUME NEW n, NEW f, Lists(f, n)
    PROVE  Long(f, n)
BY FunctionIsSequence DEF Lists, Long

LEMMA NothingLong == Long(<<>>, 0) /\ Nested(<<>>) /\ FlattenSeq(<<>>) = <<>>
<1>1. Sequential(<<>>) /\ Len(<<>>) = 0 /\ \A i \in 1..Len(<<>>) : FALSE
    BY Nothing
<1>. QED
    BY <1>1, FlattenNone DEF Nested, Long

LEMMA FollowsOne ==
    ASSUME NEW s, Sequential(s), NEW u, NEW x, Follows(u, s, <<x>>)
    PROVE  Adds(u, s, x) /\ Sequential(u)
BY Appended DEF Adds, Follows

LEMMA FollowsNone ==
    ASSUME NEW s, Sequential(s), NEW u, Follows(u, s, <<>>)
    PROVE  u = s
BY Nothing DEF Follows

\* One member more, which a flattened sequence may or may not show.
LEMMA FlattenGrows ==
    ASSUME NEW n, NEW a, NEW b, Long(a, n), Long(b, n + 1), Nested(a), \A i \in 1..n : b[i] = a[i],
           Sequential(b[n + 1])
    PROVE  /\ Nested(b) /\ Sequential(FlattenSeq(a))
           /\ Follows(FlattenSeq(b), FlattenSeq(a), b[n + 1])
<1>1. Adds(b, a, b[n + 1])
    BY AddsIs
<1>. QED
    BY <1>1, NestedAppend, FlattenAppend

\* What stands at the positions X, with one member more.
Shown(s, X) == [n \in DOMAIN s |-> IF n \in X THEN <<s[n]>> ELSE <<>>]

LEMMA ShownIs ==
    ASSUME NEW n, NEW s, Long(s, n), NEW X
    PROVE  /\ Long(Shown(s, X), n) /\ Nested(Shown(s, X))
           /\ \A i \in 1..n : Shown(s, X)[i] = IF i \in X THEN <<s[i]>> ELSE <<>>
<1>1. DOMAIN s = 1..n /\ n \in Nat
    BY LongNext
<1>. PICK t : t = Shown(s, X)
    OBVIOUS
<1>2. Lists(t, n) /\ \A i \in 1..n : t[i] = IF i \in X THEN <<s[i]>> ELSE <<>>
    BY <1>1 DEF Lists, Shown
<1>3. Long(t, n)
    BY <1>2, ListsIs
<1>4. ASSUME NEW i \in 1..n
      PROVE  Sequential(t[i])
    <2>1. Sequential(<<>>) /\ Sequential(<<s[i]>>)
        BY Nothing, OneElement
    <2>. QED
        BY <1>2, <2>1
<1>5. Nested(t)
    BY <1>3, <1>4 DEF Nested, Long
<1>. QED
    BY <1>2, <1>3, <1>5

LEMMA PickedGrows ==
    ASSUME NEW s, Sequential(s), NEW x, NEW t, Adds(t, s, x), NEW X, NEW Y, NEW n, Long(s, n),
           \A i \in 1..n : i \in X <=> i \in Y
    PROVE  /\ Sequential(Picked(s, X)) /\ Sequential(Picked(t, Y))
           /\ n + 1 \in Y => Adds(Picked(t, Y), Picked(s, X), x)
           /\ n + 1 \notin Y => Picked(t, Y) = Picked(s, X)
<1>1. Long(t, n + 1) /\ t[n + 1] = x /\ \A i \in 1..n : t[i] = s[i]
    BY LongAppend
<1>. PICK a : a = Shown(s, X)
    OBVIOUS
<1>. PICK b : b = Shown(t, Y)
    OBVIOUS
<1>2. Long(a, n) /\ Nested(a) /\ \A i \in 1..n : a[i] = IF i \in X THEN <<s[i]>> ELSE <<>>
    BY ShownIs
<1>3. Long(b, n + 1) /\ \A i \in 1..(n + 1) : b[i] = IF i \in Y THEN <<t[i]>> ELSE <<>>
    BY <1>1, ShownIs
<1>4. n + 1 \in 1..(n + 1) /\ \A i \in 1..n : i \in 1..(n + 1)
    BY LongNext
<1>5. b[n + 1] = IF n + 1 \in Y THEN <<x>> ELSE <<>>
    BY <1>1, <1>3, <1>4
<1>6. Sequential(b[n + 1])
    BY <1>5, Nothing, OneElement
<1>7. \A i \in 1..n : b[i] = a[i]
    BY <1>1, <1>2, <1>3, <1>4
<1>. PICK p : p = FlattenSeq(a)
    OBVIOUS
<1>. PICK q : q = FlattenSeq(b)
    OBVIOUS
<1>8. Sequential(p) /\ Follows(q, p, b[n + 1])
    BY <1>2, <1>3, <1>6, <1>7, FlattenGrows
<1>9. p = Picked(s, X) /\ q = Picked(t, Y)
    BY DEF Picked, Shown
<1>10. CASE n + 1 \in Y
    <2>1. Adds(q, p, x) /\ Sequential(q)
        BY <1>5, <1>8, <1>10, FollowsOne
    <2>. QED
        BY <1>8, <1>9, <1>10, <2>1
<1>11. CASE n + 1 \notin Y
    <2>1. q = p
        BY <1>5, <1>8, <1>11, FollowsNone
    <2>. QED
        BY <1>8, <1>9, <1>11, <2>1
<1>. QED
    BY <1>10, <1>11

-----------------------------------------------------------------------------
(* What has been heard.                                                    *)

LEMMA DataIs ==
    ASSUME NEW n, NEW ws, Long(ws, n)
    PROVE  Long(Data(ws), n) /\ \A i \in 1..n : Data(ws)[i] = ws[i].data
<1>1. DOMAIN ws = 1..n /\ n \in Nat
    BY LongNext
<1>. PICK t : t = Data(ws)
    OBVIOUS
<1>2. Lists(t, n) /\ \A i \in 1..n : t[i] = ws[i].data
    BY <1>1 DEF Lists, Data
<1>. QED
    BY <1>2, ListsIs

LEMMA DataAppend ==
    ASSUME NEW u, Sequential(u), NEW w, NEW v, Adds(v, u, w)
    PROVE  Adds(Data(v), Data(u), w.data) /\ Sequential(Data(u))
<1>. PICK n \in Nat : Long(u, n)
    BY LongIs
<1>1. Long(v, n + 1) /\ v[n + 1] = w /\ \A i \in 1..n : v[i] = u[i]
    BY LongAppend
<1>. PICK a : a = Data(u)
    OBVIOUS
<1>. PICK b : b = Data(v)
    OBVIOUS
<1>2. Long(a, n) /\ \A i \in 1..n : a[i] = u[i].data
    BY DataIs
<1>3. Long(b, n + 1) /\ \A i \in 1..(n + 1) : b[i] = v[i].data
    BY <1>1, DataIs
<1>4. n + 1 \in 1..(n + 1) /\ \A i \in 1..n : i \in 1..(n + 1)
    BY LongNext
<1>5. b[n + 1] = w.data /\ \A i \in 1..n : b[i] = a[i]
    BY <1>1, <1>2, <1>3, <1>4
<1>6. Adds(b, a, b[n + 1])
    BY <1>2, <1>3, <1>5, AddsIs
<1>. QED
    BY <1>2, <1>5, <1>6, LongNext

Heard(u, kind) == Data(Select(u, LAMBDA w : w.kind = kind))
HeardOf(u, i)  == Data(Select(u, LAMBDA w : w.item = i))

\* The pieces w1 of v are those of u, and perhaps w.
Extends(a, b, said, piece) == IF said THEN Adds(a, b, piece) ELSE a = b

OfKind(u, n, kind) == {j \in 1..n : u[j].kind = kind}
OfItem(u, n, i)    == {j \in 1..n : u[j].item = i}

LEMMA HeardIs ==
    ASSUME NEW u, NEW n, Long(u, n), NEW kind, NEW i
    PROVE  /\ Heard(u, kind) = Data(Picked(u, OfKind(u, n, kind)))
           /\ HeardOf(u, i) = Data(Picked(u, OfItem(u, n, i)))
<1>1. DOMAIN u = 1..n
    BY LongNext
<1>. QED
    BY <1>1 DEF Select, Picked, Heard, HeardOf, OfKind, OfItem

LEMMA HeardGrows ==
    ASSUME NEW u, Sequential(u), NEW w, NEW v, Adds(v, u, w), NEW kind, NEW i
    PROVE  /\ Sequential(v) /\ Sequential(Heard(u, kind)) /\ Sequential(HeardOf(u, i))
           /\ Extends(Heard(v, kind), Heard(u, kind), w.kind = kind, w.data)
           /\ Extends(HeardOf(v, i), HeardOf(u, i), w.item = i, w.data)
<1>. PICK n \in Nat : Long(u, n)
    BY LongIs
<1>1. Long(v, n + 1) /\ v[n + 1] = w /\ \A j \in 1..n : v[j] = u[j]
    BY LongAppend
<1>2. n + 1 \in 1..(n + 1) /\ \A j \in 1..n : j \in 1..(n + 1)
    BY LongNext
<1>. DEFINE XK == OfKind(u, n, kind)
            YK == OfKind(v, n + 1, kind)
            XI == OfItem(u, n, i)
            YI == OfItem(v, n + 1, i)
<1>3. /\ \A j \in 1..n : j \in XK <=> j \in YK
      /\ \A j \in 1..n : j \in XI <=> j \in YI
      /\ n + 1 \in YK <=> w.kind = kind
      /\ n + 1 \in YI <=> w.item = i
    BY <1>1, <1>2 DEF OfKind, OfItem
<1>4. /\ Heard(u, kind) = Data(Picked(u, XK)) /\ Heard(v, kind) = Data(Picked(v, YK))
      /\ HeardOf(u, i) = Data(Picked(u, XI)) /\ HeardOf(v, i) = Data(Picked(v, YI))
    BY <1>1, HeardIs
<1>. HIDE DEF XK, YK, XI, YI
<1>5. /\ Sequential(Picked(u, XK)) /\ Sequential(Picked(u, XI))
      /\ n + 1 \in YK => Adds(Picked(v, YK), Picked(u, XK), w)
      /\ n + 1 \notin YK => Picked(v, YK) = Picked(u, XK)
      /\ n + 1 \in YI => Adds(Picked(v, YI), Picked(u, XI), w)
      /\ n + 1 \notin YI => Picked(v, YI) = Picked(u, XI)
    BY <1>3, PickedGrows
<1>6. Sequential(Data(Picked(u, XK))) /\ Sequential(Data(Picked(u, XI)))
    <2>. PICK m \in Nat : Long(Picked(u, XK), m)
        BY <1>5, LongIs
    <2>. PICK l \in Nat : Long(Picked(u, XI), l)
        BY <1>5, LongIs
    <2>. QED
        BY DataIs, LongNext
<1>7. /\ n + 1 \in YK => Adds(Data(Picked(v, YK)), Data(Picked(u, XK)), w.data)
      /\ n + 1 \in YI => Adds(Data(Picked(v, YI)), Data(Picked(u, XI)), w.data)
    BY <1>5, DataAppend
<1>8. Sequential(v)
    BY <1>1, LongNext
<1>. QED
    BY <1>3, <1>4, <1>5, <1>6, <1>7, <1>8 DEF Extends

LEMMA HeardNothing ==
    ASSUME NEW kind, NEW i
    PROVE  Heard(<<>>, kind) = <<>> /\ HeardOf(<<>>, i) = <<>>
<1>1. Long(<<>>, 0) /\ DOMAIN <<>> = 1..0
    BY NothingLong, LongNext
<1>2. Select(<<>>, LAMBDA w : w.kind = kind) = <<>> /\ Select(<<>>, LAMBDA w : w.item = i) = <<>>
    <2>1. \A f, g : f = [n \in DOMAIN <<>> |-> f[n]] => f = <<>>
        BY <1>1
    <2>2. /\ [n \in DOMAIN <<>> |-> IF <<>>[n].kind = kind THEN <<(<<>>)[n]>> ELSE <<>>] = <<>>
          /\ [n \in DOMAIN <<>> |-> IF <<>>[n].item = i THEN <<(<<>>)[n]>> ELSE <<>>] = <<>>
        BY <2>1, <1>1
    <2>. QED
        BY <2>2, FlattenNone DEF Select
<1>3. Data(<<>>) = <<>>
    <2>1. Long(Data(<<>>), 0)
        BY <1>1, DataIs
    <2>2. \A j \in 1..0 : Data(<<>>)[j] = <<>>[j]
        OBVIOUS
    <2>. QED
        BY <1>1, <2>1, <2>2, SameSequence
<1>. QED
    BY <1>2, <1>3 DEF Heard, HeardOf

-----------------------------------------------------------------------------
(* The summaries a queue of events leads through.                          *)

Chain(g, s, q, n, t) ==
    /\ g[0] = s /\ g[n] = t
    /\ \A i \in 1..n : g[i] = Taken(g[i - 1], q[i])

\* With the events q, the summary s becomes t.
Leads(s, q, t) == \E n, g : Long(q, n) /\ Chain(g, s, q, n, t)

LEMMA LeadsNone ==
    ASSUME NEW s
    PROVE  Leads(s, <<>>, s) /\ \A t : Leads(s, <<>>, t) => t = s
<1>1. Long(<<>>, 0)
    BY NothingLong
<1>2. Leads(s, <<>>, s)
    <2>. PICK g : g = [i \in 0..0 |-> s]
        OBVIOUS
    <2>1. Chain(g, s, <<>>, 0, s)
        BY DEF Chain
    <2>. QED
        BY <1>1, <2>1 DEF Leads
<1>3. ASSUME NEW t, Leads(s, <<>>, t)
      PROVE  t = s
    <2>. PICK n, g : Long(<<>>, n) /\ Chain(g, s, <<>>, n, t)
        BY <1>3 DEF Leads
    <2>1. n = 0
        BY <1>1 DEF Long
    <2>. QED
        BY <2>1 DEF Chain
<1>. QED
    BY <1>2, <1>3

LEMMA OneLong ==
    ASSUME NEW e
    PROVE  Long(<<e>>, 1) /\ <<e>>[1] = e
BY OneElement DEF Long

LEMMA LeadsOne ==
    ASSUME NEW s, NEW e
    PROVE  Leads(s, <<e>>, Taken(s, e))
<1>. PICK t : t = Taken(s, e)
    OBVIOUS
<1>. PICK g : g = [i \in 0..1 |-> IF i = 0 THEN s ELSE t]
    OBVIOUS
<1>1. g[0] = s /\ g[1] = t
    OBVIOUS
<1>. PICK q : q = <<e>> /\ Long(q, 1) /\ q[1] = e
    BY OneLong
<1>2. Chain(g, s, q, 1, t)
    <2>1. \A i \in 1..1 : i = 1 /\ i - 1 = 0
        OBVIOUS
    <2>2. g[1] = Taken(g[0], q[1])
        BY <1>1
    <2>. QED
        BY <1>1, <2>1, <2>2 DEF Chain
<1>. QED
    BY <1>2 DEF Leads

LEMMA FollowsLong ==
    ASSUME NEW n, NEW m, NEW q, NEW r, Long(q, n), Long(r, m), NEW p, Follows(p, q, r)
    PROVE  /\ Long(p, n + m) /\ n \in Nat /\ m \in Nat
           /\ \A i \in 1..n : p[i] = q[i]
           /\ \A i \in 1..m : p[n + i] = r[i]
<1>1. Sequential(q) /\ Sequential(r) /\ Len(q) = n /\ Len(r) = m /\ n \in Nat /\ m \in Nat
    BY DEF Long
<1>2. Joins(p, q, r)
    BY <1>1, Joining DEF Follows
<1>3. /\ Sequential(p) /\ Len(p) = n + m
      /\ \A i \in 1..n : p[i] = q[i]
      /\ \A i \in 1..m : p[n + i] = r[i]
    BY <1>1, <1>2, Zenon DEF Joins
<1>4. n + m \in Nat
    BY <1>1
<1>. QED
    BY <1>1, <1>3, <1>4, Zenon DEF Long

LEMMA BeforeOrAfter ==
    ASSUME NEW n \in Nat, NEW m \in Nat, NEW i \in 1..(n + m)
    PROVE  \/ i \in 1..n /\ i - 1 <= n /\ i <= n /\ i - 1 \in 0..(n + m) /\ i \in 0..(n + m)
           \/ \E j \in 1..m : i = n + j /\ ~ (i <= n) /\ i - n = j /\ i \in 0..(n + m)
                              /\ i - 1 \in 0..(n + m) /\ (i - 1) - n = j - 1
                              /\ (i - 1 <= n => i - 1 = n /\ j - 1 = 0)
<1>1. CASE i <= n
    BY <1>1
<1>2. CASE ~ (i <= n)
    <2>1. i - n \in 1..m
        BY <1>2
    <2>. QED
        BY <1>2, <2>1
<1>. QED
    BY <1>1, <1>2

LEMMA ChainJoins ==
    ASSUME NEW n \in Nat, NEW m \in Nat, NEW q, NEW r, NEW p,
           \A i \in 1..n : p[i] = q[i], \A i \in 1..m : p[n + i] = r[i],
           NEW s, NEW t, NEW v, NEW f, NEW g, Chain(f, s, q, n, t), Chain(g, t, r, m, v)
    PROVE  \E h : Chain(h, s, p, n + m, v)
<1>. PICK h : h = [i \in 0..(n + m) |-> IF i <= n THEN f[i] ELSE g[i - n]]
    OBVIOUS
<1>1. /\ f[0] = s /\ f[n] = t /\ \A i \in 1..n : f[i] = Taken(f[i - 1], q[i])
      /\ g[0] = t /\ g[m] = v /\ \A i \in 1..m : g[i] = Taken(g[i - 1], r[i])
    BY DEF Chain
<1>2. \A i \in 0..(n + m) : h[i] = IF i <= n THEN f[i] ELSE g[i - n]
    OBVIOUS
<1>3. h[0] = s
    BY <1>1, <1>2
<1>4. h[n + m] = v
    <2>1. n + m \in 0..(n + m) /\ (n + m) - n = m /\ (n + m <= n => n + m = n /\ m = 0)
        OBVIOUS
    <2>. QED
        BY <1>1, <1>2, <2>1
<1>5. ASSUME NEW i \in 1..(n + m)
      PROVE  h[i] = Taken(h[i - 1], p[i])
    <2>1. CASE i \in 1..n /\ i - 1 <= n /\ i <= n /\ i - 1 \in 0..(n + m) /\ i \in 0..(n + m)
        <3>1. h[i] = f[i] /\ h[i - 1] = f[i - 1] /\ p[i] = q[i] /\ f[i] = Taken(f[i - 1], q[i])
            BY <1>1, <1>2, <2>1
        <3>. QED
            BY <3>1
    <2>2. CASE \E j \in 1..m : i = n + j /\ ~ (i <= n) /\ i - n = j /\ i \in 0..(n + m)
                              /\ i - 1 \in 0..(n + m) /\ (i - 1) - n = j - 1
                              /\ (i - 1 <= n => i - 1 = n /\ j - 1 = 0)
        <3>. PICK j \in 1..m : i = n + j /\ ~ (i <= n) /\ i - n = j /\ i \in 0..(n + m)
                              /\ i - 1 \in 0..(n + m) /\ (i - 1) - n = j - 1
                              /\ (i - 1 <= n => i - 1 = n /\ j - 1 = 0)
            BY <2>2
        <3>1. h[i] = g[j] /\ p[i] = r[j] /\ g[j] = Taken(g[j - 1], r[j])
            BY <1>1, <1>2
        <3>2. h[i - 1] = g[j - 1]
            BY <1>1, <1>2
        <3>. QED
            BY <3>1, <3>2
    <2>. QED
        BY <2>1, <2>2, BeforeOrAfter
<1>. QED
    BY Zenon, <1>3, <1>4, <1>5 DEF Chain

LEMMA LeadsOn ==
    ASSUME NEW s, NEW q, NEW t, Leads(s, q, t), NEW r, NEW v, Leads(t, r, v),
           NEW p, Follows(p, q, r)
    PROVE  Leads(s, p, v)
<1>. PICK n, f : Long(q, n) /\ Chain(f, s, q, n, t)
    BY DEF Leads
<1>. PICK m, g : Long(r, m) /\ Chain(g, t, r, m, v)
    BY DEF Leads
<1>1. /\ Long(p, n + m) /\ n \in Nat /\ m \in Nat
      /\ \A i \in 1..n : p[i] = q[i]
      /\ \A i \in 1..m : p[n + i] = r[i]
    BY FollowsLong
<1>2. \E h : Chain(h, s, p, n + m, v)
    BY <1>1, ChainJoins
<1>. QED
    BY <1>1, <1>2 DEF Leads

LEMMA LeadsSomewhere ==
    ASSUME NEW s, NEW q, Sequential(q)
    PROVE  \E t : Leads(s, q, t)
<1>. PICK n \in Nat : Long(q, n)
    BY LongIs
<1>. DEFINE Gets(g, i) == g[0] = s /\ \A j \in 1..i : g[j] = Taken(g[j - 1], q[j])
            T == {i \in 0..n : \E g : Gets(g, i)}
<1>1. 0 \in T
    <2>. PICK g : g = [i \in 0..0 |-> s]
        OBVIOUS
    <2>. QED
        OBVIOUS
<1>2. ASSUME NEW i \in 1..n, i - 1 \in T
      PROVE  i \in T
    <2>. PICK g : Gets(g, i - 1)
        BY <1>2
    <2>. PICK t : t = Taken(g[i - 1], q[i])
        OBVIOUS
    <2>. PICK h : h = [j \in 0..i |-> IF j = i THEN t ELSE g[j]]
        OBVIOUS
    <2>1. h[i] = t /\ \A j \in 0..(i - 1) : h[j] = g[j]
        OBVIOUS
    <2>2. h[0] = s
        BY <2>1
    <2>3. ASSUME NEW j \in 1..i
          PROVE  h[j] = Taken(h[j - 1], q[j])
        <3>1. CASE j = i
            <4>1. h[i - 1] = g[i - 1]
                BY <2>1
            <4>. QED
                BY <2>1, <3>1, <4>1
        <3>2. CASE j # i
            <4>1. j \in 1..(i - 1) /\ j \in 0..(i - 1) /\ j - 1 \in 0..(i - 1)
                BY <3>2
            <4>2. h[j] = g[j] /\ h[j - 1] = g[j - 1] /\ g[j] = Taken(g[j - 1], q[j])
                BY <2>1, <4>1
            <4>. QED
                BY <4>2
        <3>. QED
            BY <3>1, <3>2
    <2>4. Gets(h, i)
        BY <2>2, <2>3
    <2>5. i \in 0..n
        OBVIOUS
    <2>. QED
        BY <2>4, <2>5
<1>. HIDE DEF T
<1>3. \A i \in 0..n : i \in T
    BY <1>1, <1>2, Climbing
<1>4. n \in T
    BY <1>3
<1>5. PICK g : Gets(g, n)
    BY <1>4 DEF T
<1>6. Chain(g, s, q, n, g[n])
    BY <1>5 DEF Chain
<1>. QED
    BY <1>6 DEF Leads

LEMMA TailLong ==
    ASSUME NEW q, NEW n, Long(q, n), q # <<>>
    PROVE  /\ n - 1 \in Nat /\ Long(Tail(q), n - 1) /\ Head(q) = q[1] /\ n \in Nat /\ n >= 1
           /\ \A i \in 1..(n - 1) : Tail(q)[i] = q[i + 1]
<1>. PICK S : q \in Seq(S)
    BY DEF Long, Sequential
<1>1. Len(q) = n /\ n \in Nat
    BY DEF Long
<1>2. n # 0
    BY <1>1, EmptySeq
<1>3. Tail(q) \in Seq(S) /\ Len(Tail(q)) = Len(q) - 1 /\ Head(q) = q[1]
      /\ \A i \in 1..(Len(q) - 1) : Tail(q)[i] = q[i + 1]
    BY HeadTailProperties
<1>4. n - 1 \in Nat /\ n >= 1
    BY <1>1, <1>2
<1>5. Sequential(Tail(q))
    BY <1>3 DEF Sequential
<1>6. Len(Tail(q)) = n - 1 /\ \A i \in 1..(n - 1) : Tail(q)[i] = q[i + 1]
    BY <1>1, <1>3, Zenon
<1>. QED
    BY <1>1, <1>3, <1>4, <1>5, <1>6, Zenon DEF Long

LEMMA LeadsTail ==
    ASSUME NEW s, NEW q, NEW t, Leads(s, q, t), q # <<>>
    PROVE  Leads(Taken(s, Head(q)), Tail(q), t)
<1>. PICK n, g : Long(q, n) /\ Chain(g, s, q, n, t)
    BY DEF Leads
<1>. PICK p : p = Tail(q)
    OBVIOUS
<1>. PICK e : e = Head(q)
    OBVIOUS
<1>1. /\ n - 1 \in Nat /\ Long(p, n - 1) /\ e = q[1] /\ n \in Nat /\ n >= 1
      /\ \A i \in 1..(n - 1) : p[i] = q[i + 1]
    BY TailLong
<1>2. g[0] = s /\ g[n] = t /\ \A i \in 1..n : g[i] = Taken(g[i - 1], q[i])
    BY DEF Chain
<1>. PICK h : h = [i \in 0..(n - 1) |-> g[i + 1]]
    OBVIOUS
<1>3. \A i \in 0..(n - 1) : h[i] = g[i + 1]
    OBVIOUS
<1>4. h[0] = Taken(s, e)
    <2>1. 0 \in 0..(n - 1) /\ 0 + 1 = 1 /\ 1 \in 1..n /\ 1 - 1 = 0
        BY <1>1
    <2>2. h[0] = g[1] /\ g[1] = Taken(g[0], q[1])
        BY <1>2, <1>3, <2>1
    <2>. QED
        BY <1>1, <1>2, <2>2
<1>5. h[n - 1] = t
    <2>1. n - 1 \in 0..(n - 1) /\ (n - 1) + 1 = n
        BY <1>1
    <2>. QED
        BY <1>2, <1>3, <2>1
<1>6. ASSUME NEW i \in 1..(n - 1)
      PROVE  h[i] = Taken(h[i - 1], p[i])
    <2>1. i \in 0..(n - 1) /\ i - 1 \in 0..(n - 1) /\ i + 1 \in 1..n /\ (i + 1) - 1 = i /\ (i - 1) + 1 = i
        BY <1>1
    <2>2. h[i] = g[i + 1] /\ h[i - 1] = g[i] /\ p[i] = q[i + 1] /\ g[i + 1] = Taken(g[i], q[i + 1])
        BY <1>1, <1>2, <1>3, <2>1
    <2>. QED
        BY <2>2
<1>7. Chain(h, Taken(s, e), p, n - 1, t)
    BY <1>4, <1>5, <1>6 DEF Chain
<1>. QED
    BY <1>1, <1>7 DEF Leads

-----------------------------------------------------------------------------
(* What an event does to a summary.                                        *)

IsSummary(s) ==
    s = [failed |-> s.failed, finish |-> s.finish, started |-> s.started, ended |-> s.ended,
         order |-> s.order, buffers |-> s.buffers, calls |-> s.calls, text |-> s.text,
         reasoning |-> s.reasoning, errors |-> s.errors]

Prose(s, kind) == IF kind = "text" THEN s.text ELSE s.reasoning

\* The buffer of k becomes data.
BufferSet(new, old, k, data) ==
    /\ DOMAIN new = DOMAIN old \cup {k} /\ new[k] = data
    /\ \A j \in DOMAIN old : j # k => new[j] = old[j]

LEMMA SetBufferIs ==
    ASSUME NEW old, NEW k, NEW data
    PROVE  BufferSet(SetBuffer(old, k, data), old, k, data)
BY DEF SetBuffer, BufferSet

TookStart(t, s, k) ==
    /\ IsSummary(t)
    /\ t.started = s.started \cup {k} /\ Adds(t.order, s.order, k)
    /\ BufferSet(t.buffers, s.buffers, k, <<>>)
    /\ t.calls = s.calls /\ t.text = s.text /\ t.reasoning = s.reasoning
    /\ t.failed = s.failed /\ t.finish = s.finish /\ t.ended = s.ended

LEMMA TakesStart ==
    ASSUME NEW s, IsSummary(s), NEW e, e.type = "start"
    PROVE  TookStart(Taken(s, e), s, Key(e))
<1>. PICK b : b = SetBuffer(s.buffers, Key(e), <<>>) /\ BufferSet(b, s.buffers, Key(e), <<>>)
    BY SetBufferIs
<1>. PICK o : o = Append(s.order, Key(e)) /\ Adds(o, s.order, Key(e))
    BY DEF Adds
<1>. PICK k : k = Key(e)
    OBVIOUS
<1>1. Taken(s, e) = [s EXCEPT !.started = @ \cup {k}, !.order = o, !.buffers = b]
    BY DEF Taken
<1>. QED
    BY <1>1 DEF IsSummary, TookStart

TookDelta(t, s, e) ==
    /\ IsSummary(t)
    /\ t.started = s.started /\ t.order = s.order /\ t.calls = s.calls
    /\ \E b : BufferSet(t.buffers, s.buffers, Key(e), b) /\ Follows(b, s.buffers[Key(e)], e.data)
    /\ \A kind \in Texts : IF e.kind = kind THEN Follows(Prose(t, kind), Prose(s, kind), e.data)
                                            ELSE Prose(t, kind) = Prose(s, kind)
    /\ t.failed = s.failed /\ t.finish = s.finish /\ t.ended = s.ended

LEMMA TakesDelta ==
    ASSUME NEW s, IsSummary(s), NEW e, e.type = "delta"
    PROVE  TookDelta(Taken(s, e), s, e)
<1>. PICK k : k = Key(e)
    OBVIOUS
<1>. PICK c : c = s.buffers[k] \o e.data /\ Follows(c, s.buffers[k], e.data)
    BY DEF Follows
<1>. PICK b : b = SetBuffer(s.buffers, k, c) /\ BufferSet(b, s.buffers, k, c)
    BY SetBufferIs
<1>. PICK x : x = (IF e.kind = "text" THEN s.text \o e.data ELSE s.text)
              /\ IF e.kind = "text" THEN Follows(x, s.text, e.data) ELSE x = s.text
    BY DEF Follows
<1>. PICK y : y = (IF e.kind = "reasoning" THEN s.reasoning \o e.data ELSE s.reasoning)
              /\ IF e.kind = "reasoning" THEN Follows(y, s.reasoning, e.data) ELSE y = s.reasoning
    BY DEF Follows
<1>. PICK t : t = Taken(s, e)
    OBVIOUS
<1>1. t = [s EXCEPT !.buffers = b, !.text = x, !.reasoning = y]
    BY DEF Taken
<1>2. /\ IsSummary(t) /\ t.text = x /\ t.reasoning = y /\ t.buffers = b
      /\ t.started = s.started /\ t.order = s.order /\ t.calls = s.calls
      /\ t.failed = s.failed /\ t.finish = s.finish /\ t.ended = s.ended
    BY <1>1 DEF IsSummary
<1>3. \A kind \in Texts : IF e.kind = kind THEN Follows(Prose(t, kind), Prose(s, kind), e.data)
                                           ELSE Prose(t, kind) = Prose(s, kind)
    BY <1>2 DEF Prose, Texts
<1>. QED
    BY <1>2, <1>3 DEF TookDelta

CalmTypes == {"end", "call", "provider-error", "finish"}

TookCalm(t, s, e) ==
    /\ IsSummary(t)
    /\ t.started = s.started /\ t.order = s.order /\ t.buffers = s.buffers
    /\ t.text = s.text /\ t.reasoning = s.reasoning /\ t.failed = s.failed
    /\ t.calls = (IF e.type = "call" THEN SetCall(s.calls, e) ELSE s.calls)
    /\ t.ended = (IF e.type = "end" /\ e.kind = "tool" THEN s.ended \cup {e.id} ELSE s.ended)
    /\ t.finish = (IF e.type = "finish" THEN e.kind ELSE s.finish)

LEMMA TakesCalm ==
    ASSUME NEW s, IsSummary(s), NEW e, e.type \in CalmTypes
    PROVE  TookCalm(Taken(s, e), s, e)
<1>. PICK c : c = SetCall(s.calls, e)
    OBVIOUS
<1>. PICK n : n = s.errors + 1
    OBVIOUS
<1>1. Taken(s, e) = CASE e.type = "end" -> [s EXCEPT !.ended = IF e.kind = "tool" THEN s.ended \cup {e.id} ELSE s.ended]
                      [] e.type = "call" -> [s EXCEPT !.calls = c]
                      [] e.type = "provider-error" -> [s EXCEPT !.errors = n]
                      [] e.type = "finish" -> [s EXCEPT !.finish = e.kind]
    BY DEF Taken, CalmTypes
<1>2. CASE e.type = "end"
    BY <1>1, <1>2 DEF IsSummary, TookCalm
<1>3. CASE e.type = "call"
    BY <1>1, <1>3 DEF IsSummary, TookCalm
<1>4. CASE e.type = "provider-error"
    BY <1>1, <1>4 DEF IsSummary, TookCalm
<1>5. CASE e.type = "finish"
    BY <1>1, <1>5 DEF IsSummary, TookCalm
<1>. QED
    BY <1>2, <1>3, <1>4, <1>5 DEF CalmTypes

EventTypes == {"start", "delta"} \cup CalmTypes

LEMMA TakesAny ==
    ASSUME NEW s, IsSummary(s), NEW e, e.type \in EventTypes
    PROVE  /\ IsSummary(Taken(s, e))
           /\ Taken(s, e).started = s.started \cup (IF e.type = "start" THEN {Key(e)} ELSE {})
<1>1. CASE e.type = "start"
    BY <1>1, TakesStart DEF TookStart
<1>2. CASE e.type = "delta"
    <2>1. TookDelta(Taken(s, e), s, e)
        BY <1>2, TakesDelta
    <2>. QED
        BY <1>2, <2>1 DEF TookDelta
<1>3. CASE e.type \in CalmTypes
    <2>1. TookCalm(Taken(s, e), s, e) /\ e.type # "start"
        BY <1>3, TakesCalm DEF CalmTypes
    <2>. QED
        BY <2>1 DEF TookCalm
<1>. QED
    BY <1>1, <1>2, <1>3 DEF EventTypes

\* A summary knows what the log with the events has begun.
LEMMA LeadsBegins ==
    ASSUME NEW L, Sequential(L), NEW s, IsSummary(s), s.started = Begun(L),
           NEW q, NEW t, Leads(s, q, t), Lawful(L \o q)
    PROVE  IsSummary(t) /\ t.started = Begun(L \o q)
<1>. PICK n, g : Long(q, n) /\ Chain(g, s, q, n, t)
    BY DEF Leads
<1>1. n \in Nat /\ Sequential(q) /\ Len(q) = n
    BY DEF Long
<1>2. g[0] = s /\ g[n] = t /\ \A i \in 1..n : g[i] = Taken(g[i - 1], q[i])
    BY DEF Chain
<1>3. ASSUME NEW i \in 1..n
      PROVE  q[i].type \in EventTypes
    <2>1. Joins(L \o q, L, q)
        BY <1>1, Joining
    <2>. PICK l \in Nat : Long(L, l)
        BY LongIs
    <2>2. (L \o q)[l + i] = q[i] /\ Len(L \o q) = l + n /\ l + i \in 1..(l + n)
        <3>1. Len(L) = l
            BY DEF Long
        <3>2. (L \o q)[l + i] = q[i] /\ Len(L \o q) = l + n
            BY <1>1, <2>1, <3>1, Zenon DEF Joins
        <3>3. l + i \in 1..(l + n)
            BY <1>1
        <3>. QED
            BY <3>2, <3>3
    <2>3. May(SubSeq(L \o q, 1, (l + i) - 1), q[i])
        BY <2>2, Zenon DEF Lawful
    <2>. QED
        BY <2>3 DEF May, EventTypes, CalmTypes
<1>. DEFINE Upto(i) == SubSeq(q, 1, i)
            T == {i \in 0..n : IsSummary(g[i]) /\ Sequential(Upto(i)) /\ g[i].started = Begun(L \o Upto(i))}
<1>4. 0 \in T
    <2>1. Upto(0) = <<>>
        BY <1>1 DEF Sequential
    <2>2. L \o <<>> = L /\ Sequential(<<>>)
        BY Nothing
    <2>3. 0 \in 0..n
        BY <1>1
    <2>4. Sequential(Upto(0)) /\ L \o Upto(0) = L
        BY <2>1, <2>2, Zenon
    <2>5. IsSummary(g[0]) /\ g[0].started = Begun(L \o Upto(0))
        BY <1>2, <2>4, Zenon
    <2>. HIDE DEF Upto
    <2>. QED
        BY <2>3, <2>4, <2>5
<1>5. ASSUME NEW i \in 1..n, i - 1 \in T
      PROVE  i \in T
    <2>. PICK p : p = Upto(i - 1)
        OBVIOUS
    <2>. PICK e : e = q[i]
        OBVIOUS
    <2>. PICK a : a = g[i - 1]
        OBVIOUS
    <2>. PICK z : z = g[i]
        OBVIOUS
    <2>1. IsSummary(a) /\ Sequential(p) /\ a.started = Begun(L \o p)
        BY <1>5
    <2>2. Upto(i) = p \o <<e>>
        BY <1>1, Growing
    <2>3. OneStep(L, p, e)
        BY <2>1, OneStepOn
    <2>4. Sequential(L \o p)
        BY <2>1, Joining DEF Joins
    <2>. PICK M : M = L \o p
        OBVIOUS
    <2>. PICK N : N = Append(M, e)
        OBVIOUS
    <2>5. Grew(N, M, e)
        BY <2>4, LogGrows
    <2>6. z = Taken(a, e) /\ e.type \in EventTypes
        BY <1>2, <1>3
    <2>7. IsSummary(z) /\ z.started = a.started \cup (IF e.type = "start" THEN {Key(e)} ELSE {})
        BY <2>1, <2>6, TakesAny
    <2>8. z.started = Begun(N)
        BY <2>1, <2>5, <2>7 DEF Grew
    <2>9. Sequential(Upto(i)) /\ L \o Upto(i) = N
        BY <2>2, <2>3 DEF OneStep
    <2>10. i \in 0..n
        BY <1>1
    <2>. QED
        BY <2>7, <2>8, <2>9, <2>10
<1>. HIDE DEF T
<1>6. \A i \in 0..n : i \in T
    BY <1>1, <1>4, <1>5, Climbing
<1>7. n \in T
    BY <1>1, <1>6
<1>8. Upto(n) = q
    <2>1. SubSeq(q, 1, Len(q)) = q
        BY <1>1, Beginnings
    <2>. QED
        BY <1>1, <2>1, Zenon
<1>. QED
    BY <1>2, <1>7, <1>8 DEF T

-----------------------------------------------------------------------------
(* A summary that agrees with what the provider has said.                  *)

LEMMA StartIs ==
    ASSUME NEW kind, NEW id
    PROVE  Start(kind, id).type = "start" /\ Key(Start(kind, id)) = <<kind, id>>
BY DEF Start, Event, Key

LEMMA DeltaIs ==
    ASSUME NEW kind, NEW id, NEW piece
    PROVE  LET e == Delta(kind, id, piece)
           IN  e.type = "delta" /\ Key(e) = <<kind, id>> /\ e.kind = kind /\ e.data = <<piece>>
BY DEF Delta, Event, Key

LEMMA EndIs ==
    ASSUME NEW kind, NEW id
    PROVE  End(kind, id).type = "end" /\ End(kind, id).kind = kind /\ End(kind, id).id = id
BY DEF End, Event

LEMMA CallIs ==
    ASSUME NEW id, NEW args
    PROVE  Call(id, args).type = "call" /\ Call(id, args).id = id /\ Call(id, args).data = args
BY DEF Call, Event

LEMMA FinishIs ==
    ASSUME NEW reason
    PROVE  /\ Finish(reason).type = "finish" /\ Finish(reason).kind = reason
           /\ ProviderError.type = "provider-error"
BY DEF Finish, ProviderError, Event

LEMMA AddsMembers ==
    ASSUME NEW s, Sequential(s), NEW t, NEW x, Adds(t, s, x)
    PROVE  /\ Sequential(t) /\ DOMAIN s \subseteq DOMAIN t
           /\ \A i \in DOMAIN s : t[i] = s[i]
           /\ \E l : l \notin DOMAIN s /\ DOMAIN t = DOMAIN s \cup {l} /\ t[l] = x
<1>. PICK n \in Nat : Long(s, n) /\ DOMAIN s = 1..n
    BY LongIs
<1>1. Long(t, n + 1) /\ t[n + 1] = x /\ \A i \in 1..n : t[i] = s[i]
    BY LongAppend
<1>2. DOMAIN t = 1..(n + 1) /\ Sequential(t)
    BY <1>1, LongNext
<1>3. n + 1 \notin 1..n /\ 1..(n + 1) = (1..n) \cup {n + 1}
    OBVIOUS
<1>. QED
    BY <1>1, <1>2, <1>3

ProseIs(s, u)  == \A kind \in Texts : Prose(s, kind) = Heard(u, kind)
MadeIs(s, its) == \A i : <<"tool", i>> \in s.started <=> i \in DOMAIN its /\ its[i] = "tool"
CallsAre(s, u) ==
    /\ Sequential(s.calls)
    /\ \A n \in DOMAIN s.calls :
          /\ s.calls[n] = [id |-> s.calls[n].id, args |-> HeardOf(u, s.calls[n].id)]
          /\ <<"tool", s.calls[n].id>> \in s.started
    /\ \A m, n \in DOMAIN s.calls : s.calls[m].id = s.calls[n].id => m = n
Listed(s) ==
    /\ Sequential(s.order)
    /\ \A n \in DOMAIN s.order : s.order[n] \in s.started
    /\ \A k \in s.started : \E n \in DOMAIN s.order : s.order[n] = k
    /\ DOMAIN s.buffers = s.started
    /\ \A k \in s.started : Sequential(s.buffers[k])

Agrees(s, u, its) ==
    /\ IsSummary(s) /\ Sequential(u)
    /\ ProseIs(s, u) /\ MadeIs(s, its) /\ CallsAre(s, u) /\ Listed(s)

\* One item more.
Grown(more, its, i, kind) ==
    /\ i \notin DOMAIN its /\ DOMAIN more = DOMAIN its \cup {i} /\ more[i] = kind
    /\ \A j \in DOMAIN its : more[j] = its[j]

LEMMA ListedMore ==
    ASSUME NEW s, Listed(s), NEW t, NEW k, TookStart(t, s, k), k \notin s.started
    PROVE  Listed(t)
<1>1. Sequential(s.order) /\ Adds(t.order, s.order, k)
    BY DEF Listed, TookStart
<1>2. /\ Sequential(t.order) /\ DOMAIN s.order \subseteq DOMAIN t.order
      /\ \A i \in DOMAIN s.order : t.order[i] = s.order[i]
      /\ \E l : l \notin DOMAIN s.order /\ DOMAIN t.order = DOMAIN s.order \cup {l} /\ t.order[l] = k
    BY <1>1, AddsMembers
<1>3. BufferSet(t.buffers, s.buffers, k, <<>>) /\ t.started = s.started \cup {k}
    BY DEF TookStart
<1>4. Sequential(<<>>)
    BY Nothing
<1>5. /\ DOMAIN t.buffers = t.started
      /\ \A j \in t.started : Sequential(t.buffers[j])
    BY <1>3, <1>4 DEF Listed, BufferSet
<1>6. /\ \A n \in DOMAIN t.order : t.order[n] \in t.started
      /\ \A j \in t.started : \E n \in DOMAIN t.order : t.order[n] = j
    BY <1>2, <1>3 DEF Listed
<1>. QED
    BY <1>2, <1>5, <1>6 DEF Listed

LEMMA AgreesBegins ==
    ASSUME NEW s, NEW u, NEW its, Agrees(s, u, its), NEW kind \in Texts, NEW id,
           <<kind, id>> \notin s.started
    PROVE  /\ Agrees(Taken(s, Start(kind, id)), u, its)
           /\ TookStart(Taken(s, Start(kind, id)), s, <<kind, id>>)
<1>. PICK k : k = <<kind, id>>
    OBVIOUS
<1>. PICK e : e = Start(kind, id) /\ e.type = "start" /\ Key(e) = k
    BY StartIs
<1>. PICK t : t = Taken(s, e)
    OBVIOUS
<1>0. IsSummary(s) /\ Sequential(u) /\ ProseIs(s, u) /\ MadeIs(s, its) /\ CallsAre(s, u) /\ Listed(s)
    BY DEF Agrees
<1>1. TookStart(t, s, k)
    BY <1>0, TakesStart
<1>2. Listed(t)
    BY <1>0, <1>1, ListedMore
<1>3. ProseIs(t, u)
    BY <1>0, <1>1 DEF TookStart, ProseIs, Prose
<1>4. MadeIs(t, its)
    <2>1. \A i : <<"tool", i>> # k
        BY DEF Texts
    <2>. QED
        BY Zenon, <1>0, <1>1, <2>1 DEF TookStart, MadeIs
<1>5. CallsAre(t, u)
    BY <1>0, <1>1 DEF TookStart, CallsAre
<1>. QED
    BY <1>0, <1>1, <1>2, <1>3, <1>4, <1>5 DEF Agrees, TookStart

LEMMA AgreesBeginsCall ==
    ASSUME NEW s, NEW u, NEW its, Agrees(s, u, its), NEW i, NEW more, Grown(more, its, i, "tool")
    PROVE  /\ Agrees(Taken(s, Start("tool", i)), u, more)
           /\ TookStart(Taken(s, Start("tool", i)), s, <<"tool", i>>)
           /\ <<"tool", i>> \notin s.started
<1>. PICK k : k = <<"tool", i>>
    OBVIOUS
<1>. PICK e : e = Start("tool", i) /\ e.type = "start" /\ Key(e) = k
    BY StartIs
<1>. PICK t : t = Taken(s, e)
    OBVIOUS
<1>0. IsSummary(s) /\ Sequential(u) /\ ProseIs(s, u) /\ MadeIs(s, its) /\ CallsAre(s, u) /\ Listed(s)
    BY DEF Agrees
<1>1. TookStart(t, s, k)
    BY <1>0, TakesStart
<1>6. k \notin s.started
    BY <1>0 DEF MadeIs, Grown
<1>2. Listed(t)
    BY <1>0, <1>1, <1>6, ListedMore
<1>3. ProseIs(t, u)
    BY <1>0, <1>1 DEF TookStart, ProseIs, Prose
<1>4. MadeIs(t, more)
    <2>1. \A j : <<"tool", j>> = k <=> j = i
        OBVIOUS
    <2>2. t.started = s.started \cup {k}
        BY <1>1 DEF TookStart
    <2>3. \A j : <<"tool", j>> \in t.started <=> <<"tool", j>> \in s.started \/ j = i
        BY <2>1, <2>2
    <2>. QED
        BY Zenon, <1>0, <2>3 DEF MadeIs, Grown
<1>5. CallsAre(t, u)
    BY <1>0, <1>1 DEF TookStart, CallsAre
<1>. QED
    BY <1>0, <1>1, <1>2, <1>3, <1>4, <1>5, <1>6 DEF Agrees, TookStart

LEMMA AgreesItem ==
    ASSUME NEW s, NEW u, NEW its, Agrees(s, u, its), NEW i, NEW kind, kind # "tool",
           NEW more, Grown(more, its, i, kind)
    PROVE  Agrees(s, u, more)
BY DEF Agrees, MadeIs, Grown

LEMMA FollowsAdds ==
    ASSUME NEW s, Sequential(s), NEW t, NEW x, NEW e, e.data = <<x>>, Follows(t, s, e.data)
    PROVE  Adds(t, s, x) /\ Sequential(t)
BY FollowsOne

LEMMA AddsSame ==
    ASSUME NEW s, NEW t, NEW u, NEW x, Adds(t, s, x), Adds(u, s, x)
    PROVE  t = u
BY DEF Adds

\* A piece is said, and passed on.
LEMMA AgreesSays ==
    ASSUME NEW s, NEW u, NEW its, Agrees(s, u, its), NEW kind \in Kinds, NEW id, NEW item, NEW piece,
           <<kind, id>> \in s.started, \A n \in DOMAIN s.calls : s.calls[n].id # item,
           NEW w, w.kind = kind, w.item = item, w.data = piece, NEW v, Adds(v, u, w)
    PROVE  LET t == Taken(s, Delta(kind, id, piece))
           IN  /\ Agrees(t, v, its)
               /\ t.started = s.started /\ t.order = s.order /\ t.calls = s.calls
               /\ DOMAIN t.buffers = DOMAIN s.buffers
               /\ \A k \in DOMAIN s.buffers : k # <<kind, id>> => t.buffers[k] = s.buffers[k]
               /\ Adds(t.buffers[<<kind, id>>], s.buffers[<<kind, id>>], piece)
               /\ \A j \in Texts : Extends(Prose(t, j), Prose(s, j), j = kind, piece)
<1>. PICK k : k = <<kind, id>>
    OBVIOUS
<1>. PICK e : /\ e = Delta(kind, id, piece) /\ e.type = "delta" /\ Key(e) = k
              /\ e.kind = kind /\ e.data = <<piece>>
    BY DeltaIs
<1>. PICK t : t = Taken(s, e)
    OBVIOUS
<1>0. IsSummary(s) /\ Sequential(u) /\ ProseIs(s, u) /\ MadeIs(s, its) /\ CallsAre(s, u) /\ Listed(s)
    BY DEF Agrees
<1>1. TookDelta(t, s, e)
    BY <1>0, TakesDelta
<1>2. /\ IsSummary(t) /\ t.started = s.started /\ t.order = s.order /\ t.calls = s.calls
    BY <1>1 DEF TookDelta
<1>3. PICK b : BufferSet(t.buffers, s.buffers, k, b) /\ Follows(b, s.buffers[k], e.data)
    BY <1>1 DEF TookDelta
<1>4. Adds(b, s.buffers[k], piece) /\ Sequential(b)
    BY <1>0, <1>3, FollowsAdds DEF Listed
<1>5. /\ DOMAIN t.buffers = DOMAIN s.buffers /\ t.buffers[k] = b
      /\ \A j \in DOMAIN s.buffers : j # k => t.buffers[j] = s.buffers[j]
    BY <1>0, <1>3 DEF BufferSet, Listed
<1>6. Listed(t)
    BY <1>0, <1>2, <1>4, <1>5 DEF Listed
<1>7. /\ Sequential(v)
      /\ \A j \in Texts : Sequential(Heard(u, j)) /\ Extends(Heard(v, j), Heard(u, j), kind = j, piece)
      /\ \A i : Extends(HeardOf(v, i), HeardOf(u, i), item = i, piece)
    BY <1>0, HeardGrows
<1>8. \A j \in Texts : Extends(Prose(t, j), Prose(s, j), kind = j, piece)
    <2>. TAKE j \in Texts
    <2>1. Sequential(Prose(s, j))
        BY <1>0, <1>7 DEF ProseIs
    <2>2. IF kind = j THEN Follows(Prose(t, j), Prose(s, j), e.data) ELSE Prose(t, j) = Prose(s, j)
        BY <1>1 DEF TookDelta
    <2>3. CASE kind = j
        <3>1. Adds(Prose(t, j), Prose(s, j), piece)
            BY <2>1, <2>2, <2>3, FollowsAdds
        <3>. QED
            BY <2>3, <3>1 DEF Extends
    <2>4. CASE kind # j
        BY <2>2, <2>4 DEF Extends
    <2>. QED
        BY <2>3, <2>4
<1>9. ProseIs(t, v)
    <2>. SUFFICES ASSUME NEW j \in Texts
                  PROVE  Prose(t, j) = Heard(v, j)
        BY DEF ProseIs
    <2>1. /\ Extends(Prose(t, j), Prose(s, j), kind = j, piece) /\ Prose(s, j) = Heard(u, j)
          /\ Extends(Heard(v, j), Heard(u, j), kind = j, piece)
        BY <1>0, <1>7, <1>8 DEF ProseIs
    <2>2. CASE kind = j
        <3>1. Adds(Prose(t, j), Prose(s, j), piece) /\ Adds(Heard(v, j), Prose(s, j), piece)
            BY <2>1, <2>2 DEF Extends
        <3>. QED
            BY <3>1, AddsSame
    <2>3. CASE kind # j
        BY <2>1, <2>3 DEF Extends
    <2>. QED
        BY <2>2, <2>3
<1>10. CallsAre(t, v)
    <2>1. \A n \in DOMAIN s.calls : HeardOf(v, s.calls[n].id) = HeardOf(u, s.calls[n].id)
        BY <1>7 DEF Extends
    <2>. QED
        BY <1>0, <1>2, <2>1 DEF CallsAre
<1>11. MadeIs(t, its)
    BY Zenon, <1>0, <1>2 DEF MadeIs
<1>12. \A j \in Texts : Extends(Prose(t, j), Prose(s, j), j = kind, piece)
    BY <1>8 DEF Extends
<1>. QED
    BY <1>2, <1>4, <1>5, <1>6, <1>7, <1>9, <1>10, <1>11, <1>12 DEF Agrees

-----------------------------------------------------------------------------
(* Events that end what was begun.                                         *)

CallIds(s) == {s.calls[n].id : n \in DOMAIN s.calls}

CalmEvent(e, s, u, K) ==
    \/ e.type \in {"end", "finish", "provider-error"}
    \/ /\ e.type = "call" /\ e.id \in K
       /\ e.data = HeardOf(u, e.id) /\ <<"tool", e.id>> \in s.started

\* The calls that are told are among K.
Calm(q, s, u, K) == Sequential(q) /\ \A n \in DOMAIN q : CalmEvent(q[n], s, u, K)

\* Nothing was begun or said in between.
Still(t, s) ==
    /\ t.started = s.started /\ t.order = s.order /\ t.buffers = s.buffers
    /\ t.text = s.text /\ t.reasoning = s.reasoning

LEMMA CallSet ==
    ASSUME NEW s, NEW u, CallsAre(s, u), NEW e, e.data = HeardOf(u, e.id),
           <<"tool", e.id>> \in s.started,
           NEW t, t.calls = SetCall(s.calls, e), t.started = s.started
    PROVE  CallsAre(t, u) /\ CallIds(t) = CallIds(s) \cup {e.id}
<1>0. /\ Sequential(s.calls)
      /\ \A n \in DOMAIN s.calls :
            /\ s.calls[n] = [id |-> s.calls[n].id, args |-> HeardOf(u, s.calls[n].id)]
            /\ <<"tool", s.calls[n].id>> \in s.started
      /\ \A m, n \in DOMAIN s.calls : s.calls[m].id = s.calls[n].id => m = n
    BY DEF CallsAre
<1>. PICK x : x = [id |-> e.id, args |-> e.data]
    OBVIOUS
<1>. PICK a : a = s.calls
    OBVIOUS
<1>. PICK b : b = t.calls
    OBVIOUS
<1>1. CASE IsOpen(a, e.id)
    <2>1. b = [n \in DOMAIN a |-> IF a[n].id = e.id THEN x ELSE a[n]]
        BY <1>1 DEF SetCall
    <2>2. \A n \in DOMAIN a : b[n] = a[n]
        BY <1>0, <2>1
    <2>. PICK l \in Nat : Long(a, l) /\ DOMAIN a = 1..l
        BY <1>0, LongIs
    <2>3. Lists(b, l)
        BY <2>1 DEF Lists
    <2>4. b = a
        BY <2>2, <2>3, ListsIs, SameSequence
    <2>5. \E n \in DOMAIN a : a[n].id = e.id
        BY <1>1 DEF IsOpen
    <2>. QED
        BY <1>0, <2>4, <2>5 DEF CallsAre, CallIds
<1>2. CASE ~ IsOpen(a, e.id)
    <2>1. Adds(b, a, x)
        BY <1>2 DEF SetCall, Adds
    <2>0. Sequential(a)
        BY <1>0
    <2>2. /\ Sequential(b) /\ DOMAIN a \subseteq DOMAIN b
          /\ \A i \in DOMAIN a : b[i] = a[i]
          /\ \E l : l \notin DOMAIN a /\ DOMAIN b = DOMAIN a \cup {l} /\ b[l] = x
        BY <2>0, <2>1, AddsMembers
    <2>. PICK l : l \notin DOMAIN a /\ DOMAIN b = DOMAIN a \cup {l} /\ b[l] = x
        BY <2>2
    <2>3. \A n \in DOMAIN a : a[n].id # e.id
        BY <1>2 DEF IsOpen
    <2>4. CallIds(t) = CallIds(s) \cup {e.id}
        BY <2>2 DEF CallIds
    <2>5. \A m, n \in DOMAIN b : b[m].id = b[n].id => m = n
        BY <1>0, <2>2, <2>3
    <2>6. \A n \in DOMAIN b :
            /\ b[n] = [id |-> b[n].id, args |-> HeardOf(u, b[n].id)]
            /\ <<"tool", b[n].id>> \in t.started
        BY <1>0, <2>2
    <2>. QED
        BY <2>2, <2>4, <2>5, <2>6 DEF CallsAre
<1>. QED
    BY <1>1, <1>2

LEMMA CalmStep ==
    ASSUME NEW s, NEW u, NEW its, Agrees(s, u, its), NEW K, NEW e, CalmEvent(e, s, u, K)
    PROVE  /\ Agrees(Taken(s, e), u, its) /\ Still(Taken(s, e), s)
           /\ CallIds(Taken(s, e)) \subseteq CallIds(s) \cup K
<1>. PICK t : t = Taken(s, e)
    OBVIOUS
<1>0. IsSummary(s) /\ Sequential(u) /\ ProseIs(s, u) /\ MadeIs(s, its) /\ CallsAre(s, u) /\ Listed(s)
    BY DEF Agrees
<1>1. e.type \in CalmTypes
    BY DEF CalmEvent, CalmTypes
<1>2. TookCalm(t, s, e)
    BY <1>0, <1>1, TakesCalm
<1>3. IsSummary(t) /\ Still(t, s)
    BY <1>2 DEF TookCalm, Still
<1>4. ProseIs(t, u) /\ MadeIs(t, its) /\ Listed(t)
    BY <1>0, <1>3 DEF Still, ProseIs, Prose, MadeIs, Listed
<1>5. CallsAre(t, u) /\ CallIds(t) \subseteq CallIds(s) \cup K
    <2>1. CASE e.type = "call"
        <3>1. e.id \in K /\ e.data = HeardOf(u, e.id) /\ <<"tool", e.id>> \in s.started
            BY <2>1 DEF CalmEvent
        <3>2. t.calls = SetCall(s.calls, e) /\ t.started = s.started
            BY <1>2, <2>1 DEF TookCalm
        <3>. QED
            BY <1>0, <3>1, <3>2, CallSet
    <2>2. CASE e.type # "call"
        <3>1. t.calls = s.calls /\ t.started = s.started
            BY <1>2, <2>2 DEF TookCalm
        <3>. QED
            BY <1>0, <3>1 DEF CallsAre, CallIds
    <2>. QED
        BY <2>1, <2>2
<1>. QED
    BY <1>0, <1>3, <1>4, <1>5 DEF Agrees

LEMMA CalmLeads ==
    ASSUME NEW s, NEW u, NEW its, Agrees(s, u, its), NEW K, NEW q, Calm(q, s, u, K),
           NEW t, Leads(s, q, t)
    PROVE  Agrees(t, u, its) /\ Still(t, s) /\ CallIds(t) \subseteq CallIds(s) \cup K
<1>. PICK n, g : Long(q, n) /\ Chain(g, s, q, n, t)
    BY DEF Leads
<1>1. n \in Nat /\ DOMAIN q = 1..n
    BY LongNext
<1>2. g[0] = s /\ g[n] = t /\ \A i \in 1..n : g[i] = Taken(g[i - 1], q[i])
    BY DEF Chain
<1>. DEFINE Good(a) == Agrees(a, u, its) /\ Still(a, s) /\ CallIds(a) \subseteq CallIds(s) \cup K
            T == {i \in 0..n : Good(g[i])}
<1>3. 0 \in T
    <2>1. Good(s)
        BY DEF Still
    <2>2. 0 \in 0..n
        BY <1>1
    <2>. HIDE DEF Good
    <2>. QED
        BY <1>2, <2>1, <2>2
<1>4. ASSUME NEW i \in 1..n, i - 1 \in T
      PROVE  i \in T
    <2>. PICK a : a = g[i - 1]
        OBVIOUS
    <2>. PICK b : b = g[i]
        OBVIOUS
    <2>. PICK e : e = q[i]
        OBVIOUS
    <2>1. Agrees(a, u, its) /\ Still(a, s) /\ CallIds(a) \subseteq CallIds(s) \cup K
        BY <1>4
    <2>2. CalmEvent(e, s, u, K)
        BY <1>1 DEF Calm
    <2>3. CalmEvent(e, a, u, K)
        BY <2>1, <2>2 DEF CalmEvent, Still
    <2>4. b = Taken(a, e)
        BY <1>2
    <2>5. Agrees(b, u, its) /\ Still(b, a) /\ CallIds(b) \subseteq CallIds(a) \cup K
        BY <2>1, <2>3, <2>4, CalmStep
    <2>6. Still(b, s)
        BY <2>1, <2>5 DEF Still
    <2>7. i \in 0..n /\ CallIds(b) \subseteq CallIds(s) \cup K
        BY <1>1, <2>1, <2>5
    <2>. QED
        BY <2>5, <2>6, <2>7
<1>. HIDE DEF T
<1>5. \A i \in 0..n : i \in T
    BY <1>1, <1>3, <1>4, Climbing
<1>6. n \in T
    BY <1>1, <1>5
<1>. QED
    BY <1>2, <1>6 DEF T

LEMMA CalmNone ==
    ASSUME NEW s, NEW u, NEW K
    PROVE  Calm(<<>>, s, u, K)
<1>1. Sequential(<<>>) /\ DOMAIN <<>> = 1..0
    BY NothingLong, LongNext
<1>2. 1..0 = {}
    OBVIOUS
<1>. QED
    BY <1>1, <1>2 DEF Calm

LEMMA CalmOne ==
    ASSUME NEW s, NEW u, NEW K, NEW e, CalmEvent(e, s, u, K)
    PROVE  Calm(<<e>>, s, u, K)
<1>. PICK q : q = <<e>> /\ Long(q, 1) /\ q[1] = e
    BY OneLong
<1>1. Sequential(q) /\ DOMAIN q = 1..1
    BY LongNext
<1>2. \A i \in 1..1 : i = 1
    OBVIOUS
<1>. QED
    BY <1>1, <1>2 DEF Calm

LEMMA CalmJoin ==
    ASSUME NEW s, NEW u, NEW K, NEW q, Calm(q, s, u, K), NEW r, Calm(r, s, u, K),
           NEW p, Follows(p, q, r)
    PROVE  Calm(p, s, u, K)
<1>0. Sequential(q) /\ Sequential(r)
    BY DEF Calm
<1>. PICK n : Long(q, n) /\ DOMAIN q = 1..n
    BY <1>0, LongIs
<1>. PICK m : Long(r, m) /\ DOMAIN r = 1..m
    BY <1>0, LongIs
<1>1. /\ Long(p, n + m) /\ n \in Nat /\ m \in Nat
      /\ \A i \in 1..n : p[i] = q[i]
      /\ \A i \in 1..m : p[n + i] = r[i]
    BY FollowsLong
<1>2. Sequential(p) /\ DOMAIN p = 1..(n + m)
    BY <1>1, LongNext
<1>3. ASSUME NEW i \in 1..(n + m)
      PROVE  CalmEvent(p[i], s, u, K)
    <2>1. i \in 1..n \/ \E j \in 1..m : i = n + j
        BY <1>1, BeforeOrAfter
    <2>2. CASE i \in 1..n
        BY <1>1, <2>2 DEF Calm
    <2>3. CASE \E j \in 1..m : i = n + j
        BY <1>1, <2>3 DEF Calm
    <2>. QED
        BY <2>1, <2>2, <2>3
<1>. QED
    BY <1>2, <1>3 DEF Calm

LEMMA CalmEnds ==
    ASSUME NEW s, NEW u, NEW K, NEW gone, Sequential(gone)
    PROVE  Calm(EndsOf(gone), s, u, K)
<1>. PICK n \in Nat : Long(gone, n) /\ DOMAIN gone = 1..n
    BY LongIs
<1>. PICK q : q = EndsOf(gone)
    OBVIOUS
<1>1. Lists(q, n) /\ \A i \in 1..n : q[i] = End(gone[i].kind, gone[i].id)
    BY DEF EndsOf, Lists
<1>2. Sequential(q) /\ DOMAIN q = 1..n
    BY <1>1, ListsIs, LongNext
<1>3. \A i \in 1..n : q[i].type = "end"
    BY <1>1, EndIs
<1>. QED
    BY <1>2, <1>3 DEF Calm, CalmEvent

LEMMA CalmEntry ==
    ASSUME NEW s, NEW u, NEW entry, entry.args = HeardOf(u, entry.id),
           <<"tool", entry.id>> \in s.started, NEW K, entry.id \in K
    PROVE  Calm(EntryEvents(entry), s, u, K)
<1>. PICK a : a = End("tool", entry.id) /\ a.type = "end"
    BY EndIs
<1>. PICK b : b = Call(entry.id, entry.args) /\ b.type = "call" /\ b.id = entry.id /\ b.data = entry.args
    BY CallIs
<1>1. CalmEvent(a, s, u, K) /\ CalmEvent(b, s, u, K)
    BY DEF CalmEvent
<1>2. Sequential(<<a, b>>) /\ Len(<<a, b>>) = 2 /\ <<a, b>>[1] = a /\ <<a, b>>[2] = b
    BY Pair
<1>. PICK q : q = <<a, b>>
    OBVIOUS
<1>3. DOMAIN q = 1..2 /\ q[1] = a /\ q[2] = b /\ Sequential(q)
    BY <1>2, SequenceIs
<1>4. \A i \in 1..2 : i = 1 \/ i = 2
    OBVIOUS
<1>5. Calm(q, s, u, K)
    BY <1>1, <1>3, <1>4 DEF Calm
<1>. QED
    BY <1>5 DEF EntryEvents

EntriesAre(entries, u) == \A n \in DOMAIN entries : entries[n].args = HeardOf(u, entries[n].id)

LEMMA CalmAll ==
    ASSUME NEW s, NEW u, NEW entries, Sequential(entries), EntriesAre(entries, u),
           \A n \in DOMAIN entries : <<"tool", entries[n].id>> \in s.started,
           NEW K, \A n \in DOMAIN entries : entries[n].id \in K
    PROVE  Calm(EndAll(entries), s, u, K)
<1>. PICK n \in Nat : Long(entries, n) /\ DOMAIN entries = 1..n
    BY LongIs
<1>. PICK w : w = [i \in DOMAIN entries |-> EntryEvents(entries[i])]
    OBVIOUS
<1>1. Lists(w, n) /\ \A i \in 1..n : w[i] = EntryEvents(entries[i])
    BY DEF Lists
<1>2. \A i \in 1..n : Calm(w[i], s, u, K)
    BY <1>1, CalmEntry DEF EntriesAre
<1>3. Long(w, n)
    BY <1>1, ListsIs
<1>4. Sequential(w) /\ Len(w) = n /\ \A i \in 1..n : Sequential(w[i]) /\ DOMAIN w[i] = 1..Len(w[i])
    BY <1>2, <1>3, SequenceIs DEF Long, Calm
<1>5. PICK at : Placing(at, w, FlattenSeq(w))
    BY <1>4, FlatPlaces
<1>. PICK q : q = FlattenSeq(w)
    OBVIOUS
<1>6. Sequential(q) /\ DOMAIN q = 1..Len(q)
    BY <1>5, SequenceIs DEF Placing
<1>7. ASSUME NEW p \in 1..Len(q)
      PROVE  CalmEvent(q[p], s, u, K)
    <2>. PICK x \in Places(w) : at[x] = p
        BY <1>5 DEF Placing
    <2>1. q[p] = w[x[1]][x[2]]
        BY <1>5 DEF Placing
    <2>2. x[1] \in 1..n /\ x[2] \in DOMAIN w[x[1]]
        BY <1>4 DEF Places
    <2>. QED
        BY <1>2, <2>1, <2>2 DEF Calm
<1>. QED
    BY <1>6, <1>7 DEF Calm, EndAll

-----------------------------------------------------------------------------
(* The assembler, and the homes of the texts.                              *)

Records(entries) ==
    /\ Sequential(entries)
    /\ \A n \in DOMAIN entries : entries[n] = [id |-> entries[n].id, args |-> entries[n].args]

LEMMA CallsMatchRecords ==
    ASSUME NEW entries, NEW S, NEW E, NEW T, CallsMatch(entries, S, E, T)
    PROVE  Records(entries) /\ \A n \in DOMAIN entries : <<"tool", entries[n].id>> \in S \ E
<1>1. /\ Sequential(entries)
      /\ \A n \in 1..Len(entries) :
            /\ entries[n] = [id |-> entries[n].id, args |-> entries[n].args]
            /\ <<"tool", entries[n].id>> \in S \ E
    BY DEF CallsMatch
<1>2. DOMAIN entries = 1..Len(entries)
    BY <1>1, SequenceIs
<1>. QED
    BY <1>1, <1>2, Zenon DEF Records

LEMMA EntriesHear ==
    ASSUME NEW u, Sequential(u), NEW w, NEW v, Adds(v, u, w), NEW entries, Records(entries),
           EntriesAre(entries, u)
    PROVE  EntriesAre(AppendArgs(entries, w.item, w.data), v)
<1>. PICK x : x = AppendArgs(entries, w.item, w.data)
    OBVIOUS
<1>1. DOMAIN x = DOMAIN entries
    BY DEF AppendArgs
<1>2. ASSUME NEW n \in DOMAIN entries
      PROVE  x[n].args = HeardOf(v, x[n].id)
    <2>. PICK y : y = entries[n]
        OBVIOUS
    <2>. PICK z : z = x[n]
        OBVIOUS
    <2>. PICK more : more = Append(y.args, w.data)
        OBVIOUS
    <2>1. y = [id |-> y.id, args |-> y.args] /\ y.args = HeardOf(u, y.id)
        BY DEF Records, EntriesAre
    <2>2. z = IF y.id = w.item THEN [y EXCEPT !.args = more] ELSE y
        BY DEF AppendArgs
    <2>3. Extends(HeardOf(v, y.id), HeardOf(u, y.id), w.item = y.id, w.data)
        BY HeardGrows
    <2>4. CASE y.id = w.item
        <3>1. z.id = y.id /\ z.args = more
            BY <2>1, <2>2, <2>4
        <3>2. Adds(HeardOf(v, y.id), y.args, w.data)
            BY <2>1, <2>3, <2>4 DEF Extends
        <3>3. HeardOf(v, y.id) = more
            BY <3>2 DEF Adds
        <3>. QED
            BY <3>1, <3>3
    <2>5. CASE y.id # w.item
        BY <2>1, <2>2, <2>3, <2>5 DEF Extends
    <2>. QED
        BY <2>4, <2>5
<1>. QED
    BY <1>1, <1>2 DEF EntriesAre

LEMMA EntriesApart ==
    ASSUME NEW u, Sequential(u), NEW w, NEW v, Adds(v, u, w), NEW entries,
           EntriesAre(entries, u), \A n \in DOMAIN entries : entries[n].id # w.item
    PROVE  EntriesAre(entries, v)
<1>1. \A i : Extends(HeardOf(v, i), HeardOf(u, i), w.item = i, w.data)
    BY HeardGrows
<1>. QED
    BY <1>1 DEF EntriesAre, Extends

LEMMA EntriesStart ==
    ASSUME NEW entries, Sequential(entries), NEW u, EntriesAre(entries, u), NEW id,
           HeardOf(u, id) = <<>>
    PROVE  EntriesAre(StartEntry(entries, id), u)
<1>1. PICK t, x : t = StartEntry(entries, id) /\ Adds(t, entries, x) /\ x.id = id /\ x.args = <<>>
    <2>. PICK x : x = [id |-> id, args |-> <<>>]
        OBVIOUS
    <2>1. Adds(StartEntry(entries, id), entries, x)
        BY DEF StartEntry, Adds
    <2>2. x.id = id /\ x.args = <<>>
        OBVIOUS
    <2>. QED
        BY <2>1, <2>2
<1>2. Adds(t, entries, x)
    BY <1>1
<1>3. /\ \A i \in DOMAIN entries : t[i] = entries[i]
      /\ \E l : l \notin DOMAIN entries /\ DOMAIN t = DOMAIN entries \cup {l} /\ t[l] = x
    BY <1>2, AddsMembers
<1>. QED
    BY <1>1, <1>3 DEF EntriesAre

LEMMA EntriesNone ==
    ASSUME NEW u
    PROVE  EntriesAre(<<>>, u)
<1>1. DOMAIN <<>> = 1..0 /\ 1..0 = {}
    BY NothingLong, LongNext
<1>. QED
    BY <1>1 DEF EntriesAre

LEMMA EntriesWithout ==
    ASSUME NEW entries, Sequential(entries), NEW u, EntriesAre(entries, u), NEW id
    PROVE  EntriesAre(Without(entries, id), u)
<1>. PICK n : Long(entries, n) /\ DOMAIN entries = 1..n
    BY LongIs
<1>. PICK X : X = {i \in 1..n : entries[i].id # id}
    OBVIOUS
<1>. PICK t : t = Without(entries, id)
    OBVIOUS
<1>1. t = Picked(entries, X)
    BY DEF Without, Select, Picked
<1>2. X \in SUBSET (1..Len(entries))
    BY DEF Long
<1>3. Part(t, entries, X)
    BY <1>1, <1>2, Parting
<1>4. PICK p : p \in [1..Len(t) -> X] /\ \A i \in 1..Len(t) : t[i] = entries[p[i]]
    BY <1>3 DEF Part
<1>5. DOMAIN t = 1..Len(t)
    BY <1>3, SequenceIs DEF Part
<1>6. \A i \in DOMAIN t : p[i] \in DOMAIN entries /\ t[i] = entries[p[i]]
    BY <1>4, <1>5
<1>. QED
    BY <1>6 DEF EntriesAre

TextsOf(s) == {k \in s.started : k[1] \in Texts}

\* f names the item each text and each reasoning comes from.
Homes(f, s, u, its) ==
    /\ \A k \in TextsOf(s) :
          f[k] \in DOMAIN its /\ its[f[k]] = k[1] /\ s.buffers[k] = HeardOf(u, f[k])
    /\ \A k, l \in TextsOf(s) : f[k] = f[l] => k = l
    /\ \A i \in DOMAIN its : its[i] \in Texts /\ HeardOf(u, i) # <<>> =>
          \E k \in TextsOf(s) : f[k] = i

LEMMA HomesStill ==
    ASSUME NEW f, NEW s, NEW u, NEW its, Homes(f, s, u, its), NEW t, Still(t, s)
    PROVE  Homes(f, t, u, its)
BY DEF Homes, Still, TextsOf

\* An item, of which nothing is heard yet.
LEMMA HomesItem ==
    ASSUME NEW f, NEW s, NEW u, NEW its, Homes(f, s, u, its), NEW i, HeardOf(u, i) = <<>>,
           NEW kind, NEW more, Grown(more, its, i, kind)
    PROVE  Homes(f, s, u, more)
BY DEF Homes, Grown

\* A text begins, of an item that has none.
LEMMA HomesBegin ==
    ASSUME NEW f, NEW s, NEW u, NEW its, Homes(f, s, u, its),
           NEW i \in DOMAIN its, HeardOf(u, i) = <<>>, \A k \in TextsOf(s) : f[k] # i,
           NEW kind \in Texts, its[i] = kind, NEW id, NEW k, k = <<kind, id>>, k \notin s.started,
           DOMAIN s.buffers = s.started, NEW t, TookStart(t, s, k),
           NEW h, h[k] = i, \A j \in s.started : h[j] = f[j]
    PROVE  Homes(h, t, u, its)
<1>1. t.started = s.started \cup {k} /\ BufferSet(t.buffers, s.buffers, k, <<>>)
    BY DEF TookStart
<1>2. k[1] = kind
    OBVIOUS
<1>3. TextsOf(t) = TextsOf(s) \cup {k}
    BY <1>1, <1>2 DEF TextsOf
<1>4. \A j \in TextsOf(s) : h[j] = f[j] /\ t.buffers[j] = s.buffers[j] /\ j # k
    BY <1>1 DEF TextsOf, BufferSet
<1>5. t.buffers[k] = <<>>
    BY <1>1 DEF BufferSet
<1>6. \A j \in TextsOf(t) :
          h[j] \in DOMAIN its /\ its[h[j]] = j[1] /\ t.buffers[j] = HeardOf(u, h[j])
    BY <1>2, <1>3, <1>4, <1>5 DEF Homes
<1>7. \A j, l \in TextsOf(t) : h[j] = h[l] => j = l
    BY <1>3, <1>4 DEF Homes
<1>8. \A m \in DOMAIN its : its[m] \in Texts /\ HeardOf(u, m) # <<>> =>
          \E j \in TextsOf(t) : h[j] = m
    BY <1>3, <1>4 DEF Homes
<1>. QED
    BY <1>6, <1>7, <1>8 DEF Homes

LEMMA HomesBeginCall ==
    ASSUME NEW f, NEW s, NEW u, NEW its, Homes(f, s, u, its), DOMAIN s.buffers = s.started,
           NEW id, NEW t, TookStart(t, s, <<"tool", id>>), <<"tool", id>> \notin s.started
    PROVE  Homes(f, t, u, its)
<1>. PICK k : k = <<"tool", id>>
    OBVIOUS
<1>1. t.started = s.started \cup {k} /\ BufferSet(t.buffers, s.buffers, k, <<>>)
    BY DEF TookStart
<1>2. k[1] \notin Texts
    BY DEF Texts
<1>3. TextsOf(t) = TextsOf(s)
    BY <1>1, <1>2 DEF TextsOf
<1>4. \A j \in TextsOf(s) : t.buffers[j] = s.buffers[j]
    BY <1>1, <1>2 DEF TextsOf, BufferSet
<1>. QED
    BY <1>3, <1>4 DEF Homes

\* A piece of a text goes home.
LEMMA HomesSay ==
    ASSUME NEW f, NEW s, NEW u, NEW its, Homes(f, s, u, its), Sequential(u),
           NEW k \in TextsOf(s), NEW piece, NEW w, w.item = f[k], w.data = piece,
           NEW v, Adds(v, u, w), NEW t, t.started = s.started, DOMAIN s.buffers = s.started,
           \A j \in DOMAIN s.buffers : j # k => t.buffers[j] = s.buffers[j],
           Adds(t.buffers[k], s.buffers[k], piece)
    PROVE  Homes(f, t, v, its)
<1>1. \A i : Extends(HeardOf(v, i), HeardOf(u, i), w.item = i, piece)
    BY HeardGrows
<1>2. TextsOf(t) = TextsOf(s)
    BY DEF TextsOf
<1>3. ASSUME NEW j \in TextsOf(s)
      PROVE  t.buffers[j] = HeardOf(v, f[j])
    <2>1. CASE j = k
        <3>1. Adds(HeardOf(v, f[k]), HeardOf(u, f[k]), piece)
            BY <1>1 DEF Extends
        <3>2. s.buffers[k] = HeardOf(u, f[k])
            BY DEF Homes
        <3>3. t.buffers[k] = HeardOf(v, f[k])
            BY <3>1, <3>2, AddsSame
        <3>. QED
            BY <2>1, <3>3
    <2>2. CASE j # k
        <3>1. f[j] # f[k] /\ s.buffers[j] = HeardOf(u, f[j])
            BY <2>2 DEF Homes
        <3>2. HeardOf(v, f[j]) = HeardOf(u, f[j])
            BY <1>1, <3>1 DEF Extends
        <3>3. t.buffers[j] = s.buffers[j]
            BY <2>2 DEF TextsOf
        <3>. QED
            BY <3>1, <3>2, <3>3
    <2>. QED
        BY <2>1, <2>2
<1>4. ASSUME NEW i \in DOMAIN its, its[i] \in Texts, HeardOf(v, i) # <<>>
      PROVE  \E j \in TextsOf(s) : f[j] = i
    <2>1. CASE i = f[k]
        BY <2>1
    <2>2. CASE i # f[k]
        <3>1. HeardOf(v, i) = HeardOf(u, i)
            BY <1>1, <2>2 DEF Extends
        <3>. QED
            BY <1>4, <3>1 DEF Homes
    <2>. QED
        BY <2>1, <2>2
<1>. QED
    BY <1>2, <1>3, <1>4 DEF Homes

\* A piece of a call's input leaves the texts alone.
LEMMA HomesSayCall ==
    ASSUME NEW f, NEW s, NEW u, NEW its, Homes(f, s, u, its), Sequential(u),
           NEW i, its[i] = "tool", NEW w, w.item = i, NEW v, Adds(v, u, w),
           NEW t, t.started = s.started, DOMAIN s.buffers = s.started,
           \A j \in DOMAIN s.buffers : j # <<"tool", i>> => t.buffers[j] = s.buffers[j]
    PROVE  Homes(f, t, v, its)
<1>1. \A j : j # i => HeardOf(v, j) = HeardOf(u, j)
    <2>1. \A j : Extends(HeardOf(v, j), HeardOf(u, j), w.item = j, w.data)
        BY HeardGrows
    <2>. QED
        BY <2>1 DEF Extends
<1>2. TextsOf(t) = TextsOf(s)
    BY DEF TextsOf
<1>3. "tool" \notin Texts
    BY DEF Texts
<1>4. \A j \in TextsOf(s) : f[j] # i /\ t.buffers[j] = s.buffers[j]
    BY <1>3 DEF Homes, TextsOf
<1>. QED
    BY <1>1, <1>2, <1>3, <1>4 DEF Homes

-----------------------------------------------------------------------------
(* What a decoder holds beside a summary that agrees with the provider.    *)

\* Nothing is heard of items that were not begun; 0 is said of no item.
HeardItems(u, its) == \A i : HeardOf(u, i) # <<>> => i = 0 \/ i \in DOMAIN its

LEMMA HeardItemsSay ==
    ASSUME NEW u, Sequential(u), NEW w, NEW v, Adds(v, u, w), NEW its, HeardItems(u, its),
           w.item = 0 \/ w.item \in DOMAIN its
    PROVE  HeardItems(v, its)
<1>1. \A i : Extends(HeardOf(v, i), HeardOf(u, i), w.item = i, w.data)
    BY HeardGrows
<1>2. \A i : w.item # i => HeardOf(v, i) = HeardOf(u, i)
    BY <1>1 DEF Extends
<1>. QED
    BY <1>2 DEF HeardItems

LEMMA HeardItemsMore ==
    ASSUME NEW u, NEW its, HeardItems(u, its), NEW more, NEW i, NEW kind, Grown(more, its, i, kind)
    PROVE  HeardItems(u, more)
BY DEF HeardItems, Grown

\* The assembler's entries and the calls that were told, too.
Tells(s, entries, u, its, ended) ==
    /\ Agrees(s, u, its) /\ EntriesAre(entries, u)
    /\ CallIds(s) \subseteq ended /\ HeardItems(u, its)

\* Calm events change the entries and the calls alone.
LEMMA TellsCalm ==
    ASSUME NEW s, NEW entries, NEW u, NEW its, NEW ended, Tells(s, entries, u, its, ended),
           NEW K, NEW q, Calm(q, s, u, K), NEW more, ended \cup K \subseteq more,
           NEW rest, EntriesAre(rest, u)
    PROVE  \E t : Leads(s, q, t) /\ Tells(t, rest, u, its, more) /\ Still(t, s)
<1>1. PICK t : Leads(s, q, t)
    BY LeadsSomewhere DEF Calm
<1>2. Agrees(s, u, its) /\ CallIds(s) \subseteq ended /\ HeardItems(u, its)
    BY DEF Tells
<1>3. Agrees(t, u, its) /\ Still(t, s) /\ CallIds(t) \subseteq CallIds(s) \cup K
    BY <1>1, <1>2, CalmLeads
<1>4. Tells(t, rest, u, its, more)
    BY <1>2, <1>3 DEF Tells
<1>. QED
    BY <1>1, <1>3, <1>4

\* A text begins.
LEMMA TellsBegins ==
    ASSUME NEW s, NEW entries, NEW u, NEW its, NEW ended, Tells(s, entries, u, its, ended),
           NEW kind \in Texts, NEW id, <<kind, id>> \notin s.started
    PROVE  LET t == Taken(s, Start(kind, id))
           IN  Tells(t, entries, u, its, ended) /\ TookStart(t, s, <<kind, id>>)
<1>. DEFINE t == Taken(s, Start(kind, id))
<1>1. Agrees(s, u, its)
    BY DEF Tells
<1>2. Agrees(t, u, its) /\ TookStart(t, s, <<kind, id>>)
    BY <1>1, AgreesBegins
<1>. HIDE DEF t
<1>3. CallIds(t) = CallIds(s)
    BY <1>2 DEF TookStart, CallIds
<1>4. Tells(t, entries, u, its, ended) /\ TookStart(t, s, <<kind, id>>)
    BY <1>2, <1>3 DEF Tells
<1>. QED
    BY <1>4 DEF t

\* A call begins, with its item.
LEMMA TellsBeginsCall ==
    ASSUME NEW s, NEW entries, NEW u, NEW its, NEW ended, Tells(s, entries, u, its, ended),
           Sequential(entries), NEW i, i # 0, NEW more, Grown(more, its, i, "tool")
    PROVE  LET t == Taken(s, Start("tool", i))
           IN  /\ Tells(t, StartEntry(entries, i), u, more, ended) /\ TookStart(t, s, <<"tool", i>>)
               /\ <<"tool", i>> \notin s.started
<1>. DEFINE t == Taken(s, Start("tool", i))
<1>1. Agrees(s, u, its) /\ HeardItems(u, its) /\ EntriesAre(entries, u)
    BY DEF Tells
<1>2. Agrees(t, u, more) /\ TookStart(t, s, <<"tool", i>>) /\ <<"tool", i>> \notin s.started
    BY <1>1, AgreesBeginsCall
<1>3. HeardOf(u, i) = <<>>
    BY <1>1 DEF HeardItems, Grown
<1>4. EntriesAre(StartEntry(entries, i), u)
    BY <1>1, <1>3, EntriesStart
<1>5. HeardItems(u, more)
    BY <1>1, HeardItemsMore
<1>. HIDE DEF t
<1>6. CallIds(t) = CallIds(s)
    BY <1>2 DEF TookStart, CallIds
<1>7. Tells(t, StartEntry(entries, i), u, more, ended)
    BY <1>2, <1>4, <1>5, <1>6 DEF Tells
<1>. QED
    BY <1>2, <1>7 DEF t

\* An item begins that shows nothing.
LEMMA TellsItem ==
    ASSUME NEW s, NEW entries, NEW u, NEW its, NEW ended, Tells(s, entries, u, its, ended),
           NEW i, NEW kind, kind # "tool", NEW more, Grown(more, its, i, kind)
    PROVE  Tells(s, entries, u, more, ended)
<1>1. Agrees(s, u, its) /\ HeardItems(u, its)
    BY DEF Tells
<1>2. Agrees(s, u, more) /\ HeardItems(u, more)
    BY <1>1, AgreesItem, HeardItemsMore
<1>. QED
    BY <1>2 DEF Tells

\* What a delta leaves alone, and what it adds.
SaidAlone(t, s, k, piece) ==
    /\ t.started = s.started /\ t.order = s.order /\ t.calls = s.calls
    /\ DOMAIN s.buffers = s.started /\ DOMAIN t.buffers = DOMAIN s.buffers
    /\ \A j \in DOMAIN s.buffers : j # k => t.buffers[j] = s.buffers[j]
    /\ Adds(t.buffers[k], s.buffers[k], piece)
    /\ \A j \in Texts : Extends(Prose(t, j), Prose(s, j), j = k[1], piece)

\* A piece of a text is said.
LEMMA TellsSays ==
    ASSUME NEW s, NEW entries, NEW u, NEW its, NEW ended, Tells(s, entries, u, its, ended),
           NEW kind \in Texts, NEW id, NEW item, NEW piece, <<kind, id>> \in s.started,
           item \notin ended, item = 0 \/ item \in DOMAIN its,
           \A n \in DOMAIN entries : entries[n].id # item,
           NEW w, w.kind = kind, w.item = item, w.data = piece, NEW v, Adds(v, u, w)
    PROVE  LET t == Taken(s, Delta(kind, id, piece))
           IN  Tells(t, entries, v, its, ended) /\ SaidAlone(t, s, <<kind, id>>, piece)
<1>. DEFINE t == Taken(s, Delta(kind, id, piece))
            k == <<kind, id>>
<1>1. /\ Agrees(s, u, its) /\ HeardItems(u, its) /\ EntriesAre(entries, u)
      /\ CallIds(s) \subseteq ended
    BY DEF Tells
<1>2. kind \in Kinds
    BY DEF Kinds, Texts
<1>3. \A n \in DOMAIN s.calls : s.calls[n].id # item
    BY <1>1 DEF CallIds
<1>4. /\ Agrees(t, v, its)
      /\ t.started = s.started /\ t.order = s.order /\ t.calls = s.calls
      /\ DOMAIN t.buffers = DOMAIN s.buffers
      /\ \A j \in DOMAIN s.buffers : j # k => t.buffers[j] = s.buffers[j]
      /\ Adds(t.buffers[k], s.buffers[k], piece)
      /\ \A j \in Texts : Extends(Prose(t, j), Prose(s, j), j = kind, piece)
    BY <1>1, <1>2, <1>3, AgreesSays
<1>. HIDE DEF t
<1>5. Sequential(u) /\ DOMAIN s.buffers = s.started
    BY <1>1 DEF Agrees, Listed
<1>6. EntriesAre(entries, v)
    BY <1>1, <1>5, EntriesApart
<1>7. HeardItems(v, its)
    BY <1>1, <1>5, HeardItemsSay
<1>8. CallIds(t) = CallIds(s)
    BY <1>4 DEF CallIds
<1>9. Tells(t, entries, v, its, ended)
    BY <1>1, <1>4, <1>6, <1>7, <1>8 DEF Tells
<1>10. k[1] = kind
    OBVIOUS
<1>. HIDE DEF k
<1>11. SaidAlone(t, s, k, piece)
    BY <1>4, <1>5, <1>10 DEF SaidAlone
<1>. QED
    BY <1>9, <1>11 DEF t, k

\* A piece of a call's input is said.
LEMMA TellsSaysCall ==
    ASSUME NEW s, NEW entries, NEW u, NEW its, NEW ended, Tells(s, entries, u, its, ended),
           Records(entries), NEW i, NEW piece, <<"tool", i>> \in s.started, i \notin ended,
           NEW w, w.kind = "tool", w.item = i, w.data = piece, NEW v, Adds(v, u, w)
    PROVE  LET t == Taken(s, Delta("tool", i, piece))
           IN  /\ Tells(t, AppendArgs(entries, i, piece), v, its, ended)
               /\ SaidAlone(t, s, <<"tool", i>>, piece)
               /\ i \in DOMAIN its /\ its[i] = "tool"
<1>. DEFINE t == Taken(s, Delta("tool", i, piece))
            k == <<"tool", i>>
<1>1. /\ Agrees(s, u, its) /\ HeardItems(u, its) /\ EntriesAre(entries, u)
      /\ CallIds(s) \subseteq ended
    BY DEF Tells
<1>2. "tool" \in Kinds
    BY DEF Kinds
<1>3. \A n \in DOMAIN s.calls : s.calls[n].id # i
    BY <1>1 DEF CallIds
<1>4. /\ Agrees(t, v, its)
      /\ t.started = s.started /\ t.order = s.order /\ t.calls = s.calls
      /\ DOMAIN t.buffers = DOMAIN s.buffers
      /\ \A j \in DOMAIN s.buffers : j # k => t.buffers[j] = s.buffers[j]
      /\ Adds(t.buffers[k], s.buffers[k], piece)
      /\ \A j \in Texts : Extends(Prose(t, j), Prose(s, j), j = "tool", piece)
    BY <1>1, <1>2, <1>3, AgreesSays
<1>. HIDE DEF t
<1>5. Sequential(u) /\ DOMAIN s.buffers = s.started
    BY <1>1 DEF Agrees, Listed
<1>6. EntriesAre(AppendArgs(entries, w.item, w.data), v)
    BY <1>1, <1>5, EntriesHear
<1>7. i \in DOMAIN its /\ its[i] = "tool"
    BY <1>1 DEF Agrees, MadeIs
<1>8. HeardItems(v, its)
    BY <1>1, <1>5, <1>7, HeardItemsSay
<1>9. CallIds(t) = CallIds(s)
    BY <1>4 DEF CallIds
<1>10. Tells(t, AppendArgs(entries, i, piece), v, its, ended)
    BY <1>1, <1>4, <1>6, <1>8, <1>9 DEF Tells
<1>11. k[1] = "tool"
    OBVIOUS
<1>. HIDE DEF k
<1>12. SaidAlone(t, s, k, piece)
    BY <1>4, <1>5, <1>11 DEF SaidAlone
<1>. QED
    BY <1>7, <1>10, <1>12 DEF t, k

\* A piece that is said goes home.
LEMMA HomesSaid ==
    ASSUME NEW f, NEW s, NEW u, NEW its, Homes(f, s, u, its), Sequential(u),
           NEW k \in TextsOf(s), NEW piece, NEW w, w.item = f[k], w.data = piece,
           NEW v, Adds(v, u, w), NEW t, SaidAlone(t, s, k, piece)
    PROVE  Homes(f, t, v, its)
<1>1. /\ t.started = s.started /\ DOMAIN s.buffers = s.started
      /\ \A j \in DOMAIN s.buffers : j # k => t.buffers[j] = s.buffers[j]
      /\ Adds(t.buffers[k], s.buffers[k], piece)
    BY DEF SaidAlone
<1>. QED
    BY <1>1, HomesSay

LEMMA HomesSaidCall ==
    ASSUME NEW f, NEW s, NEW u, NEW its, Homes(f, s, u, its), Sequential(u),
           NEW i, its[i] = "tool", NEW w, w.item = i, NEW v, Adds(v, u, w),
           NEW t, NEW piece, SaidAlone(t, s, <<"tool", i>>, piece)
    PROVE  Homes(f, t, v, its)
<1>1. /\ t.started = s.started /\ DOMAIN s.buffers = s.started
      /\ \A j \in DOMAIN s.buffers : j # <<"tool", i>> => t.buffers[j] = s.buffers[j]
    BY DEF SaidAlone
<1>. QED
    BY <1>1, HomesSayCall

-----------------------------------------------------------------------------
(* Anthropic's blocks.                                                     *)

\* The block of an open item holds the key of its content.
AnthropicHolds(f, d, its, open) ==
    \A i \in open :
        IF its[i] \in Kinds
        THEN \E b : /\ d.blocks = <<b>> /\ b.index = i /\ b.kind = its[i]
                    /\ b.kind = "tool" => b.id = i
                    /\ b.kind # "tool" => f[<<b.kind, b.id>>] = i
        ELSE d.blocks = <<>>

AnthropicTells(s, d, u, its, ended) ==
    /\ Tells(s, d.entries, u, its, ended)
    /\ \E f : Homes(f, s, u, its) /\ AnthropicHolds(f, d, its, DOMAIN its \ ended)

\* What a handler returns, it has told.
AnthropicCame(s, r, u, its, ended) ==
    r.error = "none" => \E t : Leads(s, r.events, t) /\ AnthropicTells(t, r.state, u, its, ended)

LEMMA AnthropicCameSo ==
    ASSUME NEW s, NEW t, NEW x, NEW q, NEW r, r = [state |-> x, events |-> q, error |-> "none"],
           NEW u, NEW its, NEW ended, Leads(s, q, t), AnthropicTells(t, x, u, its, ended)
    PROVE  AnthropicCame(s, r, u, its, ended)
BY DEF AnthropicCame

LEMMA AnthropicNothing ==
    ASSUME NEW s, NEW d, NEW u, NEW its, NEW ended, AnthropicTells(s, d, u, its, ended),
           NEW r, r.events = <<>>, r.state.entries = d.entries, r.state.blocks = d.blocks
    PROVE  AnthropicCame(s, r, u, its, ended)
<1>1. Leads(s, r.events, s)
    BY LeadsNone
<1>2. PICK f : Homes(f, s, u, its) /\ AnthropicHolds(f, d, its, DOMAIN its \ ended)
    BY DEF AnthropicTells
<1>3. AnthropicHolds(f, r.state, its, DOMAIN its \ ended)
    BY <1>2 DEF AnthropicHolds
<1>4. AnthropicTells(s, r.state, u, its, ended)
    BY <1>2, <1>3 DEF AnthropicTells
<1>. QED
    BY <1>1, <1>4 DEF AnthropicCame

\* What starting a block returns.
AnthropicStarted(r, d, i, kind) ==
    IF kind \notin Kinds THEN r = [state |-> d, events |-> <<>>, error |-> "none"]
    ELSE \E id : /\ id = (IF kind = "tool" THEN i ELSE d.started[kind] + 1)
                 /\ r.events = <<Start(kind, id)>>
                 /\ r.state.blocks = <<[index |-> i, kind |-> kind, id |-> id]>>
                 /\ r.state.entries = IF kind = "tool" THEN StartEntry(d.entries, i) ELSE d.entries

LEMMA AnthropicBlockStarted ==
    ASSUME NEW d, NEW n, NEW open, NEW S, NEW E, NEW T, AnthropicMatch(d, n, open, S, E, T),
           d.blocks = <<>>, NEW i, NEW kind, NEW data,
           NEW c, c = A!Chunk("content_block_start", i, kind, data)
    PROVE  AnthropicStarted(A!StartBlock(d, c), d, i, kind)
<1>0. c.block = kind /\ c.index = i
    BY DEF A!Chunk
<1>1. CASE kind \notin Kinds
    BY <1>0, <1>1, AnthropicSame DEF A!StartBlock, Emits, AnthropicStarted
<1>2. CASE kind \in Kinds
    <2>. DEFINE m  == d.started[kind] + 1
                id == IF kind = "tool" THEN i ELSE m
                b  == [index |-> i, kind |-> kind, id |-> id]
                t  == [d EXCEPT !.started[kind] = m, !.blocks = <<b>>]
                mid == [d EXCEPT !.started[kind] = m]
    <2>1. A!SetBlock(d, b) = <<b>>
        <3>. HIDE DEF b
        <3>1. A!BlockAt(d, b.index) = <<>>
            BY NoBlock
        <3>2. Append(<<>>, b) = <<b>>
            OBVIOUS
        <3>. QED
            BY <3>1, <3>2 DEF A!SetBlock
    <2>2. A!StartBlock(d, c)
            = [state |-> IF kind = "tool" THEN [t EXCEPT !.entries = StartEntry(t.entries, id)] ELSE t,
               events |-> <<Start(kind, id)>>, error |-> "none"]
        <3>1. A!StartBlock(d, c)
                = A!Emits(IF kind = "tool" THEN [t EXCEPT !.entries = A!StartEntry(t.entries, id)] ELSE t,
                          <<A!Start(kind, id)>>)
            BY <1>0, <1>2, <2>1, AnthropicSame DEF A!StartBlock
        <3>. HIDE DEF t, id
        <3>. QED
            BY <3>1, AnthropicSame DEF Emits
    <2>3. t.blocks = <<b>> /\ t.entries = d.entries
          /\ t = [entries |-> t.entries, blocks |-> t.blocks, started |-> t.started, reason |-> t.reason]
        <3>1. d = [entries |-> d.entries, blocks |-> d.blocks, started |-> d.started, reason |-> d.reason]
            BY DEF AnthropicMatch
        <3>2. mid = [entries |-> d.entries, blocks |-> d.blocks, started |-> mid.started,
                     reason |-> d.reason]
            BY <3>1
        <3>3. t = [mid EXCEPT !.blocks = <<b>>]
            BY <3>1
        <3>. HIDE DEF mid, t, b
        <3>. QED
            BY <3>2, <3>3
    <2>4. id = (IF kind = "tool" THEN i ELSE d.started[kind] + 1)
        OBVIOUS
    <2>5. b = [index |-> i, kind |-> kind, id |-> id]
        OBVIOUS
    <2>. HIDE DEF t, id, b
    <2>6. CASE kind = "tool"
        <3>1. A!StartBlock(d, c).state.blocks = <<b>>
              /\ A!StartBlock(d, c).state.entries = StartEntry(d.entries, id)
              /\ A!StartBlock(d, c).events = <<Start(kind, id)>>
            BY <2>2, <2>3, <2>6
        <3>. QED
            BY <1>2, <2>4, <2>5, <2>6, <3>1 DEF AnthropicStarted
    <2>7. CASE kind # "tool"
        <3>1. A!StartBlock(d, c).state.blocks = <<b>> /\ A!StartBlock(d, c).state.entries = d.entries
              /\ A!StartBlock(d, c).events = <<Start(kind, id)>>
            BY <2>2, <2>3, <2>7
        <3>. QED
            BY <1>2, <2>4, <2>5, <2>7, <3>1 DEF AnthropicStarted
    <2>. QED
        BY <2>6, <2>7
<1>. QED
    BY <1>1, <1>2

\* A block starts with its item, when none is open.
LEMMA AnthropicTellsStart ==
    ASSUME NEW s, NEW d, NEW n \in Nat, NEW open, NEW E, NEW T,
           AnthropicMatch(d, n, open, s.started, E, T), d.blocks = <<>>,
           NEW u, NEW its, NEW ended, AnthropicTells(s, d, u, its, ended), DOMAIN its \subseteq ended,
           NEW i, i # 0, i \notin ended, NEW kind, NEW more, Grown(more, its, i, kind),
           NEW r, AnthropicStarted(r, d, i, kind)
    PROVE  AnthropicCame(s, r, u, more, ended)
<1>1. Tells(s, d.entries, u, its, ended)
    BY DEF AnthropicTells
<1>2. PICK f : Homes(f, s, u, its)
    BY DEF AnthropicTells
<1>3. DOMAIN more \ ended \subseteq {i} /\ more[i] = kind /\ i \notin DOMAIN its
    BY DEF Grown
<1>4. HeardOf(u, i) = <<>> /\ DOMAIN s.buffers = s.started
    BY <1>1, <1>3 DEF Tells, HeardItems, Agrees, Listed
<1>5. Homes(f, s, u, more)
    BY <1>2, <1>4, HomesItem
<1>6. CASE kind \notin Kinds
    <2>0. kind # "tool"
        BY <1>6 DEF Kinds
    <2>1. r = [state |-> d, events |-> <<>>, error |-> "none"]
        BY <1>6 DEF AnthropicStarted
    <2>2. Tells(s, d.entries, u, more, ended)
        BY <1>1, <2>0, TellsItem
    <2>3. AnthropicHolds(f, d, more, DOMAIN more \ ended)
        BY <1>3, <1>6 DEF AnthropicHolds
    <2>4. AnthropicTells(s, d, u, more, ended)
        BY <1>5, <2>2, <2>3 DEF AnthropicTells
    <2>. QED
        BY <2>1, <2>4, AnthropicNothing
<1>7. CASE kind \in Kinds
    <2>1. PICK id : /\ id = (IF kind = "tool" THEN i ELSE d.started[kind] + 1)
                    /\ r.events = <<Start(kind, id)>>
                    /\ r.state.blocks = <<[index |-> i, kind |-> kind, id |-> id]>>
                    /\ r.state.entries = IF kind = "tool" THEN StartEntry(d.entries, i) ELSE d.entries
        BY <1>7 DEF AnthropicStarted
    <2>. DEFINE t == Taken(s, Start(kind, id))
                k == <<kind, id>>
    <2>2. Leads(s, r.events, t)
        BY <2>1, LeadsOne
    <2>3. ASSUME NEW h, k[1] # "tool" => h[k] = i
          PROVE  AnthropicHolds(h, r.state, more, DOMAIN more \ ended)
        <3>1. PICK b : b = [index |-> i, kind |-> kind, id |-> id]
            OBVIOUS
        <3>2. r.state.blocks = <<b>> /\ b.index = i /\ b.kind = kind /\ b.id = id
            BY <2>1, <3>1
        <3>3. (b.kind = "tool" => b.id = i) /\ (b.kind # "tool" => h[<<b.kind, b.id>>] = i)
            BY <2>1, <2>3, <3>2
        <3>. QED
            BY <1>3, <1>7, <3>2, <3>3 DEF AnthropicHolds
    <2>4. CASE kind = "tool"
        <3>1. id = i /\ r.state.entries = StartEntry(d.entries, i)
            BY <2>1, <2>4
        <3>2. Sequential(d.entries)
            BY CallsMatchRecords DEF AnthropicMatch, Records
        <3>3. Grown(more, its, i, "tool")
            BY <2>4
        <3>4. Tells(t, r.state.entries, u, more, ended) /\ TookStart(t, s, <<"tool", i>>)
              /\ <<"tool", i>> \notin s.started
            BY <1>1, <2>4, <3>1, <3>2, <3>3, TellsBeginsCall
        <3>. HIDE DEF t
        <3>5. Homes(f, t, u, more)
            BY <1>4, <1>5, <3>4, HomesBeginCall
        <3>6. AnthropicHolds(f, r.state, more, DOMAIN more \ ended)
            BY <2>3, <2>4
        <3>7. AnthropicTells(t, r.state, u, more, ended)
            BY <3>4, <3>5, <3>6 DEF AnthropicTells
        <3>. QED
            BY <2>2, <3>7 DEF AnthropicCame
    <2>5. CASE kind # "tool"
        <3>0. kind \in Texts
            BY <1>7, <2>5 DEF Kinds, Texts
        <3>1. k \notin s.started
            <4>1. d.started[kind] \in Nat /\ \A m \in Nat : m > d.started[kind] => <<kind, m>> \notin s.started
                BY <3>0 DEF AnthropicMatch
            <4>2. id = d.started[kind] + 1
                BY <2>1, <2>5
            <4>3. id \in Nat /\ id > d.started[kind]
                BY <4>1, <4>2
            <4>. QED
                BY <4>1, <4>3
        <3>2. Tells(s, d.entries, u, more, ended)
            BY <1>1, <2>5, TellsItem
        <3>3. Tells(t, d.entries, u, more, ended) /\ TookStart(t, s, k)
            BY <3>0, <3>1, <3>2, TellsBegins
        <3>. HIDE DEF t
        <3>. DEFINE h == [j \in s.started \cup {k} |-> IF j = k THEN i ELSE f[j]]
        <3>4. h[k] = i /\ \A j \in s.started : h[j] = f[j]
            BY <3>1
        <3>. HIDE DEF h
        <3>5. \A j \in TextsOf(s) : f[j] # i
            BY <1>2, <1>3 DEF Homes
        <3>6. i \in DOMAIN more /\ more[i] = kind
            BY <1>3 DEF Grown
        <3>7. Homes(h, t, u, more)
            BY <1>4, <1>5, <3>0, <3>1, <3>3, <3>4, <3>5, <3>6, HomesBegin
        <3>8. AnthropicHolds(h, r.state, more, DOMAIN more \ ended)
            BY <2>3, <3>4
        <3>9. r.state.entries = d.entries
            BY <2>1, <2>5
        <3>10. AnthropicTells(t, r.state, u, more, ended)
            BY <3>3, <3>7, <3>8, <3>9 DEF AnthropicTells
        <3>. QED
            BY <2>2, <3>10 DEF AnthropicCame
    <2>. QED
        BY <2>4, <2>5
<1>. QED
    BY <1>6, <1>7

LEMMA HeadOfOne ==
    ASSUME NEW b
    PROVE  <<b>> # <<>> /\ Head(<<b>>) = b
OBVIOUS

\* The block that is open for an item, and the entries, when nothing else is.
LEMMA AnthropicBlockIs ==
    ASSUME NEW d, NEW n, NEW open, NEW S, NEW E, NEW T, AnthropicMatch(d, n, open, S, E, T),
           NEW b, d.blocks = <<b>>
    PROVE  /\ Records(d.entries) /\ <<b.kind, b.id>> \in S
           /\ \A m \in DOMAIN d.entries : /\ b.kind = "tool" /\ d.entries[m].id = b.id
                                          /\ <<"tool", d.entries[m].id>> \in S
           /\ A!BlockAt(d, b.index) = <<b>>
<1>1. Records(d.entries) /\ \A m \in DOMAIN d.entries : <<"tool", d.entries[m].id>> \in S \ E
    BY CallsMatchRecords DEF AnthropicMatch
<1>2. <<b.kind, b.id>> \in S \ E /\ S \ E \subseteq {<<b.kind, b.id>>}
    <2>1. d.blocks # <<>>
        OBVIOUS
    <2>2. PICK c : d.blocks = <<c>> /\ <<c.kind, c.id>> \in S \ E /\ S \ E \subseteq {<<c.kind, c.id>>}
        BY <2>1 DEF AnthropicMatch
    <2>3. b = c
        BY <2>2
    <2>. QED
        BY <2>2, <2>3
<1>3. A!BlockAt(d, b.index) = <<b>>
    BY OneBlock
<1>. QED
    BY <1>1, <1>2, <1>3

\* A piece goes to the block that is open.
LEMMA AnthropicTellsDelta ==
    ASSUME NEW s, NEW d, NEW n, NEW open, NEW E, NEW T, AnthropicMatch(d, n, open, s.started, E, T),
           NEW u, NEW its, NEW ended, AnthropicTells(s, d, u, its, ended),
           NEW i \in DOMAIN its \ ended, its[i] \in Kinds, NEW data, data # "",
           NEW w, w.kind = its[i], w.item = i, w.data = data, NEW v, Adds(v, u, w),
           NEW c, c = A!Chunk("content_block_delta", i, its[i], data)
    PROVE  AnthropicCame(s, A!DeltaBlock(d, c), v, its, ended)
<1>0. c.block = its[i] /\ c.index = i /\ c.data = data
    BY Zenon DEF A!Chunk
<1>1. Tells(s, d.entries, u, its, ended)
    BY Zenon DEF AnthropicTells
<1>2. PICK f : Homes(f, s, u, its) /\ AnthropicHolds(f, d, its, DOMAIN its \ ended)
    BY Zenon DEF AnthropicTells
<1>3. PICK b : /\ d.blocks = <<b>> /\ b.index = i /\ b.kind = its[i]
               /\ b.kind = "tool" => b.id = i
               /\ b.kind # "tool" => f[<<b.kind, b.id>>] = i
    BY Zenon, <1>2 DEF AnthropicHolds
<1>4. /\ <<b.kind, b.id>> \in s.started /\ Records(d.entries)
      /\ \A m \in DOMAIN d.entries : b.kind = "tool"
      /\ A!BlockAt(d, i) = <<b>>
    BY Zenon, <1>3, AnthropicBlockIs
<1>. DEFINE next == IF b.kind = "tool" THEN [d EXCEPT !.entries = AppendArgs(@, b.id, data)] ELSE d
            t == Taken(s, Delta(b.kind, b.id, data))
            k == <<b.kind, b.id>>
<1>5. A!DeltaBlock(d, c) = [state |-> next, events |-> <<Delta(b.kind, b.id, data)>>, error |-> "none"]
    <2>1. A!BlockAt(d, c.index) # <<>> /\ Head(A!BlockAt(d, c.index)) = b
        <3>1. <<b>> # <<>> /\ Head(<<b>>) = b
            BY Zenon, HeadOfOne
        <3>. QED
            BY Zenon, <1>0, <1>4, <3>1
    <2>. QED
        BY Zenon, <1>0, <1>3, <2>1, AnthropicSame DEF A!DeltaBlock, Emits
<1>6. next.blocks = d.blocks
    BY Zenon DEF AnthropicMatch
<1>7. next.entries = IF b.kind = "tool" THEN AppendArgs(d.entries, b.id, data) ELSE d.entries
    BY Zenon DEF AnthropicMatch
<1>8. AnthropicHolds(f, next, its, DOMAIN its \ ended)
    BY Zenon, <1>2, <1>6 DEF AnthropicHolds
<1>9. Leads(s, <<Delta(b.kind, b.id, data)>>, t)
    BY Zenon, LeadsOne
<1>. HIDE DEF next, t
<1>10. Sequential(u)
    BY Zenon, <1>1 DEF Tells, Agrees
<1>11. CASE b.kind = "tool"
    <2>1. b.id = i /\ w.kind = "tool"
        BY Zenon, <1>3, <1>11
    <2>2. /\ Tells(t, AppendArgs(d.entries, i, data), v, its, ended)
          /\ SaidAlone(t, s, <<"tool", i>>, data) /\ its[i] = "tool"
        BY Zenon, <1>1, <1>4, <1>11, <2>1, TellsSaysCall DEF t
    <2>3. Homes(f, t, v, its)
        BY Zenon, <1>2, <1>10, <2>2, HomesSaidCall
    <2>4. AnthropicTells(t, next, v, its, ended)
        BY Zenon, <1>7, <1>8, <1>11, <2>1, <2>2, <2>3 DEF AnthropicTells
    <2>. QED
        BY Zenon, <1>5, <1>9, <2>4, AnthropicCameSo
<1>12. CASE b.kind # "tool"
    <2>1. b.kind \in Texts /\ w.kind = b.kind /\ f[k] = i
        BY Zenon, <1>3, <1>12 DEF Kinds, Texts
    <2>2. Tells(t, d.entries, v, its, ended) /\ SaidAlone(t, s, k, data)
        BY Zenon, <1>1, <1>4, <1>12, <2>1, TellsSays DEF t
    <2>3. k \in TextsOf(s)
        BY Zenon, <1>4, <2>1 DEF TextsOf
    <2>. HIDE DEF k
    <2>4. Homes(f, t, v, its)
        BY Zenon, <1>2, <1>10, <2>1, <2>2, <2>3, HomesSaid
    <2>5. AnthropicTells(t, next, v, its, ended)
        BY Zenon, <1>7, <1>8, <1>12, <2>2, <2>4 DEF AnthropicTells
    <2>. QED
        BY Zenon, <1>5, <1>9, <2>5, AnthropicCameSo
<1>. QED
    BY Zenon, <1>11, <1>12

\* What stopping a block returns.
AnthropicStopped(r, d) ==
    r.error = "none" =>
        \/ r.events = <<>> /\ r.state.entries = d.entries
        \/ \E b : /\ d.blocks = <<b>>
                  /\ IF b.kind = "tool"
                     THEN r.events = EndAll(d.entries) /\ r.state.entries = <<>>
                     ELSE r.events = <<End(b.kind, b.id)>> /\ r.state.entries = d.entries

LEMMA FinishCallsIs ==
    ASSUME NEW d, NEW e, NEW x, d.entries = e, NEW r, r = FinishCalls(d), r.error = "none",
           x = [d EXCEPT !.entries = <<>>]
    PROVE  r = [state |-> x, events |-> EndAll(e), error |-> "none"]
BY DEF FinishCalls, Fails, Emits

LEMMA AnthropicBlockStopped ==
    ASSUME NEW d, NEW n, NEW open, NEW S, NEW E, NEW T, AnthropicMatch(d, n, open, S, E, T),
           NEW i, open \subseteq {i}, NEW kind, NEW data,
           NEW c, c = A!Chunk("content_block_stop", i, kind, data)
    PROVE  AnthropicStopped(A!StopBlock(d, c), d)
<1>0. c.index = i
    BY DEF A!Chunk
<1>1. PICK t : t = [d EXCEPT !.blocks = A!Select(@, LAMBDA b : b.index # c.index)]
    OBVIOUS
<1>2. t.entries = d.entries
      /\ t = [entries |-> d.entries, blocks |-> t.blocks, started |-> d.started, reason |-> d.reason]
    BY <1>1 DEF AnthropicMatch
<1>3. A!StopBlock(d, c) =
          IF A!BlockAt(d, i) = <<>> THEN Emits(t, <<>>)
          ELSE IF Head(A!BlockAt(d, i)).kind = "tool" THEN FinishCalls(t)
               ELSE Emits(t, <<End(Head(A!BlockAt(d, i)).kind, Head(A!BlockAt(d, i)).id)>>)
    <2>1. A!StopBlock(d, c) =
          IF A!BlockAt(d, i) = <<>> THEN A!Emits(t, <<>>)
          ELSE IF Head(A!BlockAt(d, i)).kind = "tool" THEN A!FinishCalls(t)
               ELSE A!Emits(t, <<A!End(Head(A!BlockAt(d, i)).kind, Head(A!BlockAt(d, i)).id)>>)
        BY <1>0, <1>1 DEF A!StopBlock
    <2>. QED
        BY <2>1, AnthropicSame
<1>4. HoldsBlock(d, i, S, E)
    BY AnthropicIsOpen
<1>5. CASE A!BlockAt(d, i) = <<>>
    BY <1>2, <1>3, <1>5 DEF Emits, AnthropicStopped
<1>6. CASE A!BlockAt(d, i) # <<>>
    <2>1. PICK b : d.blocks = <<b>> /\ Head(A!BlockAt(d, i)) = b
        BY <1>4, <1>6 DEF HoldsBlock
    <2>2. CASE b.kind # "tool"
        BY <1>2, <1>3, <1>6, <2>1, <2>2 DEF Emits, AnthropicStopped
    <2>3. CASE b.kind = "tool"
        <3>1. PICK r : r = A!StopBlock(d, c)
            OBVIOUS
        <3>2. r = FinishCalls(t)
            BY <1>3, <1>6, <2>1, <2>3, <3>1
        <3>3. CASE r.error = "none"
            <4>1. PICK x : x = [t EXCEPT !.entries = <<>>]
                OBVIOUS
            <4>2. r = [state |-> x, events |-> EndAll(d.entries), error |-> "none"]
                BY <1>2, <3>2, <3>3, <4>1, FinishCallsIs
            <4>3. x.entries = <<>>
                BY <1>2, <4>1
            <4>. QED
                BY <2>1, <2>3, <3>1, <4>2, <4>3 DEF AnthropicStopped
        <3>4. CASE r.error # "none"
            BY <3>1, <3>4 DEF AnthropicStopped
        <3>. QED
            BY <3>3, <3>4
    <2>. QED
        BY <2>2, <2>3
<1>. QED
    BY <1>5, <1>6

\* What is open ends with its item.
LEMMA AnthropicTellsStop ==
    ASSUME NEW s, NEW d, NEW n, NEW open, NEW E, NEW T, AnthropicMatch(d, n, open, s.started, E, T),
           NEW u, NEW its, NEW ended, AnthropicTells(s, d, u, its, ended),
           NEW i \in DOMAIN its \ ended, DOMAIN its \ ended \subseteq {i},
           NEW more, more = ended \cup {i}, NEW r, AnthropicStopped(r, d)
    PROVE  AnthropicCame(s, r, u, its, more)
<1>. SUFFICES ASSUME r.error = "none"
              PROVE  \E t : Leads(s, r.events, t) /\ AnthropicTells(t, r.state, u, its, more)
    BY DEF AnthropicCame
<1>1. Tells(s, d.entries, u, its, ended) /\ EntriesAre(d.entries, u)
    BY DEF AnthropicTells, Tells
<1>2. PICK f : Homes(f, s, u, its) /\ AnthropicHolds(f, d, its, DOMAIN its \ ended)
    BY DEF AnthropicTells
<1>3. Calm(r.events, s, u, {i}) /\ EntriesAre(r.state.entries, u)
    <2>1. CASE r.events = <<>> /\ r.state.entries = d.entries
        BY <1>1, <2>1, CalmNone
    <2>2. ASSUME NEW b, d.blocks = <<b>>, b.kind # "tool",
                 r.events = <<End(b.kind, b.id)>>, r.state.entries = d.entries
          PROVE  Calm(r.events, s, u, {i}) /\ EntriesAre(r.state.entries, u)
        <3>1. CalmEvent(End(b.kind, b.id), s, u, {i})
            BY EndIs DEF CalmEvent
        <3>. QED
            BY <1>1, <2>2, <3>1, CalmOne
    <2>3. ASSUME NEW b, d.blocks = <<b>>, b.kind = "tool",
                 r.events = EndAll(d.entries), r.state.entries = <<>>
          PROVE  Calm(r.events, s, u, {i}) /\ EntriesAre(r.state.entries, u)
        <3>1. b.id = i
            <4>1. CASE its[i] \in Kinds
                <5>1. PICK c : d.blocks = <<c>> /\ (c.kind = "tool" => c.id = i)
                    BY <1>2, <4>1 DEF AnthropicHolds
                <5>2. b = c
                    BY <2>3, <5>1
                <5>. QED
                    BY <2>3, <5>1, <5>2
            <4>2. CASE its[i] \notin Kinds
                <5>1. d.blocks = <<>>
                    BY <1>2, <4>2 DEF AnthropicHolds
                <5>2. <<b>> # <<>>
                    OBVIOUS
                <5>. QED
                    BY <2>3, <5>1, <5>2
            <4>. QED
                BY <4>1, <4>2
        <3>0. d.blocks = <<b>>
            BY <2>3
        <3>2. /\ Records(d.entries)
              /\ \A m \in DOMAIN d.entries : d.entries[m].id = b.id /\ <<"tool", d.entries[m].id>> \in s.started
            <4>1. \A m \in DOMAIN d.entries : /\ b.kind = "tool" /\ d.entries[m].id = b.id
                                              /\ <<"tool", d.entries[m].id>> \in s.started
                BY <3>0, AnthropicBlockIs
            <4>2. Records(d.entries)
                BY <3>0, AnthropicBlockIs
            <4>. QED
                BY <4>1, <4>2
        <3>3. Sequential(d.entries)
            BY <3>2 DEF Records
        <3>4. Calm(EndAll(d.entries), s, u, {i})
            BY <1>1, <3>1, <3>2, <3>3, CalmAll
        <3>. QED
            BY <2>3, <3>4, EntriesNone
    <2>. QED
        BY <2>1, <2>2, <2>3 DEF AnthropicStopped
<1>4. ended \cup {i} \subseteq more
    OBVIOUS
<1>5. PICK t : Leads(s, r.events, t) /\ Tells(t, r.state.entries, u, its, more) /\ Still(t, s)
    BY <1>1, <1>3, <1>4, TellsCalm
<1>6. Homes(f, t, u, its)
    BY <1>2, <1>5, HomesStill
<1>7. AnthropicHolds(f, r.state, its, DOMAIN its \ more)
    BY DEF AnthropicHolds
<1>. QED
    BY <1>5, <1>6, <1>7 DEF AnthropicTells

LEMMA AnthropicTellsOthers ==
    ASSUME NEW s, NEW d, NEW n, NEW open, NEW E, NEW T, AnthropicMatch(d, n, open, s.started, E, T),
           NEW u, NEW its, NEW ended, AnthropicTells(s, d, u, its, ended), NEW c,
           \/ \E x : c = A!Chunk("message_delta", 0, "", x)
           \/ \E x : c = A!Chunk("error", 0, "", x)
    PROVE  AnthropicCame(s, A!HandleChunk(d, c), u, its, ended)
<1>1. CASE \E x : c = A!Chunk("message_delta", 0, "", x)
    <2>. PICK x : c = A!Chunk("message_delta", 0, "", x)
        BY Zenon, <1>1
    <2>1. c.type = "message_delta"
        BY Zenon DEF A!Chunk
    <2>2. PICK next : next = [d EXCEPT !.reason = c.data]
        OBVIOUS
    <2>3. A!HandleChunk(d, c) = [state |-> next, events |-> <<>>, error |-> "none"]
        BY Zenon, <2>1, <2>2, AnthropicSame DEF A!HandleChunk, Emits
    <2>4. next.entries = d.entries /\ next.blocks = d.blocks
        BY Zenon, <2>2 DEF AnthropicMatch
    <2>. QED
        BY Zenon, <2>3, <2>4, AnthropicNothing
<1>2. CASE \E x : c = A!Chunk("error", 0, "", x)
    <2>. PICK x : c = A!Chunk("error", 0, "", x)
        BY Zenon, <1>2
    <2>1. c.type = "error"
        BY Zenon DEF A!Chunk
    <2>2. A!HandleChunk(d, c) = A!HandleError(d, c)
        BY Zenon, <2>1 DEF A!HandleChunk
    <2>3. CASE c.data = "unrecognized"
        <3>1. A!HandleChunk(d, c) = [state |-> d, events |-> <<ProviderError>>, error |-> "none"]
            BY Zenon, <2>2, <2>3, AnthropicSame DEF A!HandleError, Emits
        <3>2. CalmEvent(ProviderError, s, u, {})
            BY Zenon, FinishIs DEF CalmEvent
        <3>3. Calm(<<ProviderError>>, s, u, {})
            BY Zenon, <3>2, CalmOne
        <3>4. Tells(s, d.entries, u, its, ended) /\ EntriesAre(d.entries, u) /\ ended \cup {} \subseteq ended
            BY Zenon DEF AnthropicTells, Tells
        <3>5. PICK t : Leads(s, <<ProviderError>>, t) /\ Tells(t, d.entries, u, its, ended) /\ Still(t, s)
            BY Zenon, <3>3, <3>4, TellsCalm
        <3>6. PICK f : Homes(f, s, u, its) /\ AnthropicHolds(f, d, its, DOMAIN its \ ended)
            BY Zenon DEF AnthropicTells
        <3>7. Homes(f, t, u, its)
            BY Zenon, <3>5, <3>6, HomesStill
        <3>8. AnthropicTells(t, d, u, its, ended)
            BY Zenon, <3>5, <3>6, <3>7 DEF AnthropicTells
        <3>. QED
            BY Zenon, <3>1, <3>5, <3>8, AnthropicCameSo
    <2>4. CASE c.data # "unrecognized"
        <3>1. PICK r : r = A!HandleChunk(d, c)
            OBVIOUS
        <3>2. r = [state |-> d, events |-> <<>>, error |-> c.data]
            BY Zenon, <2>2, <2>4, <3>1, AnthropicSame DEF A!HandleError, Fails
        <3>3. AnthropicCame(s, r, u, its, ended)
            BY Zenon, <3>2, AnthropicNothing
        <3>. QED
            BY Zenon, <3>1, <3>3
    <2>. QED
        BY Zenon, <2>3, <2>4
<1>. QED
    BY Zenon, <1>1, <1>2

\* The end of the stream tells what is open.
EndTold(s, r, u, its) ==
    r.error = "none" =>
        \E t : Leads(s, r.events, t) /\ Agrees(t, u, its) /\ \E f : Homes(f, t, u, its)

LEMMA CalmFlush ==
    ASSUME NEW s, NEW entries, NEW u, NEW its, NEW ended, Tells(s, entries, u, its, ended),
           Sequential(entries), \A m \in DOMAIN entries : <<"tool", entries[m].id>> \in s.started,
           NEW ends, NEW K, Calm(ends, s, u, K), Named(entries) \subseteq K, NEW reason,
           NEW q, q = ends \o EndAll(entries) \o <<Finish(reason)>>
    PROVE  \E t : Leads(s, q, t) /\ Agrees(t, u, its) /\ Still(t, s)
<1>1. EntriesAre(entries, u) /\ Agrees(s, u, its)
    BY DEF Tells
<1>2. \A m \in DOMAIN entries : entries[m].id \in K
    BY SequenceIs DEF Named
<1>3. Calm(EndAll(entries), s, u, K)
    BY <1>1, <1>2, CalmAll
<1>4. PICK p : p = ends \o EndAll(entries)
    OBVIOUS
<1>5. Calm(p, s, u, K)
    BY <1>3, <1>4, CalmJoin DEF Follows
<1>6. Calm(<<Finish(reason)>>, s, u, K)
    <2>1. CalmEvent(Finish(reason), s, u, K)
        BY FinishIs DEF CalmEvent
    <2>. QED
        BY <2>1, CalmOne
<1>7. Calm(q, s, u, K)
    BY <1>4, <1>5, <1>6, CalmJoin DEF Follows
<1>8. PICK t : Leads(s, q, t)
    BY <1>7, LeadsSomewhere DEF Calm
<1>. QED
    BY <1>1, <1>7, <1>8, CalmLeads

LEMMA AnthropicFlushIs ==
    ASSUME NEW d, A!Flush(d).error = "none"
    PROVE  A!Flush(d).events = EndsOf(Spoken(d.blocks)) \o EndAll(d.entries) \o <<Finish(d.reason)>>
<1>. DEFINE gone  == Spoken(d.blocks)
            ends  == EndsOf(gone)
            calls == FinishCalls(d)
<1>1. A!Flush(d) = IF calls.error # "none" THEN calls
                   ELSE Emits([calls.state EXCEPT !.blocks = <<>>],
                              ends \o calls.events \o <<Finish(d.reason)>>)
    <2>1. ends = [k \in DOMAIN gone |-> A!End(gone[k].kind, gone[k].id)]
        BY AnthropicSame DEF EndsOf
    <2>2. gone = A!Select(d.blocks, LAMBDA b : b.kind # "tool")
        BY DEF Spoken
    <2>3. calls = A!FinishCalls(d) /\ <<Finish(d.reason)>> = <<A!Finish(d.reason)>>
        BY AnthropicSame
    <2>. HIDE DEF ends, gone, calls
    <2>4. A!Flush(d) = IF calls.error # "none" THEN calls
                   ELSE A!Emits([calls.state EXCEPT !.blocks = <<>>],
                              ends \o calls.events \o <<A!Finish(d.reason)>>)
        BY <2>1, <2>2, <2>3 DEF A!Flush
    <2>. QED
        BY <2>3, <2>4, AnthropicSame
<1>2. CASE ~ AllParse(d.entries)
    <2>1. calls.error = "invalid-provider-output"
        BY <1>2 DEF FinishCalls, Fails
    <2>. HIDE DEF calls
    <2>. QED
        BY <1>1, <2>1
<1>3. CASE AllParse(d.entries)
    <2>1. calls.error = "none" /\ calls.events = EndAll(d.entries)
        BY <1>3 DEF FinishCalls, Emits
    <2>. HIDE DEF calls, ends
    <2>2. A!Flush(d).events = ends \o EndAll(d.entries) \o <<Finish(d.reason)>>
        BY <1>1, <2>1 DEF Emits
    <2>. QED
        BY <2>2 DEF ends
<1>. QED
    BY <1>2, <1>3

LEMMA AnthropicTellsEnd ==
    ASSUME NEW s, NEW d, NEW n, NEW open, NEW E, NEW T, AnthropicMatch(d, n, open, s.started, E, T),
           NEW u, NEW its, NEW ended, AnthropicTells(s, d, u, its, ended)
    PROVE  EndTold(s, A!Flush(d), u, its)
<1>. SUFFICES ASSUME A!Flush(d).error = "none"
              PROVE  \E t : Leads(s, A!Flush(d).events, t) /\ Agrees(t, u, its) /\ \E f : Homes(f, t, u, its)
    BY DEF EndTold
<1>1. PICK q : q = A!Flush(d).events
    OBVIOUS
<1>2. q = EndsOf(Spoken(d.blocks)) \o EndAll(d.entries) \o <<Finish(d.reason)>>
    BY <1>1, AnthropicFlushIs
<1>3. Sequential(Spoken(d.blocks))
    <2>1. CASE d.blocks = <<>>
        BY <2>1, NoBlock, Nothing
    <2>2. CASE \E b : d.blocks = <<b>>
        BY Zenon, <2>2, OneBlock, Nothing, OneElement
    <2>. QED
        BY <2>1, <2>2 DEF AnthropicMatch
<1>4. Calm(EndsOf(Spoken(d.blocks)), s, u, Named(d.entries))
    BY <1>3, CalmEnds
<1>5. Sequential(d.entries) /\ \A m \in DOMAIN d.entries : <<"tool", d.entries[m].id>> \in s.started
    BY CallsMatchRecords DEF AnthropicMatch, Records
<1>6. Tells(s, d.entries, u, its, ended)
    BY DEF AnthropicTells
<1>7. Named(d.entries) \subseteq Named(d.entries)
    OBVIOUS
<1>8. PICK t : Leads(s, q, t) /\ Agrees(t, u, its) /\ Still(t, s)
    BY <1>2, <1>4, <1>5, <1>6, <1>7, CalmFlush
<1>9. PICK f : Homes(f, s, u, its)
    BY DEF AnthropicTells
<1>10. Homes(f, t, u, its)
    BY <1>8, <1>9, HomesStill
<1>. QED
    BY <1>1, <1>8, <1>10

-----------------------------------------------------------------------------
(* Chat completions: the texts follow one another.                         *)

\* What the contents of a kind hold, in the order they started.
TurnOf(s, kind) ==
    [n \in DOMAIN s.order |-> IF s.order[n][1] = kind THEN s.buffers[s.order[n]] ELSE <<>>]
InTurn(s) == \A kind \in Texts : Prose(s, kind) = FlattenSeq(TurnOf(s, kind))

IsLast(order, k) == \E n : Long(order, n) /\ n \in DOMAIN order /\ order[n] = k
Distinct(order)  == \A m, n \in DOMAIN order : order[m] = order[n] => m = n

\* An open text is the last content that was begun.
ChatHolds(s, d) ==
    /\ InTurn(s) /\ Distinct(s.order)
    /\ \A kind \in Texts : d.open[kind] # 0 => IsLast(s.order, <<kind, d.open[kind]>>)

LEMMA TurnIs ==
    ASSUME NEW s, Listed(s), NEW kind, NEW n, Long(s.order, n)
    PROVE  /\ Long(TurnOf(s, kind), n) /\ Nested(TurnOf(s, kind))
           /\ \A i \in 1..n : TurnOf(s, kind)[i] =
                 IF s.order[i][1] = kind THEN s.buffers[s.order[i]] ELSE <<>>
<1>. DEFINE q == TurnOf(s, kind)
<1>1. n \in Nat /\ DOMAIN s.order = 1..n
    BY LongNext
<1>2. Lists(q, n)
    BY <1>1 DEF Lists, TurnOf
<1>3. \A i \in 1..n : q[i] = IF s.order[i][1] = kind THEN s.buffers[s.order[i]] ELSE <<>>
    BY <1>1 DEF TurnOf
<1>. HIDE DEF q
<1>4. Long(q, n)
    BY <1>2, ListsIs
<1>5. ASSUME NEW i \in 1..n PROVE Sequential(q[i])
    BY <1>1, <1>3, Nothing DEF Listed
<1>6. Nested(q)
    BY <1>4, <1>5 DEF Nested, Long
<1>. QED
    BY <1>3, <1>4, <1>6 DEF q

\* The last member of a nested sequence grows.
LEMMA LastGrows ==
    ASSUME NEW a, NEW b, NEW m, Long(a, m), Long(b, m), Nested(a), m \in DOMAIN a, NEW x,
           \A i \in 1..m : i # m => b[i] = a[i], Adds(b[m], a[m], x)
    PROVE  Adds(FlattenSeq(b), FlattenSeq(a), x)
<1>1. m \in Nat /\ DOMAIN a = 1..m
    BY LongNext
<1>2. PICK n : n \in Nat /\ m = n + 1
    <2>1. m - 1 \in Nat /\ m = (m - 1) + 1
        BY <1>1
    <2>. QED
        BY <2>1
<1>3. PICK c : c = [i \in 1..n |-> a[i]]
    OBVIOUS
<1>4. Lists(c, n) /\ \A i \in 1..n : c[i] = a[i]
    BY <1>2, <1>3 DEF Lists
<1>5. Long(c, n)
    BY <1>4, ListsIs
<1>6. \A i \in 1..n : i \in 1..m /\ i # m
    BY <1>2
<1>7. m \in 1..m
    BY <1>1
<1>8. Sequential(a[m]) /\ \A i \in 1..n : Sequential(c[i])
    BY <1>4, <1>6, <1>7 DEF Nested, Long
<1>9. Nested(c)
    BY <1>5, <1>8 DEF Nested, Long
<1>10. Sequential(b[m])
    BY <1>8, AddsMembers
<1>11. /\ Long(a, n + 1) /\ Long(b, n + 1) /\ Sequential(a[n + 1]) /\ Sequential(b[n + 1])
       /\ \A i \in 1..n : a[i] = c[i] /\ b[i] = c[i]
    BY <1>2, <1>4, <1>6, <1>8, <1>10
<1>12. Follows(FlattenSeq(a), FlattenSeq(c), a[n + 1]) /\ Sequential(FlattenSeq(c))
    BY <1>5, <1>9, <1>11, FlattenGrows
<1>13. Follows(FlattenSeq(b), FlattenSeq(c), b[n + 1])
    BY <1>5, <1>9, <1>11, FlattenGrows
<1>14. Adds(b[n + 1], a[n + 1], x)
    BY <1>2
<1>15. PICK p, q, r, y : p = FlattenSeq(c) /\ q = a[n + 1] /\ r = b[n + 1] /\ y = <<x>>
    OBVIOUS
<1>16. Sequential(p) /\ Sequential(q) /\ Sequential(y) /\ Adds(r, q, x)
    BY <1>11, <1>12, <1>14, <1>15, OneElement
<1>17. r = q \o y
    BY <1>15, <1>16, Appended DEF Adds
<1>18. p \o (q \o y) = (p \o q) \o y /\ Sequential(p \o q)
    <2>1. Regrouped(p, q, y)
        BY <1>16, Regrouping
    <2>. QED
        BY <2>1 DEF Regrouped
<1>19. (p \o q) \o <<x>> = Append(p \o q, x)
    BY <1>18, Appended
<1>20. FlattenSeq(a) = p \o q /\ FlattenSeq(b) = p \o r
    BY <1>12, <1>13, <1>15 DEF Follows
<1>. QED
    BY <1>15, <1>17, <1>18, <1>19, <1>20 DEF Adds

\* Content begins: it is the last.
LEMMA TurnBegins ==
    ASSUME NEW s, Listed(s), InTurn(s), Distinct(s.order), NEW k, k \notin s.started,
           NEW t, TookStart(t, s, k)
    PROVE  InTurn(t) /\ Distinct(t.order) /\ IsLast(t.order, k)
<1>1. PICK n : Long(s.order, n) /\ DOMAIN s.order = 1..n
    BY LongIs DEF Listed
<1>2. Adds(t.order, s.order, k) /\ BufferSet(t.buffers, s.buffers, k, <<>>)
      /\ t.text = s.text /\ t.reasoning = s.reasoning
    BY DEF TookStart
<1>3. Long(t.order, n + 1) /\ t.order[n + 1] = k /\ \A i \in 1..n : t.order[i] = s.order[i]
    BY <1>1, <1>2, LongAppend
<1>4. DOMAIN t.order = 1..(n + 1) /\ n + 1 \in 1..(n + 1) /\ n \in Nat
    BY <1>1, <1>3, LongNext
<1>5. Listed(t)
    BY ListedMore
<1>6. \A i \in 1..n : s.order[i] \in DOMAIN s.buffers /\ s.order[i] # k
    BY <1>1 DEF Listed
<1>7. ASSUME NEW kind \in Texts PROVE Prose(t, kind) = FlattenSeq(TurnOf(t, kind))
    <2>1. PICK a, b : a = TurnOf(s, kind) /\ b = TurnOf(t, kind)
        OBVIOUS
    <2>2. /\ Long(a, n) /\ Nested(a)
          /\ \A i \in 1..n : a[i] = IF s.order[i][1] = kind THEN s.buffers[s.order[i]] ELSE <<>>
        BY <1>1, <2>1, TurnIs
    <2>3. /\ Long(b, n + 1)
          /\ \A i \in 1..(n + 1) : b[i] = IF t.order[i][1] = kind THEN t.buffers[t.order[i]] ELSE <<>>
        BY <1>3, <1>5, <2>1, TurnIs
    <2>4. \A i \in 1..n : i \in 1..(n + 1)
        BY <1>1, LongNext
    <2>5. \A i \in 1..n : b[i] = a[i]
        BY <1>2, <1>3, <1>6, <2>2, <2>3, <2>4 DEF BufferSet
    <2>6. b[n + 1] = <<>>
        BY <1>2, <1>3, <1>4, <2>3 DEF BufferSet
    <2>7. Sequential(b[n + 1])
        BY <2>6, Nothing
    <2>8. Follows(FlattenSeq(b), FlattenSeq(a), b[n + 1]) /\ Sequential(FlattenSeq(a))
        BY <2>2, <2>3, <2>5, <2>7, FlattenGrows
    <2>9. FlattenSeq(b) = FlattenSeq(a)
        BY <2>6, <2>8, FollowsNone
    <2>. QED
        BY <1>2, <2>1, <2>9 DEF InTurn, Prose
<1>8. Distinct(t.order)
    BY <1>1, <1>3, <1>4, <1>6, UpTo DEF Distinct
<1>. QED
    BY <1>3, <1>4, <1>7, <1>8 DEF InTurn, IsLast

\* A piece is said of the last content.
LEMMA TurnSays ==
    ASSUME NEW s, Listed(s), InTurn(s), Distinct(s.order), NEW t, Listed(t),
           NEW kind \in Texts, NEW k, k[1] = kind, IsLast(s.order, k), k \in s.started,
           NEW piece, SaidAlone(t, s, k, piece)
    PROVE  InTurn(t)
<1>1. PICK n : Long(s.order, n) /\ n \in DOMAIN s.order /\ s.order[n] = k
    BY DEF IsLast
<1>2. t.order = s.order /\ DOMAIN s.order = 1..n
    BY <1>1, LongNext DEF SaidAlone
<1>3. \A i \in 1..n : i # n => s.order[i] # k /\ s.order[i] \in DOMAIN s.buffers
    BY <1>1, <1>2 DEF Distinct, Listed
<1>4. /\ \A j \in DOMAIN s.buffers : j # k => t.buffers[j] = s.buffers[j]
      /\ Adds(t.buffers[k], s.buffers[k], piece)
      /\ \A j \in Texts : Extends(Prose(t, j), Prose(s, j), j = kind, piece)
    BY DEF SaidAlone
<1>. SUFFICES ASSUME NEW j \in Texts PROVE Prose(t, j) = FlattenSeq(TurnOf(t, j))
    BY DEF InTurn
<1>5. PICK a, b : a = TurnOf(s, j) /\ b = TurnOf(t, j)
    OBVIOUS
<1>6. /\ Long(a, n) /\ Nested(a)
      /\ \A i \in 1..n : a[i] = IF s.order[i][1] = j THEN s.buffers[s.order[i]] ELSE <<>>
    BY <1>1, <1>5, TurnIs
<1>7. Long(t.order, n)
    BY <1>1, <1>2
<1>8. /\ Long(b, n)
      /\ \A i \in 1..n : b[i] = IF t.order[i][1] = j THEN t.buffers[t.order[i]] ELSE <<>>
    BY <1>5, <1>7, TurnIs
<1>9. \A i \in 1..n : i # n => b[i] = a[i]
    BY <1>2, <1>3, <1>4, <1>6, <1>8
<1>10. Prose(s, j) = FlattenSeq(a)
    BY <1>5 DEF InTurn
<1>11. CASE j = kind
    <2>1. a[n] = s.buffers[k] /\ b[n] = t.buffers[k] /\ n \in DOMAIN a
        BY <1>1, <1>2, <1>6, <1>8, <1>11, LongNext
    <2>2. Adds(b[n], a[n], piece)
        BY <1>4, <2>1
    <2>3. Adds(FlattenSeq(b), FlattenSeq(a), piece)
        BY <1>6, <1>8, <1>9, <2>1, <2>2, LastGrows
    <2>4. Adds(Prose(t, j), FlattenSeq(a), piece)
        BY <1>4, <1>10, <1>11 DEF Extends
    <2>5. Prose(t, j) = FlattenSeq(b)
        BY <2>3, <2>4, AddsSame
    <2>. QED
        BY <1>5, <2>5
<1>12. CASE j # kind
    <2>1. b[n] = a[n]
        BY <1>1, <1>2, <1>6, <1>8, <1>12
    <2>2. b = a
        BY <1>6, <1>8, <1>9, <2>1, SameSequence
    <2>3. Prose(t, j) = Prose(s, j)
        BY <1>4, <1>12 DEF Extends
    <2>. QED
        BY <1>5, <1>10, <2>2, <2>3
<1>. QED
    BY <1>11, <1>12

\* A piece of a call's input is no text.
LEMMA TurnSaysCall ==
    ASSUME NEW s, Listed(s), InTurn(s), NEW t, Listed(t), NEW id, NEW piece,
           SaidAlone(t, s, <<"tool", id>>, piece)
    PROVE  InTurn(t)
<1>1. PICK n : Long(s.order, n) /\ DOMAIN s.order = 1..n
    BY LongIs DEF Listed
<1>2. t.order = s.order
    BY DEF SaidAlone
<1>3. "tool" \notin Texts
    BY DEF Texts
<1>4. PICK k : k = <<"tool", id>>
    OBVIOUS
<1>5. k[1] = "tool" /\ SaidAlone(t, s, k, piece)
    BY <1>4
<1>6. /\ \A j \in DOMAIN s.buffers : j # k => t.buffers[j] = s.buffers[j]
      /\ \A j \in Texts : Extends(Prose(t, j), Prose(s, j), j = "tool", piece)
    BY <1>5 DEF SaidAlone
<1>. SUFFICES ASSUME NEW j \in Texts PROVE Prose(t, j) = FlattenSeq(TurnOf(t, j))
    BY DEF InTurn
<1>7. PICK a, b : a = TurnOf(s, j) /\ b = TurnOf(t, j)
    OBVIOUS
<1>8. /\ Long(a, n)
      /\ \A i \in 1..n : a[i] = IF s.order[i][1] = j THEN s.buffers[s.order[i]] ELSE <<>>
    BY <1>1, <1>7, TurnIs
<1>9. Long(t.order, n)
    BY <1>1, <1>2
<1>10. /\ Long(b, n)
       /\ \A i \in 1..n : b[i] = IF t.order[i][1] = j THEN t.buffers[t.order[i]] ELSE <<>>
    BY <1>7, <1>9, TurnIs
<1>11. \A i \in 1..n : s.order[i][1] = j => s.order[i] # k /\ s.order[i] \in DOMAIN s.buffers
    BY <1>1, <1>3, <1>5 DEF Listed
<1>12. \A i \in 1..n : b[i] = a[i]
    BY <1>2, <1>6, <1>8, <1>10, <1>11
<1>13. b = a
    BY <1>8, <1>10, <1>12, SameSequence
<1>14. Prose(t, j) = Prose(s, j)
    BY <1>3, <1>6 DEF Extends
<1>. QED
    BY <1>7, <1>13, <1>14 DEF InTurn

LEMMA TurnStill ==
    ASSUME NEW s, InTurn(s), NEW t, Still(t, s)
    PROVE  InTurn(t)
<1>1. \A kind : TurnOf(t, kind) = TurnOf(s, kind)
    BY DEF Still, TurnOf
<1>. QED
    BY <1>1 DEF InTurn, Still, Prose

\* What a part of the handler has told.
ChatTells(s, r, u, its) ==
    \E t : /\ Leads(s, r.events, t) /\ Tells(t, r.state.entries, u, its, {})
           /\ ChatHolds(t, r.state)

\* The summary s is that of the log L.
ChatAlong(L, s, r, u, its) ==
    /\ Sequential(L) /\ IsSummary(s) /\ s.started = Begun(L)
    /\ ChatGoes(L, r) /\ ChatTells(s, r, u, its)

ChatStands(s, r, u, its, t, E, T) ==
    /\ Leads(s, r.events, t) /\ Tells(t, r.state.entries, u, its, {}) /\ ChatHolds(t, r.state)
    /\ ChatMatch(r.state, t.started, E, T)

LEMMA ChatKnows ==
    ASSUME NEW L, NEW s, NEW r, NEW u, NEW its, ChatAlong(L, s, r, u, its)
    PROVE  \E t, E, T : ChatStands(s, r, u, its, t, E, T)
<1>1. Sequential(L) /\ IsSummary(s) /\ s.started = Begun(L) /\ ChatGoes(L, r)
    BY DEF ChatAlong
<1>2. PICK t : /\ Leads(s, r.events, t) /\ Tells(t, r.state.entries, u, its, {})
               /\ ChatHolds(t, r.state)
    BY DEF ChatAlong, ChatTells
<1>3. PICK S, E, T : Runs(L, r.events, S, E, T) /\ ChatMatch(r.state, S, E, T)
    BY <1>1 DEF ChatGoes
<1>4. Lawful(L \o r.events) /\ Begun(L \o r.events) = S
    BY <1>3 DEF Runs, Reaches
<1>5. t.started = S
    BY <1>1, <1>2, <1>4, LeadsBegins
<1>. QED
    BY <1>2, <1>3, <1>5 DEF ChatStands

\* One event more.
LEMMA ChatTellsOn ==
    ASSUME NEW L, NEW s, NEW r, NEW u, NEW its, ChatAlong(L, s, r, u, its),
           NEW t, Leads(s, r.events, t), NEW e, NEW x, NEW q, ChatGoes(L, q),
           q = [state |-> x, events |-> r.events \o <<e>>, error |-> "none"],
           NEW v, NEW more, Tells(Taken(t, e), x.entries, v, more, {}), ChatHolds(Taken(t, e), x)
    PROVE  ChatAlong(L, s, q, v, more)
<1>1. PICK p, y : p = r.events /\ y = <<e>>
    OBVIOUS
<1>2. q.state = x /\ q.events = p \o y
    BY <1>1
<1>3. Leads(t, y, Taken(t, e))
    BY <1>1, LeadsOne
<1>4. Leads(s, q.events, Taken(t, e))
    BY <1>1, <1>2, <1>3, LeadsOn DEF Follows
<1>5. ChatTells(s, q, v, more)
    BY <1>2, <1>4 DEF ChatTells
<1>. QED
    BY <1>5 DEF ChatAlong

\* What closing a text returns.
ChatClosed(q, r, kind, x) ==
    /\ q = [state |-> x, events |-> r.events \o <<End(kind, r.state.open[kind])>>, error |-> "none"]
    /\ x.entries = r.state.entries /\ x.known = r.state.known /\ x.open[kind] = 0
    /\ \A k \in Texts \ {kind} : x.open[k] = r.state.open[k]

LEMMA ChatClosedIs ==
    ASSUME NEW r, NEW S, NEW E, NEW T, ChatMatch(r.state, S, E, T), NEW kind \in Texts,
           r.state.open[kind] # 0
    PROVE  \E x : ChatClosed(O!Close(r, kind), r, kind, x)
<1>. DEFINE d == r.state
<1>1. PICK x : x = [d EXCEPT !.open[kind] = 0]
    OBVIOUS
<1>2. x = [entries |-> d.entries, known |-> d.known,
           open |-> [k \in Texts |-> IF k = kind THEN 0 ELSE d.open[k]],
           started |-> d.started, reason |-> d.reason]
    BY <1>1 DEF ChatMatch
<1>3. O!Close(r, kind)
        = [state |-> x, events |-> r.events \o <<End(kind, d.open[kind])>>, error |-> "none"]
    BY <1>1, ChatSame DEF O!Close, O!Plus, Emits
<1>4. /\ x.entries = d.entries /\ x.known = d.known /\ x.open[kind] = 0
      /\ \A k \in Texts \ {kind} : x.open[k] = d.open[k]
    BY <1>2
<1>. QED
    BY <1>3, <1>4 DEF ChatClosed

LEMMA ChatTellsClose ==
    ASSUME NEW L, NEW s, NEW r, NEW u, NEW its, ChatAlong(L, s, r, u, its), NEW kind \in Texts
    PROVE  ChatAlong(L, s, O!Close(r, kind), u, its)
<1>1. PICK t, E, T : ChatStands(s, r, u, its, t, E, T)
    BY ChatKnows
<1>2. CASE r.state.open[kind] = 0
    <2>1. O!Close(r, kind) = r
        BY <1>2 DEF O!Close
    <2>. QED
        BY <2>1
<1>3. CASE r.state.open[kind] # 0
    <2>1. PICK x : ChatClosed(O!Close(r, kind), r, kind, x)
        BY <1>1, <1>3, ChatClosedIs DEF ChatStands
    <2>2. PICK e : e = End(kind, r.state.open[kind])
        OBVIOUS
    <2>3. CalmEvent(e, t, u, {})
        BY <2>2, EndIs DEF CalmEvent
    <2>4. Tells(t, r.state.entries, u, its, {}) /\ Agrees(t, u, its) /\ ChatHolds(t, r.state)
          /\ Leads(s, r.events, t)
        BY <1>1 DEF ChatStands, Tells
    <2>5. /\ Agrees(Taken(t, e), u, its) /\ Still(Taken(t, e), t)
          /\ CallIds(Taken(t, e)) \subseteq CallIds(t) \cup {}
        BY <2>3, <2>4, CalmStep
    <2>6. x.entries = r.state.entries
        BY <2>1 DEF ChatClosed
    <2>7. Tells(Taken(t, e), x.entries, u, its, {})
        BY <2>4, <2>5, <2>6 DEF Tells
    <2>8. ChatHolds(Taken(t, e), x)
        <3>1. InTurn(Taken(t, e)) /\ Taken(t, e).order = t.order
            BY <2>4, <2>5, TurnStill DEF ChatHolds, Still
        <3>2. \A k \in Texts : x.open[k] # 0 => x.open[k] = r.state.open[k]
            BY <2>1 DEF ChatClosed
        <3>. QED
            BY <2>4, <3>1, <3>2 DEF ChatHolds
    <2>9. ChatGoes(L, O!Close(r, kind))
        BY ChatCloses DEF ChatAlong
    <2>10. O!Close(r, kind) = [state |-> x, events |-> r.events \o <<e>>, error |-> "none"]
        BY <2>1, <2>2 DEF ChatClosed
    <2>. QED
        BY <2>4, <2>7, <2>8, <2>9, <2>10, ChatTellsOn
<1>. QED
    BY <1>2, <1>3

\* What opening a text returns.
ChatOpenedAs(q, r, kind, n, x) ==
    /\ q = [state |-> x, events |-> r.events \o <<Start(kind, n)>>, error |-> "none"]
    /\ x.entries = r.state.entries /\ x.known = r.state.known /\ x.open[kind] = n
    /\ \A k \in Texts \ {kind} : x.open[k] = r.state.open[k]

LEMMA ChatOpenedIs ==
    ASSUME NEW r, NEW S, NEW E, NEW T, ChatMatch(r.state, S, E, T), NEW kind \in Texts
    PROVE  \E n, x : ChatOpenedAs(ChatOpened(r, kind), r, kind, n, x) /\ <<kind, n>> \notin S
<1>0. PICK d : d = r.state
    OBVIOUS
<1>1. PICK n : n = d.started[kind] + 1
    OBVIOUS
<1>2. PICK x : x = [d EXCEPT !.started[kind] = n, !.open[kind] = n]
    OBVIOUS
<1>3. <<kind, n>> \notin S
    <2>1. d.started[kind] \in Nat /\ \A m \in Nat : m > d.started[kind] => <<kind, m>> \notin S
        BY <1>0 DEF ChatMatch
    <2>2. n \in Nat /\ n > d.started[kind]
        BY <1>1, <2>1
    <2>. QED
        BY <2>1, <2>2
<1>4. ChatOpened(r, kind) = [state |-> x, events |-> r.events \o <<Start(kind, n)>>, error |-> "none"]
    BY <1>0, <1>1, <1>2, ChatSame DEF ChatOpened, O!Plus, Emits, ChatNumber
<1>5. /\ x.entries = d.entries /\ x.known = d.known /\ x.open[kind] = n
      /\ \A k \in Texts \ {kind} : x.open[k] = d.open[k]
    <2>1. /\ d = [entries |-> d.entries, known |-> d.known, open |-> d.open,
                  started |-> d.started, reason |-> d.reason]
          /\ d.open = [k \in Texts |-> d.open[k]] /\ d.started = [k \in Texts |-> d.started[k]]
        BY <1>0 DEF ChatMatch
    <2>2. PICK c : c = [d EXCEPT !.started[kind] = n]
        OBVIOUS
    <2>3. c = [entries |-> d.entries, known |-> d.known, open |-> d.open,
               started |-> c.started, reason |-> d.reason]
        BY <2>1, <2>2
    <2>4. x = [c EXCEPT !.open[kind] = n]
        BY <1>2, <2>1, <2>2
    <2>5. x = [entries |-> d.entries, known |-> d.known,
               open |-> [d.open EXCEPT ![kind] = n], started |-> c.started, reason |-> d.reason]
        BY <2>3, <2>4
    <2>6. /\ [d.open EXCEPT ![kind] = n][kind] = n
          /\ \A k \in Texts \ {kind} : [d.open EXCEPT ![kind] = n][k] = d.open[k]
        BY <2>1
    <2>. QED
        BY <2>5, <2>6
<1>. QED
    BY <1>0, <1>3, <1>4, <1>5 DEF ChatOpenedAs

\* A text opens when none of the other kind is open.
LEMMA ChatTellsOpen ==
    ASSUME NEW L, NEW s, NEW r, NEW u, NEW its, ChatAlong(L, s, r, u, its), NEW kind \in Texts,
           \A k \in Texts : r.state.open[k] = 0
    PROVE  ChatAlong(L, s, ChatOpened(r, kind), u, its)
<1>1. PICK t, E, T : ChatStands(s, r, u, its, t, E, T)
    BY ChatKnows
<1>2. PICK n, x : ChatOpenedAs(ChatOpened(r, kind), r, kind, n, x) /\ <<kind, n>> \notin t.started
    BY <1>1, ChatOpenedIs DEF ChatStands
<1>3. PICK e : e = Start(kind, n)
    OBVIOUS
<1>4. Tells(t, r.state.entries, u, its, {}) /\ ChatHolds(t, r.state) /\ Leads(s, r.events, t)
    BY <1>1 DEF ChatStands
<1>5. Tells(Taken(t, e), r.state.entries, u, its, {}) /\ TookStart(Taken(t, e), t, <<kind, n>>)
    BY <1>2, <1>3, <1>4, TellsBegins
<1>6. x.entries = r.state.entries
    BY <1>2 DEF ChatOpenedAs
<1>7. Listed(t) /\ InTurn(t) /\ Distinct(t.order)
    BY <1>4 DEF Tells, Agrees, ChatHolds
<1>8. InTurn(Taken(t, e)) /\ Distinct(Taken(t, e).order) /\ IsLast(Taken(t, e).order, <<kind, n>>)
    BY <1>2, <1>5, <1>7, TurnBegins
<1>9. \A k \in Texts : x.open[k] # 0 => k = kind /\ x.open[k] = n
    BY <1>2 DEF ChatOpenedAs
<1>10. ChatHolds(Taken(t, e), x)
    BY <1>8, <1>9 DEF ChatHolds
<1>11. ChatGoes(L, ChatOpened(r, kind))
    BY ChatOpens DEF ChatAlong
<1>12. ChatOpened(r, kind) = [state |-> x, events |-> r.events \o <<e>>, error |-> "none"]
    BY <1>2, <1>3 DEF ChatOpenedAs
<1>. QED
    BY <1>4, <1>5, <1>6, <1>10, <1>11, <1>12, ChatTellsOn

\* A piece is said of the text that is open.
LEMMA ChatTellsSay ==
    ASSUME NEW L, NEW s, NEW r, NEW u, NEW its, ChatAlong(L, s, r, u, its), NEW kind \in Texts,
           r.state.open[kind] # 0, 0 \notin DOMAIN its,
           NEW piece, NEW w, w.kind = kind, w.item = 0, w.data = piece, NEW v, Adds(v, u, w)
    PROVE  ChatAlong(L, s, ChatSaid(r, kind, piece), v, its)
<1>1. PICK t, E, T : ChatStands(s, r, u, its, t, E, T)
    BY ChatKnows
<1>2. PICK id : id = r.state.open[kind]
    OBVIOUS
<1>3. PICK e, k : e = Delta(kind, id, piece) /\ k = <<kind, id>>
    OBVIOUS
<1>4. Tells(t, r.state.entries, u, its, {}) /\ ChatHolds(t, r.state) /\ Leads(s, r.events, t)
      /\ ChatMatch(r.state, t.started, E, T)
    BY <1>1 DEF ChatStands
<1>5. <<kind, id>> \in t.started
    BY <1>2, <1>4 DEF ChatMatch
<1>6. \A n \in DOMAIN r.state.entries : r.state.entries[n].id # 0
    <2>1. \A n \in DOMAIN r.state.entries : <<"tool", r.state.entries[n].id>> \in t.started
        BY <1>4, CallsMatchRecords DEF ChatMatch
    <2>2. \A i : <<"tool", i>> \in t.started => i \in DOMAIN its
        BY <1>4 DEF Tells, Agrees, MadeIs
    <2>. QED
        BY <2>1, <2>2
<1>7. Tells(Taken(t, e), r.state.entries, v, its, {}) /\ SaidAlone(Taken(t, e), t, <<kind, id>>, piece)
    <2>1. 0 \notin {} /\ (0 = 0 \/ 0 \in DOMAIN its)
        OBVIOUS
    <2>. QED
        BY <1>3, <1>4, <1>5, <1>6, <2>1, TellsSays
<1>8. Listed(t) /\ InTurn(t) /\ Distinct(t.order) /\ IsLast(t.order, <<kind, id>>)
    BY <1>2, <1>4 DEF Tells, Agrees, ChatHolds
<1>9. Listed(Taken(t, e))
    BY <1>7 DEF Tells, Agrees
<1>10. InTurn(Taken(t, e))
    <2>1. k[1] = kind /\ k \in t.started /\ IsLast(t.order, k) /\ SaidAlone(Taken(t, e), t, k, piece)
        BY <1>3, <1>5, <1>7, <1>8
    <2>. QED
        BY <1>8, <1>9, <2>1, TurnSays
<1>11. ChatHolds(Taken(t, e), r.state)
    BY <1>4, <1>7, <1>10 DEF ChatHolds, SaidAlone
<1>12. ChatGoes(L, ChatSaid(r, kind, piece))
    BY ChatSays DEF ChatAlong
<1>13. ChatSaid(r, kind, piece) = [state |-> r.state, events |-> r.events \o <<e>>, error |-> "none"]
    BY <1>2, <1>3, ChatSame DEF ChatSaid, O!Plus, Emits
<1>. QED
    BY <1>4, <1>7, <1>11, <1>12, <1>13, ChatTellsOn

\* A piece of a text: what is open of the other kind is closed first.
LEMMA ChatTellsExtend ==
    ASSUME NEW L, NEW s, NEW r, NEW u, NEW its, ChatAlong(L, s, r, u, its), NEW kind \in Texts,
           0 \notin DOMAIN its, NEW piece, piece # "",
           NEW w, w.kind = kind, w.item = 0, w.data = piece, NEW v, Adds(v, u, w)
    PROVE  ChatAlong(L, s, O!Extend(r, kind, piece), v, its)
<1>. DEFINE q == O!Close(r, O!Other(kind))
            o == IF q.state.open[kind] # 0 THEN q ELSE ChatOpened(q, kind)
<1>1. O!Extend(r, kind, piece) = ChatSaid(o, kind, piece)
    BY Zenon DEF O!Extend, ChatOpened, ChatNumber, ChatSaid
<1>2. O!Other(kind) \in Texts /\ \A k \in Texts : k = kind \/ k = O!Other(kind)
    BY Zenon DEF O!Other, Texts
<1>3. ChatAlong(L, s, q, u, its)
    BY Zenon, <1>2, ChatTellsClose
<1>4. q.state.open[O!Other(kind)] = 0
    <2>1. ChatGoes(L, r)
        BY Zenon DEF ChatAlong
    <2>2. PICK other : other = O!Other(kind) /\ other \in Texts
        BY Zenon, <1>2
    <2>3. O!Close(r, other).state.open[other] = 0
        BY Zenon, <2>1, <2>2, ChatCloses
    <2>. QED
        BY Zenon, <2>2, <2>3
<1>. HIDE DEF q
<1>5. ChatAlong(L, s, o, u, its) /\ o.state.open[kind] # 0
    <2>1. CASE q.state.open[kind] # 0
        BY Zenon, <1>3, <2>1
    <2>2. CASE q.state.open[kind] = 0
        <3>1. \A k \in Texts : q.state.open[k] = 0
            BY Zenon, <1>2, <1>4, <2>2
        <3>2. ChatAlong(L, s, ChatOpened(q, kind), u, its)
            BY Zenon, <1>3, <3>1, ChatTellsOpen
        <3>3. ChatOpened(q, kind).state.open[kind] # 0
            BY Zenon, <1>3, <2>2, ChatOpens DEF ChatAlong
        <3>. QED
            BY Zenon, <2>2, <3>2, <3>3
    <2>. QED
        BY Zenon, <2>1, <2>2
<1>. HIDE DEF o
<1>. QED
    BY Zenon, <1>1, <1>5, ChatTellsSay

\* What beginning a call returns, and what giving it a piece does.
ChatBegunAs(q, r, i, x) ==
    /\ q = [state |-> x, events |-> r.events \o <<Start("tool", i)>>, error |-> "none"]
    /\ x.entries = StartEntry(r.state.entries, i) /\ x.open = r.state.open

LEMMA ChatBegunIs ==
    ASSUME NEW r, NEW S, NEW E, NEW T, ChatMatch(r.state, S, E, T), NEW i
    PROVE  \E x : ChatBegunAs(ChatBegun(r, i), r, i, x)
<1>0. PICK d : d = r.state
    OBVIOUS
<1>1. PICK entries : entries = StartEntry(d.entries, i)
    OBVIOUS
<1>2. PICK c : c = [d EXCEPT !.known = d.known \cup {i}]
    OBVIOUS
<1>3. PICK x : x = [d EXCEPT !.known = d.known \cup {i}, !.entries = entries]
    OBVIOUS
<1>4. d = [entries |-> d.entries, known |-> d.known, open |-> d.open,
           started |-> d.started, reason |-> d.reason]
    BY <1>0 DEF ChatMatch
<1>5. c = [entries |-> d.entries, known |-> d.known \cup {i}, open |-> d.open,
           started |-> d.started, reason |-> d.reason]
    BY <1>2, <1>4
<1>6. x = [c EXCEPT !.entries = entries]
    BY <1>2, <1>3, <1>4
<1>7. x.entries = entries /\ x.open = d.open
    BY <1>5, <1>6
<1>8. ChatBegun(r, i) = [state |-> x, events |-> r.events \o <<Start("tool", i)>>, error |-> "none"]
    BY <1>0, <1>1, <1>3, ChatSame DEF ChatBegun, O!Plus, Emits
<1>. QED
    BY <1>0, <1>1, <1>7, <1>8 DEF ChatBegunAs

ChatGivenAs(q, r, i, piece, x) ==
    /\ q = [state |-> x, events |-> r.events \o <<Delta("tool", i, piece)>>, error |-> "none"]
    /\ x.entries = AppendArgs(r.state.entries, i, piece) /\ x.open = r.state.open

LEMMA ChatGivenIs ==
    ASSUME NEW r, NEW S, NEW E, NEW T, ChatMatch(r.state, S, E, T), NEW i, NEW piece
    PROVE  \E x : ChatGivenAs(ChatGiven(r, i, piece), r, i, piece, x)
<1>0. PICK d : d = r.state
    OBVIOUS
<1>1. PICK entries : entries = AppendArgs(d.entries, i, piece)
    OBVIOUS
<1>2. PICK x : x = [d EXCEPT !.entries = entries]
    OBVIOUS
<1>3. d = [entries |-> d.entries, known |-> d.known, open |-> d.open,
           started |-> d.started, reason |-> d.reason]
    BY <1>0 DEF ChatMatch
<1>4. x.entries = entries /\ x.open = d.open
    BY <1>2, <1>3
<1>5. ChatGiven(r, i, piece)
        = [state |-> x, events |-> r.events \o <<Delta("tool", i, piece)>>, error |-> "none"]
    BY <1>0, <1>1, <1>2, ChatSame DEF ChatGiven, O!Plus, Emits
<1>. QED
    BY <1>0, <1>1, <1>4, <1>5 DEF ChatGivenAs

\* A call begins when no text is open.
LEMMA ChatTellsBegin ==
    ASSUME NEW L, NEW s, NEW r, NEW u, NEW its, ChatAlong(L, s, r, u, its),
           \A k \in Texts : r.state.open[k] = 0,
           NEW i, i # 0, i \notin r.state.known, NEW more, Grown(more, its, i, "tool")
    PROVE  ChatAlong(L, s, ChatBegun(r, i), u, more)
<1>1. PICK t, E, T : ChatStands(s, r, u, its, t, E, T)
    BY ChatKnows
<1>2. PICK x : ChatBegunAs(ChatBegun(r, i), r, i, x)
    BY <1>1, ChatBegunIs DEF ChatStands
<1>3. PICK e : e = Start("tool", i)
    OBVIOUS
<1>4. Tells(t, r.state.entries, u, its, {}) /\ ChatHolds(t, r.state) /\ Leads(s, r.events, t)
      /\ Sequential(r.state.entries)
    BY <1>1, CallsMatchRecords DEF ChatStands, ChatMatch, Records
<1>5. /\ Tells(Taken(t, e), StartEntry(r.state.entries, i), u, more, {})
      /\ TookStart(Taken(t, e), t, <<"tool", i>>) /\ <<"tool", i>> \notin t.started
    BY <1>3, <1>4, TellsBeginsCall
<1>6. x.entries = StartEntry(r.state.entries, i) /\ x.open = r.state.open
    BY <1>2 DEF ChatBegunAs
<1>7. Listed(t) /\ InTurn(t) /\ Distinct(t.order)
    BY <1>4 DEF Tells, Agrees, ChatHolds
<1>8. InTurn(Taken(t, e)) /\ Distinct(Taken(t, e).order)
    BY <1>5, <1>7, TurnBegins
<1>9. ChatHolds(Taken(t, e), x)
    BY <1>6, <1>8 DEF ChatHolds
<1>10. ChatGoes(L, ChatBegun(r, i))
    BY ChatBegins DEF ChatAlong
<1>11. ChatBegun(r, i) = [state |-> x, events |-> r.events \o <<e>>, error |-> "none"]
    BY <1>2, <1>3 DEF ChatBegunAs
<1>. QED
    BY <1>4, <1>5, <1>6, <1>9, <1>10, <1>11, ChatTellsOn

LEMMA ChatTellsArgs ==
    ASSUME NEW L, NEW s, NEW r, NEW u, NEW its, ChatAlong(L, s, r, u, its),
           NEW i, i \in r.state.known,
           NEW piece, NEW w, w.kind = "tool", w.item = i, w.data = piece, NEW v, Adds(v, u, w)
    PROVE  ChatAlong(L, s, ChatGiven(r, i, piece), v, its)
<1>1. PICK t, E, T : ChatStands(s, r, u, its, t, E, T)
    BY ChatKnows
<1>2. PICK x : ChatGivenAs(ChatGiven(r, i, piece), r, i, piece, x)
    BY <1>1, ChatGivenIs DEF ChatStands
<1>3. PICK e : e = Delta("tool", i, piece)
    OBVIOUS
<1>4. Tells(t, r.state.entries, u, its, {}) /\ ChatHolds(t, r.state) /\ Leads(s, r.events, t)
      /\ Records(r.state.entries) /\ <<"tool", i>> \in t.started
    BY <1>1, CallsMatchRecords DEF ChatStands, ChatMatch
<1>5. /\ Tells(Taken(t, e), AppendArgs(r.state.entries, i, piece), v, its, {})
      /\ SaidAlone(Taken(t, e), t, <<"tool", i>>, piece)
    <2>1. i \notin {}
        OBVIOUS
    <2>. QED
        BY <1>3, <1>4, <2>1, TellsSaysCall
<1>6. x.entries = AppendArgs(r.state.entries, i, piece) /\ x.open = r.state.open
    BY <1>2 DEF ChatGivenAs
<1>7. Listed(t) /\ InTurn(t) /\ Listed(Taken(t, e))
    BY <1>4, <1>5 DEF Tells, Agrees, ChatHolds
<1>8. InTurn(Taken(t, e))
    BY <1>5, <1>7, TurnSaysCall
<1>9. ChatHolds(Taken(t, e), x)
    BY <1>4, <1>5, <1>6, <1>8 DEF ChatHolds, SaidAlone
<1>10. ChatGoes(L, ChatGiven(r, i, piece))
    BY ChatTakesArgs DEF ChatAlong
<1>11. ChatGiven(r, i, piece) = [state |-> x, events |-> r.events \o <<e>>, error |-> "none"]
    BY <1>2, <1>3 DEF ChatGivenAs
<1>. QED
    BY <1>4, <1>5, <1>6, <1>9, <1>10, <1>11, ChatTellsOn

-----------------------------------------------------------------------------
(* The chunks of chat completions.                                         *)

\* Where the handler starts.
LEMMA ChatAlongStarts ==
    ASSUME NEW L, Sequential(L), NEW s, IsSummary(s), s.started = Begun(L), NEW d, ChatAt(L, d),
           NEW u, NEW its, Tells(s, d.entries, u, its, {}), ChatHolds(s, d)
    PROVE  ChatAlong(L, s, O!Emits(d, <<>>), u, its) /\ O!Emits(d, <<>>).state = d
<1>1. ChatGoes(L, O!Emits(d, <<>>))
    BY ChatBeginsHandling
<1>2. PICK r : r = O!Emits(d, <<>>)
    OBVIOUS
<1>3. r = [state |-> d, events |-> <<>>, error |-> "none"]
    BY <1>2 DEF O!Emits
<1>4. r.state = d /\ Leads(s, r.events, s)
    BY <1>3, LeadsNone
<1>5. ChatTells(s, r, u, its)
    BY <1>4 DEF ChatTells
<1>. QED
    BY <1>1, <1>2, <1>4, <1>5 DEF ChatAlong

ChatExtended(q, r, kind, piece) == q = O!Extend(r, kind, piece)
ChatTook(q, r, fragments)       == q = O!ToolCalls(r, fragments)
ChatHandledAs(q, d, c)          == q = O!HandleChunk(d, c)
ChatStart(r, d)                 == r = O!Emits(d, <<>>)

\* An empty field changes nothing.
LEMMA NoPiece ==
    ASSUME NEW r, NEW kind
    PROVE  ChatExtended(r, r, kind, "")
BY DEF ChatExtended, O!Extend

LEMMA NoFragment ==
    ASSUME NEW r, NEW f, f = <<>>
    PROVE  ChatTook(r, r, f)
BY DEF ChatTook, O!ToolCalls

IsOne(fs, f) == fs = <<f>>
ChatGave(all, q, f) == all = O!Fragment(q, f)
ChatShut(q) == \A k \in Texts : q.state.open[k] = 0

\* The fragments of a call: the texts are closed first.
LEMMA ChatTellsFragment ==
    ASSUME NEW L, NEW s, NEW r, NEW u, NEW its, ChatAlong(L, s, r, u, its),
           NEW f, NEW fs, IsOne(fs, f)
    PROVE  \E q, all : ChatAlong(L, s, q, u, its) /\ ChatShut(q) /\ ChatTook(all, r, fs) /\ ChatGave(all, q, f)
<1>. DEFINE one  == O!Close(r, "text")
            shut == O!Close(one, "reasoning")
<1>1. "text" \in Texts /\ "reasoning" \in Texts /\ \A k \in Texts : k = "text" \/ k = "reasoning"
    BY DEF Texts
<1>2. O!ToolCalls(r, fs) = O!Fragment(shut, f)
    <2>1. fs # <<>> /\ fs = <<f>>
        BY DEF IsOne
    <2>2. O!ToolCalls(r, fs) = O!FoldLeft(O!Fragment, shut, fs)
        BY <2>1 DEF O!ToolCalls, O!Shut
    <2>. HIDE DEF shut
    <2>. QED
        BY <2>1, <2>2, OneFragment
<1>3. ChatAlong(L, s, one, u, its) /\ one.state.open["text"] = 0
    BY <1>1, ChatTellsClose, ChatCloses DEF ChatAlong
<1>. HIDE DEF one
<1>4. ChatAlong(L, s, shut, u, its)
    BY <1>1, <1>3, ChatTellsClose
<1>5. shut.state.open["reasoning"] = 0 /\ shut.state.open["text"] = one.state.open["text"]
    <2>1. "text" \in Texts \ {"reasoning"}
        BY <1>1
    <2>. QED
        BY <1>1, <1>3, <2>1, ChatCloses DEF ChatAlong
<1>. HIDE DEF shut
<1>6. PICK all : all = O!Fragment(shut, f)
    OBVIOUS
<1>7. ChatTook(all, r, fs) /\ ChatGave(all, shut, f)
    BY <1>2, <1>6 DEF ChatTook, ChatGave
<1>8. ChatShut(shut)
    BY <1>1, <1>3, <1>5 DEF ChatShut
<1>. QED
    BY <1>4, <1>7, <1>8

\* What a chunk without an end does.
ChunkIs(c, reasoning, content, fragments) ==
    /\ c.type = "delta" /\ c.finish = ""
    /\ c.reasoning = reasoning /\ c.content = content /\ c.fragments = fragments

LEMMA ChatChunkIs ==
    ASSUME NEW d, NEW t, NEW x, NEW f, NEW c, ChunkIs(c, t, x, f), NEW r, ChatStart(r, d),
           NEW one, ChatExtended(one, r, "reasoning", t),
           NEW said, ChatExtended(said, one, "text", x), NEW q, ChatTook(q, said, f)
    PROVE  ChatHandledAs(q, d, c)
<1>1. c.type = "delta" /\ c.finish = "" /\ c.reasoning = t /\ c.content = x /\ c.fragments = f
    BY Zenon DEF ChunkIs
<1>2. O!HandleChunk(d, c)
        = O!ToolCalls(O!Extend(O!Extend(O!Emits(d, <<>>), "reasoning", c.reasoning),
                               "text", c.content), c.fragments)
    BY Zenon, <1>1 DEF O!HandleChunk
<1>3. r = O!Emits(d, <<>>) /\ one = O!Extend(r, "reasoning", c.reasoning)
    BY Zenon, <1>1 DEF ChatStart, ChatExtended
<1>4. said = O!Extend(one, "text", c.content) /\ q = O!ToolCalls(said, c.fragments)
    BY Zenon, <1>1 DEF ChatExtended, ChatTook
<1>5. q = O!HandleChunk(d, c)
    BY <1>2, <1>3, <1>4
<1>. QED
    BY <1>5 DEF ChatHandledAs

\* The summary of the log, and the decoder, before a chunk.
ChatReady(L, s, d, u, its) ==
    /\ Sequential(L) /\ IsSummary(s) /\ s.started = Begun(L) /\ ChatAt(L, d)
    /\ Tells(s, d.entries, u, its, {}) /\ ChatHolds(s, d)

\* What a handler returns, it has told.
ChatCame(s, r, u, its) == r.error = "none" => ChatTells(s, r, u, its)

LEMMA ChatAlongCame ==
    ASSUME NEW L, NEW s, NEW r, NEW u, NEW its, ChatAlong(L, s, r, u, its),
           NEW d, NEW c, ChatHandledAs(r, d, c)
    PROVE  ChatCame(s, O!HandleChunk(d, c), u, its)
<1>1. ChatCame(s, r, u, its)
    BY DEF ChatAlong, ChatCame
<1>2. r = O!HandleChunk(d, c)
    BY DEF ChatHandledAs
<1>. QED
    BY <1>1, <1>2

\* A text, a reasoning, or one and the other.
LEMMA ChatCameText ==
    ASSUME NEW L, NEW s, NEW d, NEW u, NEW its, ChatReady(L, s, d, u, its), 0 \notin DOMAIN its,
           NEW piece, piece # "",
           NEW w, w.kind = "text", w.item = 0, w.data = piece, NEW v, Adds(v, u, w),
           NEW c, NEW none, none = <<>>, ChunkIs(c, "", piece, none)
    PROVE  ChatCame(s, O!HandleChunk(d, c), v, its)
<1>1. PICK r : ChatStart(r, d) /\ r = O!Emits(d, <<>>)
    BY Zenon DEF ChatStart
<1>2. ChatAlong(L, s, r, u, its)
    BY Zenon, <1>1, ChatAlongStarts DEF ChatReady
<1>3. ChatExtended(r, r, "reasoning", "")
    BY Zenon, NoPiece
<1>4. PICK p : ChatExtended(p, r, "text", piece)
    BY Zenon DEF ChatExtended
<1>5. ChatTook(p, p, none)
    BY Zenon, NoFragment
<1>6. ChatHandledAs(p, d, c)
    BY Zenon, <1>1, <1>3, <1>4, <1>5, ChatChunkIs
<1>7. "text" \in Texts
    BY Zenon DEF Texts
<1>8. ChatAlong(L, s, p, v, its)
    BY Zenon, <1>2, <1>4, <1>7, ChatTellsExtend DEF ChatExtended
<1>. QED
    BY Zenon, <1>6, <1>8, ChatAlongCame

LEMMA ChatCameReasoning ==
    ASSUME NEW L, NEW s, NEW d, NEW u, NEW its, ChatReady(L, s, d, u, its), 0 \notin DOMAIN its,
           NEW piece, piece # "",
           NEW w, w.kind = "reasoning", w.item = 0, w.data = piece, NEW v, Adds(v, u, w),
           NEW c, NEW none, none = <<>>, ChunkIs(c, piece, "", none)
    PROVE  ChatCame(s, O!HandleChunk(d, c), v, its)
<1>1. PICK r : ChatStart(r, d) /\ r = O!Emits(d, <<>>)
    BY Zenon DEF ChatStart
<1>2. ChatAlong(L, s, r, u, its)
    BY Zenon, <1>1, ChatAlongStarts DEF ChatReady
<1>3. PICK p : ChatExtended(p, r, "reasoning", piece)
    BY Zenon DEF ChatExtended
<1>4. ChatExtended(p, p, "text", "")
    BY Zenon, NoPiece
<1>5. ChatTook(p, p, none)
    BY Zenon, NoFragment
<1>6. ChatHandledAs(p, d, c)
    BY Zenon, <1>1, <1>3, <1>4, <1>5, ChatChunkIs
<1>7. "reasoning" \in Texts
    BY Zenon DEF Texts
<1>8. ChatAlong(L, s, p, v, its)
    BY Zenon, <1>2, <1>3, <1>7, ChatTellsExtend DEF ChatExtended
<1>. QED
    BY Zenon, <1>6, <1>8, ChatAlongCame

LEMMA ChatCameBoth ==
    ASSUME NEW L, NEW s, NEW d, NEW u, NEW its, ChatReady(L, s, d, u, its), 0 \notin DOMAIN its,
           NEW first, first # "", NEW second, second # "",
           NEW w, w.kind = "reasoning", w.item = 0, w.data = first, NEW v, Adds(v, u, w),
           NEW x, x.kind = "text", x.item = 0, x.data = second, NEW y, Adds(y, v, x),
           NEW c, NEW none, none = <<>>, ChunkIs(c, first, second, none)
    PROVE  ChatCame(s, O!HandleChunk(d, c), y, its)
<1>1. PICK r : ChatStart(r, d) /\ r = O!Emits(d, <<>>)
    BY Zenon DEF ChatStart
<1>2. ChatAlong(L, s, r, u, its)
    BY Zenon, <1>1, ChatAlongStarts DEF ChatReady
<1>3. PICK q : ChatExtended(q, r, "reasoning", first)
    BY Zenon DEF ChatExtended
<1>4. PICK p : ChatExtended(p, q, "text", second)
    BY Zenon DEF ChatExtended
<1>5. ChatTook(p, p, none)
    BY Zenon, NoFragment
<1>6. ChatHandledAs(p, d, c)
    BY Zenon, <1>1, <1>3, <1>4, <1>5, ChatChunkIs
<1>7. "reasoning" \in Texts /\ "text" \in Texts
    BY Zenon DEF Texts
<1>8. ChatAlong(L, s, q, v, its)
    BY Zenon, <1>2, <1>3, <1>7, ChatTellsExtend DEF ChatExtended
<1>9. ChatAlong(L, s, p, y, its)
    BY Zenon, <1>4, <1>7, <1>8, ChatTellsExtend DEF ChatExtended
<1>. QED
    BY Zenon, <1>6, <1>9, ChatAlongCame

\* A call begins, with its input or without.
LEMMA ChatCameCall ==
    ASSUME NEW L, NEW s, NEW d, NEW u, NEW its, ChatReady(L, s, d, u, its),
           NEW i, i # 0, NEW more, Grown(more, its, i, "tool"),
           NEW piece, NEW w, w.kind = "tool", w.item = i, w.data = piece, NEW v,
           IF piece = "" THEN v = u ELSE Adds(v, u, w),
           NEW c, NEW f, NEW fs, f.index = i, f.data = piece, IsOne(fs, f), ChunkIs(c, "", "", fs)
    PROVE  ChatCame(s, O!HandleChunk(d, c), v, more)
<1>1. PICK r : ChatStart(r, d) /\ r = O!Emits(d, <<>>)
    BY Zenon DEF ChatStart
<1>2. ChatAlong(L, s, r, u, its)
    BY Zenon, <1>1, ChatAlongStarts DEF ChatReady
<1>3. ChatExtended(r, r, "reasoning", "") /\ ChatExtended(r, r, "text", "")
    BY Zenon, NoPiece
<1>4. PICK q, all : ChatAlong(L, s, q, u, its) /\ ChatShut(q) /\ ChatTook(all, r, fs) /\ ChatGave(all, q, f)
    BY Zenon, <1>2, ChatTellsFragment
<1>5. ChatHandledAs(all, d, c)
    BY Zenon, <1>1, <1>3, <1>4, ChatChunkIs
<1>6. /\ ChatAlong(L, s, q, u, its) /\ \A k \in Texts : q.state.open[k] = 0
      /\ all = O!Fragment(q, f)
    BY Zenon, <1>4 DEF ChatShut, ChatGave
<1>7. i \notin q.state.known
    <2>1. PICK t, E, T : ChatStands(s, q, u, its, t, E, T)
        BY Zenon, <1>6, ChatKnows
    <2>2. Tells(t, q.state.entries, u, its, {}) /\ ChatMatch(q.state, t.started, E, T)
        BY Zenon, <2>1 DEF ChatStands
    <2>0. CallsMatch(q.state.entries, t.started, E, T)
        BY Zenon, <2>2 DEF ChatMatch
    <2>4. Sequential(q.state.entries)
        BY Zenon, <2>0, CallsMatchRecords DEF Records
    <2>3. <<"tool", i>> \notin t.started
        BY Zenon, <2>2, <2>4, TellsBeginsCall
    <2>. QED
        BY Zenon, <2>2, <2>3 DEF ChatMatch
<1>8. PICK o : o = ChatBegun(q, i)
    OBVIOUS
<1>9. ChatAlong(L, s, o, u, more)
    BY Zenon, <1>6, <1>7, <1>8, ChatTellsBegin
<1>10. i \in o.state.known
    BY Zenon, <1>6, <1>7, <1>8, ChatBegins DEF ChatAlong
<1>11. O!Fragment(q, f) = IF piece = "" THEN o ELSE ChatGiven(o, i, piece)
    BY Zenon, <1>7, <1>8 DEF O!Fragment, ChatBegun, ChatGiven
<1>12. CASE piece = ""
    BY Zenon, <1>5, <1>6, <1>9, <1>11, <1>12, ChatAlongCame
<1>13. CASE piece # ""
    <2>1. ChatAlong(L, s, ChatGiven(o, i, piece), v, more)
        BY Zenon, <1>9, <1>10, <1>13, ChatTellsArgs
    <2>. QED
        BY Zenon, <1>5, <1>6, <1>11, <1>13, <2>1, ChatAlongCame
<1>. QED
    BY Zenon, <1>12, <1>13

\* A call's input goes on.
LEMMA ChatCameInput ==
    ASSUME NEW L, NEW s, NEW d, NEW u, NEW its, ChatReady(L, s, d, u, its),
           NEW i \in DOMAIN its, its[i] = "tool",
           NEW piece, piece # "", NEW w, w.kind = "tool", w.item = i, w.data = piece,
           NEW v, Adds(v, u, w),
           NEW c, NEW f, NEW fs, f.index = i, f.data = piece, IsOne(fs, f), ChunkIs(c, "", "", fs)
    PROVE  ChatCame(s, O!HandleChunk(d, c), v, its)
<1>1. PICK r : ChatStart(r, d) /\ r = O!Emits(d, <<>>)
    BY Zenon DEF ChatStart
<1>2. ChatAlong(L, s, r, u, its)
    BY Zenon, <1>1, ChatAlongStarts DEF ChatReady
<1>3. ChatExtended(r, r, "reasoning", "") /\ ChatExtended(r, r, "text", "")
    BY Zenon, NoPiece
<1>4. PICK q, all : ChatAlong(L, s, q, u, its) /\ ChatShut(q) /\ ChatTook(all, r, fs) /\ ChatGave(all, q, f)
    BY Zenon, <1>2, ChatTellsFragment
<1>5. ChatHandledAs(all, d, c)
    BY Zenon, <1>1, <1>3, <1>4, ChatChunkIs
<1>6. /\ ChatAlong(L, s, q, u, its) /\ \A k \in Texts : q.state.open[k] = 0
      /\ all = O!Fragment(q, f)
    BY Zenon, <1>4 DEF ChatShut, ChatGave
<1>7. i \in q.state.known
    <2>1. PICK t, E, T : ChatStands(s, q, u, its, t, E, T)
        BY Zenon, <1>6, ChatKnows
    <2>2. Tells(t, q.state.entries, u, its, {}) /\ ChatMatch(q.state, t.started, E, T)
        BY Zenon, <2>1 DEF ChatStands
    <2>3. <<"tool", i>> \in t.started
        BY Zenon, <2>2 DEF Tells, Agrees, MadeIs
    <2>. QED
        BY Zenon, <2>2, <2>3 DEF ChatMatch
<1>8. O!Fragment(q, f) = ChatGiven(q, i, piece)
    BY Zenon, <1>7 DEF O!Fragment, ChatGiven
<1>9. ChatAlong(L, s, ChatGiven(q, i, piece), v, its)
    BY Zenon, <1>6, <1>7, ChatTellsArgs
<1>. QED
    BY Zenon, <1>5, <1>6, <1>8, <1>9, ChatAlongCame

\* The reason of the end is noted, no call ends what is open; an error is none
\* of this.
LEMMA ChatCameOthers ==
    ASSUME NEW L, NEW s, NEW d, NEW u, NEW its, ChatReady(L, s, d, u, its),
           NEW c \in {O!Chunk("", "", <<>>, "stop"), O!NoCallsChunk, O!ErrorChunk}
    PROVE  ChatCame(s, O!HandleChunk(d, c), u, its)
<1>1. CASE c = O!ErrorChunk
    <2>1. PICK p : p = O!HandleChunk(d, c)
        OBVIOUS
    <2>2. p = O!Fails(d, "fatal")
        BY <1>1, <2>1 DEF O!HandleChunk, O!ErrorChunk
    <2>3. p.error = "fatal"
        BY Zenon, <2>2 DEF O!Fails
    <2>. QED
        BY Zenon, <2>1, <2>3 DEF ChatCame
<1>2. CASE c = O!Chunk("", "", <<>>, "stop")
    <2>1. PICK r : r = O!Emits(d, <<>>)
        OBVIOUS
    <2>2. r = [state |-> d, events |-> <<>>, error |-> "none"]
        BY Zenon, <2>1 DEF O!Emits
    <2>3. O!HandleChunk(d, c) = O!Plus(r, [r.state EXCEPT !.reason = "stop"], <<>>)
        <3>1. c.type = "delta" /\ c.reasoning = "" /\ c.content = "" /\ c.fragments = <<>>
              /\ c.finish = "stop"
            BY Zenon, <1>2 DEF O!Chunk
        <3>2. O!Extend(r, "reasoning", c.reasoning) = r /\ O!Extend(r, "text", c.content) = r
            BY Zenon, <3>1 DEF O!Extend
        <3>3. O!ToolCalls(r, c.fragments) = r
            BY Zenon, <3>1 DEF O!ToolCalls
        <3>. QED
            BY Zenon, <2>1, <3>1, <3>2, <3>3 DEF O!HandleChunk
    <2>4. PICK x : x = [d EXCEPT !.reason = "stop"]
        OBVIOUS
    <2>5. x.entries = d.entries /\ x.open = d.open
        <3>1. d = [entries |-> d.entries, known |-> d.known, open |-> d.open,
                   started |-> d.started, reason |-> d.reason]
            BY Zenon DEF ChatReady, ChatAt, ChatMatch
        <3>. QED
            BY Zenon, <2>4, <3>1
    <2>6. <<>> \o <<>> = <<>>
        BY Zenon, Nothing
    <2>7. PICK p : p = O!HandleChunk(d, c)
        OBVIOUS
    <2>8. p = [state |-> x, events |-> <<>>, error |-> "none"]
        BY Zenon, <2>2, <2>3, <2>4, <2>6, <2>7, ChatSame DEF O!Plus, Emits
    <2>9. Leads(s, p.events, s) /\ p.state = x
        BY Zenon, <2>8, LeadsNone
    <2>10. Tells(s, x.entries, u, its, {}) /\ ChatHolds(s, x)
        BY Zenon, <2>5 DEF ChatReady, ChatHolds
    <2>. QED
        BY Zenon, <2>7, <2>9, <2>10 DEF ChatCame, ChatTells
<1>3. CASE c = O!NoCallsChunk
    <2>. DEFINE start == O!Emits(d, <<>>)
                one   == O!Close(start, "text")
                shut  == O!Close(one, "reasoning")
    <2>1. O!HandleChunk(d, c) = shut
        BY Zenon, <1>3 DEF O!HandleChunk, O!NoCallsChunk, O!Shut
    <2>2. ChatAlong(L, s, start, u, its)
        BY Zenon, ChatAlongStarts DEF ChatReady
    <2>. HIDE DEF start
    <2>3. "text" \in Texts /\ "reasoning" \in Texts
        BY DEF Texts
    <2>4. ChatAlong(L, s, one, u, its)
        BY Zenon, <2>2, <2>3, ChatTellsClose
    <2>. HIDE DEF one
    <2>5. ChatAlong(L, s, shut, u, its)
        BY Zenon, <2>3, <2>4, ChatTellsClose
    <2>. HIDE DEF shut
    <2>. QED
        BY Zenon, <2>1, <2>5 DEF ChatAlong, ChatCame
<1>. QED
    BY Zenon, <1>1, <1>2, <1>3

-----------------------------------------------------------------------------
(* The end of a chat completion.                                           *)

ChatEndTold(s, r, u, its) ==
    r.error = "none" =>
        \E t : Leads(s, r.events, t) /\ Agrees(t, u, its) /\ InTurn(t)

LEMMA ChatTellsEnd ==
    ASSUME NEW L, NEW s, NEW d, NEW u, NEW its, ChatReady(L, s, d, u, its)
    PROVE  ChatEndTold(s, O!Flush(d), u, its)
<1>. SUFFICES ASSUME O!Flush(d).error = "none" PROVE ChatEndTold(s, O!Flush(d), u, its)
    BY DEF ChatEndTold
<1>1. PICK r : ChatStart(r, d) /\ r = O!Emits(d, <<>>)
    BY DEF ChatStart
<1>2. ChatAlong(L, s, r, u, its)
    BY <1>1, ChatAlongStarts DEF ChatReady
<1>3. "text" \in Texts /\ "reasoning" \in Texts
    BY DEF Texts
<1>4. PICK shut : shut = O!Close(O!Close(r, "text"), "reasoning")
    OBVIOUS
<1>5. ChatAlong(L, s, shut, u, its)
    BY <1>2, <1>3, <1>4, ChatTellsClose
<1>6. PICK calls : calls = FinishCalls(shut.state)
    OBVIOUS
<1>7. O!Flush(d) = IF calls.error # "none" THEN calls
                   ELSE O!Plus(shut, calls.state, calls.events \o <<Finish(d.reason)>>)
    BY <1>1, <1>4, <1>6, ChatSame DEF O!Flush, O!Shut
<1>8. calls.error = "none"
    BY <1>7
<1>9. PICK entries : entries = shut.state.entries
    OBVIOUS
<1>10. calls.events = EndAll(entries)
    <2>1. PICK x : x = [shut.state EXCEPT !.entries = <<>>]
        OBVIOUS
    <2>. QED
        BY <1>6, <1>8, <1>9, <2>1, FinishCallsIs
<1>11. PICK last : last = EndAll(entries) \o <<Finish(d.reason)>>
    OBVIOUS
<1>12. O!Flush(d) = [state |-> calls.state, events |-> shut.events \o last, error |-> "none"]
    BY <1>7, <1>8, <1>10, <1>11, ChatSame DEF O!Plus, Emits
<1>13. PICK t, E, T : ChatStands(s, shut, u, its, t, E, T)
    BY <1>5, ChatKnows
<1>14. /\ Leads(s, shut.events, t) /\ Tells(t, entries, u, its, {}) /\ InTurn(t)
       /\ CallsMatch(entries, t.started, E, T)
    BY <1>9, <1>13 DEF ChatStands, ChatHolds, ChatMatch
<1>15. Sequential(entries) /\ \A m \in DOMAIN entries : <<"tool", entries[m].id>> \in t.started
    BY <1>14, CallsMatchRecords DEF Records
<1>16. \E v : Leads(t, last, v) /\ Agrees(v, u, its) /\ Still(v, t)
    <2>1. Calm(<<>>, t, u, Named(entries))
        BY CalmNone
    <2>2. Sequential(EndAll(entries))
        <3>1. \A n \in DOMAIN entries : entries[n].id \in Named(entries)
            BY <1>15, LongIs, SequenceIs DEF Named
        <3>2. EntriesAre(entries, u)
            BY <1>14 DEF Tells
        <3>3. Calm(EndAll(entries), t, u, Named(entries))
            BY <1>15, <3>1, <3>2, CalmAll
        <3>. QED
            BY <3>3 DEF Calm
    <2>3. last = <<>> \o EndAll(entries) \o <<Finish(d.reason)>>
        BY <1>11, <2>2, Nothing
    <2>. QED
        BY <1>14, <1>15, <2>1, <2>3, CalmFlush
<1>17. PICK v : Leads(t, last, v) /\ Agrees(v, u, its) /\ Still(v, t)
    BY <1>16
<1>18. InTurn(v)
    BY <1>14, <1>17, TurnStill
<1>19. PICK all : all = shut.events \o last
    OBVIOUS
<1>20. Leads(s, all, v)
    BY <1>14, <1>17, <1>19, LeadsOn DEF Follows
<1>. QED
    BY <1>12, <1>17, <1>18, <1>19, <1>20 DEF ChatEndTold

-----------------------------------------------------------------------------
(* The Codex backend's items.                                              *)

\* f names the items of the texts that are open, and a text whose item has not
\* ended is open.
CodexTexts(f, s, open, ended) ==
    /\ \A n \in DOMAIN open : f[<<open[n].kind, open[n].id>>] = open[n].item
    /\ \A k \in TextsOf(s) : f[k] \notin ended =>
          \E n \in DOMAIN open : k = <<open[n].kind, open[n].id>>

\* The calls are known, with what was heard of them.
CodexKnows(tools, u, its, ended) ==
    /\ \A i \in DOMAIN its : its[i] = "tool" => \E n \in DOMAIN tools : tools[n].item = i
    /\ \A m, n \in DOMAIN tools : tools[m].item = tools[n].item => m = n
    /\ \A n \in DOMAIN tools :
          /\ tools[n].item \in DOMAIN its /\ its[tools[n].item] = "tool"
          /\ tools[n].finished => tools[n].item \in ended
          /\ ~ tools[n].finished => (tools[n].sawDelta <=> HeardOf(u, tools[n].item) # <<>>)

CodexTells(s, d, u, its, ended) ==
    /\ Tells(s, d.entries, u, its, ended) /\ CodexKnows(d.tools, u, its, ended)
    /\ \E f : Homes(f, s, u, its) /\ CodexTexts(f, s, d.open, ended)

\* What a handler returns, it has told.
CodexCame(s, r, u, its, ended) ==
    r.error = "none" => \E t : Leads(s, r.events, t) /\ CodexTells(t, r.state, u, its, ended)

\* A text that began is where the decoder has it.
LEMMA CodexTextsStill ==
    ASSUME NEW f, NEW s, NEW open, NEW ended, CodexTexts(f, s, open, ended),
           NEW t, t.started = s.started
    PROVE  CodexTexts(f, t, open, ended)
BY DEF CodexTexts, TextsOf

LEMMA CodexKnowsItem ==
    ASSUME NEW tools, NEW u, NEW its, NEW ended, CodexKnows(tools, u, its, ended),
           NEW i, NEW kind, kind # "tool", NEW more, Grown(more, its, i, kind)
    PROVE  CodexKnows(tools, u, more, ended)
<1>. USE DEF Grown
<1>1. \A j \in DOMAIN more : more[j] = "tool" => \E n \in DOMAIN tools : tools[n].item = j
    BY DEF CodexKnows
<1>2. \A n \in DOMAIN tools : tools[n].item \in DOMAIN more /\ more[tools[n].item] = "tool"
    BY DEF CodexKnows
<1>. QED
    BY <1>1, <1>2 DEF CodexKnows

LEMMA CodexKnowsCall ==
    ASSUME NEW tools, Sequential(tools), NEW u, NEW its, NEW ended, CodexKnows(tools, u, its, ended),
           NEW i, HeardOf(u, i) = <<>>, NEW more, Grown(more, its, i, "tool"),
           NEW x, x.item = i, x.sawDelta = FALSE, x.finished = FALSE,
           NEW grown, Adds(grown, tools, x)
    PROVE  CodexKnows(grown, u, more, ended)
<1>1. PICK l : /\ l \notin DOMAIN tools /\ DOMAIN grown = DOMAIN tools \cup {l} /\ grown[l] = x
               /\ \A n \in DOMAIN tools : grown[n] = tools[n]
    <2>1. /\ \A n \in DOMAIN tools : grown[n] = tools[n]
          /\ \E l : l \notin DOMAIN tools /\ DOMAIN grown = DOMAIN tools \cup {l} /\ grown[l] = x
        BY AddsMembers
    <2>. QED
        BY <2>1
<1>2. \A j \in DOMAIN more : more[j] = "tool" => \E n \in DOMAIN grown : grown[n].item = j
    BY <1>1 DEF CodexKnows, Grown
<1>3. \A n \in DOMAIN tools : tools[n].item \in DOMAIN its /\ tools[n].item # i
    BY DEF CodexKnows, Grown
<1>4. \A m, n \in DOMAIN grown : grown[m].item = grown[n].item => m = n
    BY <1>1, <1>3 DEF CodexKnows
<1>5. ASSUME NEW n \in DOMAIN grown
      PROVE  /\ grown[n].item \in DOMAIN more /\ more[grown[n].item] = "tool"
             /\ grown[n].finished => grown[n].item \in ended
             /\ ~ grown[n].finished => (grown[n].sawDelta <=> HeardOf(u, grown[n].item) # <<>>)
    <2>1. CASE n = l
        BY <1>1, <2>1 DEF Grown
    <2>2. CASE n \in DOMAIN tools
        BY <1>1, <2>2 DEF Grown, CodexKnows
    <2>. QED
        BY <1>1, <2>1, <2>2
<1>. QED
    BY <1>2, <1>4, <1>5 DEF CodexKnows

\* A piece of a text tells nothing of the calls.
LEMMA CodexKnowsText ==
    ASSUME NEW tools, NEW u, Sequential(u), NEW its, NEW ended, CodexKnows(tools, u, its, ended),
           NEW w, its[w.item] # "tool", NEW v, Adds(v, u, w)
    PROVE  CodexKnows(tools, v, its, ended)
<1>1. ASSUME NEW n \in DOMAIN tools
      PROVE  HeardOf(v, tools[n].item) = HeardOf(u, tools[n].item)
    <2>1. w.item # tools[n].item
        BY DEF CodexKnows
    <2>. QED
        BY <2>1, HeardGrows DEF Extends
<1>. QED
    BY <1>1 DEF CodexKnows

\* What is known of one call changes.
CodexTouched(changed, tools, i, saw, done) ==
    /\ DOMAIN changed = DOMAIN tools
    /\ \A n \in DOMAIN tools :
          /\ changed[n].item = tools[n].item
          /\ IF tools[n].item = i
             THEN /\ changed[n].sawDelta <=> saw \/ tools[n].sawDelta
                  /\ changed[n].finished <=> done \/ tools[n].finished
             ELSE changed[n] = tools[n]

LEMMA AddsSomething ==
    ASSUME NEW s, Sequential(s), NEW x, NEW t, Adds(t, s, x)
    PROVE  t # <<>>
<1>1. Len(t) = Len(s) + 1 /\ Len(s) \in Nat
    BY Appended, SequenceIs DEF Adds
<1>. QED
    BY <1>1, Nothing

LEMMA CodexKnowsPiece ==
    ASSUME NEW tools, NEW u, Sequential(u), NEW its, NEW ended, CodexKnows(tools, u, its, ended),
           NEW w, NEW v, Adds(v, u, w), NEW changed, CodexTouched(changed, tools, w.item, TRUE, FALSE)
    PROVE  CodexKnows(changed, v, its, ended)
<1>1. /\ \A j : j # w.item => HeardOf(v, j) = HeardOf(u, j)
      /\ HeardOf(v, w.item) # <<>>
    <2>1. \A j : /\ Sequential(HeardOf(u, j))
                 /\ Extends(HeardOf(v, j), HeardOf(u, j), w.item = j, w.data)
        BY HeardGrows
    <2>. QED
        BY <2>1, AddsSomething DEF Extends
<1>2. \A n \in DOMAIN changed : n \in DOMAIN tools /\ changed[n].item = tools[n].item
    BY DEF CodexTouched
<1>3. ASSUME NEW n \in DOMAIN changed
      PROVE  /\ changed[n].finished <=> tools[n].finished
             /\ ~ changed[n].finished => (changed[n].sawDelta <=> HeardOf(v, changed[n].item) # <<>>)
    <2>1. CASE tools[n].item = w.item
        BY <1>1, <1>2, <2>1 DEF CodexTouched
    <2>2. CASE tools[n].item # w.item
        BY <1>1, <1>2, <2>2 DEF CodexTouched, CodexKnows
    <2>. QED
        BY <2>1, <2>2
<1>4. \A j \in DOMAIN its : its[j] = "tool" => \E n \in DOMAIN changed : changed[n].item = j
    BY DEF CodexTouched, CodexKnows
<1>5. \A m, n \in DOMAIN changed : changed[m].item = changed[n].item => m = n
    BY <1>2 DEF CodexKnows
<1>6. \A n \in DOMAIN changed : changed[n].item \in DOMAIN its /\ its[changed[n].item] = "tool"
    BY <1>2 DEF CodexKnows
<1>7. \A n \in DOMAIN changed : changed[n].finished => changed[n].item \in ended
    BY <1>2, <1>3 DEF CodexKnows
<1>. QED
    BY <1>3, <1>4, <1>5, <1>6, <1>7 DEF CodexKnows

\* A call is finished, with its item; the rest of it may have come in between.
LEMMA CodexKnowsEnd ==
    ASSUME NEW tools, NEW u, NEW its, NEW ended, CodexKnows(tools, u, its, ended),
           NEW i, NEW v, \A j : j # i => HeardOf(v, j) = HeardOf(u, j),
           NEW changed, CodexTouched(changed, tools, i, FALSE, TRUE),
           NEW more, more = ended \cup {i}
    PROVE  CodexKnows(changed, v, its, more)
<1>2. \A n \in DOMAIN changed : n \in DOMAIN tools /\ changed[n].item = tools[n].item
    BY DEF CodexTouched
<1>3. ASSUME NEW n \in DOMAIN changed
      PROVE  /\ changed[n].finished => changed[n].item \in more
             /\ ~ changed[n].finished => (changed[n].sawDelta <=> HeardOf(v, changed[n].item) # <<>>)
    <2>1. CASE tools[n].item = i
        BY <1>2, <2>1 DEF CodexTouched
    <2>2. CASE tools[n].item # i
        BY <1>2, <2>2 DEF CodexTouched, CodexKnows
    <2>. QED
        BY <2>1, <2>2
<1>4. \A j \in DOMAIN its : its[j] = "tool" => \E n \in DOMAIN changed : changed[n].item = j
    BY DEF CodexTouched, CodexKnows
<1>5. \A m, n \in DOMAIN changed : changed[m].item = changed[n].item => m = n
    BY <1>2 DEF CodexKnows
<1>6. \A n \in DOMAIN changed : changed[n].item \in DOMAIN its /\ its[changed[n].item] = "tool"
    BY <1>2 DEF CodexKnows
<1>. QED
    BY <1>3, <1>4, <1>5, <1>6 DEF CodexKnows

LEMMA CodexKnowsMore ==
    ASSUME NEW tools, NEW u, NEW its, NEW ended, CodexKnows(tools, u, its, ended),
           NEW more, ended \subseteq more
    PROVE  CodexKnows(tools, u, its, more)
BY DEF CodexKnows

\* The one call of an item.
FindsTool(d, its, i) ==
    \E n \in DOMAIN d.tools : /\ d.tools[n].item = i /\ C!Tool(d, i) = d.tools[n]
                              /\ i \in DOMAIN its /\ its[i] = "tool"

LEMMA CodexToolIs ==
    ASSUME NEW d, NEW u, NEW its, NEW ended, CodexKnows(d.tools, u, its, ended), NEW i
    PROVE  /\ i \in DOMAIN its /\ its[i] = "tool" => C!KnownTool(d, i)
           /\ C!KnownTool(d, i) => FindsTool(d, its, i)
<1>1. i \in DOMAIN its /\ its[i] = "tool" => C!KnownTool(d, i)
    BY DEF CodexKnows, C!KnownTool
<1>2. ASSUME C!KnownTool(d, i)
      PROVE  FindsTool(d, its, i)
    <2>1. \E n \in DOMAIN d.tools : d.tools[n].item = i
        BY <1>2 DEF C!KnownTool
    <2>2. PICK n : n = CHOOSE m \in DOMAIN d.tools : d.tools[m].item = i
        OBVIOUS
    <2>3. n \in DOMAIN d.tools /\ d.tools[n].item = i
        BY <2>1, <2>2
    <2>. QED
        BY Zenon, <2>2, <2>3 DEF C!Tool, CodexKnows, FindsTool
<1>. QED
    BY <1>1, <1>2

CodexState(d) ==
    d = [entries |-> d.entries, open |-> d.open, tools |-> d.tools, started |-> d.started,
         reason |-> d.reason]

LEMMA CodexMatchIs ==
    ASSUME NEW d, NEW n, NEW S, NEW E, NEW T, CodexMatch(d, n, S, E, T)
    PROVE  /\ CodexState(d) /\ CodexNumbers(d.started, S) /\ CodexOpen(d.open, S, E)
           /\ CodexTools(d.tools, n, S, E) /\ CallsMatch(d.entries, S, E, T)
           /\ Sequential(d.tools) /\ Sequential(d.open) /\ Records(d.entries)
           /\ \A m \in DOMAIN d.entries : <<"tool", d.entries[m].id>> \in S
<1>1. /\ CodexState(d) /\ CodexNumbers(d.started, S) /\ CodexOpen(d.open, S, E)
      /\ CodexTools(d.tools, n, S, E) /\ CallsMatch(d.entries, S, E, T)
    BY DEF CodexMatch, CodexState
<1>. QED
    BY <1>1, CallsMatchRecords DEF CodexTools, CodexOpen

\* An item that is no call: nothing is emitted.
LEMMA CodexTellsItem ==
    ASSUME NEW s, NEW d, NEW u, NEW its, NEW ended, CodexTells(s, d, u, its, ended),
           NEW i, i # 0, NEW kind, kind # "tool", NEW more, Grown(more, its, i, kind),
           NEW r, r.events = <<>>, r.state = d
    PROVE  CodexCame(s, r, u, more, ended)
<1>1. Tells(s, d.entries, u, more, ended) /\ CodexKnows(d.tools, u, more, ended)
    BY TellsItem, CodexKnowsItem DEF CodexTells
<1>2. PICK f : Homes(f, s, u, its) /\ CodexTexts(f, s, d.open, ended)
    BY DEF CodexTells
<1>3. HeardOf(u, i) = <<>>
    BY DEF CodexTells, Tells, HeardItems, Grown
<1>4. Homes(f, s, u, more)
    BY <1>2, <1>3, HomesItem
<1>5. CodexTells(s, d, u, more, ended)
    BY <1>1, <1>2, <1>4 DEF CodexTells
<1>6. Leads(s, <<>>, s)
    BY LeadsNone
<1>. QED
    BY <1>5, <1>6 DEF CodexCame

\* A call is tracked.
CodexTracked(r, d, i) ==
    /\ r.events = <<Start("tool", i)>> /\ r.state.entries = StartEntry(d.entries, i)
    /\ r.state.open = d.open
    /\ \E x : /\ x.item = i /\ x.sawDelta = FALSE /\ x.finished = FALSE
              /\ Adds(r.state.tools, d.tools, x)

LEMMA CodexTrackedIs ==
    ASSUME NEW d, CodexState(d), NEW i
    PROVE  CodexTracked(C!TrackFunctionCall(d, i), d, i)
<1>. PICK x : x = [item |-> i, sawDelta |-> FALSE, finished |-> FALSE]
    OBVIOUS
<1>. DEFINE more == Append(d.tools, x)
            entries == StartEntry(d.entries, i)
            mid  == [d EXCEPT !.tools = more]
            next == [d EXCEPT !.tools = Append(@, x), !.entries = StartEntry(@, i)]
<1>1. C!TrackFunctionCall(d, i) = [state |-> next, events |-> <<Start("tool", i)>>, error |-> "none"]
    <2>1. C!TrackFunctionCall(d, i) = C!Emits(next, <<C!Start("tool", i)>>)
        BY CodexSame DEF C!TrackFunctionCall
    <2>. HIDE DEF next
    <2>. QED
        BY <2>1, CodexSame DEF Emits
<1>2. next.entries = entries /\ next.open = d.open /\ next.tools = more
    <2>1. next = [mid EXCEPT !.entries = StartEntry(mid.entries, i)]
        BY DEF CodexState
    <2>2. mid = [entries |-> d.entries, open |-> d.open, tools |-> more, started |-> d.started,
                 reason |-> d.reason]
        <3>. HIDE DEF more
        <3>. QED
            BY DEF CodexState
    <2>. HIDE DEF mid, next, more
    <2>. QED
        BY <2>1, <2>2
<1>3. x.item = i /\ x.sawDelta = FALSE /\ x.finished = FALSE /\ Adds(more, d.tools, x)
    BY DEF Adds
<1>. HIDE DEF next, more, entries
<1>. QED
    BY <1>1, <1>2, <1>3 DEF CodexTracked, entries

LEMMA CodexTellsTrack ==
    ASSUME NEW s, NEW d, NEW n, NEW E, NEW T, CodexMatch(d, n, s.started, E, T),
           NEW u, NEW its, NEW ended, CodexTells(s, d, u, its, ended),
           NEW i, i # 0, NEW more, Grown(more, its, i, "tool"),
           NEW r, CodexTracked(r, d, i)
    PROVE  CodexCame(s, r, u, more, ended)
<1>1. Sequential(d.tools) /\ Sequential(d.entries)
    BY CodexMatchIs DEF Records
<1>2. PICK f : Homes(f, s, u, its) /\ CodexTexts(f, s, d.open, ended)
    BY DEF CodexTells
<1>3. HeardOf(u, i) = <<>> /\ DOMAIN s.buffers = s.started
    BY DEF CodexTells, Tells, HeardItems, Grown, Agrees, Listed
<1>4. Homes(f, s, u, more)
    BY <1>2, <1>3, HomesItem
<1>5. PICK t : t = Taken(s, Start("tool", i))
    OBVIOUS
<1>6. Tells(t, StartEntry(d.entries, i), u, more, ended) /\ TookStart(t, s, <<"tool", i>>)
      /\ <<"tool", i>> \notin s.started
    BY <1>1, <1>5, TellsBeginsCall DEF CodexTells
<1>7. Homes(f, t, u, more)
    BY <1>3, <1>4, <1>6, HomesBeginCall
<1>8. CodexTexts(f, t, d.open, ended)
    <2>1. t.started = s.started \cup {<<"tool", i>>}
        BY <1>6 DEF TookStart
    <2>2. TextsOf(t) = TextsOf(s)
        BY <2>1 DEF TextsOf, Texts
    <2>. QED
        BY <1>2, <2>2 DEF CodexTexts
<1>9. PICK x : /\ x.item = i /\ x.sawDelta = FALSE /\ x.finished = FALSE
               /\ Adds(r.state.tools, d.tools, x)
    BY DEF CodexTracked
<1>10. CodexKnows(r.state.tools, u, more, ended)
    BY <1>1, <1>3, <1>9, CodexKnowsCall DEF CodexTells
<1>11. CodexTells(t, r.state, u, more, ended)
    BY <1>6, <1>7, <1>8, <1>10 DEF CodexTells, CodexTracked
<1>12. Leads(s, r.events, t)
    BY <1>5, LeadsOne DEF CodexTracked
<1>. QED
    BY <1>11, <1>12 DEF CodexCame

\* A piece of a text: what is open for its item goes on, or a text begins.
CodexGave(r, d, i, kind, data) ==
    LET at == C!OpenAt(d, kind, i)
    IN  IF at # <<>>
        THEN r.state = d /\ r.events = <<Delta(kind, Head(at).id, data)>>
        ELSE \E id, o : /\ id = d.started[kind] + 1
                        /\ o.kind = kind /\ o.item = i /\ o.id = id
                        /\ r.events = <<Start(kind, id), Delta(kind, id, data)>>
                        /\ r.state.entries = d.entries /\ r.state.tools = d.tools
                        /\ Adds(r.state.open, d.open, o)

\* A piece that says something.
Voiced(data) == data # ""

LEMMA CodexGaveIs ==
    ASSUME NEW d, NEW S, CodexState(d), CodexNumbers(d.started, S), NEW i, NEW kind \in Texts,
           NEW data, Voiced(data), NEW c, c = C!Chunk("delta", i, kind, data)
    PROVE  CodexGave(C!DeltaOf(d, c), d, i, kind, data)
<1>0. c.kind = kind /\ c.item = i /\ c.data = data /\ kind \in Kinds
    BY DEF C!Chunk, Kinds, Texts
<1>. DEFINE at == C!OpenAt(d, kind, i)
            m  == d.started[kind] + 1
            o  == [kind |-> kind, item |-> i, id |-> m]
            more == Append(d.open, o)
            next == [d EXCEPT !.started[kind] = m, !.open = Append(@, o)]
<1>1. C!DeltaOf(d, c) =
        IF at # <<>> THEN Emits(d, <<Delta(kind, Head(at).id, data)>>)
        ELSE Emits(next, <<Start(kind, m), Delta(kind, m, data)>>)
    <2>1. C!DeltaOf(d, c) =
        IF at # <<>> THEN C!Emits(d, <<C!Delta(kind, Head(at).id, data)>>)
        ELSE C!Emits(next, <<C!Start(kind, m), C!Delta(kind, m, data)>>)
        BY Zenon, <1>0 DEF C!DeltaOf, Voiced
    <2>. HIDE DEF at, m, next
    <2>. QED
        BY <2>1, CodexSame
<1>2. next.entries = d.entries /\ next.tools = d.tools /\ next.open = more
    <2>. DEFINE mid == [d EXCEPT !.started[kind] = m]
                numbers == [d.started EXCEPT ![kind] = m]
    <2>1. d = [entries |-> d.entries, open |-> d.open, tools |-> d.tools, started |-> d.started,
               reason |-> d.reason]
        BY DEF CodexState
    <2>2. mid = [entries |-> d.entries, open |-> d.open, tools |-> d.tools, started |-> numbers,
                 reason |-> d.reason]
        <3>. HIDE DEF m, next, more, o
        <3>. QED
            BY <2>1
    <2>3. next = [mid EXCEPT !.open = Append(d.open, o)]
        BY DEF CodexState
    <2>. HIDE DEF mid, numbers, o, next
    <2>. QED
        BY <2>2, <2>3
<1>3. o.kind = kind /\ o.item = i /\ o.id = m /\ Adds(more, d.open, o)
    BY DEF Adds
<1>. HIDE DEF next, more, o
<1>. PICK r : r = C!DeltaOf(d, c)
    OBVIOUS
<1>. PICK id : id = m
    OBVIOUS
<1>4. CASE at # <<>>
    <2>1. r.state = d /\ r.events = <<Delta(kind, Head(at).id, data)>>
        BY <1>1, <1>4 DEF Emits
    <2>2. CodexGave(r, d, i, kind, data)
        BY <1>4, <2>1 DEF CodexGave
    <2>. QED
        BY <2>2
<1>5. CASE at = <<>>
    <2>1. r.state = next /\ r.events = <<Start(kind, id), Delta(kind, id, data)>>
        BY <1>1, <1>5 DEF Emits
    <2>2. id = d.started[kind] + 1
        OBVIOUS
    <2>. HIDE DEF m
    <2>3. /\ o.kind = kind /\ o.item = i /\ o.id = id /\ Adds(r.state.open, d.open, o)
          /\ r.state.entries = d.entries /\ r.state.tools = d.tools
        BY <1>2, <1>3, <2>1
    <2>4. CodexGave(r, d, i, kind, data)
        BY <1>5, <2>1, <2>2, <2>3 DEF CodexGave
    <2>. QED
        BY <2>4
<1>. QED
    BY <1>4, <1>5

\* What is found open for an item is of that item.
LEMMA CodexFoundIs ==
    ASSUME NEW d, Sequential(d.open), NEW kind, NEW item
    PROVE  /\ C!OpenAt(d, kind, item) # <<>> =>
                \E n \in DOMAIN d.open : /\ d.open[n].kind = kind /\ d.open[n].item = item
                                         /\ Head(C!OpenAt(d, kind, item)) = d.open[n]
           /\ C!OpenAt(d, kind, item) = <<>> =>
                \A n \in DOMAIN d.open : ~ (d.open[n].kind = kind /\ d.open[n].item = item)
<1>. DEFINE open == d.open
            X    == {k \in 1..Len(open) : open[k].kind = kind /\ open[k].item = item}
            at   == Picked(open, X)
<1>1. Sequential(open) /\ DOMAIN open = 1..Len(open)
    BY SequenceIs
<1>2. C!OpenAt(d, kind, item) = at
    <2>1. C!OpenAt(d, kind, item) =
            C!FlattenSeq([n \in DOMAIN open |-> IF open[n].kind = kind /\ open[n].item = item
                                                THEN <<open[n]>> ELSE <<>>])
        BY DEF C!OpenAt, C!Select
    <2>2. [n \in DOMAIN open |-> IF open[n].kind = kind /\ open[n].item = item THEN <<open[n]>> ELSE <<>>]
            = [n \in DOMAIN open |-> IF n \in X THEN <<open[n]>> ELSE <<>>]
        BY <1>1
    <2>3. \A w : C!FlattenSeq(w) = FlattenSeq(w)
        BY DEF C!FlattenSeq, FlattenSeq
    <2>. HIDE DEF open, X
    <2>. QED
        BY <2>1, <2>2, <2>3 DEF Picked
<1>3. X \in SUBSET (1..Len(open))
    OBVIOUS
<1>4. Part(at, open, X)
    <2>. HIDE DEF X, open
    <2>. QED
        BY <1>1, <1>3, Parting
<1>. HIDE DEF at
<1>6. PICK p : /\ p \in [1..Len(at) -> X] /\ \A i \in 1..Len(at) : at[i] = open[p[i]]
               /\ \A x \in X : \E i \in 1..Len(at) : p[i] = x
    BY <1>4 DEF Part
<1>7. Len(at) \in Nat /\ at = [i \in 1..Len(at) |-> at[i]] /\ Sequential(at)
    BY <1>4, SequenceIs DEF Part
<1>8. CASE at # <<>>
    <2>1. 1 \in 1..Len(at) /\ Head(at) = at[1]
        <3>1. Len(at) # 0
            BY <1>7, <1>8
        <3>2. at[1] = Head(at)
            <4>1. PICK V : at \in Seq(V)
                BY <1>7 DEF Sequential
            <4>. QED
                BY <1>8, <4>1
        <3>. QED
            BY <1>7, <3>1, <3>2
    <2>2. p[1] \in X /\ Head(at) = open[p[1]]
        BY <1>6, <2>1
    <2>3. p[1] \in DOMAIN open /\ open[p[1]].kind = kind /\ open[p[1]].item = item
        BY <1>1, <2>2
    <2>. QED
        BY <1>2, <1>8, <2>2, <2>3
<1>9. CASE at = <<>>
    <2>1. Len(at) = 0
        BY <1>9, Nothing
    <2>2. X = {}
        BY <1>6, <2>1
    <2>. QED
        BY <1>1, <1>2, <1>9, <2>2
<1>. QED
    BY <1>8, <1>9

LEMMA CodexTellsDelta ==
    ASSUME NEW s, NEW d, NEW n, NEW E, NEW T, CodexMatch(d, n, s.started, E, T),
           NEW u, NEW its, NEW ended, CodexTells(s, d, u, its, ended),
           NEW i \in DOMAIN its \ ended, NEW kind \in Texts, its[i] = kind, NEW data,
           NEW w, w.kind = kind, w.item = i, w.data = data, NEW v, Adds(v, u, w),
           NEW r, CodexGave(r, d, i, kind, data)
    PROVE  CodexCame(s, r, v, its, ended)
<1>0. kind # "tool"
    BY DEF Texts
<1>1. /\ Sequential(d.open) /\ CodexOpen(d.open, s.started, E) /\ CodexNumbers(d.started, s.started)
      /\ \A m \in DOMAIN d.entries : <<"tool", d.entries[m].id>> \in s.started
      /\ DOMAIN d.open = 1..Len(d.open)
    BY CodexMatchIs, SequenceIs
<1>2. Tells(s, d.entries, u, its, ended) /\ CodexKnows(d.tools, u, its, ended) /\ Sequential(u)
      /\ MadeIs(s, its) /\ DOMAIN s.buffers = s.started
    BY DEF CodexTells, Tells, Agrees, Listed
<1>3. \A m \in DOMAIN d.entries : d.entries[m].id # i
    BY <1>0, <1>1, <1>2 DEF MadeIs
<1>4. PICK f : Homes(f, s, u, its) /\ CodexTexts(f, s, d.open, ended)
    BY DEF CodexTells
<1>5. CodexKnows(d.tools, v, its, ended)
    BY <1>0, <1>2, CodexKnowsText
<1>6. CASE C!OpenAt(d, kind, i) # <<>>
    <2>1. PICK m \in DOMAIN d.open : /\ d.open[m].kind = kind /\ d.open[m].item = i
                                     /\ Head(C!OpenAt(d, kind, i)) = d.open[m]
        BY <1>1, <1>6, CodexFoundIs
    <2>2. PICK id, k : id = d.open[m].id /\ k = <<kind, id>>
        OBVIOUS
    <2>3. r.state = d /\ r.events = <<Delta(kind, id, data)>>
        BY <1>6, <2>1, <2>2 DEF CodexGave
    <2>4. f[k] = i
        BY <1>4, <2>1, <2>2 DEF CodexTexts
    <2>5. k \in s.started /\ k \in TextsOf(s)
        BY <1>1, <2>1, <2>2 DEF CodexOpen, TextsOf
    <2>6. PICK t : t = Taken(s, Delta(kind, id, data))
        OBVIOUS
    <2>7. Tells(t, d.entries, v, its, ended) /\ SaidAlone(t, s, k, data)
        BY <1>2, <1>3, <2>2, <2>5, <2>6, TellsSays
    <2>8. Homes(f, t, v, its)
        BY <1>2, <1>4, <2>4, <2>5, <2>7, HomesSaid
    <2>9. CodexTexts(f, t, d.open, ended)
        BY <1>4, <2>7, CodexTextsStill DEF SaidAlone
    <2>10. CodexTells(t, d, v, its, ended)
        BY <1>5, <2>7, <2>8, <2>9 DEF CodexTells
    <2>11. Leads(s, r.events, t)
        BY <2>3, <2>6, LeadsOne
    <2>. QED
        BY <2>3, <2>10, <2>11 DEF CodexCame
<1>7. CASE C!OpenAt(d, kind, i) = <<>>
    <2>1. PICK id, o : /\ id = d.started[kind] + 1
                       /\ o.kind = kind /\ o.item = i /\ o.id = id
                       /\ r.events = <<Start(kind, id), Delta(kind, id, data)>>
                       /\ r.state.entries = d.entries /\ r.state.tools = d.tools
                       /\ Adds(r.state.open, d.open, o)
        BY <1>7 DEF CodexGave
    <2>2. PICK k : k = <<kind, id>>
        OBVIOUS
    <2>3. k \notin s.started
        <3>1. d.started[kind] \in Nat /\ \A m \in Nat : m > d.started[kind] => <<kind, m>> \notin s.started
            BY <1>1 DEF CodexNumbers
        <3>2. id \in Nat /\ id > d.started[kind]
            BY <2>1, <3>1
        <3>. QED
            BY <2>2, <3>1, <3>2
    <2>4. \A j \in TextsOf(s) : f[j] # i
        <3>. SUFFICES ASSUME NEW j \in TextsOf(s), f[j] = i
                      PROVE  FALSE
            OBVIOUS
        <3>1. PICK m \in DOMAIN d.open : j = <<d.open[m].kind, d.open[m].id>>
            BY <1>4 DEF CodexTexts
        <3>2. d.open[m].item = i
            BY <1>4, <3>1 DEF CodexTexts
        <3>3. j[1] = kind
            BY <1>4 DEF Homes
        <3>4. d.open[m].kind = kind
            BY <3>1, <3>3
        <3>. QED
            BY <1>1, <1>7, <3>2, <3>4, CodexFoundIs
    <2>5. HeardOf(u, i) = <<>>
        BY <1>4, <2>4 DEF Homes
    <2>6. PICK t : t = Taken(s, Start(kind, id))
        OBVIOUS
    <2>7. Tells(t, d.entries, u, its, ended) /\ TookStart(t, s, k)
        BY <1>2, <2>2, <2>3, <2>6, TellsBegins
    <2>. DEFINE h == [j \in s.started \cup {k} |-> IF j = k THEN i ELSE f[j]]
    <2>8. h[k] = i /\ \A j \in s.started : h[j] = f[j]
        BY <2>3
    <2>. HIDE DEF h
    <2>9. Homes(h, t, u, its)
        BY <1>2, <1>4, <2>2, <2>3, <2>4, <2>5, <2>7, <2>8, HomesBegin
    <2>10. t.started = s.started \cup {k}
        BY <2>7 DEF TookStart
    <2>11. CodexTexts(h, t, r.state.open, ended)
        <3>1. /\ \A m \in DOMAIN d.open : r.state.open[m] = d.open[m]
              /\ \E l : /\ l \notin DOMAIN d.open /\ DOMAIN r.state.open = DOMAIN d.open \cup {l}
                        /\ r.state.open[l] = o
            <4>1. PICK new, old, y : new = r.state.open /\ old = d.open /\ y = o
                OBVIOUS
            <4>2. Sequential(old) /\ Adds(new, old, y)
                BY <1>1, <2>1, <4>1
            <4>3. /\ DOMAIN old \subseteq DOMAIN new
                  /\ \A m \in DOMAIN old : new[m] = old[m]
                  /\ \E l : l \notin DOMAIN old /\ DOMAIN new = DOMAIN old \cup {l} /\ new[l] = y
                BY <4>2, AddsMembers
            <4>. QED
                BY <4>1, <4>3
        <3>2. PICK l : /\ l \notin DOMAIN d.open /\ DOMAIN r.state.open = DOMAIN d.open \cup {l}
                       /\ r.state.open[l] = o
            BY <3>1
        <3>3. \A m \in DOMAIN d.open : <<d.open[m].kind, d.open[m].id>> \in s.started
            BY <1>1 DEF CodexOpen
        <3>4. \A m \in DOMAIN r.state.open : h[<<r.state.open[m].kind, r.state.open[m].id>>] = r.state.open[m].item
            <4>. TAKE m \in DOMAIN r.state.open
            <4>1. CASE m \in DOMAIN d.open
                <5>1. f[<<d.open[m].kind, d.open[m].id>>] = d.open[m].item
                    BY <1>4, <4>1 DEF CodexTexts
                <5>. QED
                    BY <2>8, <3>1, <3>3, <4>1, <5>1
            <4>2. CASE m = l
                BY <2>1, <2>2, <2>8, <3>2, <4>2
            <4>. QED
                BY <3>2, <4>1, <4>2
        <3>5. ASSUME NEW j \in TextsOf(t), h[j] \notin ended
              PROVE  \E m \in DOMAIN r.state.open : j = <<r.state.open[m].kind, r.state.open[m].id>>
            <4>1. CASE j = k
                BY <2>1, <2>2, <3>2, <4>1
            <4>2. CASE j # k
                <5>1. j \in TextsOf(s) /\ h[j] = f[j]
                    BY <2>8, <2>10, <4>2 DEF TextsOf
                <5>2. PICK m \in DOMAIN d.open : j = <<d.open[m].kind, d.open[m].id>>
                    BY <1>4, <3>5, <5>1 DEF CodexTexts
                <5>. QED
                    BY <3>1, <3>2, <5>2
            <4>. QED
                BY <4>1, <4>2
        <3>. QED
            BY <3>4, <3>5 DEF CodexTexts
    <2>12. k \in t.started /\ k \in TextsOf(t) /\ Sequential(u)
        BY <1>2, <2>2, <2>10 DEF TextsOf
    <2>13. PICK z : z = Taken(t, Delta(kind, id, data))
        OBVIOUS
    <2>14. Tells(z, d.entries, v, its, ended) /\ SaidAlone(z, t, k, data)
        BY <1>3, <2>2, <2>7, <2>12, <2>13, TellsSays
    <2>15. Homes(h, z, v, its)
        BY <2>8, <2>9, <2>12, <2>14, HomesSaid
    <2>16. CodexTexts(h, z, r.state.open, ended)
        BY <2>11, <2>14, CodexTextsStill DEF SaidAlone
    <2>17. CodexTells(z, r.state, v, its, ended)
        BY <1>5, <2>1, <2>14, <2>15, <2>16 DEF CodexTells
    <2>18. Leads(s, r.events, z)
        <3>1. Leads(s, <<Start(kind, id)>>, t)
            BY <2>6, LeadsOne
        <3>2. Leads(t, <<Delta(kind, id, data)>>, z)
            BY <2>13, LeadsOne
        <3>3. Follows(<<Start(kind, id), Delta(kind, id, data)>>, <<Start(kind, id)>>, <<Delta(kind, id, data)>>)
            BY Pair DEF Follows
        <3>. QED
            BY <2>1, <3>1, <3>2, <3>3, LeadsOn
    <2>. QED
        BY <2>17, <2>18 DEF CodexCame
<1>. QED
    BY <1>6, <1>7

\* The texts that are open for an item are closed.
CodexShut(r, d, i) ==
    \E X : /\ X \in SUBSET (1..Len(d.open)) /\ \A m \in X : d.open[m].item = i
           /\ \A m \in 1..Len(d.open) : m \notin X => d.open[m].item # i
           /\ r.state.open = Picked(d.open, (1..Len(d.open)) \ X)
           /\ r.events = EndsOf(Picked(d.open, X))
           /\ r.state.entries = d.entries /\ r.state.tools = d.tools

LEMMA CodexTellsShut ==
    ASSUME NEW s, NEW d, NEW n, NEW E, NEW T, CodexMatch(d, n, s.started, E, T),
           NEW u, NEW its, NEW ended, CodexTells(s, d, u, its, ended),
           NEW i, NEW more, more = ended \cup {i}, NEW r, CodexShut(r, d, i)
    PROVE  CodexCame(s, r, u, its, more)
<1>1. Sequential(d.open) /\ DOMAIN d.open = 1..Len(d.open)
    BY CodexMatchIs, SequenceIs
<1>2. PICK X : /\ X \in SUBSET (1..Len(d.open)) /\ \A m \in X : d.open[m].item = i
               /\ \A m \in 1..Len(d.open) : m \notin X => d.open[m].item # i
               /\ r.state.open = Picked(d.open, (1..Len(d.open)) \ X)
               /\ r.events = EndsOf(Picked(d.open, X))
               /\ r.state.entries = d.entries /\ r.state.tools = d.tools
    BY DEF CodexShut
<1>3. PICK rest, gone : rest = r.state.open /\ gone = Picked(d.open, X)
    OBVIOUS
<1>4. (1..Len(d.open)) \ X \in SUBSET (1..Len(d.open))
    OBVIOUS
<1>5. Part(gone, d.open, X) /\ Part(rest, d.open, (1..Len(d.open)) \ X)
    BY <1>1, <1>2, <1>3, <1>4, Parting
<1>6. Calm(EndsOf(gone), s, u, {})
    BY <1>5, CalmEnds DEF Part
<1>7. Tells(s, d.entries, u, its, ended) /\ EntriesAre(r.state.entries, u) /\ ended \cup {} \subseteq more
    BY <1>2 DEF CodexTells, Tells
<1>8. PICK t : Leads(s, EndsOf(gone), t) /\ Tells(t, r.state.entries, u, its, more) /\ Still(t, s)
    BY <1>6, <1>7, TellsCalm
<1>9. PICK f : Homes(f, s, u, its) /\ CodexTexts(f, s, d.open, ended)
    BY DEF CodexTells
<1>10. Homes(f, t, u, its)
    BY <1>8, <1>9, HomesStill
<1>11. CodexTexts(f, s, rest, more)
    <2>1. PICK p : /\ p \in [1..Len(rest) -> (1..Len(d.open)) \ X]
                   /\ \A x \in (1..Len(d.open)) \ X : \E j \in 1..Len(rest) : p[j] = x
                   /\ \A j \in 1..Len(rest) : rest[j] = d.open[p[j]]
        BY <1>5 DEF Part
    <2>2. DOMAIN rest = 1..Len(rest)
        BY <1>5, SequenceIs DEF Part
    <2>3. \A j \in DOMAIN rest : f[<<rest[j].kind, rest[j].id>>] = rest[j].item
        <3>. TAKE j \in DOMAIN rest
        <3>1. p[j] \in DOMAIN d.open /\ rest[j] = d.open[p[j]]
            BY <1>1, <2>1, <2>2
        <3>. QED
            BY <1>9, <3>1 DEF CodexTexts
    <2>4. ASSUME NEW k \in TextsOf(s), f[k] \notin more
          PROVE  \E j \in DOMAIN rest : k = <<rest[j].kind, rest[j].id>>
        <3>1. PICK m \in DOMAIN d.open : k = <<d.open[m].kind, d.open[m].id>>
            BY <1>9, <2>4 DEF CodexTexts
        <3>2. d.open[m].item # i
            BY <1>9, <2>4, <3>1 DEF CodexTexts
        <3>3. m \in (1..Len(d.open)) \ X
            BY <1>1, <1>2, <3>2
        <3>4. PICK j \in 1..Len(rest) : p[j] = m
            BY <2>1, <3>3
        <3>. QED
            BY <2>1, <2>2, <3>1, <3>4
    <2>. QED
        BY <2>3, <2>4 DEF CodexTexts
<1>12. CodexTexts(f, t, rest, more)
    BY <1>8, <1>11, CodexTextsStill DEF Still
<1>13. CodexKnows(r.state.tools, u, its, more)
    BY <1>2, CodexKnowsMore DEF CodexTells
<1>14. CodexTells(t, r.state, u, its, more)
    BY <1>3, <1>8, <1>10, <1>12, <1>13 DEF CodexTells
<1>. QED
    BY <1>2, <1>3, <1>8, <1>14 DEF CodexCame

\* A piece of a call's input.
CodexArgued(r, d, i, data) ==
    /\ r.events = <<Delta("tool", i, data)>> /\ r.state.entries = AppendArgs(d.entries, i, data)
    /\ r.state.open = d.open /\ CodexTouched(r.state.tools, d.tools, i, TRUE, FALSE)

LEMMA CodexToolRecords ==
    ASSUME NEW tools, NEW n, NEW S, NEW E, CodexTools(tools, n, S, E), NEW k \in DOMAIN tools
    PROVE  tools[k] = [item |-> tools[k].item, sawDelta |-> tools[k].sawDelta,
                       finished |-> tools[k].finished]
BY SequenceIs DEF CodexTools

LEMMA CodexSawIs ==
    ASSUME NEW tools, NEW i,
           \A k \in DOMAIN tools : tools[k] = [item |-> tools[k].item, sawDelta |-> tools[k].sawDelta,
                                               finished |-> tools[k].finished],
           NEW changed,
           changed = [k \in DOMAIN tools |-> IF tools[k].item = i
                                             THEN [tools[k] EXCEPT !.sawDelta = TRUE] ELSE tools[k]]
    PROVE  CodexTouched(changed, tools, i, TRUE, FALSE)
<1>. SUFFICES ASSUME NEW k \in DOMAIN tools
              PROVE  /\ changed[k].item = tools[k].item
                     /\ IF tools[k].item = i
                        THEN /\ changed[k].sawDelta <=> TRUE \/ tools[k].sawDelta
                             /\ changed[k].finished <=> FALSE \/ tools[k].finished
                        ELSE changed[k] = tools[k]
    BY DEF CodexTouched
<1>1. CASE tools[k].item # i
    BY <1>1
<1>2. CASE tools[k].item = i
    <2>1. PICK x : x = tools[k]
        OBVIOUS
    <2>2. x = [item |-> x.item, sawDelta |-> x.sawDelta, finished |-> x.finished]
        BY <2>1
    <2>3. changed[k] = [x EXCEPT !.sawDelta = TRUE]
        BY <1>2, <2>1
    <2>4. changed[k].item = x.item /\ changed[k].sawDelta = TRUE /\ changed[k].finished = x.finished
        BY <2>2, <2>3
    <2>. QED
        BY <1>2, <2>1, <2>4
<1>. QED
    BY <1>1, <1>2

LEMMA CodexFinishedIs ==
    ASSUME NEW tools, NEW i,
           \A k \in DOMAIN tools : tools[k] = [item |-> tools[k].item, sawDelta |-> tools[k].sawDelta,
                                               finished |-> tools[k].finished],
           NEW changed,
           changed = [k \in DOMAIN tools |-> IF tools[k].item = i
                                             THEN [tools[k] EXCEPT !.finished = TRUE] ELSE tools[k]]
    PROVE  CodexTouched(changed, tools, i, FALSE, TRUE)
<1>. SUFFICES ASSUME NEW k \in DOMAIN tools
              PROVE  /\ changed[k].item = tools[k].item
                     /\ IF tools[k].item = i
                        THEN /\ changed[k].sawDelta <=> FALSE \/ tools[k].sawDelta
                             /\ changed[k].finished <=> TRUE \/ tools[k].finished
                        ELSE changed[k] = tools[k]
    BY DEF CodexTouched
<1>1. CASE tools[k].item # i
    BY <1>1
<1>2. CASE tools[k].item = i
    <2>1. PICK x : x = tools[k]
        OBVIOUS
    <2>2. x = [item |-> x.item, sawDelta |-> x.sawDelta, finished |-> x.finished]
        BY <2>1
    <2>3. changed[k] = [x EXCEPT !.finished = TRUE]
        BY <1>2, <2>1
    <2>4. changed[k].item = x.item /\ changed[k].finished = TRUE /\ changed[k].sawDelta = x.sawDelta
        BY <2>2, <2>3
    <2>. QED
        BY <1>2, <2>1, <2>4
<1>. QED
    BY <1>1, <1>2

LEMMA CodexArguedIs ==
    ASSUME NEW d, NEW n, NEW S, NEW E, CodexTools(d.tools, n, S, E), CodexState(d),
           NEW i, C!KnownTool(d, i), ~ C!Tool(d, i).finished, NEW data, Voiced(data), NEW kind,
           NEW c, c = C!Chunk("arguments.delta", i, kind, data)
    PROVE  CodexArgued(C!ArgumentsDelta(d, c), d, i, data)
<1>0. c.item = i /\ c.data = data
    BY DEF C!Chunk
<1>. DEFINE changed == [k \in DOMAIN d.tools |->
                          IF d.tools[k].item = i
                          THEN [d.tools[k] EXCEPT !.sawDelta = TRUE] ELSE d.tools[k]]
            entries == AppendArgs(d.entries, i, data)
            mid     == [d EXCEPT !.tools = changed]
            next    == [mid EXCEPT !.entries = AppendArgs(mid.entries, i, data)]
<1>1. C!ArgumentsDelta(d, c) = Emits(next, <<Delta("tool", i, data)>>)
    <2>1. C!Change(d, i, LAMBDA e : [e EXCEPT !.sawDelta = TRUE]) = mid
        BY DEF C!Change
    <2>. HIDE DEF mid
    <2>2. C!ArgumentsDelta(d, c) = C!Emits(next, <<C!Delta("tool", i, data)>>)
        BY Zenon, <1>0, <2>1, CodexSame DEF C!ArgumentsDelta, Voiced
    <2>. HIDE DEF next
    <2>. QED
        BY <2>2, CodexSame
<1>2. CodexTouched(changed, d.tools, i, TRUE, FALSE)
    <2>1. \A k \in DOMAIN d.tools : d.tools[k] = [item |-> d.tools[k].item, sawDelta |-> d.tools[k].sawDelta,
                                               finished |-> d.tools[k].finished]
        BY CodexToolRecords
    <2>. QED
        BY <2>1, CodexSawIs
<1>. HIDE DEF changed
<1>3. next.entries = entries /\ next.open = d.open /\ next.tools = changed
    <2>1. d = [entries |-> d.entries, open |-> d.open, tools |-> d.tools, started |-> d.started,
               reason |-> d.reason]
        BY DEF CodexState
    <2>2. mid = [entries |-> d.entries, open |-> d.open, tools |-> changed, started |-> d.started,
                 reason |-> d.reason]
        BY <2>1
    <2>. HIDE DEF mid
    <2>. QED
        BY <2>2
<1>. HIDE DEF next, entries, mid
<1>. PICK r : r = C!ArgumentsDelta(d, c)
    OBVIOUS
<1>4. r.state = next /\ r.events = <<Delta("tool", i, data)>>
    BY <1>1 DEF Emits
<1>5. CodexArgued(r, d, i, data)
    BY <1>2, <1>3, <1>4 DEF CodexArgued, entries
<1>. QED
    BY <1>5

LEMMA CodexTellsArgued ==
    ASSUME NEW s, NEW d, NEW n, NEW E, NEW T, CodexMatch(d, n, s.started, E, T),
           NEW u, NEW its, NEW ended, CodexTells(s, d, u, its, ended),
           NEW i \in DOMAIN its \ ended, its[i] = "tool", NEW data,
           NEW w, w.kind = "tool", w.item = i, w.data = data, NEW v, Adds(v, u, w),
           NEW r, CodexArgued(r, d, i, data)
    PROVE  CodexCame(s, r, v, its, ended)
<1>1. Records(d.entries)
    BY CodexMatchIs
<1>2. Tells(s, d.entries, u, its, ended) /\ CodexKnows(d.tools, u, its, ended) /\ Sequential(u)
      /\ MadeIs(s, its)
    BY DEF CodexTells, Tells, Agrees
<1>3. <<"tool", i>> \in s.started
    BY <1>2 DEF MadeIs
<1>4. PICK f : Homes(f, s, u, its) /\ CodexTexts(f, s, d.open, ended)
    BY DEF CodexTells
<1>5. PICK t : t = Taken(s, Delta("tool", i, data))
    OBVIOUS
<1>6. Tells(t, AppendArgs(d.entries, i, data), v, its, ended) /\ SaidAlone(t, s, <<"tool", i>>, data)
    BY <1>1, <1>2, <1>3, <1>5, TellsSaysCall
<1>7. Homes(f, t, v, its)
    BY <1>2, <1>4, <1>6, HomesSaidCall
<1>8. CodexTexts(f, t, r.state.open, ended)
    BY <1>4, <1>6, CodexTextsStill DEF SaidAlone, CodexArgued
<1>9. CodexKnows(r.state.tools, v, its, ended)
    BY <1>2, CodexKnowsPiece DEF CodexArgued
<1>10. CodexTells(t, r.state, v, its, ended)
    BY <1>6, <1>7, <1>8, <1>9 DEF CodexTells, CodexArgued
<1>11. Leads(s, r.events, t)
    BY <1>5, LeadsOne DEF CodexArgued
<1>. QED
    BY <1>10, <1>11 DEF CodexCame

\* A call is finished, with the entries it had before.
CodexEnded(r, d, i, entries) ==
    r.error = "none" =>
        /\ r.state.open = d.open /\ CodexTouched(r.state.tools, d.tools, i, FALSE, TRUE)
        /\ IF IsOpen(entries, i)
           THEN r.events = EntryEvents(Entry(entries, i)) /\ r.state.entries = Without(entries, i)
           ELSE r.events = <<>> /\ r.state.entries = entries

LEMMA FinishCallIs ==
    ASSUME NEW x, CodexState(x), NEW entries, x.entries = entries, NEW i,
           NEW r, r = FinishCall(x, i), r.error = "none"
    PROVE  /\ r.state.open = x.open /\ r.state.tools = x.tools
           /\ IF IsOpen(entries, i)
              THEN r.events = EntryEvents(Entry(entries, i)) /\ r.state.entries = Without(entries, i)
              ELSE r.events = <<>> /\ r.state.entries = entries
<1>1. CASE ~ IsOpen(entries, i)
    BY <1>1 DEF FinishCall, Emits
<1>2. CASE IsOpen(entries, i)
    <2>1. PICK rest, y : rest = Without(entries, i) /\ y = [x EXCEPT !.entries = rest]
        OBVIOUS
    <2>2. r = Emits(y, EntryEvents(Entry(entries, i)))
        BY <1>2, <2>1 DEF FinishCall, Fails
    <2>3. y.entries = rest /\ y.open = x.open /\ y.tools = x.tools
        BY <2>1 DEF CodexState
    <2>4. r.state = y /\ r.events = EntryEvents(Entry(entries, i))
        BY <2>2 DEF Emits
    <2>. QED
        BY <1>2, <2>1, <2>3, <2>4
<1>. QED
    BY <1>1, <1>2

LEMMA CodexEndedIs ==
    ASSUME NEW d, NEW n, NEW S, NEW E, CodexTools(d.tools, n, S, E), CodexState(d),
           NEW i, C!KnownTool(d, i), ~ C!Tool(d, i).finished, NEW final, NEW entries,
           entries = IF C!Tool(d, i).sawDelta \/ ~ Voiced(final) THEN d.entries
                     ELSE AppendArgs(d.entries, i, final)
    PROVE  CodexEnded(C!FinishFunctionCall(d, i, final), d, i, entries)
<1>. DEFINE changed == [k \in DOMAIN d.tools |->
                          IF d.tools[k].item = i
                          THEN [d.tools[k] EXCEPT !.finished = TRUE] ELSE d.tools[k]]
            t     == [d EXCEPT !.tools = changed]
            t2    == [t EXCEPT !.entries = AppendArgs(@, i, final)]
            taken == C!Tool(d, i).sawDelta \/ ~ Voiced(final)
            x     == IF taken THEN t ELSE t2
<1>1. C!FinishFunctionCall(d, i, final) = FinishCall(x, i)
    <2>1. C!Change(d, i, LAMBDA e : [e EXCEPT !.finished = TRUE]) = t
        BY DEF C!Change
    <2>. HIDE DEF t
    <2>2. C!FinishFunctionCall(d, i, final) = C!FinishCall(x, i)
        BY Zenon, <2>1, CodexSame DEF C!FinishFunctionCall, Voiced
    <2>. HIDE DEF x
    <2>. QED
        BY <2>2, CodexSame
<1>2. CodexTouched(changed, d.tools, i, FALSE, TRUE)
    <2>1. \A k \in DOMAIN d.tools : d.tools[k] = [item |-> d.tools[k].item, sawDelta |-> d.tools[k].sawDelta,
                                               finished |-> d.tools[k].finished]
        BY CodexToolRecords
    <2>. QED
        BY <2>1, CodexFinishedIs
<1>. HIDE DEF changed, x, taken
<1>3. CodexState(x) /\ x.entries = entries /\ x.open = d.open /\ x.tools = changed
    <2>1. d = [entries |-> d.entries, open |-> d.open, tools |-> d.tools, started |-> d.started,
               reason |-> d.reason]
        BY DEF CodexState
    <2>2. t = [entries |-> d.entries, open |-> d.open, tools |-> changed, started |-> d.started,
                 reason |-> d.reason]
        BY <2>1
    <2>. HIDE DEF t
    <2>3. t2 = [entries |-> AppendArgs(d.entries, i, final), open |-> d.open, tools |-> changed,
                started |-> d.started, reason |-> d.reason]
        BY <2>2
    <2>. HIDE DEF t2
    <2>4. CASE taken
        BY <2>2, <2>4 DEF taken, x, CodexState
    <2>5. CASE ~ taken
        BY <2>3, <2>5 DEF taken, x, CodexState
    <2>. QED
        BY <2>4, <2>5
<1>. PICK r : r = C!FinishFunctionCall(d, i, final)
    OBVIOUS
<1>4. r = FinishCall(x, i)
    BY <1>1
<1>5. CASE r.error = "none"
    <2>1. /\ r.state.open = x.open /\ r.state.tools = x.tools
          /\ IF IsOpen(entries, i)
             THEN r.events = EntryEvents(Entry(entries, i)) /\ r.state.entries = Without(entries, i)
             ELSE r.events = <<>> /\ r.state.entries = entries
        BY <1>3, <1>4, <1>5, FinishCallIs
    <2>2. CodexEnded(r, d, i, entries)
        BY <1>2, <1>3, <2>1 DEF CodexEnded
    <2>. QED
        BY <2>2
<1>6. CASE r.error # "none"
    <2>2. CodexEnded(r, d, i, entries)
        BY <1>6 DEF CodexEnded
    <2>. QED
        BY <2>2
<1>. QED
    BY <1>5, <1>6

\* The rest of a call's input comes with its end: no event says it.
LEMMA CodexUnsaid ==
    ASSUME NEW s, NEW entries, NEW u, NEW its, NEW ended, Tells(s, entries, u, its, ended),
           Records(entries), NEW i \in DOMAIN its \ ended, its[i] = "tool",
           NEW w, w.kind = "tool", w.item = i, NEW v, Adds(v, u, w)
    PROVE  /\ Tells(s, AppendArgs(entries, i, w.data), v, its, ended)
           /\ \A f : Homes(f, s, u, its) => Homes(f, s, v, its)
           /\ \A j : j # i => HeardOf(v, j) = HeardOf(u, j)
<1>1. /\ IsSummary(s) /\ Sequential(u) /\ ProseIs(s, u) /\ MadeIs(s, its) /\ CallsAre(s, u) /\ Listed(s)
      /\ EntriesAre(entries, u) /\ CallIds(s) \subseteq ended /\ HeardItems(u, its)
    BY DEF Tells, Agrees
<1>2. /\ Sequential(v) /\ \A kind \in Texts : Heard(v, kind) = Heard(u, kind)
      /\ \A j : j # i => HeardOf(v, j) = HeardOf(u, j)
    BY <1>1, HeardGrows DEF Extends, Texts
<1>3. ProseIs(s, v)
    BY <1>1, <1>2 DEF ProseIs
<1>4. CallsAre(s, v)
    <2>1. \A n \in DOMAIN s.calls : HeardOf(v, s.calls[n].id) = HeardOf(u, s.calls[n].id)
        BY <1>1, <1>2 DEF CallIds
    <2>. QED
        BY <1>1, <2>1 DEF CallsAre
<1>5. EntriesAre(AppendArgs(entries, i, w.data), v)
    BY <1>1, EntriesHear
<1>6. HeardItems(v, its)
    BY <1>1, HeardItemsSay
<1>7. Tells(s, AppendArgs(entries, i, w.data), v, its, ended)
    BY <1>1, <1>2, <1>3, <1>4, <1>5, <1>6 DEF Tells, Agrees
<1>8. \A f : Homes(f, s, u, its) => Homes(f, s, v, its)
    BY <1>1, HomesSayCall DEF Listed
<1>. QED
    BY <1>2, <1>7, <1>8

LEMMA EntryIs ==
    ASSUME NEW entries, NEW i, IsOpen(entries, i)
    PROVE  \E n \in DOMAIN entries : entries[n].id = i /\ Entry(entries, i) = entries[n]
<1>1. \E n \in DOMAIN entries : entries[n].id = i
    BY DEF IsOpen
<1>2. PICK n : n = CHOOSE m \in DOMAIN entries : entries[m].id = i
    OBVIOUS
<1>3. n \in DOMAIN entries /\ entries[n].id = i
    BY <1>1, <1>2
<1>. QED
    BY <1>2, <1>3 DEF Entry

LEMMA CodexTellsEnds ==
    ASSUME NEW s, NEW d, NEW u, NEW its, NEW ended, NEW v, NEW entries,
           Tells(s, entries, v, its, ended), Records(entries),
           NEW f, Homes(f, s, v, its), CodexTexts(f, s, d.open, ended),
           CodexKnows(d.tools, u, its, ended),
           NEW i \in DOMAIN its, its[i] = "tool", \A j : j # i => HeardOf(v, j) = HeardOf(u, j),
           NEW more, more = ended \cup {i}, NEW r, CodexEnded(r, d, i, entries)
    PROVE  CodexCame(s, r, v, its, more)
<1>. SUFFICES ASSUME r.error = "none"
              PROVE  \E t : Leads(s, r.events, t) /\ CodexTells(t, r.state, v, its, more)
    BY DEF CodexCame
<1>1. /\ r.state.open = d.open /\ CodexTouched(r.state.tools, d.tools, i, FALSE, TRUE)
      /\ IF IsOpen(entries, i)
         THEN r.events = EntryEvents(Entry(entries, i)) /\ r.state.entries = Without(entries, i)
         ELSE r.events = <<>> /\ r.state.entries = entries
    BY DEF CodexEnded
<1>2. EntriesAre(entries, v) /\ <<"tool", i>> \in s.started /\ Sequential(entries)
    BY DEF Tells, Agrees, MadeIs, Records
<1>3. Calm(r.events, s, v, {i}) /\ EntriesAre(r.state.entries, v)
    <2>1. CASE IsOpen(entries, i)
        <3>1. PICK n \in DOMAIN entries : entries[n].id = i /\ Entry(entries, i) = entries[n]
            BY <2>1, EntryIs
        <3>2. PICK e : e = entries[n] /\ e.id = i /\ e.args = HeardOf(v, i)
            BY <1>2, <3>1 DEF EntriesAre
        <3>3. Calm(EntryEvents(e), s, v, {i})
            BY <1>2, <3>2, CalmEntry
        <3>4. r.events = EntryEvents(e) /\ r.state.entries = Without(entries, i)
            BY <1>1, <2>1, <3>1, <3>2
        <3>5. EntriesAre(Without(entries, i), v)
            BY <1>2, EntriesWithout
        <3>. QED
            BY <3>3, <3>4, <3>5
    <2>2. CASE ~ IsOpen(entries, i)
        BY <1>1, <1>2, <2>2, CalmNone
    <2>. QED
        BY <2>1, <2>2
<1>4. PICK t : Leads(s, r.events, t) /\ Tells(t, r.state.entries, v, its, more) /\ Still(t, s)
    BY <1>3, TellsCalm
<1>5. Homes(f, t, v, its)
    BY <1>4, HomesStill
<1>6. CodexTexts(f, t, r.state.open, more)
    <2>1. CodexTexts(f, t, d.open, ended)
        BY <1>4, CodexTextsStill DEF Still
    <2>. QED
        BY <1>1, <2>1 DEF CodexTexts
<1>7. CodexKnows(r.state.tools, v, its, more)
    BY <1>1, CodexKnowsEnd
<1>8. CodexTells(t, r.state, v, its, more)
    BY <1>4, <1>5, <1>6, <1>7 DEF CodexTells
<1>. QED
    BY <1>4, <1>8

\* What an item's end leaves as it is, when it was told before.
LEMMA CodexTellsMore ==
    ASSUME NEW s, NEW d, NEW u, NEW its, NEW ended, CodexTells(s, d, u, its, ended),
           NEW more, ended \subseteq more
    PROVE  CodexTells(s, d, u, its, more)
<1>1. Tells(s, d.entries, u, its, more) /\ CodexKnows(d.tools, u, its, more)
    BY CodexKnowsMore DEF CodexTells, Tells
<1>2. PICK f : Homes(f, s, u, its) /\ CodexTexts(f, s, d.open, ended)
    BY DEF CodexTells
<1>3. CodexTexts(f, s, d.open, more)
    BY <1>2 DEF CodexTexts
<1>. QED
    BY <1>1, <1>2, <1>3 DEF CodexTells

LEMMA CodexTellsNothing ==
    ASSUME NEW s, NEW d, NEW u, NEW its, NEW ended, CodexTells(s, d, u, its, ended),
           NEW r, r.events = <<>>, r.state.entries = d.entries, r.state.open = d.open,
           r.state.tools = d.tools
    PROVE  CodexCame(s, r, u, its, ended)
<1>1. Leads(s, r.events, s)
    BY LeadsNone
<1>2. PICK f : Homes(f, s, u, its) /\ CodexTexts(f, s, d.open, ended)
    BY DEF CodexTells
<1>3. CodexTells(s, r.state, u, its, ended)
    BY <1>2 DEF CodexTells
<1>. QED
    BY <1>1, <1>3 DEF CodexCame

\* The end of a call, with all of its input or with nothing.
LEMMA CodexCameFinish ==
    ASSUME NEW s, NEW d, NEW n, NEW E, NEW T, CodexMatch(d, n, s.started, E, T),
           NEW u, NEW its, NEW ended, CodexTells(s, d, u, its, ended),
           NEW i \in DOMAIN its, its[i] = "tool", NEW final, NEW v,
           \/ v = u /\ (Voiced(final) => i \notin ended /\ HeardOf(u, i) # <<>>)
           \/ /\ Voiced(final) /\ i \notin ended /\ HeardOf(u, i) = <<>>
              /\ \E w : w.kind = "tool" /\ w.item = i /\ w.data = final /\ Adds(v, u, w),
           NEW more, more = ended \cup {i}
    PROVE  CodexCame(s, C!FinishFunctionCall(d, i, final), v, its, more)
<1>1. CodexState(d) /\ CodexTools(d.tools, n, s.started, E) /\ Records(d.entries)
      /\ CallsMatch(d.entries, s.started, E, T)
    BY CodexMatchIs
<1>2. Tells(s, d.entries, u, its, ended) /\ CodexKnows(d.tools, u, its, ended)
    BY DEF CodexTells
<1>3. C!KnownTool(d, i)
    BY <1>2, CodexToolIs
<1>4. PICK m \in DOMAIN d.tools : /\ d.tools[m].item = i /\ C!Tool(d, i) = d.tools[m]
                                   /\ i \in DOMAIN its /\ its[i] = "tool"
    <2>1. FindsTool(d, its, i)
        BY <1>2, <1>3, CodexToolIs
    <2>. QED
        BY <2>1 DEF FindsTool
<1>5. CASE C!Tool(d, i).finished
    <2>1. i \in ended
        BY <1>2, <1>4, <1>5 DEF CodexKnows
    <2>2. v = u
        BY <2>1
    <2>3. CodexTells(s, d, u, its, more)
        BY CodexTellsMore
    <2>. PICK r : r = C!FinishFunctionCall(d, i, final)
        OBVIOUS
    <2>4. r = Emits(d, <<>>)
        BY <1>3, <1>5, CodexSame DEF C!FinishFunctionCall
    <2>5. r.events = <<>> /\ r.state = d
        BY <2>4 DEF Emits
    <2>6. CodexCame(s, r, u, its, more)
        BY <2>3, <2>5, CodexTellsNothing
    <2>. QED
        BY <2>2, <2>6
<1>6. CASE ~ C!Tool(d, i).finished
    <2>1. C!Tool(d, i).sawDelta <=> HeardOf(u, i) # <<>>
        BY <1>2, <1>4, <1>6 DEF CodexKnows
    <2>2. PICK entries : entries = IF C!Tool(d, i).sawDelta \/ ~ Voiced(final) THEN d.entries
                                   ELSE AppendArgs(d.entries, i, final)
        OBVIOUS
    <2>3. CodexEnded(C!FinishFunctionCall(d, i, final), d, i, entries)
        BY <1>1, <1>3, <1>6, <2>2, CodexEndedIs
    <2>4. PICK f : Homes(f, s, u, its) /\ CodexTexts(f, s, d.open, ended)
        BY DEF CodexTells
    <2>5. CASE entries = d.entries /\ v = u
        <3>1. Tells(s, entries, v, its, ended) /\ Records(entries) /\ Homes(f, s, v, its)
            BY <1>1, <1>2, <2>4, <2>5
        <3>2. \A j : j # i => HeardOf(v, j) = HeardOf(u, j)
            BY <2>5
        <3>. QED
            BY <1>2, <2>3, <2>4, <3>1, <3>2, CodexTellsEnds
    <2>6. ASSUME NEW w, w.kind = "tool", w.item = i, w.data = final, Adds(v, u, w), i \notin ended,
                 entries = AppendArgs(d.entries, i, final)
          PROVE  CodexCame(s, C!FinishFunctionCall(d, i, final), v, its, more)
        <3>1. /\ Tells(s, entries, v, its, ended) /\ Homes(f, s, v, its)
              /\ \A j : j # i => HeardOf(v, j) = HeardOf(u, j)
            BY <1>1, <1>2, <2>4, <2>6, CodexUnsaid
        <3>2. CallsMatch(entries, s.started, E, T)
            BY <1>1, <2>6, CallsTakeArgs
        <3>3. Records(entries)
            BY <3>2, CallsMatchRecords
        <3>. QED
            BY <1>2, <2>3, <2>4, <3>1, <3>3, CodexTellsEnds
    <2>. QED
        BY <2>1, <2>2, <2>5, <2>6
<1>. QED
    BY <1>5, <1>6

-----------------------------------------------------------------------------
(* The texts that a chunk closes.                                          *)

Closed(r, d, X) ==
    r = [state  |-> [d EXCEPT !.open = Picked(d.open, (1..Len(d.open)) \ X)],
         events |-> EndsOf(Picked(d.open, X)), error |-> "none"]

KindAt(X, open, kind, item) == X = {k \in 1..Len(open) : open[k].kind = kind /\ open[k].item = item}
ItemAt(X, open, item)       == X = {k \in 1..Len(open) : open[k].item = item}

LEMMA CodexDoneIs ==
    ASSUME NEW d, Sequential(d.open), NEW kind, NEW item
    PROVE  \A X : /\ KindAt(X, d.open, kind, item) => Closed(DoneText(d, kind, item), d, X)
                  /\ ItemAt(X, d.open, item) => Closed(DoneItem(d, item), d, X)
<1>. DEFINE open == d.open
            N    == 1..Len(open)
<1>1. DOMAIN open = N
    BY SequenceIs
<1>2. \A w : C!FlattenSeq(w) = FlattenSeq(w)
    BY DEF C!FlattenSeq, FlattenSeq
<1>3. \A gone : [k \in DOMAIN gone |-> C!End(gone[k].kind, gone[k].id)] = EndsOf(gone)
    BY CodexSame DEF EndsOf
<1>4. Closed(DoneText(d, kind, item), d,
                     {k \in 1..Len(d.open) : d.open[k].kind = kind /\ d.open[k].item = item})
    <2>. DEFINE X == {k \in N : open[k].kind = kind /\ open[k].item = item}
                gone == C!FlattenSeq([k \in DOMAIN open |->
                            IF open[k].kind = kind /\ open[k].item = item THEN <<open[k]>> ELSE <<>>])
                rest == C!FlattenSeq([k \in DOMAIN open |->
                            IF ~ (open[k].kind = kind /\ open[k].item = item) THEN <<open[k]>> ELSE <<>>])
    <2>1. DoneText(d, kind, item)
            = C!Emits([d EXCEPT !.open = rest], [k \in DOMAIN gone |-> C!End(gone[k].kind, gone[k].id)])
        BY DEF DoneText, C!CloseItems, C!Select
    <2>2. gone = Picked(open, X)
        <3>1. [k \in DOMAIN open |->
                  IF open[k].kind = kind /\ open[k].item = item THEN <<open[k]>> ELSE <<>>]
                = [k \in DOMAIN open |-> IF k \in X THEN <<open[k]>> ELSE <<>>]
            BY <1>1
        <3>. HIDE DEF X, open
        <3>. QED
            BY <1>2, <3>1 DEF Picked
    <2>3. rest = Picked(open, N \ X)
        <3>1. [k \in DOMAIN open |->
                  IF ~ (open[k].kind = kind /\ open[k].item = item) THEN <<open[k]>> ELSE <<>>]
                = [k \in DOMAIN open |-> IF k \in N \ X THEN <<open[k]>> ELSE <<>>]
            BY <1>1
        <3>. HIDE DEF X, open, N
        <3>. QED
            BY <1>2, <3>1 DEF Picked
    <2>. HIDE DEF gone, rest, X
    <2>. DEFINE r == DoneText(d, kind, item)
    <2>5. r = [state |-> [d EXCEPT !.open = Picked(d.open, (1..Len(d.open)) \ X)],
               events |-> EndsOf(Picked(d.open, X)), error |-> "none"]
        BY <1>3, <2>1, <2>2, <2>3, CodexSame DEF Emits
    <2>. HIDE DEF r
    <2>6. Closed(r, d, X)
        BY <2>5 DEF Closed
    <2>. QED
        BY <2>6 DEF r, X
<1>5. Closed(DoneItem(d, item), d, {k \in 1..Len(d.open) : d.open[k].item = item})
    <2>. DEFINE X == {k \in N : open[k].item = item}
                gone == C!FlattenSeq([k \in DOMAIN open |->
                            IF open[k].item = item THEN <<open[k]>> ELSE <<>>])
                rest == C!FlattenSeq([k \in DOMAIN open |->
                            IF ~ (open[k].item = item) THEN <<open[k]>> ELSE <<>>])
    <2>1. DoneItem(d, item)
            = C!Emits([d EXCEPT !.open = rest], [k \in DOMAIN gone |-> C!End(gone[k].kind, gone[k].id)])
        BY DEF DoneItem, C!CloseItems, C!Select
    <2>2. gone = Picked(open, X)
        <3>1. [k \in DOMAIN open |-> IF open[k].item = item THEN <<open[k]>> ELSE <<>>]
                = [k \in DOMAIN open |-> IF k \in X THEN <<open[k]>> ELSE <<>>]
            BY <1>1
        <3>. HIDE DEF X, open
        <3>. QED
            BY <1>2, <3>1 DEF Picked
    <2>3. rest = Picked(open, N \ X)
        <3>1. [k \in DOMAIN open |-> IF ~ (open[k].item = item) THEN <<open[k]>> ELSE <<>>]
                = [k \in DOMAIN open |-> IF k \in N \ X THEN <<open[k]>> ELSE <<>>]
            BY <1>1
        <3>. HIDE DEF X, open, N
        <3>. QED
            BY <1>2, <3>1 DEF Picked
    <2>. HIDE DEF gone, rest, X
    <2>. DEFINE r == DoneItem(d, item)
    <2>5. r = [state |-> [d EXCEPT !.open = Picked(d.open, (1..Len(d.open)) \ X)],
               events |-> EndsOf(Picked(d.open, X)), error |-> "none"]
        BY <1>3, <2>1, <2>2, <2>3, CodexSame DEF Emits
    <2>. HIDE DEF r
    <2>6. Closed(r, d, X)
        BY <2>5 DEF Closed
    <2>. QED
        BY <2>6 DEF r, X
<1>6. \A X : KindAt(X, d.open, kind, item) => Closed(DoneText(d, kind, item), d, X)
    BY <1>4 DEF KindAt
<1>7. \A X : ItemAt(X, d.open, item) => Closed(DoneItem(d, item), d, X)
    BY <1>5 DEF ItemAt
<1>. QED
    BY <1>6, <1>7

\* The texts first, then the rest, then the calls.
CodexFlushed(r, d, texts, rest, two) ==
    LET calls == FinishCalls(two)
    IN  r = IF calls.error # "none" THEN calls
            ELSE Emits(calls.state, EndsOf(texts) \o EndsOf(rest) \o calls.events \o <<Finish(d.reason)>>)

Shrunk(s, d, X)  == s = [d EXCEPT !.open = Picked(d.open, (1..Len(d.open)) \ X)]
TextsAt(X, open) == X = {k \in 1..Len(open) : open[k].kind = "text"}
AllAt(X, open)   == X = 1..Len(open)

LEMMA CodexFlushIs ==
    ASSUME NEW d, Sequential(d.open), NEW X, TextsAt(X, d.open), NEW one, Shrunk(one, d, X),
           Sequential(one.open), NEW Y, AllAt(Y, one.open), NEW two, Shrunk(two, one, Y)
    PROVE  CodexFlushed(C!Flush(d), d, Picked(d.open, X), Picked(one.open, Y), two)
<1>. DEFINE texts == EndsOf(Picked(d.open, X))
            rest == EndsOf(Picked(one.open, Y))
            calls == FinishCalls(two)
<1>1. \A w : C!FlattenSeq(w) = FlattenSeq(w)
    BY DEF C!FlattenSeq, FlattenSeq
<1>2. \A gone : [k \in DOMAIN gone |-> C!End(gone[k].kind, gone[k].id)] = EndsOf(gone)
    BY CodexSame DEF EndsOf
<1>. DEFINE textsRun == C!CloseItems(d, LAMBDA o : o.kind = "text")
            restRun  == C!CloseItems(one, LAMBDA o : TRUE)
<1>6. textsRun = [state |-> one, events |-> texts, error |-> "none"]
    <2>. DEFINE open == d.open
                gone == C!FlattenSeq([k \in DOMAIN open |->
                            IF open[k].kind = "text" THEN <<open[k]>> ELSE <<>>])
                kept == C!FlattenSeq([k \in DOMAIN open |->
                            IF ~ (open[k].kind = "text") THEN <<open[k]>> ELSE <<>>])
    <2>1. DOMAIN open = 1..Len(open)
        BY SequenceIs
    <2>2. textsRun = C!Emits([d EXCEPT !.open = kept], [k \in DOMAIN gone |-> C!End(gone[k].kind, gone[k].id)])
        BY DEF C!CloseItems, C!Select
    <2>3. gone = Picked(open, X)
        <3>1. [k \in DOMAIN open |-> IF open[k].kind = "text" THEN <<open[k]>> ELSE <<>>]
                = [k \in DOMAIN open |-> IF k \in X THEN <<open[k]>> ELSE <<>>]
            BY <2>1 DEF TextsAt
        <3>. HIDE DEF open
        <3>. QED
            BY <1>1, <3>1 DEF Picked
    <2>4. kept = Picked(open, (1..Len(open)) \ X)
        <3>1. [k \in DOMAIN open |-> IF ~ (open[k].kind = "text") THEN <<open[k]>> ELSE <<>>]
                = [k \in DOMAIN open |-> IF k \in (1..Len(open)) \ X THEN <<open[k]>> ELSE <<>>]
            BY <2>1 DEF TextsAt
        <3>. HIDE DEF open
        <3>. QED
            BY <1>1, <3>1 DEF Picked
    <2>. HIDE DEF textsRun, gone, kept
    <2>. QED
        BY <1>2, <2>2, <2>3, <2>4, CodexSame DEF Emits, Shrunk
<1>9. restRun = [state |-> two, events |-> rest, error |-> "none"]
    <2>. DEFINE open == one.open
                gone == C!FlattenSeq([k \in DOMAIN open |-> IF TRUE THEN <<open[k]>> ELSE <<>>])
                kept == C!FlattenSeq([k \in DOMAIN open |-> IF ~ TRUE THEN <<open[k]>> ELSE <<>>])
    <2>1. DOMAIN open = 1..Len(open)
        BY SequenceIs
    <2>2. restRun = C!Emits([one EXCEPT !.open = kept], [k \in DOMAIN gone |-> C!End(gone[k].kind, gone[k].id)])
        BY DEF C!CloseItems, C!Select
    <2>3. gone = Picked(open, Y)
        <3>1. [k \in DOMAIN open |-> IF TRUE THEN <<open[k]>> ELSE <<>>]
                = [k \in DOMAIN open |-> IF k \in Y THEN <<open[k]>> ELSE <<>>]
            BY <2>1 DEF AllAt
        <3>. HIDE DEF open
        <3>. QED
            BY <1>1, <3>1 DEF Picked
    <2>4. kept = Picked(open, (1..Len(open)) \ Y)
        <3>1. [k \in DOMAIN open |-> IF ~ TRUE THEN <<open[k]>> ELSE <<>>]
                = [k \in DOMAIN open |-> IF k \in (1..Len(open)) \ Y THEN <<open[k]>> ELSE <<>>]
            BY <2>1 DEF AllAt
        <3>. HIDE DEF open
        <3>. QED
            BY <1>1, <3>1 DEF Picked
    <2>. HIDE DEF restRun, gone, kept, textsRun
    <2>5. two = [one EXCEPT !.open = kept]
        BY <2>4 DEF Shrunk
    <2>6. restRun = C!Emits(two, EndsOf(gone))
        BY <1>2, <2>2, <2>5
    <2>. QED
        BY <2>3, <2>6, CodexSame DEF Emits
<1>10. C!Flush(d) = IF calls.error # "none" THEN calls
                    ELSE Emits(calls.state, texts \o rest \o calls.events \o <<Finish(d.reason)>>)
    <2>1. textsRun.state = one /\ textsRun.events = texts
        BY <1>6
    <2>2. restRun.state = two /\ restRun.events = rest
        BY <1>9
    <2>. HIDE DEF texts, rest
    <2>3. C!Flush(d) = IF C!FinishCalls(restRun.state).error # "none" THEN C!FinishCalls(restRun.state)
                       ELSE C!Emits(C!FinishCalls(restRun.state).state,
                                    textsRun.events \o restRun.events \o C!FinishCalls(restRun.state).events
                                        \o <<C!Finish(d.reason)>>)
        BY <2>1 DEF C!Flush
    <2>. HIDE DEF textsRun, restRun
    <2>. QED
        BY <2>1, <2>2, <2>3, CodexSame
<1>. HIDE DEF texts, rest, calls
<1>11. CodexFlushed(C!Flush(d), d, Picked(d.open, X), Picked(one.open, Y), two)
    BY <1>10 DEF CodexFlushed, texts, rest, calls
<1>. QED
    BY <1>11

-----------------------------------------------------------------------------
(* The chunks of the Codex backend.                                        *)

\* The chunks of the Codex backend, one by one.
LEMMA CodexCameItem ==
    ASSUME NEW s, NEW d, NEW n, NEW E, NEW T, CodexMatch(d, n, s.started, E, T),
           NEW u, NEW its, NEW ended, CodexTells(s, d, u, its, ended),
           NEW i, i # 0, NEW kind, NEW more, Grown(more, its, i, kind), NEW data,
           NEW c, c = C!Chunk("item.added", i, kind, data)
    PROVE  CodexCame(s, C!HandleChunk(d, c), u, more, ended)
<1>0. c.type = "item.added" /\ c.item = i /\ c.kind = kind
    BY DEF C!Chunk
<1>1. CASE kind = "tool"
    <2>1. C!HandleChunk(d, c) = C!TrackFunctionCall(d, i)
        BY <1>0, <1>1 DEF C!HandleChunk
    <2>2. CodexTracked(C!TrackFunctionCall(d, i), d, i)
        BY CodexTrackedIs, CodexMatchIs
    <2>3. Grown(more, its, i, "tool")
        BY <1>1
    <2>4. CodexCame(s, C!TrackFunctionCall(d, i), u, more, ended)
        BY <2>2, <2>3, CodexTellsTrack
    <2>. QED
        BY <2>1, <2>4
<1>2. CASE kind # "tool"
    <2>1. PICK r : r = C!HandleChunk(d, c)
        OBVIOUS
    <2>2. r = Emits(d, <<>>)
        BY <1>0, <1>2, <2>1, CodexSame DEF C!HandleChunk
    <2>3. r.events = <<>> /\ r.state = d
        BY <2>2 DEF Emits
    <2>4. CodexCame(s, r, u, more, ended)
        BY <1>2, <2>3, CodexTellsItem
    <2>. QED
        BY <2>1, <2>4
<1>. QED
    BY <1>1, <1>2

LEMMA CodexCamePiece ==
    ASSUME NEW s, NEW d, NEW n, NEW E, NEW T, CodexMatch(d, n, s.started, E, T),
           NEW u, NEW its, NEW ended, CodexTells(s, d, u, its, ended),
           NEW i \in DOMAIN its \ ended, its[i] \in Texts, NEW data, Voiced(data),
           NEW w, w.kind = its[i], w.item = i, w.data = data, NEW v, Adds(v, u, w),
           NEW c, c = C!Chunk("delta", i, its[i], data)
    PROVE  CodexCame(s, C!HandleChunk(d, c), v, its, ended)
<1>1. C!HandleChunk(d, c) = C!DeltaOf(d, c)
    BY DEF C!HandleChunk, C!Chunk
<1>2. CodexState(d) /\ CodexNumbers(d.started, s.started)
    BY CodexMatchIs
<1>3. CodexGave(C!DeltaOf(d, c), d, i, its[i], data)
    BY <1>2, CodexGaveIs
<1>4. CodexCame(s, C!DeltaOf(d, c), v, its, ended)
    BY <1>3, CodexTellsDelta
<1>. QED
    BY <1>1, <1>4

LEMMA CodexCameInput ==
    ASSUME NEW s, NEW d, NEW n, NEW E, NEW T, CodexMatch(d, n, s.started, E, T),
           NEW u, NEW its, NEW ended, CodexTells(s, d, u, its, ended),
           NEW i \in DOMAIN its \ ended, its[i] = "tool", NEW data, Voiced(data),
           NEW w, w.kind = "tool", w.item = i, w.data = data, NEW v, Adds(v, u, w), NEW kind,
           NEW c, c = C!Chunk("arguments.delta", i, kind, data)
    PROVE  CodexCame(s, C!HandleChunk(d, c), v, its, ended)
<1>1. C!HandleChunk(d, c) = C!ArgumentsDelta(d, c)
    BY DEF C!HandleChunk, C!Chunk
<1>2. CodexState(d) /\ CodexTools(d.tools, n, s.started, E)
    BY CodexMatchIs
<1>3. CodexKnows(d.tools, u, its, ended)
    BY DEF CodexTells
<1>4. C!KnownTool(d, i)
    BY <1>3, CodexToolIs
<1>5. ~ C!Tool(d, i).finished
    <2>1. FindsTool(d, its, i)
        BY <1>3, <1>4, CodexToolIs
    <2>. QED
        BY <1>3, <2>1 DEF FindsTool, CodexKnows
<1>6. CodexArgued(C!ArgumentsDelta(d, c), d, i, data)
    BY <1>2, <1>4, <1>5, CodexArguedIs
<1>7. CodexCame(s, C!ArgumentsDelta(d, c), v, its, ended)
    BY <1>6, CodexTellsArgued
<1>. QED
    BY <1>1, <1>7

LEMMA CodexCameWhole ==
    ASSUME NEW s, NEW d, NEW n, NEW E, NEW T, CodexMatch(d, n, s.started, E, T),
           NEW u, NEW its, NEW ended, CodexTells(s, d, u, its, ended),
           NEW i \in DOMAIN its \ ended, its[i] = "tool", NEW final, Voiced(final), NEW v,
           \/ v = u /\ HeardOf(u, i) # <<>>
           \/ /\ HeardOf(u, i) = <<>>
              /\ \E w : w.kind = "tool" /\ w.item = i /\ w.data = final /\ Adds(v, u, w),
           NEW more, more = ended \cup {i}, NEW kind,
           NEW c, c = C!Chunk("arguments.done", i, kind, final)
    PROVE  CodexCame(s, C!HandleChunk(d, c), v, its, more)
<1>1. C!HandleChunk(d, c) = C!FinishFunctionCall(d, i, final)
    BY DEF C!HandleChunk, C!Chunk
<1>2. CodexCame(s, C!FinishFunctionCall(d, i, final), v, its, more)
    BY CodexCameFinish
<1>. QED
    BY <1>1, <1>2

LEMMA CodexClosedShuts ==
    ASSUME NEW d, CodexState(d), NEW i, NEW X, X \in SUBSET (1..Len(d.open)),
           \A m \in X : d.open[m].item = i,
           \A m \in 1..Len(d.open) : m \notin X => d.open[m].item # i,
           NEW r, Closed(r, d, X)
    PROVE  CodexShut(r, d, i)
<1>1. PICK rest, next, gone : /\ rest = Picked(d.open, (1..Len(d.open)) \ X)
                              /\ next = [d EXCEPT !.open = rest] /\ gone = EndsOf(Picked(d.open, X))
    OBVIOUS
<1>2. r = [state |-> next, events |-> gone, error |-> "none"]
    BY <1>1 DEF Closed
<1>3. next.open = rest /\ next.entries = d.entries /\ next.tools = d.tools
    BY <1>1 DEF CodexState
<1>4. r.state = next /\ r.events = gone
    BY <1>2
<1>. QED
    BY <1>1, <1>3, <1>4 DEF CodexShut

LEMMA CodexCameDone ==
    ASSUME NEW s, NEW d, NEW n, NEW E, NEW T, CodexMatch(d, n, s.started, E, T),
           NEW u, NEW its, NEW ended, CodexTells(s, d, u, its, ended),
           NEW i \in DOMAIN its, NEW more, more = ended \cup {i}, NEW data,
           NEW c, \/ c = C!Chunk("item.done", i, its[i], data)
                  \/ c = C!Chunk("done", i, its[i], data) /\ its[i] # "tool"
    PROVE  CodexCame(s, C!HandleChunk(d, c), u, its, more)
<1>0. /\ c.item = i /\ c.kind = its[i]
      /\ c.type = "item.done" \/ (c.type = "done" /\ its[i] # "tool")
    BY DEF C!Chunk
<1>1. CodexState(d) /\ Sequential(d.open) /\ DOMAIN d.open = 1..Len(d.open)
      /\ CodexOpen(d.open, s.started, E)
    BY CodexMatchIs, SequenceIs
<1>2. \A m \in 1..Len(d.open) : d.open[m].item = i => d.open[m].kind = its[i]
    <2>. SUFFICES ASSUME NEW m \in 1..Len(d.open), d.open[m].item = i
                  PROVE  d.open[m].kind = its[i]
        OBVIOUS
    <2>1. PICK f : Homes(f, s, u, its) /\ CodexTexts(f, s, d.open, ended)
        BY DEF CodexTells
    <2>a. PICK k : k = <<d.open[m].kind, d.open[m].id>>
        OBVIOUS
    <2>b. k[1] = d.open[m].kind
        BY <2>a
    <2>2. k = <<d.open[m].kind, d.open[m].id>> /\ k[1] = d.open[m].kind
        BY <2>a, <2>b
    <2>3. k \in TextsOf(s)
        BY <1>1, <2>2 DEF CodexOpen, TextsOf
    <2>4. f[k] = i
        BY <1>1, <2>1, <2>2 DEF CodexTexts
    <2>. QED
        BY <2>1, <2>2, <2>3, <2>4 DEF Homes
<1>3. ASSUME NEW r, NEW X, Closed(r, d, X), X \in SUBSET (1..Len(d.open)),
             \A m \in X : d.open[m].item = i,
             \A m \in 1..Len(d.open) : m \notin X => d.open[m].item # i
      PROVE  CodexCame(s, r, u, its, more)
    <2>1. CodexShut(r, d, i)
        BY <1>1, <1>3, CodexClosedShuts
    <2>. QED
        BY <2>1, CodexTellsShut
<1>4. CASE c.type = "done"
    <2>1. C!HandleChunk(d, c) = DoneText(d, its[i], i)
        BY <1>0, <1>4 DEF C!HandleChunk, DoneText, C!CloseItems
    <2>a. PICK kind : kind = its[i]
        OBVIOUS
    <2>b. PICK X : KindAt(X, d.open, kind, i)
        BY DEF KindAt
    <2>c. Closed(DoneText(d, kind, i), d, X)
        BY <1>1, <2>b, CodexDoneIs
    <2>2. X = {k \in 1..Len(d.open) : d.open[k].kind = its[i] /\ d.open[k].item = i}
        BY <2>a, <2>b DEF KindAt
    <2>3. Closed(DoneText(d, its[i], i), d, X)
        BY <2>a, <2>c
    <2>4. /\ X \in SUBSET (1..Len(d.open)) /\ \A m \in X : d.open[m].item = i
          /\ \A m \in 1..Len(d.open) : m \notin X => d.open[m].item # i
        BY <1>2, <2>2
    <2>5. CodexCame(s, DoneText(d, its[i], i), u, its, more)
        BY <1>3, <2>3, <2>4
    <2>. QED
        BY <2>1, <2>5
<1>5. CASE c.type = "item.done" /\ its[i] # "tool"
    <2>1. C!HandleChunk(d, c) = DoneItem(d, i)
        BY <1>0, <1>5 DEF C!HandleChunk, C!ItemDone, DoneItem, C!CloseItems
    <2>a. PICK X : ItemAt(X, d.open, i)
        BY DEF ItemAt
    <2>2. X = {k \in 1..Len(d.open) : d.open[k].item = i}
        BY <2>a DEF ItemAt
    <2>3. Closed(DoneItem(d, i), d, X)
        BY <1>1, <2>a, CodexDoneIs
    <2>4. /\ X \in SUBSET (1..Len(d.open)) /\ \A m \in X : d.open[m].item = i
          /\ \A m \in 1..Len(d.open) : m \notin X => d.open[m].item # i
        BY <2>2
    <2>5. CodexCame(s, DoneItem(d, i), u, its, more)
        BY <1>3, <2>3, <2>4
    <2>. QED
        BY <2>1, <2>5
<1>6. CASE c.type = "item.done" /\ its[i] = "tool"
    <2>1. PICK final : final = ""
        OBVIOUS
    <2>2. ~ Voiced(final)
        BY Zenon, <2>1 DEF Voiced
    <2>3. C!HandleChunk(d, c) = C!FinishFunctionCall(d, i, final)
        BY Zenon, <1>0, <1>6, <2>1 DEF C!HandleChunk, C!ItemDone
    <2>4. CodexCame(s, C!FinishFunctionCall(d, i, final), u, its, more)
        BY <1>6, <2>2, CodexCameFinish
    <2>. QED
        BY <2>3, <2>4
<1>. QED
    BY <1>0, <1>4, <1>5, <1>6

LEMMA CodexCameOthers ==
    ASSUME NEW s, NEW d, NEW n, NEW E, NEW T, CodexMatch(d, n, s.started, E, T),
           NEW u, NEW its, NEW ended, CodexTells(s, d, u, its, ended), NEW i, NEW kind, NEW data,
           NEW c, \/ c = C!Chunk("completed", i, kind, data)
                  \/ c = C!Chunk("failed", i, kind, data) /\ data # "none"
    PROVE  CodexCame(s, C!HandleChunk(d, c), u, its, ended)
<1>1. PICK r : r = C!HandleChunk(d, c)
    OBVIOUS
<1>2. CASE c = C!Chunk("completed", i, kind, data)
    <2>1. c.type = "completed" /\ c.data = data
        BY <1>2 DEF C!Chunk
    <2>2. PICK next : next = [d EXCEPT !.reason = data]
        OBVIOUS
    <2>3. C!HandleChunk(d, c) = Emits(next, <<>>)
        BY <2>1, <2>2, CodexSame DEF C!HandleChunk
    <2>4. next.entries = d.entries /\ next.open = d.open /\ next.tools = d.tools
        BY <2>2, CodexMatchIs DEF CodexState
    <2>5. r.events = <<>> /\ r.state = next
        BY <1>1, <2>3 DEF Emits
    <2>6. CodexCame(s, r, u, its, ended)
        BY <2>4, <2>5, CodexTellsNothing
    <2>. QED
        BY <1>1, <2>6
<1>3. CASE c = C!Chunk("failed", i, kind, data) /\ data # "none"
    <2>1. c.type = "failed" /\ c.data = data
        BY <1>3 DEF C!Chunk
    <2>2. r = Fails(d, data)
        BY <1>1, <2>1, CodexSame DEF C!HandleChunk
    <2>3. r.error # "none"
        BY <1>3, <2>2 DEF Fails
    <2>4. CodexCame(s, r, u, its, ended)
        BY <2>3 DEF CodexCame
    <2>. QED
        BY <1>1, <2>4
<1>. QED
    BY <1>2, <1>3

\* The end of the stream.
LEMMA CodexTellsEnd ==
    ASSUME NEW s, NEW d, NEW n, NEW E, NEW T, CodexMatch(d, n, s.started, E, T),
           NEW u, NEW its, NEW ended, CodexTells(s, d, u, its, ended)
    PROVE  EndTold(s, C!Flush(d), u, its)
<1>. SUFFICES ASSUME C!Flush(d).error = "none"
              PROVE  \E t : Leads(s, C!Flush(d).events, t) /\ Agrees(t, u, its) /\ \E f : Homes(f, t, u, its)
    BY DEF EndTold
<1>1. /\ CodexState(d) /\ Sequential(d.open) /\ Records(d.entries)
      /\ \A m \in DOMAIN d.entries : <<"tool", d.entries[m].id>> \in s.started
    BY CodexMatchIs
<1>2. PICK X : TextsAt(X, d.open)
    BY DEF TextsAt
<1>3. PICK rest, one : rest = Picked(d.open, (1..Len(d.open)) \ X) /\ one = [d EXCEPT !.open = rest]
    OBVIOUS
<1>4. one.open = rest /\ one.entries = d.entries /\ CodexState(one)
    BY <1>1, <1>3 DEF CodexState
<1>5. Shrunk(one, d, X)
    BY <1>3 DEF Shrunk
<1>6. X \in SUBSET (1..Len(d.open)) /\ (1..Len(d.open)) \ X \in SUBSET (1..Len(d.open))
    BY <1>2 DEF TextsAt
<1>7. Part(Picked(d.open, X), d.open, X) /\ Part(rest, d.open, (1..Len(d.open)) \ X)
    BY <1>1, <1>3, <1>6, Parting
<1>8. Sequential(Picked(d.open, X)) /\ Sequential(one.open)
    BY <1>4, <1>7 DEF Part
<1>9. PICK Y : AllAt(Y, one.open)
    BY DEF AllAt
<1>10. PICK left, two : left = Picked(one.open, (1..Len(one.open)) \ Y) /\ two = [one EXCEPT !.open = left]
    OBVIOUS
<1>11. two.entries = d.entries
    BY <1>4, <1>10 DEF CodexState
<1>12. Shrunk(two, one, Y)
    BY <1>10 DEF Shrunk
<1>13. Sequential(Picked(one.open, Y))
    <2>1. Y \in SUBSET (1..Len(one.open))
        BY <1>9 DEF AllAt
    <2>2. Part(Picked(one.open, Y), one.open, Y)
        BY <1>8, <2>1, Parting
    <2>. QED
        BY <2>2 DEF Part
<1>14. PICK a, b : a = Picked(d.open, X) /\ b = Picked(one.open, Y)
    OBVIOUS
<1>15. CodexFlushed(C!Flush(d), d, a, b, two)
    BY <1>1, <1>2, <1>5, <1>8, <1>9, <1>12, <1>14, CodexFlushIs
<1>16. PICK q : q = C!Flush(d).events
    OBVIOUS
<1>17. PICK ends : ends = EndsOf(a) \o EndsOf(b)
    OBVIOUS
<1>18. q = ends \o EndAll(d.entries) \o <<Finish(d.reason)>>
    <2>1. PICK r, calls : r = C!Flush(d) /\ calls = FinishCalls(two)
        OBVIOUS
    <2>2. r = IF calls.error # "none" THEN calls
              ELSE Emits(calls.state, EndsOf(a) \o EndsOf(b) \o calls.events \o <<Finish(d.reason)>>)
        BY <1>15, <2>1 DEF CodexFlushed
    <2>3. calls.error = "none"
        BY <2>1, <2>2
    <2>4. calls.events = EndAll(d.entries)
        BY <1>11, <2>1, <2>3 DEF FinishCalls, Fails, Emits
    <2>5. r.events = EndsOf(a) \o EndsOf(b) \o calls.events \o <<Finish(d.reason)>>
        BY <2>2, <2>3 DEF Emits
    <2>. QED
        BY <1>16, <1>17, <2>1, <2>4, <2>5
<1>19. Calm(ends, s, u, Named(d.entries))
    <2>1. Calm(EndsOf(a), s, u, Named(d.entries)) /\ Calm(EndsOf(b), s, u, Named(d.entries))
        BY <1>8, <1>13, <1>14, CalmEnds
    <2>2. Follows(ends, EndsOf(a), EndsOf(b))
        BY <1>17 DEF Follows
    <2>. QED
        BY <2>1, <2>2, CalmJoin
<1>20. Tells(s, d.entries, u, its, ended) /\ Sequential(d.entries)
    BY <1>1 DEF CodexTells, Records
<1>21. Named(d.entries) \subseteq Named(d.entries)
    OBVIOUS
<1>22. PICK t : Leads(s, q, t) /\ Agrees(t, u, its) /\ Still(t, s)
    BY <1>1, <1>18, <1>19, <1>20, <1>21, CalmFlush
<1>23. PICK f : Homes(f, s, u, its)
    BY DEF CodexTells
<1>24. Homes(f, t, u, its)
    BY <1>22, <1>23, HomesStill
<1>. QED
    BY <1>16, <1>22, <1>24

-----------------------------------------------------------------------------
(* The summary and the log.                                                *)

\* What the summary has of the log that was delivered: nothing was refused.
Folded(s, L) ==
    /\ IsSummary(s) /\ ~ s.failed /\ (s.finish # "none" => Over(L))
    /\ s.started = Begun(L) /\ Sequential(s.calls)
    /\ \A i : i \in s.ended <=> <<"tool", i>> \in Shut(L)
    /\ \A i : i \in Told(L) <=> IsOpen(s.calls, i)

LEMMA MayTypes ==
    ASSUME NEW L, NEW e, May(L, e)
    PROVE  e.type \in EventTypes
BY DEF May, EventTypes, CalmTypes

LEMMA FoldTakes ==
    ASSUME NEW s, NEW L, Folded(s, L), NEW e, May(L, e)
    PROVE  Fold(s, e) = Taken(s, e)
<1>1. ~ s.failed /\ s.finish = "none"
    BY DEF Folded, May
<1>2. e.type \in {"delta", "end"} => Key(e) \in s.started
    BY DEF Folded, May
<1>3. e.type = "call" => e.id \in s.ended
    BY DEF Folded, May
<1>4. ~ Refused(s, e)
    BY <1>1, <1>2, <1>3 DEF Refused
<1>. QED
    BY <1>1, <1>4 DEF Fold

LEMMA SetCallOpens ==
    ASSUME NEW calls, Sequential(calls), NEW e
    PROVE  /\ Sequential(SetCall(calls, e))
           /\ \A i : IsOpen(SetCall(calls, e), i) <=> IsOpen(calls, i) \/ i = e.id
<1>. PICK x : x = [id |-> e.id, args |-> e.data]
    OBVIOUS
<1>0. x.id = e.id
    OBVIOUS
<1>1. CASE IsOpen(calls, e.id)
    <2>1. SetCall(calls, e) = [n \in DOMAIN calls |-> IF calls[n].id = e.id THEN x ELSE calls[n]]
        BY <1>1 DEF SetCall
    <2>2. PICK l \in Nat : Long(calls, l) /\ DOMAIN calls = 1..l
        BY LongIs
    <2>3. Sequential(SetCall(calls, e))
        BY <2>1, <2>2, FunctionIsSequence
    <2>4. \A n \in DOMAIN calls : SetCall(calls, e)[n].id = calls[n].id
        BY <1>0, <2>1
    <2>5. DOMAIN SetCall(calls, e) = DOMAIN calls
        BY <2>1
    <2>. QED
        BY <1>1, <2>3, <2>4, <2>5 DEF IsOpen
<1>2. CASE ~ IsOpen(calls, e.id)
    <2>1. PICK new : new = SetCall(calls, e)
        OBVIOUS
    <2>2. Adds(new, calls, x)
        BY <1>2, <2>1 DEF SetCall, Adds
    <2>3. /\ Sequential(new) /\ \A n \in DOMAIN calls : new[n] = calls[n]
          /\ \E l : l \notin DOMAIN calls /\ DOMAIN new = DOMAIN calls \cup {l} /\ new[l] = x
        BY <2>2, AddsMembers
    <2>4. \A i : IsOpen(new, i) <=> IsOpen(calls, i) \/ i = e.id
        BY <1>0, <2>3 DEF IsOpen
    <2>. QED
        BY <2>1, <2>3, <2>4
<1>. QED
    BY <1>1, <1>2

LEMMA FoldedGrows ==
    ASSUME NEW s, NEW L, Sequential(L), Folded(s, L), NEW e, May(L, e), NEW M, M = Append(L, e)
    PROVE  Folded(Taken(s, e), M)
<1>1. Grew(M, L, e)
    BY LogGrows
<1>2. e.type \in EventTypes /\ IsSummary(s)
    BY MayTypes DEF Folded
<1>. PICK t : t = Taken(s, e)
    OBVIOUS
<1>3. IsSummary(t) /\ t.started = Begun(M)
    BY <1>1, <1>2, TakesAny DEF Folded, Grew
<1>4. CASE e.type = "start"
    <2>1. TookStart(t, s, Key(e))
        BY <1>2, <1>4, TakesStart
    <2>2. /\ t.calls = s.calls /\ t.failed = s.failed /\ t.finish = s.finish /\ t.ended = s.ended
          /\ Shut(M) = Shut(L) /\ Told(M) = Told(L) /\ (Over(L) => Over(M))
        <3>1. t.calls = s.calls /\ t.failed = s.failed /\ t.finish = s.finish /\ t.ended = s.ended
            BY <2>1, Zenon DEF TookStart
        <3>2. Shut(M) = Shut(L) /\ Told(M) = Told(L)
            BY <1>1, <1>4 DEF Grew
        <3>3. Over(L) => Over(M)
            BY <1>1, Zenon DEF Grew
        <3>. QED
            BY <3>1, <3>2, <3>3
    <2>. QED
        BY <1>3, <2>2 DEF Folded
<1>5. CASE e.type = "delta"
    <2>1. TookDelta(t, s, e)
        BY <1>2, <1>5, TakesDelta
    <2>2. /\ t.calls = s.calls /\ t.failed = s.failed /\ t.finish = s.finish /\ t.ended = s.ended
          /\ Shut(M) = Shut(L) /\ Told(M) = Told(L) /\ (Over(L) => Over(M))
        <3>1. t.calls = s.calls /\ t.failed = s.failed /\ t.finish = s.finish /\ t.ended = s.ended
            BY <2>1, Zenon DEF TookDelta
        <3>2. Shut(M) = Shut(L) /\ Told(M) = Told(L)
            BY <1>1, <1>5 DEF Grew
        <3>3. Over(L) => Over(M)
            BY <1>1, Zenon DEF Grew
        <3>. QED
            BY <3>1, <3>2, <3>3
    <2>. QED
        BY <1>3, <2>2 DEF Folded
<1>6. CASE e.type \in CalmTypes
    <2>1. TookCalm(t, s, e)
        BY <1>2, <1>6, TakesCalm
    <2>2. /\ t.failed = s.failed
          /\ t.calls = (IF e.type = "call" THEN SetCall(s.calls, e) ELSE s.calls)
          /\ t.ended = (IF e.type = "end" /\ e.kind = "tool" THEN s.ended \cup {e.id} ELSE s.ended)
          /\ t.finish = (IF e.type = "finish" THEN e.kind ELSE s.finish)
        BY <2>1 DEF TookCalm
    <2>3. /\ Sequential(SetCall(s.calls, e))
          /\ \A i : IsOpen(SetCall(s.calls, e), i) <=> IsOpen(s.calls, i) \/ i = e.id
        BY SetCallOpens DEF Folded
    <2>4. Sequential(t.calls) /\ \A i : i \in Told(M) <=> IsOpen(t.calls, i)
        BY <1>1, <2>2, <2>3 DEF Folded, Grew
    <2>5. \A i : i \in t.ended <=> <<"tool", i>> \in Shut(M)
        BY Zenon, <1>1, <2>2 DEF Folded, Grew, Key
    <2>6. t.finish # "none" => Over(M)
        BY <1>1, <2>2 DEF Folded, Grew
    <2>. QED
        BY <1>3, <2>2, <2>4, <2>5, <2>6 DEF Folded
<1>. QED
    BY <1>2, <1>4, <1>5, <1>6 DEF EventTypes

-----------------------------------------------------------------------------
(* What is kept.                                                           *)

\* While an attempt runs, t tells what the provider has sent.
TellsBy(p, t, d, u, its, ended) ==
    /\ p = "anthropic" => AnthropicTells(t, d, u, its, ended)
    /\ p = "chat" => Tells(t, d.entries, u, its, {}) /\ ChatHolds(t, d)
    /\ p = "codex" => CodexTells(t, d, u, its, ended)

Telling(t) == TellsBy(protocol, t, decoder, wire, items, closed)

\* When it has ended, too.
Complete(t) ==
    /\ Agrees(t, wire, items)
    /\ IF protocol = "chat" THEN InTurn(t) ELSE \E f : Homes(f, t, wire, items)

\* Chat has no items but calls, and never says that one has ended.
ChatItems == protocol = "chat" => closed = {} /\ \A i \in DOMAIN items : items[i] = "tool"

WillTell     == \E t : Leads(summary, queue, t) /\ Telling(t)
WillComplete == \E t : Leads(summary, queue, t) /\ Complete(t)

ReplyInv ==
    /\ Folded(summary, out) /\ ChatItems
    /\ phase \in {"sending", "streaming"} => WillTell
    /\ phase \in {"flushing", "collected", "answered"} => WillComplete
    /\ phase \in {"collected", "answered"} => queue = <<>>
    /\ phase = "answered" => summary.finish # "none"

LEMMA NothingTold ==
    /\ Folded(NothingYet, <<>>) /\ Leads(NothingYet, <<>>, NothingYet)
    /\ Tells(NothingYet, <<>>, <<>>, <<>>, {})
    /\ \A f : Homes(f, NothingYet, <<>>, <<>>)
    /\ InTurn(NothingYet)
<1>. PICK s : s = NothingYet
    OBVIOUS
<1>1. /\ s.failed = FALSE /\ s.finish = "none" /\ s.started = {} /\ s.ended = {} /\ s.order = <<>>
      /\ s.buffers = <<>> /\ s.calls = <<>> /\ s.text = <<>> /\ s.reasoning = <<>>
    BY DEF NothingYet
<1>2. IsSummary(s)
    BY DEF NothingYet, IsSummary
<1>3. Sequential(<<>>) /\ DOMAIN <<>> = {} /\ Len(<<>>) = 0
    BY Nothing
<1>4. Folded(s, <<>>)
    BY <1>1, <1>2, <1>3, LawfulNothing DEF Folded, IsOpen
<1>5. Leads(s, <<>>, s)
    BY LeadsNone
<1>6. ProseIs(s, <<>>)
    BY <1>1, HeardNothing DEF ProseIs, Prose
<1>7. MadeIs(s, <<>>) /\ CallsAre(s, <<>>) /\ Listed(s)
    BY <1>1, <1>3 DEF MadeIs, CallsAre, Listed
<1>8. Agrees(s, <<>>, <<>>)
    BY <1>2, <1>3, <1>6, <1>7 DEF Agrees
<1>9. Tells(s, <<>>, <<>>, <<>>, {})
    <2>1. EntriesAre(<<>>, <<>>)
        BY EntriesNone
    <2>2. CallIds(s) \subseteq {}
        BY <1>1, <1>3 DEF CallIds
    <2>3. HeardItems(<<>>, <<>>)
        BY HeardNothing DEF HeardItems
    <2>. QED
        BY <1>8, <2>1, <2>2, <2>3 DEF Tells
<1>10. \A f : Homes(f, s, <<>>, <<>>)
    BY <1>1, <1>3 DEF Homes, TextsOf
<1>11. InTurn(s)
    <2>1. \A kind : TurnOf(s, kind) = <<>>
        <3>. SUFFICES ASSUME NEW kind PROVE TurnOf(s, kind) = <<>>
            OBVIOUS
        <3>1. Long(s.order, 0)
            BY <1>1, NothingLong
        <3>2. Long(TurnOf(s, kind), 0)
            BY <1>7, <3>1, TurnIs
        <3>. QED
            BY <3>2, NothingLong, SameSequence
    <2>2. \A kind : Prose(s, kind) = <<>>
        BY <1>1 DEF Prose
    <2>. QED
        BY <2>1, <2>2, NothingLong DEF InTurn
<1>. QED
    BY <1>4, <1>5, <1>9, <1>10, <1>11

LEMMA TellingStarts ==
    ASSUME NEW p \in {"anthropic", "chat", "codex"}, NEW d, p = "anthropic" => d = A!Decoder,
           p = "chat" => d = O!Decoder, p = "codex" => d = C!Decoder
    PROVE  TellsBy(p, NothingYet, d, <<>>, <<>>, {})
<1>. PICK s, none : s = NothingYet /\ none = <<>>
    OBVIOUS
<1>0. Tells(s, none, none, none, {}) /\ (\A f : Homes(f, s, none, none)) /\ InTurn(s)
    BY NothingTold
<1>1. DOMAIN none = {} /\ s.order = none /\ s.started = {}
    BY Nothing DEF NothingYet
<1>. PICK f : f = none
    OBVIOUS
<1>2. CASE p = "anthropic"
    <2>1. d.entries = none
        BY <1>2 DEF A!Decoder
    <2>2. AnthropicHolds(f, d, none, DOMAIN none \ {})
        BY <1>1 DEF AnthropicHolds
    <2>3. AnthropicTells(s, d, none, none, {})
        BY <1>0, <2>1, <2>2 DEF AnthropicTells
    <2>. QED
        BY <1>1, <1>2, <2>3 DEF TellsBy
<1>3. CASE p = "chat"
    <2>1. d.entries = none /\ \A kind \in Texts : d.open[kind] = 0
        BY <1>3 DEF O!Decoder, Texts
    <2>2. ChatHolds(s, d)
        BY <1>0, <1>1, <2>1 DEF ChatHolds, Distinct
    <2>. QED
        BY <1>0, <1>1, <1>3, <2>1, <2>2 DEF TellsBy
<1>4. CASE p = "codex"
    <2>1. d.entries = none /\ d.open = none /\ d.tools = none
        BY <1>4 DEF C!Decoder
    <2>2. CodexKnows(none, none, none, {}) /\ CodexTexts(f, s, none, {})
        BY <1>1 DEF CodexKnows, CodexTexts, TextsOf
    <2>3. CodexTells(s, d, none, none, {})
        BY <1>0, <2>1, <2>2 DEF CodexTells
    <2>. QED
        BY <1>1, <1>4, <2>3 DEF TellsBy
<1>. QED
    BY <1>2, <1>3, <1>4

-----------------------------------------------------------------------------
(* The first state and the steps of the client.                            *)

LEMMA ReplyStarts == CallInit => ReplyInv
<1>. SUFFICES ASSUME CallInit PROVE ReplyInv
    OBVIOUS
<1>1. /\ protocol \in {"anthropic", "chat", "codex"} /\ phase = "sending" /\ decoder = NewDecoder
      /\ queue = <<>> /\ out = <<>> /\ summary = NothingYet /\ items = <<>> /\ closed = {} /\ wire = <<>>
    BY ProviderAssumption DEF CallInit
<1>2. Telling(NothingYet)
    <2>1. /\ protocol = "anthropic" => decoder = A!Decoder
          /\ protocol = "chat" => decoder = O!Decoder
          /\ protocol = "codex" => decoder = C!Decoder
        BY <1>1 DEF NewDecoder
    <2>. QED
        BY <1>1, <2>1, TellingStarts DEF Telling
<1>3. WillTell
    BY <1>1, <1>2, NothingTold DEF WillTell
<1>4. ChatItems
    BY <1>1, Nothing DEF ChatItems
<1>. QED
    BY <1>1, <1>3, <1>4, NothingTold DEF ReplyInv

\* When nothing is queued, the summary is what is told.
LEMMA TellingNow ==
    ASSUME ReplyInv, StreamInv, phase \in {"sending", "streaming"}, queue = <<>>
    PROVE  /\ Telling(summary) /\ IsSummary(summary) /\ summary.started = Begun(out)
           /\ Sequential(out) /\ DecoderInv(out) /\ Sequential(wire) /\ Sequential(items)
           /\ DOMAIN items = 1..Len(items) /\ Len(items) \in Nat
           /\ 0 \notin DOMAIN items /\ ChatItems /\ protocol \in {"anthropic", "chat", "codex"}
<1>1. PICK t : Leads(summary, queue, t) /\ Telling(t)
    BY DEF ReplyInv, WillTell
<1>2. t = summary
    BY <1>1, LeadsNone
<1>3. Sequential(items) /\ protocol \in {"anthropic", "chat", "codex"} /\ Sequential(out)
    BY DEF StreamInv, ItemsInv
<1>4. DOMAIN items = 1..Len(items) /\ Len(items) \in Nat
    BY <1>3, SequenceIs
<1>5. 0 \notin DOMAIN items
    BY <1>4
<1>6. Sequential(wire)
    BY <1>1, <1>3 DEF Telling, TellsBy, AnthropicTells, CodexTells, Tells, Agrees
<1>7. DecoderInv(out)
    BY OutGoesOn
<1>. QED
    BY <1>1, <1>2, <1>3, <1>4, <1>5, <1>6, <1>7 DEF ReplyInv, Folded

\* What the handler of the chunk tells, given what is told so far.
CameNow(r) ==
    /\ protocol' = "anthropic" => AnthropicCame(summary, r, wire', items', closed')
    /\ protocol' = "chat" => ChatCame(summary, r, wire', items')
    /\ protocol' = "codex" => CodexCame(summary, r, wire', items', closed')

LEMMA ReplyReceives ==
    ASSUME ReplyInv, StreamInv, Pulling, NEW c, Receive(c), CameNow(Handle(c)), ChatItems'
    PROVE  ReplyInv'
<1>. DEFINE r == Handle(c)
<1>1. /\ decoder' = r.state /\ queue' = r.events /\ out' = out /\ protocol' = protocol
      /\ summary' = summary /\ phase = "streaming"
      /\ IF r.error = "none" THEN UNCHANGED <<phase, error>> ELSE AttemptFails(r.error)
    BY DEF Receive, Pulling
<1>2. CameNow(r)
    OBVIOUS
<1>. HIDE DEF r
<1>3. Folded(summary', out') /\ protocol \in {"anthropic", "chat", "codex"}
    BY <1>1 DEF ReplyInv, StreamInv
<1>4. CASE r.error = "none"
    <2>1. phase' = "streaming"
        BY <1>1, <1>4
    <2>2. WillTell'
        <3>1. CASE protocol = "anthropic"
            <4>1. PICK t : Leads(summary, r.events, t) /\ AnthropicTells(t, r.state, wire', items', closed')
                BY <1>1, <1>2, <1>4, <3>1 DEF CameNow, AnthropicCame
            <4>2. Telling(t)'
                BY <1>1, <3>1, <4>1 DEF Telling, TellsBy
            <4>. QED
                BY <1>1, <4>1, <4>2 DEF WillTell
        <3>2. CASE protocol = "chat"
            <4>1. PICK t : /\ Leads(summary, r.events, t) /\ Tells(t, r.state.entries, wire', items', {})
                           /\ ChatHolds(t, r.state)
                BY <1>1, <1>2, <1>4, <3>2 DEF CameNow, ChatCame, ChatTells
            <4>2. Telling(t)'
                BY <1>1, <3>2, <4>1 DEF Telling, TellsBy
            <4>. QED
                BY <1>1, <4>1, <4>2 DEF WillTell
        <3>3. CASE protocol = "codex"
            <4>1. PICK t : Leads(summary, r.events, t) /\ CodexTells(t, r.state, wire', items', closed')
                BY <1>1, <1>2, <1>4, <3>3 DEF CameNow, CodexCame
            <4>2. Telling(t)'
                BY <1>1, <3>3, <4>1 DEF Telling, TellsBy
            <4>. QED
                BY <1>1, <4>1, <4>2 DEF WillTell
        <3>. QED
            BY <1>3, <3>1, <3>2, <3>3
    <2>. QED
        BY <1>3, <2>1, <2>2 DEF ReplyInv
<1>5. CASE r.error # "none"
    <2>1. phase' \in {"backoff", "failed"}
        BY <1>1, <1>5 DEF AttemptFails
    <2>. QED
        BY <1>3, <2>1 DEF ReplyInv
<1>. QED
    BY <1>4, <1>5

LEMMA ReplyFails ==
    ASSUME ReplyInv, NEW reason, AttemptFails(reason),
           UNCHANGED <<protocol, decoder, queue, out, summary, provider>>
    PROVE  ReplyInv'
<1>1. phase' \in {"backoff", "failed"}
    BY DEF AttemptFails
<1>2. Folded(summary', out') /\ ChatItems'
    BY DEF ReplyInv, ChatItems, provider
<1>. QED
    BY <1>1, <1>2 DEF ReplyInv

LEMMA ReplyDelivers ==
    ASSUME ReplyInv, StreamInv, Deliver
    PROVE  ReplyInv'
<1>1. /\ phase \in {"streaming", "flushing"} /\ queue # <<>> /\ queue' = Tail(queue)
      /\ summary' = Fold(summary, Head(queue))
      /\ protocol' = protocol /\ decoder' = decoder /\ items' = items /\ closed' = closed /\ wire' = wire
      /\ phase' = IF phase = "flushing" /\ Tail(queue) = <<>> THEN "collected" ELSE phase
    BY DEF Deliver, provider
<1>2. Sequential(out) /\ May(out, Head(queue)) /\ out' = Append(out, Head(queue))
    BY DeliverStep
<1>. PICK e : e = Head(queue)
    OBVIOUS
<1>3. summary' = Taken(summary, e)
    BY <1>1, <1>2, FoldTakes DEF ReplyInv
<1>4. Folded(summary', out')
    BY <1>2, <1>3, FoldedGrows DEF ReplyInv
<1>5. ChatItems'
    BY <1>1 DEF ReplyInv, ChatItems
<1>6. \A t : Leads(summary, queue, t) => Leads(summary', queue', t)
    BY <1>1, <1>3, LeadsTail
<1>7. CASE phase = "streaming"
    <2>1. PICK t : Leads(summary, queue, t) /\ Telling(t)
        BY <1>7 DEF ReplyInv, WillTell
    <2>2. Telling(t)'
        BY <1>1, <2>1 DEF Telling
    <2>3. phase' = "streaming"
        BY <1>1, <1>7
    <2>4. WillTell'
        BY <1>6, <2>1, <2>2 DEF WillTell
    <2>. QED
        BY <1>4, <1>5, <2>3, <2>4 DEF ReplyInv
<1>8. CASE phase = "flushing"
    <2>1. PICK t : Leads(summary, queue, t) /\ Complete(t)
        BY <1>8 DEF ReplyInv, WillComplete
    <2>2. Complete(t)'
        BY <1>1, <2>1 DEF Complete
    <2>3. phase' = "flushing" \/ (phase' = "collected" /\ queue' = <<>>)
        BY <1>1, <1>8
    <2>4. WillComplete'
        BY <1>6, <2>1, <2>2 DEF WillComplete
    <2>. QED
        BY <1>4, <1>5, <2>3, <2>4 DEF ReplyInv
<1>. QED
    BY <1>1, <1>7, <1>8

LEMMA ReplyResends ==
    ASSUME ReplyInv, StreamInv, Resend
    PROVE  ReplyInv'
<1>1. /\ phase' = "sending" /\ protocol' = protocol /\ decoder' = NewDecoder /\ queue' = <<>>
      /\ out' = <<>> /\ summary' = NothingYet /\ items' = <<>> /\ closed' = {} /\ wire' = <<>>
    BY DEF Resend
<1>2. /\ protocol' \in {"anthropic", "chat", "codex"}
      /\ protocol' = "anthropic" => decoder' = A!Decoder
      /\ protocol' = "chat" => decoder' = O!Decoder
      /\ protocol' = "codex" => decoder' = C!Decoder
    BY <1>1 DEF StreamInv, NewDecoder
<1>3. Telling(NothingYet)'
    BY <1>1, <1>2, TellingStarts DEF Telling
<1>4. WillTell'
    BY <1>1, <1>3, NothingTold DEF WillTell
<1>5. ChatItems'
    BY <1>1, Nothing DEF ChatItems
<1>. QED
    BY <1>1, <1>4, <1>5, NothingTold DEF ReplyInv

-----------------------------------------------------------------------------
(* The provider's steps.                                                   *)

\* The pieces of the model are what Heard and HeardOf have the data of.
LEMMA PiecesAre ==
    ASSUME Sequential(wire), NEW kind, NEW i
    PROVE  /\ Len(Pieces(kind)) \in Nat
           /\ Data(Pieces(kind)) = Heard(wire, kind) /\ Data(PiecesOf(i)) = HeardOf(wire, i)
           /\ PiecesOf(i) = <<>> <=> HeardOf(wire, i) = <<>>
<1>1. PICK n \in Nat : Long(wire, n) /\ DOMAIN wire = 1..n
    BY LongIs
<1>2. Pieces(kind) = Picked(wire, OfKind(wire, n, kind)) /\ PiecesOf(i) = Picked(wire, OfItem(wire, n, i))
    BY <1>1 DEF Pieces, PiecesOf, Select, Picked, OfKind, OfItem
<1>3. Nested(Shown(wire, OfKind(wire, n, kind))) /\ Nested(Shown(wire, OfItem(wire, n, i)))
      /\ Long(Shown(wire, OfKind(wire, n, kind)), n) /\ Long(Shown(wire, OfItem(wire, n, i)), n)
    BY <1>1, ShownIs
<1>4. Picked(wire, OfKind(wire, n, kind)) = FlattenSeq(Shown(wire, OfKind(wire, n, kind)))
      /\ Picked(wire, OfItem(wire, n, i)) = FlattenSeq(Shown(wire, OfItem(wire, n, i)))
    BY DEF Picked, Shown
<1>5. Sequential(Pieces(kind)) /\ Sequential(PiecesOf(i))
    BY <1>2, <1>3, <1>4, FlattenIs
<1>6. Data(Pieces(kind)) = Heard(wire, kind) /\ Data(PiecesOf(i)) = HeardOf(wire, i)
    BY DEF Pieces, PiecesOf, Heard, HeardOf
<1>7. PICK l \in Nat : Long(PiecesOf(i), l)
    BY <1>5, LongIs
<1>8. Long(HeardOf(wire, i), l)
    BY <1>6, <1>7, DataIs
<1>9. PiecesOf(i) = <<>> <=> HeardOf(wire, i) = <<>>
    <2>1. PiecesOf(i) = <<>> <=> l = 0
        BY <1>7, NothingLong, SameSequence DEF Long
    <2>2. HeardOf(wire, i) = <<>> <=> l = 0
        BY <1>8, NothingLong, SameSequence DEF Long
    <2>. QED
        BY <2>1, <2>2
<1>. QED
    BY <1>5, <1>6, <1>9, SequenceIs

\* What may follow says something.
LEMMA NextVoiced ==
    ASSUME Sequential(wire), NEW kind, NEW i, NEW d \in NextPieces(kind, i)
    PROVE  Voiced(d)
<1>1. Len(Pieces(kind)) \in Nat
    BY PiecesAre
<1>2. CASE kind # "tool"
    <2>1. Len(Pieces(kind)) < 4 /\ d = TextPieces[Len(Pieces(kind)) + 1]
        BY <1>2 DEF NextPieces, TextPieces
    <2>2. PICK n \in 1..4 : d = TextPieces[n]
        BY <1>1, <2>1
    <2>3. d \in {"a", "b", "c", "d"}
        BY <2>2 DEF TextPieces
    <2>. QED
        BY Zenon, <2>3 DEF Voiced
<1>3. CASE kind = "tool"
    <2>1. d \in {"open", "close"}
        BY <1>3 DEF NextPieces
    <2>. QED
        BY Zenon, <2>1 DEF Voiced
<1>. QED
    BY <1>2, <1>3

\* A piece is sent.
Piece(w, kind, item, data) == w.kind = kind /\ w.item = item /\ w.data = data

LEMMA SaysIs ==
    ASSUME NEW kind, NEW item, NEW data, Says(kind, item, data)
    PROVE  \E w : Piece(w, kind, item, data) /\ Adds(wire', wire, w)
<1>. PICK w : w = [kind |-> kind, item |-> item, data |-> data]
    OBVIOUS
<1>1. wire' = Append(wire, w)
    BY DEF Says
<1>2. Piece(w, kind, item, data)
    BY DEF Piece
<1>3. Adds(wire', wire, w)
    BY <1>1 DEF Adds
<1>. QED
    BY <1>2, <1>3

LEMMA BeginsIs ==
    ASSUME Sequential(items), NEW kind, Begins(kind)
    PROVE  /\ Grown(items', items, Len(items) + 1, kind) /\ Len(items) + 1 # 0
           /\ Sequential(items') /\ Len(items) \in Nat
<1>1. PICK n \in Nat : Long(items, n) /\ DOMAIN items = 1..n
    BY LongIs
<1>2. Adds(items', items, kind)
    BY DEF Begins, Adds
<1>3. Long(items', n + 1) /\ items'[n + 1] = kind /\ \A j \in 1..n : items'[j] = items[j]
    BY <1>1, <1>2, LongAppend
<1>4. DOMAIN items' = 1..(n + 1) /\ Sequential(items') /\ Len(items) = n
    BY <1>1, <1>3, LongNext DEF Long
<1>. QED
    BY <1>1, <1>3, <1>4 DEF Grown

LEMMA ReplyEnds ==
    ASSUME ReplyInv, StreamInv, StreamEnds
    PROVE  ReplyInv'
<1>. DEFINE r == Flushed
<1>1. /\ phase = "streaming" /\ queue = <<>> /\ queue' = r.events /\ out' = out
      /\ summary' = summary /\ wire' = wire
      /\ protocol' = protocol /\ items' = items /\ closed' = closed
      /\ IF r.error = "none" THEN phase' = "flushing" /\ UNCHANGED error ELSE AttemptFails(r.error)
    BY DEF StreamEnds, AllTaken, provider
<1>2. /\ Telling(summary) /\ IsSummary(summary) /\ summary.started = Begun(out) /\ Sequential(out)
      /\ DecoderInv(out) /\ protocol \in {"anthropic", "chat", "codex"}
    BY <1>1, TellingNow
<1>3. r.error = "none" => \E t : Leads(summary, r.events, t) /\ Complete(t)
    <2>1. CASE protocol = "anthropic"
        <3>1. r = A!Flush(decoder) /\ AnthropicTells(summary, decoder, wire, items, closed)
            BY <1>2, <2>1 DEF Flushed, Telling, TellsBy
        <3>. PICK n, open : n = Len(items) /\ open = Open
            OBVIOUS
        <3>2. PICK S, E, T : Reaches(out, S, E, T) /\ AnthropicMatch(decoder, n, open, S, E, T)
            BY <1>2, <2>1 DEF DecoderInv, AnthropicAt
        <3>3. AnthropicMatch(decoder, n, open, summary.started, E, T)
            BY <1>2, <3>2 DEF Reaches
        <3>4. EndTold(summary, A!Flush(decoder), wire, items)
            BY <3>1, <3>3, AnthropicTellsEnd
        <3>. HIDE DEF r
        <3>. QED
            BY <2>1, <3>1, <3>4 DEF EndTold, Complete
    <2>2. CASE protocol = "chat"
        <3>1. r = O!Flush(decoder) /\ Tells(summary, decoder.entries, wire, items, {})
              /\ ChatHolds(summary, decoder)
            BY <1>2, <2>2 DEF Flushed, Telling, TellsBy
        <3>2. ChatAt(out, decoder)
            BY <1>2, <2>2 DEF DecoderInv
        <3>3. ChatReady(out, summary, decoder, wire, items)
            BY <1>2, <3>1, <3>2 DEF ChatReady
        <3>4. ChatEndTold(summary, O!Flush(decoder), wire, items)
            BY <3>3, ChatTellsEnd
        <3>. HIDE DEF r
        <3>. QED
            BY <2>2, <3>1, <3>4 DEF ChatEndTold, Complete
    <2>3. CASE protocol = "codex"
        <3>1. r = C!Flush(decoder) /\ CodexTells(summary, decoder, wire, items, closed)
            BY <1>2, <2>3 DEF Flushed, Telling, TellsBy
        <3>. PICK n : n = Len(items)
            OBVIOUS
        <3>2. PICK S, E, T : Reaches(out, S, E, T) /\ CodexMatch(decoder, n, S, E, T)
            BY <1>2, <2>3 DEF DecoderInv, CodexAt
        <3>3. CodexMatch(decoder, n, summary.started, E, T)
            BY <1>2, <3>2 DEF Reaches
        <3>4. EndTold(summary, C!Flush(decoder), wire, items)
            BY <3>1, <3>3, CodexTellsEnd
        <3>. HIDE DEF r
        <3>. QED
            BY <2>3, <3>1, <3>4 DEF EndTold, Complete
    <2>. QED
        BY <1>2, <2>1, <2>2, <2>3
<1>. HIDE DEF r
<1>4. Folded(summary', out') /\ ChatItems'
    BY <1>1 DEF ReplyInv, ChatItems
<1>5. CASE r.error = "none"
    <2>1. PICK t : Leads(summary, r.events, t) /\ Complete(t)
        BY <1>3, <1>5
    <2>2. Complete(t)'
        BY <1>1, <2>1 DEF Complete
    <2>3. WillComplete' /\ phase' = "flushing"
        BY <1>1, <1>5, <2>1, <2>2 DEF WillComplete
    <2>. QED
        BY <1>4, <2>3 DEF ReplyInv
<1>6. CASE r.error # "none"
    <2>1. phase' \in {"backoff", "failed"}
        BY <1>1, <1>6 DEF AttemptFails
    <2>. QED
        BY <1>4, <2>1 DEF ReplyInv
<1>. QED
    BY <1>5, <1>6

LEMMA AnthropicReplies ==
    ASSUME ReplyInv, StreamInv, AnthropicSends
    PROVE  ReplyInv'
<1>0. /\ protocol = "anthropic" /\ Pulling /\ queue = <<>> /\ phase = "streaming" /\ ItemsInv
    BY Zenon DEF AnthropicSends, Pulling, StreamInv
<1>1. /\ Telling(summary) /\ summary.started = Begun(out) /\ Sequential(wire) /\ Sequential(items)
      /\ DecoderInv(out) /\ DOMAIN items = 1..Len(items) /\ Len(items) \in Nat
    BY <1>0, TellingNow
<1>. PICK s, d, u, its, ended : s = summary /\ d = decoder /\ u = wire /\ its = items /\ ended = closed
    OBVIOUS
<1>. PICK n, open : n = Len(items) /\ open = Open
    OBVIOUS
<1>2. AnthropicTells(s, d, u, its, ended)
    BY <1>0, <1>1 DEF Telling, TellsBy
<1>3. PICK S, E, T : Reaches(out, S, E, T) /\ AnthropicMatch(d, n, open, S, E, T)
    BY <1>0, <1>1 DEF DecoderInv, AnthropicAt
<1>4. AnthropicMatch(d, n, open, s.started, E, T)
    BY <1>1, <1>3 DEF Reaches
<1>5. \A c : Handle(c) = A!HandleChunk(d, c)
    BY <1>0 DEF Handle
<1>6. \A i \in Open : Open \subseteq {i} /\ i \in DOMAIN its \ ended
    BY <1>0 DEF ItemsInv, Open
<1>7. ASSUME NEW c, Receive(c), AnthropicCame(s, Handle(c), wire', items', closed')
      PROVE  ReplyInv'
    <2>1. protocol' = "anthropic"
        BY <1>0, <1>7 DEF Receive
    <2>2. CameNow(Handle(c)) /\ ChatItems'
        BY <1>7, <2>1 DEF CameNow, ChatItems
    <2>. QED
        BY <1>0, <1>7, <2>2, ReplyReceives
<1>8. ASSUME NEW k, Open = {}, Begins(k),
             Receive(A!Chunk("content_block_start", Len(items) + 1, k, "")), UNCHANGED <<closed, wire>>
      PROVE  ReplyInv'
    <2>. PICK i, data : i = Len(items) + 1 /\ data = ""
        OBVIOUS
    <2>. PICK c : c = A!Chunk("content_block_start", i, k, data)
        OBVIOUS
    <2>1. Receive(c)
        BY Zenon, <1>8
    <2>2. Grown(items', its, i, k) /\ i # 0 /\ wire' = u /\ closed' = ended
        BY Zenon, <1>1, <1>8, BeginsIs
    <2>3. d.blocks = <<>>
        BY Zenon, <1>4, <1>8 DEF AnthropicMatch
    <2>4. DOMAIN its \subseteq ended /\ i \notin ended
        BY Zenon, <1>0, <1>8, <2>2 DEF Open, ItemsInv, Grown
    <2>5. Handle(c) = A!StartBlock(d, c)
        BY Zenon, <1>5 DEF A!HandleChunk, A!Chunk
    <2>6. AnthropicStarted(A!StartBlock(d, c), d, i, k)
        BY Zenon, <1>4, <2>3, AnthropicBlockStarted
    <2>7. AnthropicCame(s, A!StartBlock(d, c), u, items', ended)
        BY Zenon, <1>1, <1>2, <1>4, <2>2, <2>3, <2>4, <2>6, AnthropicTellsStart
    <2>8. AnthropicCame(s, Handle(c), wire', items', closed')
        BY Zenon, <2>2, <2>5, <2>7
    <2>. QED
        BY Zenon, <1>7, <2>1, <2>8
<1>9. ASSUME NEW i \in Open, NEW data \in NextPieces(items[i], i), items[i] \in Kinds,
             Says(items[i], i, data),
             Receive(A!Chunk("content_block_delta", i, items[i], data)), UNCHANGED <<items, closed>>
      PROVE  ReplyInv'
    <2>. PICK k : k = its[i]
        OBVIOUS
    <2>. PICK c : c = A!Chunk("content_block_delta", i, k, data)
        OBVIOUS
    <2>1. Receive(c) /\ items' = its /\ closed' = ended /\ i \in DOMAIN its \ ended /\ its[i] \in Kinds
        BY <1>6, <1>9
    <2>2. Voiced(data)
        BY <1>1, <1>9, NextVoiced
    <2>3. PICK w : Piece(w, k, i, data) /\ Adds(wire', u, w)
        BY <1>9, SaysIs
    <2>4. w.kind = its[i] /\ w.item = i /\ w.data = data
        BY <2>3 DEF Piece
    <2>5. Handle(c) = A!DeltaBlock(d, c)
        BY <1>5 DEF A!HandleChunk, A!Chunk
    <2>6. AnthropicCame(s, A!DeltaBlock(d, c), wire', its, ended)
        BY Zenon, <1>2, <1>4, <2>1, <2>2, <2>3, <2>4, AnthropicTellsDelta
           DEF Voiced
    <2>7. AnthropicCame(s, Handle(c), wire', items', closed')
        BY <2>1, <2>5, <2>6
    <2>. QED
        BY <1>7, <2>1, <2>7
<1>10. ASSUME NEW i \in Open, Ends(i), Receive(A!Chunk("content_block_stop", i, items[i], "")),
              UNCHANGED <<items, wire>>
       PROVE  ReplyInv'
    <2>. PICK k, data : k = its[i] /\ data = ""
        OBVIOUS
    <2>. PICK c : c = A!Chunk("content_block_stop", i, k, data)
        OBVIOUS
    <2>1. Receive(c) /\ items' = its /\ closed' = ended \cup {i} /\ wire' = u
        BY Zenon, <1>10 DEF Ends
    <2>2. i \in DOMAIN its \ ended /\ DOMAIN its \ ended \subseteq {i} /\ open \subseteq {i}
        BY Zenon, <1>6 DEF Open
    <2>3. Handle(c) = A!StopBlock(d, c)
        BY Zenon, <1>5 DEF A!HandleChunk, A!Chunk
    <2>4. AnthropicStopped(A!StopBlock(d, c), d)
        BY Zenon, <1>4, <2>2, AnthropicBlockStopped
    <2>5. AnthropicCame(s, A!StopBlock(d, c), u, its, closed')
        BY Zenon, <1>2, <1>4, <2>1, <2>2, <2>4, AnthropicTellsStop
    <2>6. AnthropicCame(s, Handle(c), wire', items', closed')
        BY Zenon, <2>1, <2>3, <2>5
    <2>. QED
        BY Zenon, <1>7, <2>1, <2>6
<1>11. ASSUME NEW c \in {A!Chunk("message_delta", 0, "", "stop"), A!Chunk("error", 0, "", "overloaded"),
                         A!Chunk("error", 0, "", "unrecognized")},
              Receive(c), UNCHANGED <<items, closed, wire>>
       PROVE  ReplyInv'
    <2>1. \/ \E x : c = A!Chunk("message_delta", 0, "", x)
          \/ \E x : c = A!Chunk("error", 0, "", x)
        BY Zenon, <1>11
    <2>2. AnthropicCame(s, A!HandleChunk(d, c), u, its, ended)
        BY Zenon, <1>2, <1>4, <2>1, AnthropicTellsOthers
    <2>3. AnthropicCame(s, Handle(c), wire', items', closed')
        BY Zenon, <1>5, <1>11, <2>2
    <2>. QED
        BY Zenon, <1>7, <1>11, <2>3
<1>. QED
    BY Zenon, <1>8, <1>9, <1>10, <1>11 DEF AnthropicSends

LEMMA ChunkHas ==
    ASSUME NEW t, NEW x, NEW f, NEW n
    PROVE  LET c == O!Chunk(t, x, f, n)
           IN  /\ c.type = "delta" /\ c.finish = n
               /\ c.reasoning = t /\ c.content = x /\ c.fragments = f
BY DEF O!Chunk

\* An empty field.
Blank(data) == data = ""

LEMMA ChunkReceived ==
    ASSUME NEW t, NEW x, NEW f, NEW n, Blank(n), Receive(O!Chunk(t, x, f, n))
    PROVE  \E c : Receive(c) /\ ChunkIs(c, t, x, f)
<1>. PICK c : c = O!Chunk(t, x, f, n)
    OBVIOUS
<1>1. c.type = "delta" /\ c.finish = n /\ c.reasoning = t /\ c.content = x /\ c.fragments = f
    BY ChunkHas
<1>2. Receive(c)
    OBVIOUS
<1>3. n = ""
    BY Zenon DEF Blank
<1>4. c.finish = ""
    BY <1>1, <1>3, Zenon
<1>5. ChunkIs(c, t, x, f)
    BY <1>1, <1>4, Zenon DEF ChunkIs
<1>. QED
    BY <1>2, <1>5, Zenon

LEMMA TwoSaid ==
    ASSUME NEW u, Sequential(u), NEW a, NEW b, NEW v, v = u \o <<a, b>>
    PROVE  \E m : Adds(m, u, a) /\ Adds(v, m, b)
<1>. PICK m : m = Append(u, a)
    OBVIOUS
<1>1. v = Append(m, b)
    BY TwoElements
<1>2. Adds(m, u, a)
    BY DEF Adds
<1>3. Adds(v, m, b)
    BY <1>1 DEF Adds
<1>. QED
    BY <1>2, <1>3
LEMMA ChatReplies ==
    ASSUME ReplyInv, StreamInv, ChatSends
    PROVE  ReplyInv'
<1>0. /\ protocol = "chat" /\ Pulling /\ queue = <<>> /\ phase = "streaming" /\ ItemsInv
    BY Zenon DEF ChatSends, Pulling, StreamInv
<1>1. /\ Telling(summary) /\ summary.started = Begun(out) /\ Sequential(wire) /\ Sequential(items)
      /\ IsSummary(summary) /\ Sequential(out)
      /\ DecoderInv(out) /\ 0 \notin DOMAIN items /\ ChatItems
    BY <1>0, TellingNow
<1>. PICK s, d, u, its : s = summary /\ d = decoder /\ u = wire /\ its = items
    OBVIOUS
<1>2. ChatReady(out, s, d, u, its)
    BY <1>0, <1>1 DEF Telling, TellsBy, DecoderInv, ChatReady
<1>3. \A c : Handle(c) = O!HandleChunk(d, c)
    BY <1>0 DEF Handle
<1>4. 0 \notin DOMAIN its /\ \A i \in DOMAIN its : its[i] = "tool"
    BY <1>0, <1>1 DEF ChatItems
<1>5. ASSUME NEW c, Receive(c), ChatCame(s, Handle(c), wire', items'), closed' = closed,
             \/ items' = items
             \/ \E i : Grown(items', its, i, "tool")
      PROVE  ReplyInv'
    <2>1. protocol' = "chat"
        BY <1>0, <1>5 DEF Receive
    <2>2. CameNow(Handle(c))
        BY <1>5, <2>1 DEF CameNow
    <2>3. ChatItems'
        BY <1>0, <1>1, <1>4, <1>5 DEF ChatItems, Grown
    <2>. QED
        BY <1>0, <1>5, <2>2, <2>3, ReplyReceives
<1>. PICK none : none = <<>>
    OBVIOUS
<1>6. ASSUME NEW t, NEW x, NEW f, Receive(O!Chunk(t, x, f, ""))
      PROVE  \E c : Receive(c) /\ ChunkIs(c, t, x, f)
    <2>1. Blank("")
        BY DEF Blank
    <2>. QED
        BY Zenon, <1>6, <2>1, ChunkReceived
<1>7. ASSUME NEW data \in NextPieces("text", 0), Says("text", 0, data),
             Receive(O!Chunk("", data, <<>>, "")), UNCHANGED <<items, closed>>
      PROVE  ReplyInv'
    <2>0. Receive(O!Chunk("", data, none, ""))
        BY Zenon, <1>7
    <2>2. PICK c : Receive(c) /\ ChunkIs(c, "", data, none)
        BY Zenon, <1>6, <2>0
    <2>1. Receive(c) /\ items' = its /\ closed' = closed
        BY Zenon, <1>7, <2>2
    <2>3. Voiced(data)
        BY Zenon, <1>1, <1>7, NextVoiced
    <2>4. PICK w : Piece(w, "text", 0, data) /\ Adds(wire', u, w)
        BY Zenon, <1>7, SaysIs
    <2>5. ChatCame(s, O!HandleChunk(d, c), wire', its)
        BY Zenon, <1>2, <1>4, <2>2, <2>3, <2>4, ChatCameText DEF Piece, Voiced
    <2>6. ChatCame(s, Handle(c), wire', items')
        BY <1>3, <2>1, <2>5
    <2>. QED
        BY <1>5, <2>1, <2>6
<1>8. ASSUME NEW data \in NextPieces("reasoning", 0), Says("reasoning", 0, data),
             Receive(O!Chunk(data, "", <<>>, "")), UNCHANGED <<items, closed>>
      PROVE  ReplyInv'
    <2>0. Receive(O!Chunk(data, "", none, ""))
        BY Zenon, <1>8
    <2>2. PICK c : Receive(c) /\ ChunkIs(c, data, "", none)
        BY Zenon, <1>6, <2>0
    <2>1. Receive(c) /\ items' = its /\ closed' = closed
        BY Zenon, <1>8, <2>2
    <2>3. Voiced(data)
        BY Zenon, <1>1, <1>8, NextVoiced
    <2>4. PICK w : Piece(w, "reasoning", 0, data) /\ Adds(wire', u, w)
        BY Zenon, <1>8, SaysIs
    <2>5. ChatCame(s, O!HandleChunk(d, c), wire', its)
        BY Zenon, <1>2, <1>4, <2>2, <2>3, <2>4, ChatCameReasoning DEF Piece,
           Voiced
    <2>6. ChatCame(s, Handle(c), wire', items')
        BY <1>3, <2>1, <2>5
    <2>. QED
        BY <1>5, <2>1, <2>6
<1>9. ASSUME NEW r \in NextPieces("reasoning", 0), NEW t \in NextPieces("text", 0),
             wire' = wire \o <<[kind |-> "reasoning", item |-> 0, data |-> r],
                               [kind |-> "text", item |-> 0, data |-> t]>>,
             Receive(O!Chunk(r, t, <<>>, "")), UNCHANGED <<items, closed>>
      PROVE  ReplyInv'
    <2>0. Receive(O!Chunk(r, t, none, ""))
        BY Zenon, <1>9
    <2>2. PICK c : Receive(c) /\ ChunkIs(c, r, t, none)
        BY Zenon, <1>6, <2>0
    <2>1. Receive(c) /\ items' = its /\ closed' = closed
        BY Zenon, <1>9, <2>2
    <2>3. Voiced(r) /\ Voiced(t)
        BY Zenon, <1>1, <1>9, NextVoiced
    <2>4. PICK w, x : /\ w = [kind |-> "reasoning", item |-> 0, data |-> r]
                      /\ x = [kind |-> "text", item |-> 0, data |-> t]
        OBVIOUS
    <2>5. wire' = u \o <<w, x>>
        BY Zenon, <1>9, <2>4
    <2>6. PICK v : Adds(v, u, w) /\ Adds(wire', v, x)
        BY <1>1, <2>5, TwoSaid
    <2>7. Piece(w, "reasoning", 0, r) /\ Piece(x, "text", 0, t)
        BY <2>4 DEF Piece
    <2>8. ChatCame(s, O!HandleChunk(d, c), wire', its)
        BY Zenon, <1>2, <1>4, <2>2, <2>3, <2>6, <2>7, ChatCameBoth DEF Piece,
           Voiced
    <2>9. ChatCame(s, Handle(c), wire', items')
        BY <1>3, <2>1, <2>8
    <2>. QED
        BY <1>5, <2>1, <2>9
<1>10. ASSUME NEW whole \in BOOLEAN, Begins("tool"),
              IF whole THEN Says("tool", Len(items) + 1, "whole") ELSE UNCHANGED wire,
              Receive(O!Chunk("", "", <<[index |-> Len(items) + 1,
                                         data |-> IF whole THEN "whole" ELSE ""]>>, "")),
              UNCHANGED closed
       PROVE  ReplyInv'
    <2>. PICK i, data : i = Len(items) + 1 /\ data = IF whole THEN "whole" ELSE ""
        OBVIOUS
    <2>. PICK f : f = [index |-> i, data |-> data]
        OBVIOUS
    <2>. PICK fs : fs = <<f>>
        OBVIOUS
    <2>0. Receive(O!Chunk("", "", fs, ""))
        BY Zenon, <1>10
    <2>2. PICK c : Receive(c) /\ ChunkIs(c, "", "", fs)
        BY Zenon, <1>6, <2>0
    <2>1. Receive(c) /\ closed' = closed
        BY Zenon, <1>10, <2>2
    <2>3. Grown(items', its, i, "tool") /\ i # 0
        BY Zenon, <1>1, <1>10, BeginsIs
    <2>4. f.index = i /\ f.data = data /\ IsOne(fs, f)
        BY Zenon DEF IsOne
    <2>5. PICK w : /\ Piece(w, "tool", i, data)
                   /\ IF data = "" THEN wire' = u ELSE Adds(wire', u, w)
        <3>1. CASE whole
            <4>1. data = "whole" /\ Says("tool", i, data)
                BY Zenon, <1>10, <3>1
            <4>2. data # ""
                BY Zenon, <4>1
            <4>. QED
                BY Zenon, <4>1, <4>2, SaysIs
        <3>2. CASE ~ whole
            <4>. PICK w : w = [kind |-> "tool", item |-> i, data |-> data]
                OBVIOUS
            <4>1. Piece(w, "tool", i, data)
                BY Zenon DEF Piece
            <4>2. data = "" /\ wire' = u
                BY Zenon, <1>10, <3>2
            <4>. QED
                BY Zenon, <4>1, <4>2
        <3>. QED
            BY Zenon, <3>1, <3>2
    <2>6. ChatCame(s, O!HandleChunk(d, c), wire', items')
        BY Zenon, <1>2, <2>2, <2>3, <2>4, <2>5, ChatCameCall DEF Piece
    <2>7. ChatCame(s, Handle(c), wire', items')
        BY Zenon, <1>3, <2>6
    <2>. QED
        BY Zenon, <1>5, <2>1, <2>3, <2>7
<1>11. ASSUME NEW i \in DOMAIN items, NEW data \in NextPieces("tool", i), Says("tool", i, data),
              Receive(O!Chunk("", "", <<[index |-> i, data |-> data]>>, "")), UNCHANGED <<items, closed>>
       PROVE  ReplyInv'
    <2>. PICK f : f = [index |-> i, data |-> data]
        OBVIOUS
    <2>. PICK fs : fs = <<f>>
        OBVIOUS
    <2>0. Receive(O!Chunk("", "", fs, ""))
        BY Zenon, <1>11
    <2>2. PICK c : Receive(c) /\ ChunkIs(c, "", "", fs)
        BY Zenon, <1>6, <2>0
    <2>1. Receive(c) /\ items' = its /\ closed' = closed /\ i \in DOMAIN its /\ its[i] = "tool"
        BY Zenon, <1>4, <1>11, <2>2
    <2>3. Voiced(data)
        BY Zenon, <1>1, <1>11, NextVoiced
    <2>4. PICK w : Piece(w, "tool", i, data) /\ Adds(wire', u, w)
        BY Zenon, <1>11, SaysIs
    <2>5. f.index = i /\ f.data = data /\ IsOne(fs, f)
        BY DEF IsOne
    <2>6. ChatCame(s, O!HandleChunk(d, c), wire', its)
        BY Zenon, <1>2, <2>1, <2>2, <2>3, <2>4, <2>5, ChatCameInput DEF Piece,
           Voiced
    <2>7. ChatCame(s, Handle(c), wire', items')
        BY <1>3, <2>1, <2>6
    <2>. QED
        BY <1>5, <2>1, <2>7
<1>12. ASSUME NEW c \in {O!Chunk("", "", <<>>, "stop"), O!NoCallsChunk, O!ErrorChunk}, Receive(c),
              UNCHANGED <<items, closed, wire>>
       PROVE  ReplyInv'
    <2>1. ChatCame(s, O!HandleChunk(d, c), u, its)
        BY Zenon, <1>2, <1>12, ChatCameOthers
    <2>2. ChatCame(s, Handle(c), wire', items')
        BY Zenon, <1>3, <1>12, <2>1
    <2>. QED
        BY Zenon, <1>5, <1>12, <2>2
<1>13. ASSUME NEW k \in {"text", "reasoning"}, NEW data \in NextPieces(k, 0), Says(k, 0, data),
              Receive(O!Chunk(IF k = "reasoning" THEN data ELSE "", IF k = "text" THEN data ELSE "", <<>>, "")),
              UNCHANGED <<items, closed>>
       PROVE  ReplyInv'
    BY Zenon, <1>7, <1>8, <1>13
<1>. QED
    BY Zenon, <1>9, <1>10, <1>11, <1>12, <1>13 DEF ChatSends

LEMMA CodexReplies ==
    ASSUME ReplyInv, StreamInv, CodexSends
    PROVE  ReplyInv'
<1>0. /\ protocol = "codex" /\ Pulling /\ queue = <<>> /\ phase = "streaming" /\ ItemsInv
    BY Zenon DEF CodexSends, Pulling, StreamInv
<1>1. /\ Telling(summary) /\ summary.started = Begun(out) /\ Sequential(wire) /\ Sequential(items)
      /\ DecoderInv(out)
    BY <1>0, TellingNow
<1>. PICK s, d, u, its, ended, n : /\ s = summary /\ d = decoder /\ u = wire /\ its = items
                                   /\ ended = closed /\ n = Len(items)
    OBVIOUS
<1>2. CodexTells(s, d, u, its, ended)
    BY <1>0, <1>1 DEF Telling, TellsBy
<1>3. PICK S, E, T : Reaches(out, S, E, T) /\ CodexMatch(d, n, S, E, T)
    BY <1>0, <1>1 DEF DecoderInv, CodexAt
<1>4. CodexMatch(d, n, s.started, E, T)
    BY <1>1, <1>3 DEF Reaches
<1>5. \A c : Handle(c) = C!HandleChunk(d, c)
    BY <1>0 DEF Handle
<1>6. \A i \in Open : i \in DOMAIN its \ ended
    BY DEF Open
<1>7. ASSUME NEW c, Receive(c), CodexCame(s, C!HandleChunk(d, c), wire', items', closed')
      PROVE  ReplyInv'
    <2>1. protocol' = "codex"
        BY <1>0, <1>7 DEF Receive
    <2>2. CameNow(Handle(c)) /\ ChatItems'
        BY <1>5, <1>7, <2>1 DEF CameNow, ChatItems
    <2>. QED
        BY <1>0, <1>7, <2>2, ReplyReceives
<1>8. ASSUME NEW k \in Kinds, Begins(k), Receive(C!Chunk("item.added", Len(items) + 1, k, "")),
             UNCHANGED <<closed, wire>>
      PROVE  ReplyInv'
    <2>1. PICK i, data : i = Len(items) + 1 /\ data = ""
        OBVIOUS
    <2>2. PICK c : c = C!Chunk("item.added", i, k, data)
        OBVIOUS
    <2>3. Receive(c)
        BY Zenon, <1>8, <2>1, <2>2
    <2>4. Grown(items', its, i, k) /\ i # 0 /\ wire' = u /\ closed' = ended
        BY Zenon, <1>1, <1>8, <2>1, BeginsIs
    <2>5. CodexCame(s, C!HandleChunk(d, c), u, items', ended)
        BY <1>2, <1>4, <2>2, <2>4, CodexCameItem
    <2>. QED
        BY <1>7, <2>3, <2>4, <2>5
<1>9. ASSUME NEW i \in Open, NEW data \in NextPieces(items[i], i), Says(items[i], i, data),
             Receive(C!Chunk(IF items[i] = "tool" THEN "arguments.delta" ELSE "delta", i, items[i], data)),
             UNCHANGED <<items, closed>>
      PROVE  ReplyInv'
    <2>1. PICK k : k = its[i]
        OBVIOUS
    <2>2. items' = its /\ closed' = ended /\ i \in DOMAIN its \ ended
        BY <1>6, <1>9
    <2>3. Voiced(data)
        BY <1>1, <1>9, NextVoiced
    <2>4. PICK w : Piece(w, k, i, data) /\ Adds(wire', u, w)
        BY <1>9, <2>1, SaysIs
    <2>5. w.kind = its[i] /\ w.item = i /\ w.data = data
        BY <2>1, <2>4 DEF Piece
    <2>6. CASE k = "tool"
        <3>1. PICK c : c = C!Chunk("arguments.delta", i, k, data)
            OBVIOUS
        <3>2. Receive(c)
            BY <1>9, <2>1, <2>6, <3>1
        <3>3. its[i] = "tool" /\ w.kind = "tool"
            BY <2>1, <2>5, <2>6
        <3>4. CodexCame(s, C!HandleChunk(d, c), wire', its, ended)
            BY <1>2, <1>4, <2>2, <2>3, <2>4, <2>5, <3>1, <3>3, CodexCameInput
        <3>. QED
            BY <1>7, <2>2, <3>2, <3>4
    <2>7. CASE k # "tool"
        <3>1. PICK c : c = C!Chunk("delta", i, its[i], data)
            OBVIOUS
        <3>2. Receive(c)
            BY <1>9, <2>1, <2>7, <3>1
        <3>3. its[i] \in Texts
            BY <1>0, <2>1, <2>2, <2>7 DEF ItemsInv, Kinds, Texts
        <3>4. CodexCame(s, C!HandleChunk(d, c), wire', its, ended)
            BY <1>2, <1>4, <2>2, <2>3, <2>4, <2>5, <3>1, <3>3, CodexCamePiece
        <3>. QED
            BY <1>7, <2>2, <3>2, <3>4
    <2>. QED
        BY <2>6, <2>7
<1>10. ASSUME NEW i \in Open, items[i] = "tool",
              IF PiecesOf(i) = <<>> THEN Says("tool", i, "whole") ELSE UNCHANGED wire,
              Ends(i), Receive(C!Chunk("arguments.done", i, "tool", "whole")), UNCHANGED items
       PROVE  ReplyInv'
    <2>1. PICK k, final : k = "tool" /\ final = "whole"
        OBVIOUS
    <2>2. PICK c : c = C!Chunk("arguments.done", i, k, final)
        OBVIOUS
    <2>3. Receive(c)
        BY <1>10, <2>1, <2>2
    <2>4. items' = its /\ i \in DOMAIN its \ ended /\ its[i] = "tool" /\ closed' = ended \cup {i}
        BY <1>6, <1>10 DEF Ends
    <2>5. Voiced(final)
        BY <2>1 DEF Voiced
    <2>6. \/ wire' = u /\ HeardOf(u, i) # <<>>
          \/ /\ HeardOf(u, i) = <<>>
             /\ \E w : w.kind = "tool" /\ w.item = i /\ w.data = final /\ Adds(wire', u, w)
        <3>1. PiecesOf(i) = <<>> <=> HeardOf(u, i) = <<>>
            BY <1>1, PiecesAre
        <3>2. CASE PiecesOf(i) = <<>>
            <4>1. Says("tool", i, final)
                BY <1>10, <2>1, <3>2
            <4>2. PICK w : Piece(w, "tool", i, final) /\ Adds(wire', u, w)
                BY <4>1, SaysIs
            <4>. QED
                BY <3>1, <3>2, <4>2 DEF Piece
        <3>3. CASE PiecesOf(i) # <<>>
            BY <1>10, <3>1, <3>3
        <3>. QED
            BY <3>2, <3>3
    <2>7. CodexCame(s, C!HandleChunk(d, c), wire', its, closed')
        BY <1>2, <1>4, <2>2, <2>4, <2>5, <2>6, CodexCameWhole
    <2>. QED
        BY <1>7, <2>3, <2>4, <2>7
<1>11. ASSUME NEW i \in DOMAIN items, Ends(i), UNCHANGED <<items, wire>>, NEW data, NEW c, Receive(c),
              \/ c = C!Chunk("item.done", i, its[i], data)
              \/ c = C!Chunk("done", i, its[i], data) /\ its[i] # "tool"
       PROVE  ReplyInv'
    <2>1. items' = its /\ wire' = u /\ closed' = ended \cup {i} /\ i \in DOMAIN its
        BY <1>11 DEF Ends
    <2>2. CodexCame(s, C!HandleChunk(d, c), u, its, closed')
        BY <1>2, <1>4, <1>11, <2>1, CodexCameDone
    <2>. QED
        BY <1>7, <1>11, <2>1, <2>2
<1>12. ASSUME NEW i \in DOMAIN items, Ends(i), UNCHANGED <<items, wire>>,
              \E c \in {C!Chunk("item.done", i, items[i], "")}
                       \cup IF items[i] = "tool" THEN {} ELSE {C!Chunk("done", i, items[i], "")} : Receive(c)
       PROVE  ReplyInv'
    BY Zenon, <1>11, <1>12
<1>13. ASSUME NEW c \in {C!Chunk("completed", 0, "", "stop"), C!Chunk("failed", 0, "", "fatal")}, Receive(c),
              UNCHANGED <<items, closed, wire>>
       PROVE  ReplyInv'
    <2>1. CodexCame(s, C!HandleChunk(d, c), u, its, ended)
        <3>1. CASE c = C!Chunk("completed", 0, "", "stop")
            BY Zenon, <1>2, <1>4, <3>1, CodexCameOthers
        <3>2. CASE c = C!Chunk("failed", 0, "", "fatal")
            <4>1. "fatal" # "none"
                OBVIOUS
            <4>. QED
                BY Zenon, <1>2, <1>4, <3>2, <4>1, CodexCameOthers
        <3>. QED
            BY Zenon, <1>13, <3>1, <3>2
    <2>2. wire' = u /\ items' = its /\ closed' = ended
        BY Zenon, <1>13
    <2>. QED
        BY Zenon, <1>7, <1>13, <2>1, <2>2
<1>. QED
    BY Zenon, <1>8, <1>9, <1>10, <1>12, <1>13 DEF CodexSends

LEMMA ReplyStep ==
    ASSUME ReplyInv, StreamInv, [CallNext]_callVars
    PROVE  ReplyInv'
<1>1. CASE RequestFails \/ StreamBreaks \/ Stall \/ WallCapHits
    BY <1>1, ReplyFails DEF RequestFails, StreamBreaks, Stall, WallCapHits
<1>2. CASE RequestAccepted
    <2>1. /\ phase = "sending" /\ phase' = "streaming" /\ out' = out /\ queue' = queue /\ summary' = summary
          /\ protocol' = protocol /\ decoder' = decoder /\ items' = items /\ closed' = closed /\ wire' = wire
        BY <1>2 DEF RequestAccepted, provider
    <2>2. WillTell' /\ ChatItems'
        BY <2>1 DEF ReplyInv, WillTell, Telling, ChatItems
    <2>. QED
        BY <2>1, <2>2 DEF ReplyInv
<1>3. CASE Summarized
    <2>1. /\ phase = "collected" /\ out' = out /\ queue' = queue /\ summary' = summary
          /\ protocol' = protocol /\ items' = items /\ closed' = closed /\ wire' = wire
          /\ phase' = IF Accepted(summary) THEN "answered" ELSE "failed"
        BY <1>3 DEF Summarized, provider
    <2>2. WillComplete' /\ ChatItems'
        BY <2>1 DEF ReplyInv, WillComplete, Complete, ChatItems
    <2>3. phase' \in {"answered", "failed"} /\ (phase' = "answered" => summary.finish # "none")
        BY <2>1 DEF Accepted
    <2>. QED
        BY <2>1, <2>2, <2>3 DEF ReplyInv
<1>4. CASE UNCHANGED callVars \/ RunsAway \/ TakeMore
    <2>1. /\ out' = out /\ queue' = queue /\ summary' = summary /\ phase' = phase
          /\ protocol' = protocol /\ decoder' = decoder /\ items' = items /\ closed' = closed /\ wire' = wire
        BY <1>4 DEF callVars, client, provider, RunsAway, TakeMore
    <2>2. (WillTell' <=> WillTell) /\ (WillComplete' <=> WillComplete) /\ ChatItems'
        BY <2>1 DEF ReplyInv, WillTell, Telling, WillComplete, Complete, ChatItems
    <2>. QED
        BY <2>1, <2>2 DEF ReplyInv
<1>. QED
    BY <1>1, <1>2, <1>3, <1>4, ReplyEnds, ReplyDelivers, ReplyResends, AnthropicReplies, ChatReplies,
       CodexReplies DEF CallNext, ClientNext

-----------------------------------------------------------------------------
(* The blocks of the reply.                                                *)

\* What a content has in the reply.
ShownAs(q, s, k) ==
    IF k[1] # "tool" THEN \E b : IsOne(q, b) /\ b.kind = k[1] /\ b.data = s.buffers[k]
                     ELSE q = <<>> \/ \E b : IsOne(q, b) /\ b.kind = "tool"

LEMMA BlockShown ==
    ASSUME NEW s, NEW k
    PROVE  ShownAs(BlockOf(s, k), s, k)
<1>1. CASE k[1] # "tool"
    <2>. PICK b : b = [kind |-> k[1], data |-> s.buffers[k]]
        OBVIOUS
    <2>1. BlockOf(s, k) = <<b>>
        BY <1>1 DEF BlockOf
    <2>2. b.kind = k[1] /\ b.data = s.buffers[k]
        OBVIOUS
    <2>. QED
        BY <1>1, <2>1, <2>2 DEF ShownAs, IsOne
<1>2. CASE k[1] = "tool" /\ IsOpen(s.calls, k[2])
    <2>. PICK b : b = [kind |-> "tool", data |-> Entry(s.calls, k[2]).args]
        OBVIOUS
    <2>1. BlockOf(s, k) = <<b>>
        BY <1>2 DEF BlockOf
    <2>2. b.kind = "tool"
        OBVIOUS
    <2>. QED
        BY <1>2, <2>1, <2>2 DEF ShownAs, IsOne
<1>3. CASE k[1] = "tool" /\ ~ IsOpen(s.calls, k[2])
    <2>1. BlockOf(s, k) = <<>>
        BY <1>3 DEF BlockOf
    <2>. QED
        BY <1>3, <2>1 DEF ShownAs
<1>. QED
    BY <1>1, <1>2, <1>3

\* The blocks of a kind that hold something.
Full(b, kind)  == b.kind = kind /\ b.data # <<>>
FullIn(y, kind) == {m \in DOMAIN y : Full(y[m], kind)}
Filled(y, kind) == Data(Picked(y, FullIn(y, kind)))

LEMMA FilledGrows ==
    ASSUME NEW y, Sequential(y), NEW b, NEW z, Adds(z, y, b), NEW kind
    PROVE  /\ Sequential(Filled(y, kind))
           /\ Full(b, kind) => Adds(Filled(z, kind), Filled(y, kind), b.data)
           /\ ~ Full(b, kind) => Filled(z, kind) = Filled(y, kind)
<1>. PICK n \in Nat : Long(y, n) /\ DOMAIN y = 1..n
    BY LongIs
<1>1. Long(z, n + 1) /\ z[n + 1] = b /\ \A j \in 1..n : z[j] = y[j]
    BY LongAppend
<1>2. n + 1 \in 1..(n + 1) /\ (\A j \in 1..n : j \in 1..(n + 1)) /\ DOMAIN z = 1..(n + 1)
    BY <1>1, LongNext
<1>. DEFINE X == FullIn(y, kind)
            Y == FullIn(z, kind)
<1>3. (\A j \in 1..n : j \in X <=> j \in Y) /\ (n + 1 \in Y <=> Full(b, kind))
    <2>1. \A j : j \in X <=> j \in 1..n /\ Full(y[j], kind)
        BY DEF FullIn
    <2>2. \A j : j \in Y <=> j \in 1..(n + 1) /\ Full(z[j], kind)
        BY <1>2 DEF FullIn
    <2>. HIDE DEF X, Y
    <2>. QED
        BY <1>1, <1>2, <2>1, <2>2
<1>4. Filled(y, kind) = Data(Picked(y, X)) /\ Filled(z, kind) = Data(Picked(z, Y))
    BY DEF Filled
<1>. HIDE DEF X, Y
<1>5. /\ Sequential(Picked(y, X))
      /\ n + 1 \in Y => Adds(Picked(z, Y), Picked(y, X), b)
      /\ n + 1 \notin Y => Picked(z, Y) = Picked(y, X)
    BY <1>3, PickedGrows
<1>6. Sequential(Data(Picked(y, X)))
    <2>. PICK m \in Nat : Long(Picked(y, X), m)
        BY <1>5, LongIs
    <2>. QED
        BY DataIs, LongNext
<1>7. n + 1 \in Y => Adds(Data(Picked(z, Y)), Data(Picked(y, X)), b.data)
    BY <1>5, DataAppend
<1>. QED
    BY <1>3, <1>4, <1>5, <1>6, <1>7

\* What is kept of the first i contents: x is a buffer among them.
BufferAt(x, s, kind, k) == x # <<>> /\ k[1] = kind /\ s.buffers[k] = x
BufferIn(x, s, kind, i) == \E j \in 1..i : BufferAt(x, s, kind, s.order[j])

HoldsOf(d, s, kind, i, said) ==
    /\ Nested(d) /\ FlattenSeq(d) = said
    /\ \A x : x \in Range(d) <=> BufferIn(x, s, kind, i)

LEMMA RangeAdds ==
    ASSUME NEW d, Sequential(d), NEW x, NEW e, Adds(e, d, x)
    PROVE  \A y : y \in Range(e) <=> y \in Range(d) \/ y = x
<1>1. /\ Sequential(e) /\ DOMAIN d \subseteq DOMAIN e
      /\ \A i \in DOMAIN d : e[i] = d[i]
      /\ \E l : l \notin DOMAIN d /\ DOMAIN e = DOMAIN d \cup {l} /\ e[l] = x
    BY AddsMembers
<1>2. PICK l : l \notin DOMAIN d /\ DOMAIN e = DOMAIN d \cup {l} /\ e[l] = x
    BY <1>1
<1>3. (\A y : y \in Range(e) <=> \E i \in DOMAIN e : e[i] = y)
      /\ \A y : y \in Range(d) <=> \E i \in DOMAIN d : d[i] = y
    BY DEF Range
<1>. QED
    BY <1>1, <1>2, <1>3

LEMMA BufferNext ==
    ASSUME NEW s, NEW kind, NEW n \in Nat, NEW i \in 1..n, NEW k, k = s.order[i], NEW x
    PROVE  BufferIn(x, s, kind, i) <=> BufferIn(x, s, kind, i - 1) \/ BufferAt(x, s, kind, k)
<1>1. \A j : j \in 1..i <=> j \in 1..(i - 1) \/ j = i
    OBVIOUS
<1>. QED
    BY <1>1 DEF BufferIn

LEMMA HoldsNext ==
    ASSUME NEW s, NEW kind \in Texts, NEW n \in Nat, NEW i \in 1..n,
           NEW y, Sequential(y), NEW b, NEW z, Follows(z, y, b), NEW k, k = s.order[i],
           ShownAs(b, s, k), NEW said, NEW turn, HoldsOf(Filled(y, kind), s, kind, i - 1, said),
           Sequential(said), k[1] = kind => Sequential(s.buffers[k]),
           turn = IF k[1] = kind THEN s.buffers[k] ELSE <<>>,
           NEW more, Follows(more, said, turn)
    PROVE  HoldsOf(Filled(z, kind), s, kind, i, more)
<1>. PICK d : d = Filled(y, kind)
    OBVIOUS
<1>. PICK e : e = Filled(z, kind)
    OBVIOUS
<1>0. Nested(d) /\ FlattenSeq(d) = said /\ \A x : x \in Range(d) <=> BufferIn(x, s, kind, i - 1)
    BY DEF HoldsOf
<1>1. \A x : BufferIn(x, s, kind, i) <=> BufferIn(x, s, kind, i - 1) \/ BufferAt(x, s, kind, k)
    BY BufferNext
<1>2. CASE k[1] = kind /\ s.buffers[k] # <<>>
    <2>0. k[1] # "tool"
        BY <1>2 DEF Texts
    <2>1. PICK c : IsOne(b, c) /\ c.kind = k[1] /\ c.data = s.buffers[k]
        BY <2>0 DEF ShownAs
    <2>2. b = <<c>>
        BY <2>1 DEF IsOne
    <2>3. Adds(z, y, c)
        BY <2>2, FollowsOne
    <2>4. Full(c, kind)
        BY <1>2, <2>1 DEF Full
    <2>5. Adds(e, d, c.data)
        BY <2>3, <2>4, FilledGrows
    <2>6. Sequential(c.data)
        BY <1>2, <2>1
    <2>7. Nested(e)
        BY <1>0, <2>5, <2>6, NestedAppend
    <2>8. Follows(FlattenSeq(e), FlattenSeq(d), c.data)
        BY <1>0, <2>5, <2>6, FlattenAppend
    <2>9. turn = c.data
        BY <1>2, <2>1
    <2>10. FlattenSeq(e) = more
        BY <1>0, <2>8, <2>9, Zenon DEF Follows
    <2>11. Sequential(d)
        BY <1>0 DEF Nested
    <2>12. \A x : x \in Range(e) <=> x \in Range(d) \/ x = c.data
        BY <2>5, <2>11, RangeAdds
    <2>13. \A x : x \in Range(e) <=> BufferIn(x, s, kind, i)
        BY <1>0, <1>1, <1>2, <2>1, <2>12 DEF BufferAt
    <2>. QED
        BY <2>7, <2>10, <2>13 DEF HoldsOf
<1>3. CASE ~ (k[1] = kind /\ s.buffers[k] # <<>>)
    <2>1. e = d
        <3>1. CASE \E c : IsOne(b, c) /\ ~ Full(c, kind)
            <4>1. PICK c : IsOne(b, c) /\ ~ Full(c, kind)
                BY <3>1
            <4>2. Adds(z, y, c)
                BY <4>1, FollowsOne DEF IsOne
            <4>. QED
                BY <4>1, <4>2, FilledGrows
        <3>2. CASE b = <<>>
            <4>1. z = y
                BY <3>2, FollowsNone
            <4>. QED
                BY <4>1
        <3>3. b = <<>> \/ \E c : IsOne(b, c) /\ ~ Full(c, kind)
            <4>1. kind # "tool"
                BY DEF Texts
            <4>. QED
                BY <1>3, <4>1 DEF ShownAs, Full
        <3>. QED
            BY <3>1, <3>2, <3>3
    <2>2. turn = <<>>
        BY <1>3
    <2>3. more = said
        BY <2>2, FollowsNone
    <2>4. \A x : BufferIn(x, s, kind, i) <=> BufferIn(x, s, kind, i - 1)
        BY <1>1, <1>3 DEF BufferAt
    <2>. QED
        BY <1>0, <2>1, <2>3, <2>4 DEF HoldsOf
<1>. QED
    BY <1>2, <1>3

LEMMA NothingFilled ==
    ASSUME NEW s, NEW kind
    PROVE  HoldsOf(Filled(<<>>, kind), s, kind, 0, <<>>)
<1>. PICK X : X = FullIn(<<>>, kind)
    OBVIOUS
<1>. PICK q : q = Shown(<<>>, X)
    OBVIOUS
<1>1. Long(<<>>, 0) /\ Long(q, 0) /\ Nested(<<>>) /\ FlattenSeq(<<>>) = <<>>
    BY NothingLong, ShownIs
<1>2. \A i \in 1..0 : q[i] = <<>>[i]
    OBVIOUS
<1>3. q = <<>>
    BY <1>1, <1>2, SameSequence
<1>4. Picked(<<>>, X) = <<>>
    BY <1>1, <1>3 DEF Picked, Shown
<1>. PICK d : d = Data(<<>>)
    OBVIOUS
<1>5. Long(d, 0)
    BY <1>1, DataIs
<1>6. \A i \in 1..0 : d[i] = <<>>[i]
    OBVIOUS
<1>7. d = <<>>
    BY <1>1, <1>5, <1>6, SameSequence
<1>8. Filled(<<>>, kind) = <<>>
    BY <1>4, <1>7 DEF Filled
<1>9. \A x : x \notin Range(<<>>) /\ ~ BufferIn(x, s, kind, 0)
    BY DEF Range, BufferIn
<1>. QED
    BY <1>1, <1>8, <1>9 DEF HoldsOf

LEMMA BlockSequential ==
    ASSUME NEW q, NEW s, NEW k, ShownAs(q, s, k)
    PROVE  Sequential(q)
BY Nothing, OneElement DEF ShownAs, IsOne

LEMMA BlocksAre ==
    ASSUME NEW s, NEW n, Long(s.order, n)
    PROVE  \E w : /\ Long(w, n) /\ Nested(w) /\ Content(s) = FlattenSeq(w)
                  /\ \A i \in 1..n : ShownAs(w[i], s, s.order[i])
<1>. PICK w : w = [i \in DOMAIN s.order |-> BlockOf(s, s.order[i])]
    OBVIOUS
<1>1. DOMAIN s.order = 1..n /\ n \in Nat
    BY LongNext
<1>2. Lists(w, n) /\ \A i \in 1..n : w[i] = BlockOf(s, s.order[i])
    BY <1>1 DEF Lists
<1>3. Long(w, n)
    BY <1>2, ListsIs
<1>4. ASSUME NEW i \in 1..n
      PROVE  ShownAs(w[i], s, s.order[i]) /\ Sequential(w[i])
    <2>. PICK k : k = s.order[i]
        OBVIOUS
    <2>1. ShownAs(BlockOf(s, k), s, k)
        BY BlockShown
    <2>2. w[i] = BlockOf(s, k)
        BY <1>2
    <2>3. ShownAs(w[i], s, k)
        BY <2>1, <2>2
    <2>4. Sequential(w[i])
        BY <2>3, BlockSequential
    <2>. QED
        BY <2>3, <2>4
<1>5. Nested(w)
    BY <1>3, <1>4 DEF Nested, Long
<1>6. Content(s) = FlattenSeq(w)
    BY DEF Content
<1>. QED
    BY <1>3, <1>4, <1>5, <1>6

\* The reply's blocks of a kind hold what was said of it, in the order it was
\* begun, and each buffer that holds something.
LEMMA ContentHolds ==
    ASSUME NEW s, Listed(s), NEW kind \in Texts, NEW n, Long(s.order, n)
    PROVE  HoldsOf(Filled(Content(s), kind), s, kind, n, FlattenSeq(TurnOf(s, kind)))
<1>1. PICK w : /\ Long(w, n) /\ Nested(w) /\ Content(s) = FlattenSeq(w)
               /\ \A i \in 1..n : ShownAs(w[i], s, s.order[i])
    BY BlocksAre
<1>. PICK t : t = TurnOf(s, kind)
    OBVIOUS
<1>2. /\ Long(t, n) /\ Nested(t)
      /\ \A i \in 1..n : t[i] = IF s.order[i][1] = kind THEN s.buffers[s.order[i]] ELSE <<>>
    BY TurnIs
<1>3. PICK f : Stages(f, w, n) /\ FlattenSeq(w) = f[n] /\ \A i \in 0..n : Sequential(f[i])
    BY <1>1, FlattenIs
<1>4. PICK g : Stages(g, t, n) /\ FlattenSeq(t) = g[n] /\ \A i \in 0..n : Sequential(g[i])
    BY <1>2, FlattenIs
<1>. DEFINE T == {i \in 0..n : HoldsOf(Filled(f[i], kind), s, kind, i, g[i])}
<1>5. n \in Nat /\ DOMAIN s.order = 1..n
    BY LongNext
<1>6. 0 \in T
    <2>1. f[0] = <<>> /\ g[0] = <<>> /\ 0 \in 0..n
        BY <1>3, <1>4, <1>5 DEF Stages
    <2>. QED
        BY <2>1, NothingFilled
<1>7. ASSUME NEW i \in 1..n, i - 1 \in T
      PROVE  i \in T
    <2>1. i \in 0..n /\ i - 1 \in 0..n
        BY <1>5
    <2>. PICK k : k = s.order[i]
        OBVIOUS
    <2>2. f[i] = f[i - 1] \o w[i] /\ g[i] = g[i - 1] \o t[i]
        BY <1>3, <1>4 DEF Stages
    <2>. PICK y, z, b, said, more, turn : /\ y = f[i - 1] /\ z = f[i] /\ b = w[i]
                                          /\ said = g[i - 1] /\ more = g[i] /\ turn = t[i]
        OBVIOUS
    <2>3. Sequential(y) /\ Sequential(said)
        BY <1>3, <1>4, <2>1
    <2>4. Follows(z, y, b) /\ Follows(more, said, turn)
        BY <2>2 DEF Follows
    <2>5. ShownAs(b, s, k)
        BY <1>1
    <2>6. turn = IF k[1] = kind THEN s.buffers[k] ELSE <<>>
        BY <1>2
    <2>7. HoldsOf(Filled(y, kind), s, kind, i - 1, said)
        BY <1>7
    <2>8. k \in s.started
        BY <1>5 DEF Listed
    <2>9. Sequential(s.buffers[k])
        BY <2>8 DEF Listed
    <2>10. HoldsOf(Filled(z, kind), s, kind, i, more)
        BY <1>5, <2>3, <2>4, <2>5, <2>6, <2>7, <2>9, HoldsNext
    <2>. QED
        BY <2>1, <2>10
<1>8. n \in 0..n
    BY <1>5
<1>9. n \in T
    <2>. HIDE DEF T
    <2>. QED
        BY <1>5, <1>6, <1>7, <1>8, Climbing
<1>. QED
    BY <1>1, <1>3, <1>4, <1>9

-----------------------------------------------------------------------------
(* The calls of the reply.                                                 *)

\* When the log is over, every call that was begun is told.
LEMMA OverTold ==
    ASSUME NEW L, Lawful(L), Over(L), NEW i, <<"tool", i>> \in Begun(L)
    PROVE  i \in Told(L)
<1>0. Sequential(L)
    BY DEF Lawful
<1>. PICK n \in Nat : n = Len(L)
    BY <1>0, SequenceIs
<1>1. n # 0
    <2>1. PICK m \in 1..Len(L) : L[m].type = "finish"
        BY DEF Over, Of
    <2>. QED
        BY <2>1
<1>2. n \in 1..Len(L)
    BY <1>1
<1>. PICK p : p = SubSeq(L, 1, n - 1)
    OBVIOUS
<1>. PICK e : e = L[n]
    OBVIOUS
<1>3. May(p, e)
    BY <1>2 DEF Lawful
<1>4. Sequential(p) /\ SubSeq(L, 1, n) = p \o <<e>>
    BY <1>0, <1>2, Growing
<1>5. SubSeq(L, 1, Len(L)) = L
    BY <1>0, Beginnings
<1>6. L = Append(p, e)
    <2>1. Follows(L, p, <<e>>)
        BY <1>4, <1>5 DEF Follows
    <2>2. Adds(L, p, e)
        BY <1>4, <2>1, FollowsOne
    <2>. QED
        BY <2>2 DEF Adds
<1>7. Grew(L, p, e)
    BY <1>4, <1>6, LogGrows
<1>8. ~ Over(p)
    BY <1>3 DEF May
<1>9. e.type = "finish"
    BY <1>7, <1>8, Zenon DEF Grew
<1>10. <<"tool", i>> \in Begun(p)
    BY <1>7, <1>9 DEF Grew
<1>11. i \in Told(p)
    <2>. PICK k : k = <<"tool", i>>
        OBVIOUS
    <2>1. \A j \in Begun(p) : j[1] = "tool" => j[2] \in Told(p)
        BY <1>3, <1>9 DEF May
    <2>2. k[1] = "tool" /\ k[2] = i
        OBVIOUS
    <2>. QED
        BY <1>10, <2>1, <2>2
<1>. QED
    BY <1>7, <1>11 DEF Grew

\* The calls of a reply, and how many there are.
MadeOf(its) == {i \in DOMAIN its : its[i] = "tool"}

LEMMA CallsCounted ==
    ASSUME NEW s, NEW u, NEW its, Agrees(s, u, its), \A i \in MadeOf(its) : IsOpen(s.calls, i)
    PROVE  /\ {s.calls[n] : n \in DOMAIN s.calls}
                = {[id |-> i, args |-> HeardOf(u, i)] : i \in MadeOf(its)}
           /\ Len(s.calls) = Cardinality(MadeOf(its))
<1>. PICK c, made : c = s.calls /\ made = MadeOf(its)
    OBVIOUS
<1>1. Sequential(c) /\ \A n \in DOMAIN c :
         c[n] = [id |-> c[n].id, args |-> HeardOf(u, c[n].id)] /\ <<"tool", c[n].id>> \in s.started
    BY DEF Agrees, CallsAre
<1>2. \A m, n \in DOMAIN c : c[m].id = c[n].id => m = n
    BY DEF Agrees, CallsAre
<1>3. \A i : <<"tool", i>> \in s.started <=> i \in made
    BY Zenon DEF Agrees, MadeIs, MadeOf
<1>4. \A n \in DOMAIN c : c[n].id \in made
    BY <1>1, <1>3
<1>5. \A i \in made : \E n \in DOMAIN c : c[n].id = i
    BY DEF IsOpen
<1>6. PICK l \in Nat : Long(c, l) /\ DOMAIN c = 1..l
    BY <1>1, LongIs
<1>7. {c[n] : n \in DOMAIN c} = {[id |-> i, args |-> HeardOf(u, i)] : i \in made}
    <2>1. ASSUME NEW n \in DOMAIN c
          PROVE  c[n] \in {[id |-> i, args |-> HeardOf(u, i)] : i \in made}
        <3>. PICK i \in made : i = c[n].id
            BY <1>4
        <3>1. c[n] = [id |-> i, args |-> HeardOf(u, i)]
            BY <1>1, Zenon
        <3>. QED
            BY <3>1
    <2>2. ASSUME NEW i \in made
          PROVE  \E n \in DOMAIN c : c[n] = [id |-> i, args |-> HeardOf(u, i)]
        <3>. PICK n \in DOMAIN c : c[n].id = i
            BY <1>5
        <3>1. c[n] = [id |-> i, args |-> HeardOf(u, i)]
            BY <1>1, Zenon
        <3>. QED
            BY <3>1
    <2>. QED
        BY <2>1, <2>2, Zenon
<1>. DEFINE F == [n \in 1..l |-> c[n].id]
<1>8. F \in [1..l -> made]
    BY <1>4, <1>6
<1>9. \A m, n \in 1..l : F[m] = F[n] => m = n
    BY <1>2, <1>6
<1>10. \A i \in made : \E n \in 1..l : F[n] = i
    BY <1>5, <1>6
<1>. HIDE DEF F
<1>11. F \in Bijection(1..l, made)
    BY <1>8, <1>9, <1>10, Fun_IsBij
<1>12. ExistsBijection(1..l, made)
    BY <1>11 DEF ExistsBijection
<1>13. IsFiniteSet(1..l) /\ Cardinality(1..l) = l
    BY CountTo
<1>14. Cardinality(made) = l
    BY <1>12, <1>13, FS_Bijection
<1>15. Len(c) = l
    BY <1>6 DEF Long
<1>. QED
    BY <1>7, <1>14, <1>15

\* Where every text has its item, the buffers that hold something are what was
\* heard of the items of their kind.
HeardIn(x, u, its, kind) ==
    \E i \in DOMAIN its : its[i] = kind /\ HeardOf(u, i) # <<>> /\ HeardOf(u, i) = x

LEMMA BuffersHeard ==
    ASSUME NEW s, NEW u, NEW its, Listed(s), NEW f, Homes(f, s, u, its), NEW kind \in Texts,
           NEW n, Long(s.order, n), NEW x
    PROVE  BufferIn(x, s, kind, n) <=> HeardIn(x, u, its, kind)
<1>1. DOMAIN s.order = 1..n
    BY LongNext
<1>2. ASSUME BufferIn(x, s, kind, n)
      PROVE  HeardIn(x, u, its, kind)
    <2>1. PICK j \in 1..n : BufferAt(x, s, kind, s.order[j])
        BY <1>2 DEF BufferIn
    <2>. PICK k : k = s.order[j]
        OBVIOUS
    <2>2. k \in s.started
        BY <1>1 DEF Listed
    <2>3. k[1] = kind /\ s.buffers[k] = x /\ x # <<>>
        BY <2>1 DEF BufferAt
    <2>4. k \in TextsOf(s)
        BY <2>2, <2>3 DEF TextsOf
    <2>5. f[k] \in DOMAIN its /\ its[f[k]] = k[1] /\ s.buffers[k] = HeardOf(u, f[k])
        BY <2>4 DEF Homes
    <2>. QED
        BY <2>3, <2>5 DEF HeardIn
<1>3. ASSUME HeardIn(x, u, its, kind)
      PROVE  BufferIn(x, s, kind, n)
    <2>1. PICK i \in DOMAIN its : its[i] = kind /\ HeardOf(u, i) # <<>> /\ HeardOf(u, i) = x
        BY <1>3 DEF HeardIn
    <2>2. PICK k \in TextsOf(s) : f[k] = i
        BY <2>1 DEF Homes
    <2>3. its[f[k]] = k[1] /\ s.buffers[k] = HeardOf(u, f[k]) /\ k \in s.started
        BY DEF Homes, TextsOf
    <2>4. BufferAt(x, s, kind, k)
        BY <2>1, <2>2, <2>3 DEF BufferAt
    <2>5. PICK j \in 1..n : s.order[j] = k
        BY <1>1, <2>3 DEF Listed
    <2>. QED
        BY <2>4, <2>5 DEF BufferIn
<1>. QED
    BY <1>2, <1>3

LEMMA KeptIs ==
    ASSUME NEW kind
    PROVE  Data(Kept(kind)) = Filled(Content(summary), kind)
BY DEF Kept, Filled, Select, Picked, FullIn, Full

-----------------------------------------------------------------------------
(* An answer.                                                              *)

LEMMA AnsweredNow ==
    ASSUME ReplyInv, StreamInv, phase = "answered"
    PROVE  /\ Complete(summary) /\ Folded(summary, out) /\ Lawful(out) /\ Over(out)
           /\ Sequential(wire)
<1>1. queue = <<>> /\ summary.finish # "none" /\ Folded(summary, out) /\ WillComplete
    BY DEF ReplyInv
<1>2. PICK t : Leads(summary, queue, t) /\ Complete(t)
    BY <1>1 DEF WillComplete
<1>3. t = summary
    <2>1. Leads(summary, <<>>, t)
        BY <1>1, <1>2
    <2>. QED
        BY <2>1, LeadsNone
<1>4. Complete(summary)
    BY <1>2, <1>3, Zenon
<1>5. Lawful(out)
    BY <1>1, OutGoesOn
<1>6. Over(out)
    BY <1>1 DEF Folded
<1>7. Sequential(wire)
    BY <1>4 DEF Complete, Agrees
<1>. QED
    BY <1>1, <1>4, <1>5, <1>6, <1>7

\* What the blocks of a kind hold.
LEMMA BlocksFaithful ==
    ASSUME ReplyInv, StreamInv, phase = "answered", NEW kind \in Texts
    PROVE  IF protocol = "chat"
           THEN FlattenSeq(Data(Kept(kind))) = Data(Pieces(kind))
           ELSE Range(Data(Kept(kind)))
                  = {Data(PiecesOf(i)) : i \in {j \in DOMAIN items :
                                                items[j] = kind /\ PiecesOf(j) # <<>>}}
<1>1. /\ Complete(summary) /\ Sequential(wire)
    BY AnsweredNow
<1>2. Listed(summary) /\ ProseIs(summary, wire)
    BY <1>1 DEF Complete, Agrees
<1>3. Sequential(summary.order)
    BY <1>2 DEF Listed
<1>. PICK n \in Nat : Long(summary.order, n)
    BY <1>3, LongIs
<1>. PICK d : d = Data(Kept(kind))
    OBVIOUS
<1>. PICK said : said = FlattenSeq(TurnOf(summary, kind))
    OBVIOUS
<1>4. HoldsOf(d, summary, kind, n, said)
    <2>1. d = Filled(Content(summary), kind)
        BY KeptIs
    <2>. QED
        BY <1>2, <2>1, ContentHolds
<1>5. CASE protocol = "chat"
    <2>1. InTurn(summary)
        BY <1>1, <1>5 DEF Complete
    <2>2. Prose(summary, kind) = said
        BY <2>1 DEF InTurn
    <2>3. Prose(summary, kind) = Heard(wire, kind)
        BY <1>2 DEF ProseIs
    <2>4. Data(Pieces(kind)) = Heard(wire, kind)
        BY <1>1, PiecesAre
    <2>5. FlattenSeq(d) = said
        BY <1>4 DEF HoldsOf
    <2>. QED
        BY <1>5, <2>2, <2>3, <2>4, <2>5
<1>6. CASE protocol # "chat"
    <2>1. PICK f : Homes(f, summary, wire, items)
        BY <1>1, <1>6 DEF Complete
    <2>2. \A x : x \in Range(d) <=> HeardIn(x, wire, items, kind)
        <3>1. \A x : x \in Range(d) <=> BufferIn(x, summary, kind, n)
            BY <1>4 DEF HoldsOf
        <3>2. ASSUME NEW x
              PROVE  BufferIn(x, summary, kind, n) <=> HeardIn(x, wire, items, kind)
            BY <1>2, <2>1, BuffersHeard
        <3>. QED
            BY <3>1, <3>2, Zenon
    <2>3. ASSUME NEW i
          PROVE  Data(PiecesOf(i)) = HeardOf(wire, i) /\ (PiecesOf(i) = <<>> <=> HeardOf(wire, i) = <<>>)
        BY <1>1, PiecesAre
    <2>. DEFINE S == {Data(PiecesOf(i)) : i \in {j \in DOMAIN items : items[j] = kind /\ PiecesOf(j) # <<>>}}
    <2>4. \A x : x \in S <=> HeardIn(x, wire, items, kind)
        <3>1. \A x : x \in S <=> \E i \in DOMAIN items : /\ items[i] = kind /\ PiecesOf(i) # <<>>
                                                         /\ Data(PiecesOf(i)) = x
            OBVIOUS
        <3>. HIDE DEF S
        <3>. QED
            BY <2>3, <3>1 DEF HeardIn
    <2>5. Range(d) = S
        <3>. HIDE DEF S
        <3>. PICK R : R = Range(d)
            OBVIOUS
        <3>. QED
            BY <2>2, <2>4
    <2>. QED
        BY <1>6, <2>5
<1>. QED
    BY <1>5, <1>6

\* The calls of the reply are those that were made, each once, with the arguments
\* that were sent.
LEMMA CallsFaithful ==
    ASSUME ReplyInv, StreamInv, phase = "answered"
    PROVE  LET made == {i \in DOMAIN items : items[i] = "tool"}
           IN  /\ {summary.calls[n] : n \in DOMAIN summary.calls}
                    = {[id |-> i, args |-> Data(PiecesOf(i))] : i \in made}
               /\ Len(summary.calls) = Cardinality(made)
<1>1. /\ Complete(summary) /\ Folded(summary, out) /\ Lawful(out) /\ Over(out)
      /\ Sequential(wire)
    BY AnsweredNow
<1>. PICK s : s = summary
    OBVIOUS
<1>2. Agrees(s, wire, items)
    BY <1>1 DEF Complete
<1>3. ASSUME NEW i \in MadeOf(items)
      PROVE  IsOpen(s.calls, i)
    <2>1. i \in DOMAIN items /\ items[i] = "tool"
        BY DEF MadeOf
    <2>2. <<"tool", i>> \in s.started
        BY <1>2, <2>1 DEF Agrees, MadeIs
    <2>3. <<"tool", i>> \in Begun(out)
        BY <1>1, <2>2 DEF Folded
    <2>4. i \in Told(out)
        BY <1>1, <2>3, OverTold
    <2>. QED
        BY <1>1, <2>4 DEF Folded
<1>4. /\ {s.calls[n] : n \in DOMAIN s.calls}
           = {[id |-> i, args |-> HeardOf(wire, i)] : i \in MadeOf(items)}
      /\ Len(s.calls) = Cardinality(MadeOf(items))
    BY <1>2, <1>3, CallsCounted
<1>5. ASSUME NEW i
      PROVE  Data(PiecesOf(i)) = HeardOf(wire, i)
    BY <1>1, PiecesAre
<1>6. {[id |-> i, args |-> HeardOf(wire, i)] : i \in MadeOf(items)}
        = {[id |-> i, args |-> Data(PiecesOf(i))] : i \in MadeOf(items)}
    BY <1>5
<1>. QED
    BY <1>4, <1>6 DEF MadeOf

LEMMA ReplyIsHeard ==
    ASSUME ReplyInv, StreamInv
    PROVE  ReplyIsFaithful
<1>. SUFFICES ASSUME phase = "answered"
              PROVE  ReplyIsFaithful
    BY DEF ReplyIsFaithful
<1>1. Complete(summary) /\ Sequential(wire)
    BY AnsweredNow
<1>2. ASSUME NEW kind \in Texts
      PROVE  Prose(summary, kind) = Data(Pieces(kind))
    <2>1. Prose(summary, kind) = Heard(wire, kind)
        BY <1>1 DEF Complete, Agrees, ProseIs
    <2>2. Data(Pieces(kind)) = Heard(wire, kind)
        BY <1>1, PiecesAre
    <2>. QED
        BY <2>1, <2>2
<1>3. summary.text = Data(Pieces("text")) /\ summary.reasoning = Data(Pieces("reasoning"))
    BY <1>2 DEF Prose, Texts
<1>. QED
    BY <1>3, CallsFaithful, BlocksFaithful DEF ReplyIsFaithful, Texts

-----------------------------------------------------------------------------
(* A reply is what was sent.                                               *)

\* Whatever the protocol, and however often the turn was tried again, the reply
\* the agent takes holds what the provider said in the attempt that answered,
\* each piece once, in order and in its block, and each call once with its
\* arguments: handleChunk and flush of the three decoders, streamOnce of
\* core/src/agent.ts and LLMTurnSummary.fromEvents.
THEOREM RepliesAreFaithful == CallSpec => []ReplyIsFaithful
<1>1. ReplyInv /\ StreamInv /\ [CallNext]_callVars => ReplyInv'
    BY ReplyStep
<1>2. ReplyInv /\ StreamInv => ReplyIsFaithful
    BY ReplyIsHeard
<1>. QED
    BY <1>1, <1>2, ReplyStarts, StreamInvariant, PTL DEF CallSpec
=============================================================================
