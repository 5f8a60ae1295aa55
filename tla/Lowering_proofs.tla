-------------------------- MODULE Lowering_proofs ---------------------------
(***************************************************************************)
(* What a protocol makes of a transcript holds every call and result of    *)
(* it, each result after its call and where the backend looks for it.      *)
(*                                                                         *)
(* A request is a sequence of sequences, one for each message: Places says *)
(* where the members of flattened sequences go, Renders what a message may *)
(* be sent as, and Homing that each call and result that is sent has one   *)
(* place in the transcript, in the order of its messages.                  *)
(***************************************************************************)
EXTENDS Lowering, Integers, SequenceTheorems, FiniteSetTheorems,
        FunctionTheorems, WellFoundedInduction, TLAPS

-----------------------------------------------------------------------------
(* Sequences of anything, and what a flattened sequence is made of.        *)

Sequential(s) == \E S : s \in Seq(S)

LEMMA LeastNat ==
    ASSUME NEW T \in SUBSET Nat, T # {}
    PROVE  \E n \in T : \A m \in T : ~ (m < n)
<1>. DEFINE R == {ss \in Nat \X Nat : ss[1] < ss[2]}
<1>1. IsWellFoundedOn(R, Nat)
    BY NatLessThanWellFounded DEF OpToRel
<1>2. PICK n \in T : \A m \in T : ~(<<m, n>> \in R)
    BY <1>1, WFMin
<1>. QED
    BY <1>2

LEMMA SequenceIs ==
    ASSUME NEW s, Sequential(s)
    PROVE  /\ Len(s) \in Nat /\ DOMAIN s = 1..Len(s)
           /\ s = [n \in 1..Len(s) |-> s[n]]
<1>1. PICK S : s \in Seq(S)
    BY DEF Sequential
<1>. QED
    BY <1>1

LEMMA FunctionIsSequence ==
    ASSUME NEW n \in Nat, NEW s, s = [i \in 1..n |-> s[i]]
    PROVE  Sequential(s) /\ Len(s) = n /\ DOMAIN s = 1..n
<1>. DEFINE S == {s[i] : i \in 1..n}
<1>1. s \in [1..n -> S]
    BY Zenon
<1>2. s \in Seq(S)
    <2>. HIDE DEF S
    <2>. QED
        BY <1>1, IsASeq
<1>3. Sequential(s)
    BY <1>2 DEF Sequential
<1>4. DOMAIN s = 1..n
    BY Zenon
<1>5. Len(s) = n
    <2>. HIDE DEF S
    <2>. QED
        BY <1>2, <1>4
<1>. QED
    BY <1>3, <1>4, <1>5

\* Two sequences, one after the other.
Joins(u, s, t) ==
    /\ Sequential(u) /\ Len(u) = Len(s) + Len(t)
    /\ \A n \in 1..Len(s) : u[n] = s[n]
    /\ \A n \in 1..Len(t) : u[Len(s) + n] = t[n]

LEMMA CommonSet ==
    ASSUME NEW s, NEW t, Sequential(s), Sequential(t)
    PROVE  \E S : s \in Seq(S) /\ t \in Seq(S)
<1>1. PICK D : s \in Seq(D)
    BY DEF Sequential
<1>2. PICK B : t \in Seq(B)
    BY DEF Sequential
<1>3. s \in Seq(D \cup B) /\ t \in Seq(D \cup B)
    <2>1. D \subseteq D \cup B /\ B \subseteq D \cup B
        OBVIOUS
    <2>. QED
        BY <1>1, <1>2, <2>1, SeqMonotonic
<1>. QED
    BY <1>3

LEMMA Joining ==
    ASSUME NEW s, NEW t, Sequential(s), Sequential(t)
    PROVE  Joins(s \o t, s, t)
<1>1. PICK S : s \in Seq(S) /\ t \in Seq(S)
    BY CommonSet
<1>2. s \o t \in Seq(S)
    BY <1>1
<1>3. Len(s \o t) = Len(s) + Len(t) /\ Len(s) \in Nat /\ Len(t) \in Nat
    BY <1>1
<1>4. ASSUME NEW n \in 1..Len(s) PROVE (s \o t)[n] = s[n]
    BY <1>1
<1>5. ASSUME NEW n \in 1..Len(t) PROVE (s \o t)[Len(s) + n] = t[n]
    BY <1>1
<1>6. Sequential(s \o t)
    BY <1>2 DEF Sequential
<1>. QED
    BY <1>3, <1>4, <1>5, <1>6, Zenon DEF Joins

LEMMA Nothing == Sequential(<<>>) /\ Len(<<>>) = 0 /\ \A s : Sequential(s) => <<>> \o s = s /\ s \o <<>> = s
<1>1. <<>> \in Seq({}) /\ Len(<<>>) = 0
    OBVIOUS
<1>2. ASSUME NEW s, Sequential(s) PROVE <<>> \o s = s /\ s \o <<>> = s
    <2>1. PICK S : s \in Seq(S)
        BY <1>2 DEF Sequential
    <2>. QED
        BY <2>1
<1>3. Sequential(<<>>)
    BY <1>1 DEF Sequential
<1>. QED
    BY <1>1, <1>2, <1>3

LEMMA OneElement ==
    ASSUME NEW x
    PROVE  Sequential(<<x>>) /\ Len(<<x>>) = 1 /\ <<x>>[1] = x
<1>1. <<x>> \in Seq({x}) /\ Len(<<x>>) = 1 /\ <<x>>[1] = x
    OBVIOUS
<1>2. Sequential(<<x>>)
    BY <1>1 DEF Sequential
<1>. QED
    BY <1>1, <1>2

\* One more element.
LEMMA Appended ==
    ASSUME NEW s, Sequential(s), NEW x
    PROVE  /\ Append(s, x) = s \o <<x>>
           /\ Sequential(Append(s, x)) /\ Len(Append(s, x)) = Len(s) + 1
           /\ Append(s, x)[Len(s) + 1] = x
           /\ \A n \in 1..Len(s) : Append(s, x)[n] = s[n]
<1>1. PICK S : s \in Seq(S) /\ <<x>> \in Seq(S)
    BY OneElement, CommonSet
<1>2. x \in S
    <2>1. <<x>> \in Seq(S) /\ 1 \in 1..Len(<<x>>) /\ <<x>>[1] = x
        BY <1>1
    <2>. QED
        BY <2>1, ElementOfSeq
<1>3. Append(s, x) \in Seq(S)
    BY <1>1, <1>2
<1>4. Append(s, x) = s \o <<x>>
    BY <1>1, <1>2
<1>5. Len(Append(s, x)) = Len(s) + 1 /\ Append(s, x)[Len(s) + 1] = x
    BY <1>1, <1>2
<1>6. ASSUME NEW n \in 1..Len(s) PROVE Append(s, x)[n] = s[n]
    BY <1>1, <1>2
<1>7. Sequential(Append(s, x))
    BY <1>3 DEF Sequential
<1>. QED
    BY <1>4, <1>5, <1>6, <1>7

LEMMA JoinsAssociate ==
    ASSUME NEW s, NEW t, NEW u, Sequential(s), Sequential(t), Sequential(u)
    PROVE  (s \o t) \o u = s \o (t \o u)
<1>1. Sequential(s \o t)
    BY Joining DEF Joins
<1>2. PICK D : s \in Seq(D) /\ t \in Seq(D)
    BY CommonSet
<1>3. PICK B : u \in Seq(B)
    BY DEF Sequential
<1>4. D \subseteq D \cup B /\ B \subseteq D \cup B
    OBVIOUS
<1>5. s \in Seq(D \cup B) /\ t \in Seq(D \cup B) /\ u \in Seq(D \cup B)
    BY <1>2, <1>3, <1>4, SeqMonotonic
<1>. QED
    BY <1>5, ConcatAssociative

\* What has been flattened of s after each of its first n members.
Stages(f, s, n) ==
    /\ f = [i \in 0..n |-> f[i]] /\ f[0] = <<>>
    /\ \A i \in 1..n : f[i] = f[i - 1] \o s[i]

LEMMA StagesExist ==
    ASSUME NEW s, NEW n \in Nat
    PROVE  \E f : Stages(f, s, n)
<1>. DEFINE Short == {k \in Nat : ~ \E f : Stages(f, s, k)}
<1>1. 0 \notin Short
    <2>. DEFINE f == [i \in 0..0 |-> <<>>]
    <2>1. Stages(f, s, 0)
        BY DEF Stages
    <2>. QED
        BY <2>1
<1>2. ASSUME NEW k \in Nat, k \notin Short
      PROVE  k + 1 \notin Short
    <2>1. PICK f : Stages(f, s, k)
        BY <1>2
    <2>. DEFINE g == [i \in 0..k + 1 |-> IF i = k + 1 THEN f[k] \o s[k + 1] ELSE f[i]]
    <2>2. \A i \in 0..k : g[i] = f[i]
        OBVIOUS
    <2>3. g[k + 1] = f[k] \o s[k + 1]
        <3>1. k + 1 \in 0..k + 1
            OBVIOUS
        <3>. QED
            BY <3>1
    <2>4. g[0] = <<>>
        BY <2>1, <2>2 DEF Stages
    <2>5. ASSUME NEW i \in 1..k + 1
          PROVE  g[i] = g[i - 1] \o s[i]
        <3>1. CASE i = k + 1
            <4>1. i - 1 = k /\ k \in 0..k
                BY <3>1
            <4>. QED
                BY <2>2, <2>3, <3>1, <4>1
        <3>2. CASE i # k + 1
            <4>1. i \in 1..k /\ i \in 0..k /\ i - 1 \in 0..k
                BY <3>2
            <4>2. f[i] = f[i - 1] \o s[i]
                BY <2>1, <4>1 DEF Stages
            <4>. QED
                BY <2>2, <4>1, <4>2
        <3>. QED
            BY <3>1, <3>2
    <2>6. g = [i \in 0..k + 1 |-> g[i]]
        OBVIOUS
    <2>. HIDE DEF g
    <2>7. Stages(g, s, k + 1)
        BY <2>4, <2>5, <2>6 DEF Stages
    <2>. QED
        BY <2>7
<1>3. Short = {}
    <2>. SUFFICES ASSUME Short # {} PROVE FALSE
        OBVIOUS
    <2>. HIDE DEF Short
    <2>1. Short \in SUBSET Nat
        BY DEF Short
    <2>2. PICK k \in Short : \A m \in Short : ~ (m < k)
        BY <2>1, LeastNat
    <2>3. k \in Nat /\ k # 0
        BY <1>1, <2>1, <2>2
    <2>4. k - 1 \in Nat /\ k - 1 < k /\ (k - 1) + 1 = k
        BY <2>3
    <2>. QED
        BY <1>2, <2>2, <2>4
<1>. QED
    BY <1>3

\* FlattenSeq goes through these stages.
LEMMA Flattening ==
    ASSUME NEW s, Sequential(s), \A i \in 1..Len(s) : Sequential(s[i])
    PROVE  \E f : /\ Stages(f, s, Len(s)) /\ FlattenSeq(s) = f[Len(s)]
                  /\ \A i \in 0..Len(s) : Sequential(f[i])
<1>. PICK n \in Nat : n = Len(s)
    BY SequenceIs
<1>1. PICK f : Stages(f, s, n)
    BY StagesExist
<1>2. \A i \in 0..n : Sequential(f[i])
    <2>. DEFINE T == {i \in 0..n : ~ Sequential(f[i])}
    <2>. SUFFICES ASSUME T # {} PROVE FALSE
        OBVIOUS
    <2>1. T \in SUBSET Nat /\ T \in SUBSET (0..n)
        OBVIOUS
    <2>2. 0 \notin T
        BY <1>1, Nothing DEF Stages
    <2>3. \A i \in 0..n : i \notin T => Sequential(f[i])
        OBVIOUS
    <2>4. \A i \in T : ~ Sequential(f[i])
        OBVIOUS
    <2>. HIDE DEF T
    <2>5. PICK k \in T : \A m \in T : ~ (m < k)
        BY <2>1, LeastNat
    <2>6. k \in 1..n /\ k - 1 \in 0..n /\ k - 1 < k
        BY <2>1, <2>2, <2>5
    <2>7. Sequential(f[k - 1])
        BY <2>3, <2>5, <2>6
    <2>8. f[k] = f[k - 1] \o s[k] /\ Sequential(s[k])
        BY <1>1, <2>6 DEF Stages
    <2>9. Sequential(f[k])
        BY <2>7, <2>8, Joining DEF Joins
    <2>. QED
        BY <2>4, <2>5, <2>9
<1>3. FlattenSeq(s) = f[n]
    <2>1. CASE n = 0
        <3>1. FlattenSeq(s) = s
            BY <2>1 DEF FlattenSeq
        <3>2. s = <<>>
            <4>1. PICK S : s \in Seq(S)
                BY DEF Sequential
            <4>. QED
                BY <2>1, <4>1, EmptySeq
        <3>. QED
            BY <1>1, <2>1, <3>1, <3>2 DEF Stages
    <2>2. CASE n # 0
        <3>. DEFINE Is(h) == h = [i \in 1..Len(s) |-> IF i = 1 THEN s[i] ELSE h[i - 1] \o s[i]]
        <3>1. FlattenSeq(s) = (CHOOSE h : Is(h))[Len(s)]
            BY <2>2 DEF FlattenSeq
        <3>2. \E h : Is(h)
            <4>. DEFINE g == [i \in 1..n |-> f[i]]
            <4>1. ASSUME NEW i \in 1..n
                  PROVE  g[i] = IF i = 1 THEN s[i] ELSE g[i - 1] \o s[i]
                <5>1. CASE i = 1
                    <6>1. f[1] = <<>> \o s[1] /\ Sequential(s[1])
                        <7>1. 1 \in 1..n /\ 1 - 1 = 0
                            BY <5>1
                        <7>. QED
                            BY <1>1, <7>1 DEF Stages
                    <6>. QED
                        BY <5>1, <6>1, Nothing
                <5>2. CASE i # 1
                    <6>1. i - 1 \in 1..n
                        BY <5>2
                    <6>2. f[i] = f[i - 1] \o s[i]
                        BY <1>1 DEF Stages
                    <6>. QED
                        BY <5>2, <6>1, <6>2
                <5>. QED
                    BY <5>1, <5>2
            <4>2. g = [i \in 1..n |-> g[i]]
                OBVIOUS
            <4>. HIDE DEF g
            <4>3. g = [i \in 1..n |-> IF i = 1 THEN s[i] ELSE g[i - 1] \o s[i]]
                BY <4>1, <4>2
            <4>4. Is(g)
                BY <4>3
            <4>. HIDE DEF Is
            <4>. QED
                BY <4>4
        <3>3. PICK h : Is(h) /\ FlattenSeq(s) = h[n]
            <4>. HIDE DEF Is
            <4>. QED
                BY <3>1, <3>2
        <3>4. \A i \in 1..n : h[i] = IF i = 1 THEN s[i] ELSE h[i - 1] \o s[i]
            <4>1. h = [i \in 1..n |-> IF i = 1 THEN s[i] ELSE h[i - 1] \o s[i]]
                BY <3>3
            <4>. QED
                BY <4>1
        <3>. DEFINE T == {i \in 1..n : h[i] # f[i]}
        <3>5. T = {}
            <4>. SUFFICES ASSUME T # {} PROVE FALSE
                OBVIOUS
            <4>1. T \in SUBSET Nat /\ T \in SUBSET (1..n)
                OBVIOUS
            <4>2. \A i \in 1..n : i \notin T => h[i] = f[i]
                OBVIOUS
            <4>3. \A i \in T : h[i] # f[i]
                OBVIOUS
            <4>. HIDE DEF T
            <4>4. PICK k \in T : \A m \in T : ~ (m < k)
                BY <4>1, LeastNat
            <4>5. k \in 1..n /\ f[k] = f[k - 1] \o s[k] /\ Sequential(s[k])
                BY <1>1, <4>1, <4>4 DEF Stages
            <4>6. CASE k = 1
                <5>1. f[1] = <<>> \o s[1]
                    BY <1>1, <4>5, <4>6 DEF Stages
                <5>2. h[1] = s[1]
                    BY <3>4, <4>5, <4>6
                <5>. QED
                    BY <4>3, <4>4, <4>5, <4>6, <5>1, <5>2, Nothing
            <4>7. CASE k # 1
                <5>1. k - 1 \in 1..n /\ k - 1 < k
                    BY <4>5, <4>7
                <5>2. h[k - 1] = f[k - 1]
                    BY <4>2, <4>4, <5>1
                <5>3. h[k] = h[k - 1] \o s[k]
                    BY <3>4, <4>5, <4>7
                <5>. QED
                    BY <4>3, <4>4, <4>5, <5>2, <5>3
            <4>. QED
                BY <4>6, <4>7
        <3>6. n \in 1..n
            BY <2>2
        <3>. QED
            BY <3>3, <3>5, <3>6
    <2>. QED
        BY <2>1, <2>2
<1>. QED
    BY <1>1, <1>2, <1>3

\* A part of a sequence: those of its members that stand at the positions X,
\* each once.
Part(t, s, X) ==
    /\ Sequential(t)
    /\ \E p : /\ p \in [1..Len(t) -> X]
              /\ \A i, j \in 1..Len(t) : p[i] = p[j] => i = j
              /\ \A x \in X : \E i \in 1..Len(t) : p[i] = x
              /\ \A i \in 1..Len(t) : t[i] = s[p[i]]

Picked(s, X) == FlattenSeq([n \in DOMAIN s |-> IF n \in X THEN <<s[n]>> ELSE <<>>])

LEMMA Parting ==
    ASSUME NEW s, Sequential(s), NEW X \in SUBSET (1..Len(s))
    PROVE  Part(Picked(s, X), s, X)
<1>. PICK n \in Nat : n = Len(s) /\ DOMAIN s = 1..n
    BY SequenceIs
<1>. DEFINE w == [i \in 1..n |-> IF i \in X THEN <<s[i]>> ELSE <<>>]
<1>1. Sequential(w) /\ Len(w) = n
    BY FunctionIsSequence
<1>2. \A i \in 1..n : w[i] = IF i \in X THEN <<s[i]>> ELSE <<>>
    OBVIOUS
<1>3. Picked(s, X) = FlattenSeq(w)
    BY DEF Picked
<1>. HIDE DEF w
<1>4. PICK f : Stages(f, w, n) /\ FlattenSeq(w) = f[n] /\ \A i \in 0..n : Sequential(f[i])
    <2>1. ASSUME NEW i \in 1..n
          PROVE  Sequential(w[i])
        <3>1. CASE i \in X
            BY <1>2, <3>1, OneElement
        <3>2. CASE i \notin X
            BY <1>2, <3>2, Nothing
        <3>. QED
            BY <3>1, <3>2
    <2>. QED
        BY <1>1, <2>1, Flattening
<1>. DEFINE Y(i) == {x \in X : x <= i}
            T == {i \in 0..n : ~ Part(f[i], s, Y(i))}
<1>0. \A x \in X : x \in 1..n
    OBVIOUS
<1>5. Part(f[0], s, Y(0))
    <2>1. f[0] = <<>> /\ Len(f[0]) = 0
        BY <1>4, Nothing DEF Stages
    <2>2. Y(0) = {}
        <3>1. \A x \in X : ~ (x <= 0)
            BY <1>0
        <3>. QED
            BY <3>1
    <2>. DEFINE p == [i \in 1..0 |-> i]
    <2>3. p \in [1..Len(f[0]) -> Y(0)]
        BY <2>1
    <2>. HIDE DEF p, Y
    <2>. QED
        BY <1>4, <2>1, <2>2, <2>3, Nothing DEF Part
<1>6. ASSUME NEW k \in 1..n, Part(f[k - 1], s, Y(k - 1))
      PROVE  Part(f[k], s, Y(k))
    <2>1. f[k] = f[k - 1] \o w[k] /\ k - 1 \in 0..n /\ k \in 0..n
        BY <1>4 DEF Stages
    <2>2. Sequential(f[k - 1]) /\ Sequential(f[k])
        BY <1>4, <2>1
    <2>3. CASE k \notin X
        <3>1. f[k] = f[k - 1]
            BY <1>2, <2>1, <2>2, <2>3, Nothing
        <3>2. Y(k) = Y(k - 1)
            <4>1. \A x \in X : x <= k <=> x <= k - 1
                BY <1>0, <2>3
            <4>. QED
                BY <4>1
        <3>. QED
            BY <1>6, <3>1, <3>2
    <2>4. CASE k \in X
        <3>1. PICK l \in Nat : l = Len(f[k - 1])
            BY <2>2, SequenceIs
        <3>2. PICK p : /\ p \in [1..l -> Y(k - 1)]
                       /\ \A i, j \in 1..l : p[i] = p[j] => i = j
                       /\ \A x \in Y(k - 1) : \E i \in 1..l : p[i] = x
                       /\ \A i \in 1..l : f[k - 1][i] = s[p[i]]
            <4>. HIDE DEF Y
            <4>. QED
                BY <1>6, <3>1 DEF Part
        <3>3. /\ Len(f[k]) = l + 1 /\ f[k][l + 1] = s[k]
              /\ \A i \in 1..l : f[k][i] = f[k - 1][i]
            <4>1. Joins(f[k], f[k - 1], <<s[k]>>)
                BY <1>2, <2>1, <2>2, <2>4, OneElement, Joining
            <4>2. Len(<<s[k]>>) = 1 /\ <<s[k]>>[1] = s[k] /\ 1 \in 1..1
                BY OneElement
            <4>. QED
                BY <3>1, <4>1, <4>2 DEF Joins
        <3>4. Y(k) = Y(k - 1) \cup {k} /\ k \notin Y(k - 1)
            <4>1. \A x \in X : x <= k <=> x <= k - 1 \/ x = k
                BY <1>0
            <4>2. k <= k /\ ~ (k <= k - 1)
                OBVIOUS
            <4>. QED
                BY <2>4, <4>1, <4>2
        <3>. DEFINE q == [i \in 1..l + 1 |-> IF i = l + 1 THEN k ELSE p[i]]
        <3>5. q[l + 1] = k /\ \A i \in 1..l : q[i] = p[i]
            OBVIOUS
        <3>6. \A i \in 1..l + 1 : i \in 1..l \/ i = l + 1
            OBVIOUS
        <3>. HIDE DEF Y
        <3>7. q \in [1..l + 1 -> Y(k)]
            <4>1. \A i \in 1..l + 1 : (IF i = l + 1 THEN k ELSE p[i]) \in Y(k)
                BY <3>2, <3>4, <3>6
            <4>. QED
                BY <4>1
        <3>. HIDE DEF q
        <3>8. \A i, j \in 1..l + 1 : q[i] = q[j] => i = j
            BY <3>2, <3>4, <3>5, <3>6
        <3>9. \A x \in Y(k) : \E i \in 1..l + 1 : q[i] = x
            <4>1. ASSUME NEW x \in Y(k - 1)
                  PROVE  \E i \in 1..l + 1 : q[i] = x
                <5>1. PICK i \in 1..l : p[i] = x
                    BY <3>2, <4>1
                <5>2. i \in 1..l + 1 /\ q[i] = x
                    BY <3>5, <5>1
                <5>. QED
                    BY <5>2
            <4>2. l + 1 \in 1..l + 1
                OBVIOUS
            <4>. QED
                BY <3>4, <3>5, <4>1, <4>2
        <3>10. \A i \in 1..l + 1 : f[k][i] = s[q[i]]
            BY <3>2, <3>3, <3>5, <3>6
        <3>. QED
            BY <2>2, <3>3, <3>7, <3>8, <3>9, <3>10 DEF Part
    <2>. QED
        BY <2>3, <2>4
<1>7. T = {}
    <2>. SUFFICES ASSUME T # {} PROVE FALSE
        OBVIOUS
    <2>1. T \in SUBSET Nat /\ T \in SUBSET (0..n)
        OBVIOUS
    <2>2. (\A i \in 0..n : i \notin T => Part(f[i], s, Y(i))) /\ \A i \in T : ~ Part(f[i], s, Y(i))
        OBVIOUS
    <2>. HIDE DEF T
    <2>3. PICK k \in T : \A m \in T : ~ (m < k)
        BY <2>1, LeastNat
    <2>4. k # 0
        BY <1>5, <2>2, <2>3
    <2>5. k \in 1..n /\ k - 1 \in 0..n /\ k - 1 < k
        BY <2>1, <2>3, <2>4
    <2>6. k - 1 \notin T
        BY <2>3, <2>5
    <2>. HIDE DEF Y
    <2>. QED
        BY <1>6, <2>2, <2>3, <2>5, <2>6
<1>8. Y(n) = X
    <2>1. \A x \in X : x <= n
        BY <1>0
    <2>. QED
        BY <2>1
<1>9. Part(f[n], s, Y(n))
    <2>1. n \in 0..n
        OBVIOUS
    <2>. HIDE DEF Y
    <2>. QED
        BY <1>7, <2>1
<1>. HIDE DEF Y
<1>. QED
    BY <1>3, <1>4, <1>8, <1>9

\* What holds at first, and one step on, holds of all.
LEMMA Climbing ==
    ASSUME NEW n \in Nat, NEW T, 0 \in T, \A i \in 1..n : i - 1 \in T => i \in T
    PROVE  \A i \in 0..n : i \in T
<1>. DEFINE Bad == {i \in 0..n : i \notin T}
<1>. SUFFICES ASSUME Bad # {} PROVE FALSE
    OBVIOUS
<1>1. Bad \in SUBSET Nat /\ Bad \in SUBSET (0..n)
    OBVIOUS
<1>2. (\A i \in 0..n : i \notin Bad => i \in T) /\ \A i \in Bad : i \notin T
    OBVIOUS
<1>. HIDE DEF Bad
<1>3. PICK k \in Bad : \A m \in Bad : ~ (m < k)
    BY <1>1, LeastNat
<1>4. k # 0
    BY <1>2, <1>3
<1>5. k \in 1..n /\ k - 1 \in 0..n /\ k - 1 < k
    BY <1>1, <1>3, <1>4
<1>. QED
    BY <1>2, <1>3, <1>5

-----------------------------------------------------------------------------
(* Where the members of flattened sequences go.                            *)

Places(s) == {x \in (1..Len(s)) \X Nat : x[2] \in 1..Len(s[x[1]])}

\* at names the place in u of each member of a member of s, in their order.
Placing(at, s, u) ==
    /\ Sequential(u)
    /\ \A x \in Places(s) : at[x] \in 1..Len(u) /\ u[at[x]] = s[x[1]][x[2]]
    /\ \A x, y \in Places(s) : x[1] < y[1] \/ (x[1] = y[1] /\ x[2] < y[2]) => at[x] < at[y]
    /\ \A p \in 1..Len(u) : \E x \in Places(s) : at[x] = p

\* The lengths g of the stages of s, whose members have the lengths l.
Lengths(g, l, f, s, n) ==
    /\ \A i \in 0..n : g[i] \in Nat /\ g[i] = Len(f[i])
    /\ \A i \in 1..n : l[i] \in Nat /\ l[i] = Len(s[i])

Sums(g, l, n) ==
    /\ \A i \in 0..n : g[i] \in Nat
    /\ \A i \in 1..n : l[i] \in Nat /\ g[i] = g[i - 1] + l[i]
    /\ g[0] = 0

LEMMA StagesHaveLengths ==
    ASSUME NEW s, NEW n \in Nat, NEW f, Stages(f, s, n),
           \A i \in 0..n : Sequential(f[i]), \A i \in 1..n : Sequential(s[i])
    PROVE  \E g, l : Lengths(g, l, f, s, n) /\ Sums(g, l, n)
<1>. DEFINE g == [i \in 0..n |-> Len(f[i])]
            l == [i \in 1..n |-> Len(s[i])]
<1>1. \A i \in 0..n : g[i] \in Nat /\ g[i] = Len(f[i])
    BY SequenceIs
<1>2. \A i \in 1..n : l[i] \in Nat /\ l[i] = Len(s[i])
    BY SequenceIs
<1>. HIDE DEF g, l
<1>3. g[0] = 0
    <2>1. 0 \in 0..n /\ f[0] = <<>>
        BY DEF Stages
    <2>. QED
        BY <1>1, <2>1, Nothing
<1>4. ASSUME NEW i \in 1..n PROVE g[i] = g[i - 1] + l[i]
    <2>1. i \in 0..n /\ i - 1 \in 0..n
        OBVIOUS
    <2>2. Joins(f[i], f[i - 1], s[i])
        BY <2>1, Joining DEF Stages
    <2>3. Len(f[i]) = Len(f[i - 1]) + Len(s[i])
        BY <2>2 DEF Joins
    <2>4. g[i] = Len(f[i]) /\ g[i - 1] = Len(f[i - 1]) /\ l[i] = Len(s[i])
        BY <1>1, <1>2, <2>1
    <2>. QED
        BY <2>3, <2>4, Zenon
<1>5. Lengths(g, l, f, s, n) /\ Sums(g, l, n)
    BY <1>1, <1>2, <1>3, <1>4 DEF Lengths, Sums
<1>. QED
    BY <1>5

LEMMA SumsClimb ==
    ASSUME NEW n \in Nat, NEW g, NEW l, Sums(g, l, n)
    PROVE  \A k \in 0..n : \A i \in 0..k : g[i] <= g[k]
<1>. DEFINE Good(k) == \A i \in 0..k : g[i] <= g[k]
            T == {k \in 0..n : Good(k)}
<1>1. 0 \in T
    BY DEF Sums
<1>2. ASSUME NEW k \in 1..n, k - 1 \in T
      PROVE  k \in T
    <2>1. k - 1 \in 0..n /\ k \in 0..n
        OBVIOUS
    <2>2. g[k] \in Nat /\ g[k - 1] \in Nat /\ l[k] \in Nat /\ g[k] = g[k - 1] + l[k]
        BY <2>1 DEF Sums
    <2>3. ASSUME NEW i \in 0..k PROVE g[i] <= g[k]
        <3>1. CASE i = k
            BY <2>2, <3>1
        <3>2. CASE i # k
            <4>1. i \in 0..k - 1 /\ i \in 0..n
                BY <3>2
            <4>2. g[i] <= g[k - 1] /\ g[i] \in Nat
                BY <1>2, <4>1 DEF Sums
            <4>. QED
                BY <2>2, <4>2
        <3>. QED
            BY <3>1, <3>2
    <2>4. Good(k)
        BY <2>3
    <2>. QED
        BY <2>1, <2>4
<1>. HIDE DEF Good
<1>3. \A k \in 0..n : k \in T
    <2>. HIDE DEF T
    <2>. QED
        BY <1>1, <1>2, Climbing
<1>4. \A k \in 0..n : Good(k)
    BY <1>3
<1>. QED
    BY <1>4 DEF Good

\* What was there stays there.
LEMMA StagesKeep ==
    ASSUME NEW s, NEW n \in Nat, NEW f, Stages(f, s, n),
           \A i \in 0..n : Sequential(f[i]), \A i \in 1..n : Sequential(s[i]),
           NEW g, NEW l, Lengths(g, l, f, s, n), Sums(g, l, n), NEW i \in 0..n
    PROVE  \A k \in i..n : \A j \in 1..g[i] : f[k][j] = f[i][j]
<1>. DEFINE Good(k) == \A j \in 1..g[i] : f[k][j] = f[i][j]
            T == {k \in 0..n : k < i \/ Good(k)}
<1>1. 0 \in T
    <2>1. 0 < i \/ i = 0
        OBVIOUS
    <2>. QED
        BY <2>1
<1>2. ASSUME NEW k \in 1..n, k - 1 \in T
      PROVE  k \in T
    <2>1. k - 1 \in 0..n /\ k \in 0..n /\ (k < i \/ k = i \/ k > i)
        OBVIOUS
    <2>2. CASE k < i
        BY <2>1, <2>2
    <2>3. CASE k = i
        BY <2>1, <2>3
    <2>4. CASE k > i
        <3>1. Joins(f[k], f[k - 1], s[k])
            BY <2>1, Joining DEF Stages
        <3>2. \A j \in 1..g[k - 1] : f[k][j] = f[k - 1][j]
            <4>1. g[k - 1] = Len(f[k - 1])
                BY <2>1 DEF Lengths
            <4>. QED
                BY <3>1, <4>1 DEF Joins
        <3>3. g[i] <= g[k - 1] /\ g[i] \in Nat /\ g[k - 1] \in Nat
            <4>1. i \in 0..k - 1
                BY <2>4
            <4>. QED
                BY <2>1, <4>1, SumsClimb DEF Sums
        <3>4. \A j \in 1..g[i] : j \in 1..g[k - 1]
            BY <3>3
        <3>5. ~ (k - 1 < i)
            BY <2>4
        <3>6. Good(k - 1)
            BY <1>2, <3>5
        <3>7. Good(k)
            BY <3>2, <3>4, <3>6
        <3>. QED
            BY <2>1, <3>7
    <2>. QED
        BY <2>1, <2>2, <2>3, <2>4
<1>. HIDE DEF Good
<1>3. \A k \in 0..n : k \in T
    <2>. HIDE DEF T
    <2>. QED
        BY <1>1, <1>2, Climbing
<1>4. \A k \in i..n : k \in 0..n /\ ~ (k < i)
    OBVIOUS
<1>5. \A k \in i..n : Good(k)
    BY <1>3, <1>4
<1>. QED
    BY <1>5 DEF Good

LEMMA Offset ==
    ASSUME NEW a \in Nat, NEW c \in Nat, NEW j \in 1..c
    PROVE  a + j \in 1..(a + c) /\ a + j <= a + c /\ a + j \in Nat
OBVIOUS

LEMMA Within ==
    ASSUME NEW a \in Nat, NEW b \in Nat, NEW c \in Nat, a <= b
    PROVE  /\ c \in 1..a => c \in 1..b
           /\ \A j \in Nat : c <= a /\ j > 0 => c < b + j
OBVIOUS

LEMMA FlatPlaces ==
    ASSUME NEW s, Sequential(s), \A i \in 1..Len(s) : Sequential(s[i])
    PROVE  \E at : Placing(at, s, FlattenSeq(s))
<1>. PICK n \in Nat : n = Len(s)
    BY SequenceIs
<1>1. PICK f : Stages(f, s, n) /\ FlattenSeq(s) = f[n] /\ \A i \in 0..n : Sequential(f[i])
    BY Flattening
<1>2. PICK g, l : Lengths(g, l, f, s, n) /\ Sums(g, l, n)
    BY <1>1, StagesHaveLengths
<1>. PICK u : u = FlattenSeq(s)
    OBVIOUS
<1>. DEFINE at == [x \in Places(s) |-> g[x[1] - 1] + x[2]]
<1>3. ASSUME NEW i \in 1..n
      PROVE  /\ i - 1 \in 0..n /\ i \in 0..n /\ i \in Nat
             /\ g[i] \in Nat /\ g[i - 1] \in Nat /\ l[i] \in Nat /\ g[i] = g[i - 1] + l[i]
             /\ \A j \in 1..l[i] : f[i][g[i - 1] + j] = s[i][j]
    <2>1. i - 1 \in 0..n /\ i \in 0..n /\ i \in Nat
        OBVIOUS
    <2>2. Joins(f[i], f[i - 1], s[i])
        BY <1>1, <2>1, Joining DEF Stages
    <2>3. g[i - 1] = Len(f[i - 1]) /\ l[i] = Len(s[i])
        BY <1>2, <2>1 DEF Lengths
    <2>4. \A j \in 1..l[i] : f[i][g[i - 1] + j] = s[i][j]
        BY <2>2, <2>3, Zenon DEF Joins
    <2>5. g[i] \in Nat /\ g[i - 1] \in Nat /\ l[i] \in Nat /\ g[i] = g[i - 1] + l[i]
        BY <1>2, <2>1 DEF Sums
    <2>. QED
        BY <2>1, <2>4, <2>5
<1>4. ASSUME NEW x \in Places(s)
      PROVE  /\ x[1] \in 1..n /\ x[2] \in 1..l[x[1]]
             /\ at[x] = g[x[1] - 1] + x[2]
    <2>1. x[1] \in 1..n /\ x[2] \in 1..Len(s[x[1]])
        BY DEF Places
    <2>2. l[x[1]] = Len(s[x[1]])
        BY <1>2, <2>1 DEF Lengths
    <2>. QED
        BY <2>1, <2>2, Zenon
<1>5. ASSUME NEW i \in 1..n, NEW j \in 1..l[i]
      PROVE  \E x \in Places(s) : x[1] = i /\ x[2] = j
    <2>1. l[i] = Len(s[i]) /\ l[i] \in Nat
        BY <1>2 DEF Lengths
    <2>2. j \in 1..Len(s[i])
        BY <2>1, Zenon
    <2>3. j \in Nat
        BY <2>1
    <2>4. <<i, j>> \in Places(s)
        BY <2>2, <2>3 DEF Places
    <2>. QED
        BY <2>4
<1>. HIDE DEF at
<1>6. ASSUME NEW x \in Places(s)
      PROVE  at[x] \in 1..g[n] /\ u[at[x]] = s[x[1]][x[2]] /\ at[x] <= g[x[1]] /\ at[x] \in Nat
    <2>. PICK i, j : i = x[1] /\ j = x[2]
        OBVIOUS
    <2>1. i \in 1..n /\ j \in 1..l[i] /\ at[x] = g[i - 1] + j
        BY <1>4
    <2>2. n \in i..n /\ n \in 0..n /\ i \in 0..n
        BY <2>1
    <2>3. at[x] \in 1..g[i] /\ at[x] <= g[i] /\ at[x] \in Nat
        <3>1. g[i] \in Nat /\ g[i - 1] \in Nat /\ l[i] \in Nat /\ g[i] = g[i - 1] + l[i]
            BY <1>3, <2>1
        <3>2. g[i - 1] + j \in 1..(g[i - 1] + l[i]) /\ g[i - 1] + j <= g[i - 1] + l[i] /\ g[i - 1] + j \in Nat
            BY <2>1, <3>1, Offset
        <3>. QED
            BY <2>1, <3>1, <3>2, Zenon
    <2>4. f[i][at[x]] = s[i][j]
        BY <1>3, <2>1
    <2>5. f[n][at[x]] = f[i][at[x]]
        <3>1. \A i0 \in 1..n : Sequential(s[i0])
            OBVIOUS
        <3>. QED
            BY <1>1, <1>2, <2>2, <2>3, <3>1, StagesKeep
    <2>6. g[i] <= g[n] /\ g[n] \in Nat
        BY <1>2, <2>1, <2>2, SumsClimb DEF Sums
    <2>7. at[x] \in 1..g[n]
        <3>1. g[i] \in Nat
            BY <1>3, <2>1
        <3>. QED
            BY <2>3, <2>6, <3>1, Within
    <2>. QED
        BY <1>1, <2>3, <2>4, <2>5, <2>7
<1>7. ASSUME NEW x \in Places(s), NEW y \in Places(s), x[1] < y[1] \/ (x[1] = y[1] /\ x[2] < y[2])
      PROVE  at[x] < at[y]
    <2>. PICK i, j, k, m : i = x[1] /\ j = x[2] /\ k = y[1] /\ m = y[2]
        OBVIOUS
    <2>1. i \in 1..n /\ j \in 1..l[i] /\ at[x] = g[i - 1] + j
        BY <1>4
    <2>2. k \in 1..n /\ m \in 1..l[k] /\ at[y] = g[k - 1] + m
        BY <1>4
    <2>3. CASE i = k
        BY <1>3, <1>7, <2>1, <2>2, <2>3
    <2>4. CASE i < k
        <3>1. i \in 0..k - 1 /\ k - 1 \in 0..n
            BY <2>1, <2>2, <2>4
        <3>2. g[i] <= g[k - 1]
            BY <1>2, <3>1, SumsClimb
        <3>3. g[i] \in Nat /\ g[k - 1] \in Nat /\ l[k] \in Nat
            BY <1>3, <2>1, <2>2
        <3>4. m \in Nat /\ m > 0
            BY <2>2, <3>3
        <3>5. at[x] <= g[i] /\ at[x] \in Nat
            BY <1>6
        <3>6. at[x] < g[k - 1] + m
            BY <3>2, <3>3, <3>4, <3>5, Within
        <3>. QED
            BY <2>2, <3>6
    <2>. QED
        BY <1>7, <2>3, <2>4
<1>8. ASSUME NEW p \in 1..g[n]
      PROVE  \E x \in Places(s) : at[x] = p
    <2>. DEFINE T == {i \in 0..n : p <= g[i]}
    <2>0. g[n] \in Nat
        BY <1>2 DEF Sums
    <2>1. n \in T /\ T \in SUBSET Nat
        BY <2>0
    <2>2. PICK k \in T : \A m \in T : ~ (m < k)
        <3>. HIDE DEF T
        <3>. QED
            BY <2>1, LeastNat
    <2>3. g[0] = 0
        BY <1>2 DEF Sums
    <2>4. k \in 1..n
        BY <2>0, <2>2, <2>3
    <2>5. k - 1 \in 0..n /\ ~ (p <= g[k - 1]) /\ p <= g[k]
        BY <2>2, <2>4
    <2>6. p - g[k - 1] \in 1..l[k]
        BY <1>3, <2>0, <2>4, <2>5
    <2>7. PICK x \in Places(s) : x[1] = k /\ x[2] = p - g[k - 1]
        BY <1>5, <2>4, <2>6
    <2>8. at[x] = g[k - 1] + (p - g[k - 1])
        BY <1>4, <2>7
    <2>9. at[x] = p
        BY <1>3, <2>0, <2>4, <2>8
    <2>. QED
        BY <2>9
<1>9. g[n] = Len(u) /\ Sequential(u)
    BY <1>1, <1>2 DEF Lengths
<1>10. (\A x \in Places(s) : at[x] \in 1..Len(u)) /\ \A p \in 1..Len(u) : p \in 1..g[n]
    BY <1>6, <1>9, Zenon
<1>11. Placing(at, s, u)
    BY <1>6, <1>7, <1>8, <1>9, <1>10, Zenon DEF Placing
<1>. QED
    BY <1>11

-----------------------------------------------------------------------------
(* Calls and results of a transcript, and of the messages it is sent as.   *)

IsNamed(b)   == b.type \in {"call", "result"}
Contents(u)  == [n \in DOMAIN u |-> u[n].content]
NamedIn(s)   == {x \in Places(s) : IsNamed(s[x[1]][x[2]])}
NamedOf(all) == {p \in 1..Len(all) : IsNamed(all[p])}

\* b names the place in the content c of each call and result of u.
CarriesBy(b, u, c) ==
    /\ \A x \in NamedIn(Contents(u)) : b[x] \in 1..Len(c) /\ c[b[x]] = u[x[1]].content[x[2]]
    /\ \A x, y \in NamedIn(Contents(u)) : b[x] = b[y] => x = y
    /\ \A i \in 1..Len(c) : IsNamed(c[i]) => \E x \in NamedIn(Contents(u)) : b[x] = i

Carries(u, c) == \E b : CarriesBy(b, u, c)

\* Nothing but calls follows a call, nothing but results precedes a result.
CallsLast(u) ==
    \A j, k \in 1..Len(u) : \A i \in 1..Len(u[j].content) :
        j < k /\ u[j].content[i].type = "call" => IsCalls(u[k])

ResultsFirst(u) ==
    \A j \in 1..Len(u) : \A i \in 1..Len(u[j].content) :
        u[j].content[i].type = "result" =>
            /\ \A k \in 1..Len(u) : k < j => IsResults(u[k])
            /\ \A k \in 1..i : u[j].content[k].type = "result"

\* u is what the message m is sent as.
Renders(u, m) ==
    /\ Sequential(u)
    /\ \A j \in 1..Len(u) : Sequential(u[j].content) /\ u[j].content # <<>>
    /\ Carries(u, m.content)
    /\ m.role = "assistant" => CallsLast(u)
    /\ m.role = "user" => ResultsFirst(u)

\* H names for each call and result of all the place it has in the transcript
\* with the contents hc.
Homing(H, all, hc) ==
    /\ Sequential(all)
    /\ \A p \in NamedOf(all) : H[p] \in NamedIn(hc) /\ all[p] = hc[H[p][1]][H[p][2]]
    /\ \A p, q \in NamedOf(all) : H[p] = H[q] => p = q
    /\ \A y \in NamedIn(hc) : \E p \in NamedOf(all) : H[p] = y
    /\ \A p, q \in NamedOf(all) : H[p][1] < H[q][1] => p < q

LEMMA ContentsAre ==
    ASSUME NEW u, Sequential(u)
    PROVE  /\ Sequential(Contents(u)) /\ Len(Contents(u)) = Len(u)
           /\ DOMAIN u = 1..Len(u) /\ DOMAIN Contents(u) = 1..Len(u) /\ Len(u) \in Nat
           /\ \A n \in 1..Len(u) : Contents(u)[n] = u[n].content
<1>. PICK n \in Nat : n = Len(u) /\ DOMAIN u = 1..n
    BY SequenceIs
<1>. PICK s : s = [i \in 1..n |-> u[i].content]
    OBVIOUS
<1>1. s = Contents(u)
    BY DEF Contents
<1>2. s = [i \in 1..n |-> s[i]] /\ \A i \in 1..n : s[i] = u[i].content
    OBVIOUS
<1>3. Sequential(s) /\ Len(s) = n /\ DOMAIN s = 1..n
    BY <1>2, FunctionIsSequence
<1>. QED
    BY <1>1, <1>2, <1>3

LEMMA PlaceIs ==
    ASSUME NEW s
    PROVE  /\ \A x \in Places(s) : x = <<x[1], x[2]>> /\ x[1] \in 1..Len(s) /\ x[2] \in 1..Len(s[x[1]])
           /\ \A i \in 1..Len(s) : Sequential(s[i]) => \A j \in 1..Len(s[i]) :
                 <<i, j>> \in Places(s) /\ <<i, j>>[1] = i /\ <<i, j>>[2] = j
<1>1. ASSUME NEW i \in 1..Len(s), Sequential(s[i]), NEW j \in 1..Len(s[i])
      PROVE  <<i, j>> \in Places(s)
    <2>1. Len(s[i]) \in Nat
        BY <1>1, SequenceIs
    <2>2. j \in Nat
        BY <2>1
    <2>. QED
        BY <2>2 DEF Places
<1>. QED
    BY <1>1 DEF Places

\* The places of a Placing are apart.
LEMMA PlacesApart ==
    ASSUME NEW s, Sequential(s), \A i \in 1..Len(s) : Sequential(s[i]),
           NEW u, NEW at, Placing(at, s, u),
           NEW x \in Places(s), NEW y \in Places(s), at[x] = at[y]
    PROVE  x = y
<1>1. x[1] \in Nat /\ y[1] \in Nat /\ x[2] \in Nat /\ y[2] \in Nat
    BY SequenceIs DEF Places
<1>2. at[x] \in Nat /\ at[y] \in Nat
    BY SequenceIs DEF Placing
<1>3. ~ (x[1] < y[1] \/ (x[1] = y[1] /\ x[2] < y[2]))
    <2>1. ~ (at[x] < at[y])
        BY <1>2
    <2>. QED
        BY <2>1 DEF Placing
<1>4. ~ (y[1] < x[1] \/ (y[1] = x[1] /\ y[2] < x[2]))
    <2>1. ~ (at[y] < at[x])
        BY <1>2
    <2>. QED
        BY <2>1 DEF Placing
<1>5. x[1] = y[1] /\ x[2] = y[2]
    BY <1>1, <1>3, <1>4
<1>. QED
    BY <1>5, PlaceIs

\* A transcript is its own.
LEMMA HomeAtHome ==
    ASSUME NEW hc, Sequential(hc), \A i \in 1..Len(hc) : Sequential(hc[i])
    PROVE  \E H : Homing(H, FlattenSeq(hc), hc)
<1>. PICK all : all = FlattenSeq(hc)
    OBVIOUS
<1>1. PICK at : Placing(at, hc, all)
    BY FlatPlaces
<1>. DEFINE H == [p \in 1..Len(all) |-> CHOOSE x \in Places(hc) : at[x] = p]
<1>2. ASSUME NEW p \in 1..Len(all)
      PROVE  H[p] \in Places(hc) /\ at[H[p]] = p
    BY <1>1 DEF Placing
<1>. HIDE DEF H
<1>3. ASSUME NEW p \in NamedOf(all)
      PROVE  p \in 1..Len(all) /\ H[p] \in NamedIn(hc) /\ all[p] = hc[H[p][1]][H[p][2]]
    <2>1. p \in 1..Len(all) /\ IsNamed(all[p])
        BY DEF NamedOf
    <2>2. all[p] = hc[H[p][1]][H[p][2]]
        BY <1>1, <1>2, <2>1 DEF Placing
    <2>. QED
        BY <1>2, <2>1, <2>2 DEF NamedIn
<1>4. ASSUME NEW p \in NamedOf(all), NEW q \in NamedOf(all), H[p] = H[q]
      PROVE  p = q
    BY <1>2, <1>3, <1>4
<1>5. ASSUME NEW y \in NamedIn(hc)
      PROVE  \E p \in NamedOf(all) : H[p] = y
    <2>1. y \in Places(hc) /\ IsNamed(hc[y[1]][y[2]])
        BY DEF NamedIn
    <2>2. at[y] \in 1..Len(all) /\ all[at[y]] = hc[y[1]][y[2]]
        BY <1>1, <2>1 DEF Placing
    <2>3. at[H[at[y]]] = at[y] /\ H[at[y]] \in Places(hc)
        BY <1>2, <2>2
    <2>4. H[at[y]] = y
        BY <1>1, <2>1, <2>3, PlacesApart
    <2>5. at[y] \in NamedOf(all)
        BY <2>1, <2>2 DEF NamedOf
    <2>. QED
        BY <2>4, <2>5
<1>6. ASSUME NEW p \in NamedOf(all), NEW q \in NamedOf(all), H[p][1] < H[q][1]
      PROVE  p < q
    <2>1. at[H[p]] < at[H[q]]
        BY <1>1, <1>2, <1>3, <1>6 DEF Placing
    <2>. QED
        BY <1>2, <1>3, <2>1
<1>7. Sequential(all)
    BY <1>1 DEF Placing
<1>8. Homing(H, all, hc)
    BY <1>3, <1>4, <1>5, <1>6, <1>7 DEF Homing
<1>. QED
    BY <1>8

\* Where the blocks of the messages that are sent come from: the message n of
\* the transcript is sent as W[n].
LEMMA RenderingIsHoming ==
    ASSUME NEW h, Sequential(h), \A n \in 1..Len(h) : Sequential(h[n].content),
           NEW W, Sequential(W), Len(W) = Len(h),
           \A n \in 1..Len(h) : Renders(W[n], h[n])
    PROVE  \E H : Homing(H, BlocksOf(FlattenSeq(W)), Contents(h))
<1>. PICK N \in Nat : N = Len(h) /\ N = Len(W)
    BY SequenceIs
<1>. PICK wire : wire = FlattenSeq(W)
    OBVIOUS
<1>. PICK K : K = Contents(wire)
    OBVIOUS
<1>. PICK all : all = FlattenSeq(K)
    OBVIOUS
<1>. PICK hc : hc = Contents(h)
    OBVIOUS
<1>0. ASSUME NEW n \in 1..N
      PROVE  /\ Sequential(W[n]) /\ \A j \in 1..Len(W[n]) : Sequential(W[n][j].content)
             /\ Carries(W[n], h[n].content)
    BY DEF Renders
<1>1. PICK at : Placing(at, W, wire)
    BY <1>0, FlatPlaces
<1>2. ASSUME NEW x \in Places(W)
      PROVE  /\ x = <<x[1], x[2]>> /\ x[1] \in 1..N /\ x[2] \in 1..Len(W[x[1]])
             /\ at[x] \in 1..Len(wire) /\ wire[at[x]] = W[x[1]][x[2]]
    <2>1. x = <<x[1], x[2]>> /\ x[1] \in 1..N /\ x[2] \in 1..Len(W[x[1]])
        BY PlaceIs
    <2>2. at[x] \in 1..Len(wire) /\ wire[at[x]] = W[x[1]][x[2]]
        BY <1>1 DEF Placing
    <2>. QED
        BY <2>1, <2>2
<1>3. Sequential(wire) /\ \A k \in 1..Len(wire) : \E x \in Places(W) : at[x] = k
    BY <1>1 DEF Placing
<1>4. Sequential(K) /\ Len(K) = Len(wire) /\ \A k \in 1..Len(wire) : K[k] = wire[k].content
    BY <1>3, ContentsAre
<1>5. ASSUME NEW k \in 1..Len(K) PROVE Sequential(K[k])
    <2>1. PICK x \in Places(W) : at[x] = k
        BY <1>3, <1>4
    <2>2. K[k] = W[x[1]][x[2]].content
        BY <1>2, <1>4, <2>1
    <2>. QED
        BY <1>0, <1>2, <2>2
<1>6. PICK bt : Placing(bt, K, all)
    BY <1>4, <1>5, FlatPlaces
<1>7. BlocksOf(wire) = all
    BY DEF BlocksOf, Contents
<1>8. Sequential(hc) /\ Len(hc) = N /\ \A n \in 1..N : hc[n] = h[n].content /\ Sequential(hc[n])
    BY ContentsAre
<1>. DEFINE B == [n \in 1..N |-> CHOOSE b : CarriesBy(b, W[n], h[n].content)]
<1>9. ASSUME NEW n \in 1..N
      PROVE  CarriesBy(B[n], W[n], hc[n])
    BY <1>0, <1>8 DEF Carries
<1>. HIDE DEF B
<1>10. ASSUME NEW n \in 1..N
       PROVE  /\ Sequential(Contents(W[n])) /\ Len(Contents(W[n])) = Len(W[n])
              /\ \A j \in 1..Len(W[n]) : /\ Contents(W[n])[j] = W[n][j].content
                                         /\ Sequential(Contents(W[n])[j])
    BY <1>0, ContentsAre
\* p is the place of a block i of a message of W[x[1]].
<1>. DEFINE From(p, x, i) == /\ x \in Places(W) /\ i \in 1..Len(K[at[x]]) /\ bt[<<at[x], i>>] = p
                             /\ <<x[2], i>> \in NamedIn(Contents(W[x[1]]))
            Home(p, y) == \E x, i : From(p, x, i) /\ y = <<x[1], B[x[1]][<<x[2], i>>]>>
<1>11. ASSUME NEW x \in Places(W), NEW i \in 1..Len(K[at[x]])
       PROVE  /\ <<at[x], i>> \in Places(K) /\ <<at[x], i>>[1] = at[x] /\ <<at[x], i>>[2] = i
              /\ K[at[x]] = W[x[1]][x[2]].content
              /\ <<x[2], i>> \in Places(Contents(W[x[1]]))
              /\ bt[<<at[x], i>>] \in 1..Len(all)
              /\ all[bt[<<at[x], i>>]] = W[x[1]][x[2]].content[i]
    <2>1. at[x] \in 1..Len(K) /\ K[at[x]] = W[x[1]][x[2]].content
        BY <1>2, <1>4
    <2>2. <<at[x], i>> \in Places(K) /\ <<at[x], i>>[1] = at[x] /\ <<at[x], i>>[2] = i
        BY <1>5, <2>1, PlaceIs
    <2>3. <<x[2], i>> \in Places(Contents(W[x[1]]))
        <3>1. x[1] \in 1..N /\ x[2] \in 1..Len(W[x[1]])
            BY <1>2
        <3>2. Contents(W[x[1]])[x[2]] = K[at[x]] /\ Sequential(Contents(W[x[1]])[x[2]])
              /\ x[2] \in 1..Len(Contents(W[x[1]]))
            BY <1>10, <2>1, <3>1
        <3>3. i \in 1..Len(Contents(W[x[1]])[x[2]])
            BY <3>2
        <3>. QED
            BY <3>2, <3>3, PlaceIs
    <2>4. bt[<<at[x], i>>] \in 1..Len(all) /\ all[bt[<<at[x], i>>]] = K[at[x]][i]
        BY <1>6, <2>2 DEF Placing
    <2>. QED
        BY <2>1, <2>2, <2>3, <2>4
<1>12. ASSUME NEW p \in NamedOf(all)
       PROVE  \E x, i : From(p, x, i)
    <2>1. p \in 1..Len(all) /\ IsNamed(all[p])
        BY DEF NamedOf
    <2>2. PICK z \in Places(K) : bt[z] = p
        BY <1>6, <2>1 DEF Placing
    <2>3. z = <<z[1], z[2]>> /\ z[1] \in 1..Len(K) /\ z[2] \in 1..Len(K[z[1]])
        BY PlaceIs
    <2>4. PICK x \in Places(W) : at[x] = z[1]
        BY <1>3, <1>4, <2>3
    <2>. PICK i : i = z[2]
        OBVIOUS
    <2>5. i \in 1..Len(K[at[x]]) /\ bt[<<at[x], i>>] = p
        BY <2>2, <2>3, <2>4
    <2>6. <<x[2], i>> \in Places(Contents(W[x[1]])) /\ all[p] = W[x[1]][x[2]].content[i]
        BY <1>11, <2>5
    <2>7. Contents(W[x[1]])[x[2]] = W[x[1]][x[2]].content
        BY <1>2, <1>10
    <2>8. <<x[2], i>> \in NamedIn(Contents(W[x[1]]))
        <3>1. <<x[2], i>>[1] = x[2] /\ <<x[2], i>>[2] = i
            OBVIOUS
        <3>2. IsNamed(Contents(W[x[1]])[<<x[2], i>>[1]][<<x[2], i>>[2]])
            BY <2>1, <2>6, <2>7, <3>1
        <3>. QED
            BY <2>6, <3>2 DEF NamedIn
    <2>. QED
        BY <2>5, <2>8
<1>13. ASSUME NEW p, NEW x, NEW i, From(p, x, i)
       PROVE  /\ p \in NamedOf(all)
              /\ <<x[1], B[x[1]][<<x[2], i>>]>> \in NamedIn(hc)
              /\ all[p] = hc[x[1]][B[x[1]][<<x[2], i>>]]
    <2>1. /\ x \in Places(W) /\ i \in 1..Len(K[at[x]]) /\ bt[<<at[x], i>>] = p
          /\ <<x[2], i>> \in NamedIn(Contents(W[x[1]]))
        BY <1>13
    <2>. PICK n, w, m : n = x[1] /\ w = W[n][x[2]].content[i] /\ m = B[n][<<x[2], i>>]
        OBVIOUS
    <2>2. p \in 1..Len(all) /\ all[p] = w
        BY <1>11, <2>1
    <2>3. n \in 1..N /\ x[2] \in 1..Len(W[n])
        BY <1>2, <2>1
    <2>4. m \in 1..Len(hc[n]) /\ hc[n][m] = w
        <3>1. <<x[2], i>>[1] = x[2] /\ <<x[2], i>>[2] = i
            OBVIOUS
        <3>2. /\ B[n][<<x[2], i>>] \in 1..Len(hc[n])
              /\ hc[n][B[n][<<x[2], i>>]] = W[n][<<x[2], i>>[1]].content[<<x[2], i>>[2]]
            BY <1>9, <2>1, <2>3 DEF CarriesBy
        <3>. QED
            BY <3>1, <3>2
    <2>5. IsNamed(w)
        <3>1. <<x[2], i>>[1] = x[2] /\ <<x[2], i>>[2] = i
            OBVIOUS
        <3>2. IsNamed(Contents(W[n])[<<x[2], i>>[1]][<<x[2], i>>[2]])
            BY <2>1 DEF NamedIn
        <3>3. Contents(W[n])[x[2]] = W[n][x[2]].content
            BY <1>10, <2>3
        <3>. QED
            BY <3>1, <3>2, <3>3
    <2>6. <<n, m>> \in Places(hc) /\ <<n, m>>[1] = n /\ <<n, m>>[2] = m
        BY <1>8, <2>3, <2>4, PlaceIs
    <2>7. IsNamed(hc[<<n, m>>[1]][<<n, m>>[2]])
        BY <2>4, <2>5, <2>6
    <2>8. <<n, m>> \in NamedIn(hc)
        BY <2>6, <2>7 DEF NamedIn
    <2>. QED
        BY <2>2, <2>4, <2>5, <2>8 DEF NamedOf
<1>14. ASSUME NEW p, NEW x, NEW i, From(p, x, i), NEW q, NEW y, NEW k, From(q, y, k)
       PROVE  /\ p = q => x = y /\ i = k
              /\ x[1] = y[1] /\ B[x[1]][<<x[2], i>>] = B[y[1]][<<y[2], k>>] => p = q
              /\ x[1] < y[1] => p < q
    <2>1. /\ x \in Places(W) /\ i \in 1..Len(K[at[x]]) /\ bt[<<at[x], i>>] = p
          /\ <<x[2], i>> \in NamedIn(Contents(W[x[1]]))
        BY <1>14
    <2>2. /\ y \in Places(W) /\ k \in 1..Len(K[at[y]]) /\ bt[<<at[y], k>>] = q
          /\ <<y[2], k>> \in NamedIn(Contents(W[y[1]]))
        BY <1>14
    <2>3. <<at[x], i>> \in Places(K) /\ <<at[x], i>>[1] = at[x] /\ <<at[x], i>>[2] = i
        BY <1>11, <2>1
    <2>4. <<at[y], k>> \in Places(K) /\ <<at[y], k>>[1] = at[y] /\ <<at[y], k>>[2] = k
        BY <1>11, <2>2
    <2>5. ASSUME p = q PROVE x = y /\ i = k
        <3>1. <<at[x], i>> = <<at[y], k>>
            <4>. PICK v, w : v = <<at[x], i>> /\ w = <<at[y], k>>
                OBVIOUS
            <4>1. v \in Places(K) /\ w \in Places(K) /\ bt[v] = bt[w]
                BY <2>1, <2>2, <2>3, <2>4, <2>5
            <4>2. \A j \in 1..Len(K) : Sequential(K[j])
                BY <1>5
            <4>3. v = w
                BY <1>4, <1>6, <4>1, <4>2, PlacesApart
            <4>. QED
                BY <4>3
        <3>2. at[x] = at[y] /\ i = k
            BY <3>1
        <3>3. \A n \in 1..Len(W) : Sequential(W[n])
            BY <1>0
        <3>4. x = y
            BY <1>1, <2>1, <2>2, <3>2, <3>3, PlacesApart
        <3>. QED
            BY <3>2, <3>4
    <2>6. ASSUME x[1] = y[1], B[x[1]][<<x[2], i>>] = B[y[1]][<<y[2], k>>] PROVE p = q
        <3>1. x[1] \in 1..N
            BY <1>2, <2>1
        <3>2. <<x[2], i>> = <<y[2], k>>
            BY <1>9, <2>1, <2>2, <2>6, <3>1 DEF CarriesBy
        <3>3. x[2] = y[2] /\ i = k
            BY <3>2
        <3>4. x = y
            BY <1>2, <2>1, <2>2, <2>6, <3>3
        <3>. QED
            BY <2>1, <2>2, <3>3, <3>4
    <2>7. ASSUME x[1] < y[1] PROVE p < q
        <3>1. at[x] < at[y]
            BY <1>1, <2>1, <2>2, <2>7 DEF Placing
        <3>2. bt[<<at[x], i>>] < bt[<<at[y], k>>]
            BY <1>6, <2>3, <2>4, <3>1 DEF Placing
        <3>. QED
            BY <2>1, <2>2, <3>2
    <2>. QED
        BY <2>5, <2>6, <2>7
<1>15. ASSUME NEW y \in NamedIn(hc)
       PROVE  \E p, x, i : From(p, x, i) /\ y = <<x[1], B[x[1]][<<x[2], i>>]>>
    <2>1. y \in Places(hc) /\ IsNamed(hc[y[1]][y[2]])
        BY DEF NamedIn
    <2>. PICK n, m : n = y[1] /\ m = y[2]
        OBVIOUS
    <2>2. y = <<n, m>> /\ n \in 1..N /\ m \in 1..Len(hc[n])
        BY <1>8, <2>1, PlaceIs
    <2>3. PICK v \in NamedIn(Contents(W[n])) : B[n][v] = m
        BY <1>9, <2>1, <2>2 DEF CarriesBy
    <2>. PICK j, i : j = v[1] /\ i = v[2]
        OBVIOUS
    <2>4. v \in Places(Contents(W[n]))
        BY DEF NamedIn
    <2>5. v = <<j, i>> /\ j \in 1..Len(W[n]) /\ i \in 1..Len(W[n][j].content)
        BY <1>10, <2>2, <2>4, PlaceIs
    <2>. PICK x : x = <<n, j>>
        OBVIOUS
    <2>6. x \in Places(W) /\ x[1] = n /\ x[2] = j
        BY <1>0, <2>2, <2>5, PlaceIs
    <2>7. K[at[x]] = W[n][j].content
        BY <1>2, <1>4, <2>6
    <2>8. From(bt[<<at[x], i>>], x, i)
        <3>1. i \in 1..Len(K[at[x]])
            BY <2>5, <2>7
        <3>2. <<x[2], i>> \in NamedIn(Contents(W[x[1]]))
            BY <2>5, <2>6
        <3>. QED
            BY <2>6, <3>1, <3>2
    <2>9. y = <<x[1], B[x[1]][<<x[2], i>>]>>
        BY <2>2, <2>3, <2>5, <2>6
    <2>. HIDE DEF From
    <2>. QED
        BY <2>8, <2>9
<1>. HIDE DEF From
<1>. DEFINE H == [p \in NamedOf(all) |-> CHOOSE y : Home(p, y)]
<1>16. ASSUME NEW p \in NamedOf(all)
       PROVE  \E x, i : From(p, x, i) /\ H[p] = <<x[1], B[x[1]][<<x[2], i>>]>>
    <2>1. \E y : Home(p, y)
        BY <1>12
    <2>2. Home(p, H[p])
        <3>. HIDE DEF Home
        <3>. QED
            BY <2>1
    <2>. QED
        BY <2>2
<1>. HIDE DEF H, Home
<1>17. ASSUME NEW p \in NamedOf(all)
       PROVE  H[p] \in NamedIn(hc) /\ all[p] = hc[H[p][1]][H[p][2]]
    <2>1. PICK x, i : From(p, x, i) /\ H[p] = <<x[1], B[x[1]][<<x[2], i>>]>>
        BY <1>16
    <2>2. H[p][1] = x[1] /\ H[p][2] = B[x[1]][<<x[2], i>>]
        BY <2>1
    <2>. QED
        BY <1>13, <2>1, <2>2
<1>18. ASSUME NEW p \in NamedOf(all), NEW q \in NamedOf(all)
       PROVE  /\ H[p] = H[q] => p = q
              /\ H[p][1] < H[q][1] => p < q
    <2>1. PICK x, i : From(p, x, i) /\ H[p] = <<x[1], B[x[1]][<<x[2], i>>]>>
        BY <1>16
    <2>2. PICK y, k : From(q, y, k) /\ H[q] = <<y[1], B[y[1]][<<y[2], k>>]>>
        BY <1>16
    <2>3. H[p][1] = x[1] /\ H[p][2] = B[x[1]][<<x[2], i>>]
        BY <2>1
    <2>4. H[q][1] = y[1] /\ H[q][2] = B[y[1]][<<y[2], k>>]
        BY <2>2
    <2>. QED
        BY <1>14, <2>1, <2>2, <2>3, <2>4
<1>19. ASSUME NEW y \in NamedIn(hc)
       PROVE  \E p \in NamedOf(all) : H[p] = y
    <2>1. PICK p, x, i : From(p, x, i) /\ y = <<x[1], B[x[1]][<<x[2], i>>]>>
        BY <1>15
    <2>2. p \in NamedOf(all)
        BY <1>13, <2>1
    <2>3. PICK v, k : From(p, v, k) /\ H[p] = <<v[1], B[v[1]][<<v[2], k>>]>>
        BY <1>16, <2>2
    <2>4. v = x /\ k = i
        BY <1>14, <2>1, <2>3
    <2>. QED
        BY <2>1, <2>2, <2>3, <2>4
<1>20. Sequential(all)
    BY <1>6 DEF Placing
<1>21. Homing(H, all, hc)
    BY <1>17, <1>18, <1>19, <1>20 DEF Homing
<1>. QED
    BY <1>7, <1>21

\* What the calls and results of a paired transcript are.
Sound(h) ==
    /\ Sequential(h) /\ \A n \in 1..Len(h) : Sequential(h[n].content)
    /\ \A n \in 1..Len(h) : h[n].role \in {"user", "assistant"}
    /\ \A x \in NamedIn(Contents(h)) :
          LET b == Contents(h)[x[1]][x[2]]
          IN  /\ b = Block(b.type, b.id)
              /\ b.type = "call" => /\ h[x[1]].role = "assistant" /\ x[1] < Len(h)
                                    /\ h[x[1] + 1].role = "user"
                                    /\ \E y \in NamedIn(Contents(h)) : y[1] = x[1] + 1
                                          /\ Contents(h)[y[1]][y[2]] = Block("result", b.id)
              /\ b.type = "result" => /\ h[x[1]].role = "user"
                                      /\ \E y \in NamedIn(Contents(h)) : y[1] = x[1] - 1
                                            /\ Contents(h)[y[1]][y[2]] = Block("call", b.id)
    /\ \A x, y \in NamedIn(Contents(h)) :
          Contents(h)[x[1]][x[2]] = Contents(h)[y[1]][y[2]] => x = y

LEMMA BlockTypes ==
    ASSUME NEW h, Paired(h)
    PROVE  /\ Sequential(h) /\ DOMAIN h = 1..Len(h) /\ Len(h) \in Nat
           /\ \A n \in 1..Len(h) :
                /\ Sequential(h[n].content) /\ (h[n].role = "user" => h[n].content # <<>>)
                /\ DOMAIN h[n].content = 1..Len(h[n].content)
                /\ h[n].role \in {"user", "assistant"}
                /\ \A i \in 1..Len(h[n].content) :
                      /\ h[n].content[i] = Block(h[n].content[i].type, h[n].content[i].id)
                      /\ h[n].role = "user" => h[n].content[i].type \in {"text", "result"}
                      /\ h[n].role = "assistant" => h[n].content[i].type \in {"text", "reasoning", "call"}
                      /\ h[n].content[i].type = "reasoning" => h[n].content[i] = Reasoning
                      /\ h[n].content[i].type = "text" => h[n].content[i] = Text
                      /\ IsNamed(h[n].content[i]) => h[n].content[i].id \in Seq(STRING) \ {<<>>}
<1>. DEFINE UB == [type : {"text"}, id : {<<>>}] \cup [type : {"result"}, id : Seq(STRING) \ {<<>>}]
            AB == [type : {"text", "reasoning"}, id : {<<>>}] \cup [type : {"call"}, id : Seq(STRING) \ {<<>>}]
<1>1. h \in Seq(Messages) /\ \A n \in DOMAIN h : h[n].role = "user" => h[n].content # <<>>
    BY DEF Paired
<1>2. Sequential(h) /\ DOMAIN h = 1..Len(h) /\ Len(h) \in Nat
    BY <1>1, SequenceIs DEF Sequential
<1>3. \A b \in UB : b = Block(b.type, b.id) /\ b.type \in {"text", "result"}
                     /\ (b.type = "text" => b = Text) /\ (IsNamed(b) => b.id \in Seq(STRING) \ {<<>>})
    BY DEF Block, IsNamed, Text
<1>4. \A b \in AB : b = Block(b.type, b.id) /\ b.type \in {"text", "reasoning", "call"}
                     /\ (b.type = "reasoning" => b = Reasoning)
                     /\ (b.type = "text" => b = Text) /\ (IsNamed(b) => b.id \in Seq(STRING) \ {<<>>})
    BY DEF Block, IsNamed, Reasoning, Text
<1>. HIDE DEF UB, AB
<1>5. ASSUME NEW n \in 1..Len(h)
      PROVE  \/ h[n].role = "user" /\ h[n].content \in Seq(UB)
             \/ h[n].role = "assistant" /\ h[n].content \in Seq(AB)
    <2>1. h[n] \in Messages
        BY <1>1, <1>2, ElementOfSeq
    <2>2. Messages = [role : {"user"}, content : Seq(UB)] \cup [role : {"assistant"}, content : Seq(AB)]
        BY DEF Messages, UB, AB
    <2>. QED
        BY <2>1, <2>2
<1>6. ASSUME NEW n \in 1..Len(h)
      PROVE  /\ Sequential(h[n].content) /\ DOMAIN h[n].content = 1..Len(h[n].content)
             /\ h[n].role \in {"user", "assistant"} /\ (h[n].role = "user" => h[n].content # <<>>)
             /\ \A i \in 1..Len(h[n].content) :
                  /\ h[n].role = "user" => h[n].content[i] \in UB
                  /\ h[n].role = "assistant" => h[n].content[i] \in AB
    <2>1. Sequential(h[n].content)
        BY <1>5 DEF Sequential
    <2>. QED
        BY <1>1, <1>2, <1>5, <2>1, SequenceIs, ElementOfSeq
<1>. QED
    BY <1>2, <1>3, <1>4, <1>6

LEMMA PairedIsSound ==
    ASSUME NEW h, Paired(h)
    PROVE  Sound(h)
<1>. PICK hc : hc = Contents(h)
    OBVIOUS
<1>1. /\ Sequential(h) /\ Sequential(hc) /\ DOMAIN h = 1..Len(h) /\ Len(hc) = Len(h) /\ Len(h) \in Nat
      /\ \A n \in 1..Len(h) : hc[n] = h[n].content /\ Sequential(h[n].content)
    BY BlockTypes, ContentsAre
<1>2. ASSUME NEW x \in NamedIn(hc)
      PROVE  /\ x = <<x[1], x[2]>> /\ x[1] \in 1..Len(h) /\ x[2] \in 1..Len(h[x[1]].content)
             /\ hc[x[1]][x[2]] = h[x[1]].content[x[2]] /\ IsNamed(h[x[1]].content[x[2]])
    <2>1. x \in Places(hc) /\ IsNamed(hc[x[1]][x[2]])
        BY DEF NamedIn
    <2>. QED
        BY <1>1, <2>1, PlaceIs
<1>3. ASSUME NEW n \in 1..Len(h), NEW b \in Range(h[n].content), IsNamed(b)
      PROVE  \E y \in NamedIn(hc) : y[1] = n /\ hc[y[1]][y[2]] = b
    <2>1. PICK i \in 1..Len(h[n].content) : h[n].content[i] = b
        BY BlockTypes DEF Range
    <2>. PICK y : y = <<n, i>>
        OBVIOUS
    <2>2. y \in Places(hc) /\ y[1] = n /\ y[2] = i
        BY <1>1, <2>1, PlaceIs
    <2>3. hc[y[1]][y[2]] = b
        BY <1>1, <2>1, <2>2
    <2>. QED
        BY <1>3, <2>2, <2>3 DEF NamedIn
<1>4. ASSUME NEW x \in NamedIn(hc), NEW b, b = hc[x[1]][x[2]]
      PROVE  /\ b = Block(b.type, b.id)
             /\ b.type = "call" => /\ h[x[1]].role = "assistant" /\ x[1] < Len(h)
                                   /\ h[x[1] + 1].role = "user"
                                   /\ \E y \in NamedIn(hc) : y[1] = x[1] + 1
                                        /\ hc[y[1]][y[2]] = Block("result", b.id)
             /\ b.type = "result" => /\ h[x[1]].role = "user"
                                     /\ \E y \in NamedIn(hc) : y[1] = x[1] - 1
                                          /\ hc[y[1]][y[2]] = Block("call", b.id)
    <2>. PICK n, i : n = x[1] /\ i = x[2]
        OBVIOUS
    <2>1. n \in 1..Len(h) /\ i \in 1..Len(h[n].content) /\ b = h[n].content[i]
        BY <1>2, <1>4
    <2>2. b = Block(b.type, b.id) /\ h[n].role \in {"user", "assistant"}
          /\ (h[n].role = "user" => b.type \in {"text", "result"})
          /\ (h[n].role = "assistant" => b.type \in {"text", "reasoning", "call"})
        BY <2>1, BlockTypes
    <2>3. b \in Range(h[n].content)
        BY <2>1, BlockTypes DEF Range
    <2>4. ASSUME b.type = "call"
          PROVE  /\ h[n].role = "assistant" /\ n < Len(h) /\ h[n + 1].role = "user"
                 /\ \E y \in NamedIn(hc) : y[1] = n + 1 /\ hc[y[1]][y[2]] = Block("result", b.id)
        <3>1. h[n].role = "assistant"
            BY <2>2, <2>4
        <3>2. n < Len(h) /\ Block("result", b.id) \in Range(h[n + 1].content)
            BY <1>1, <2>1, <2>3, <2>4 DEF Paired
        <3>3. n + 1 \in 1..Len(h)
            BY <1>1, <2>1, <3>2
        <3>. PICK c : c = Block("result", b.id)
            OBVIOUS
        <3>4. c.type = "result" /\ IsNamed(c)
            BY DEF Block, IsNamed
        <3>5. PICK k \in 1..Len(h[n + 1].content) : h[n + 1].content[k] = c
            BY <3>2, <3>3, BlockTypes DEF Range
        <3>6. h[n + 1].role = "user"
            BY <3>3, <3>4, <3>5, BlockTypes
        <3>7. \E y \in NamedIn(hc) : y[1] = n + 1 /\ hc[y[1]][y[2]] = c
            BY <1>3, <3>2, <3>3, <3>4
        <3>. QED
            BY <3>1, <3>2, <3>6, <3>7
    <2>5. ASSUME b.type = "result"
          PROVE  /\ h[n].role = "user"
                 /\ \E y \in NamedIn(hc) : y[1] = n - 1 /\ hc[y[1]][y[2]] = Block("call", b.id)
        <3>1. h[n].role = "user"
            BY <2>2, <2>5
        <3>2. n > 1 /\ Block("call", b.id) \in Range(h[n - 1].content)
            BY <1>1, <2>1, <2>3, <2>5 DEF Paired
        <3>3. n - 1 \in 1..Len(h)
            BY <1>1, <2>1, <3>2
        <3>. PICK c : c = Block("call", b.id)
            OBVIOUS
        <3>4. IsNamed(c)
            BY DEF Block, IsNamed
        <3>5. \E y \in NamedIn(hc) : y[1] = n - 1 /\ hc[y[1]][y[2]] = c
            BY <1>3, <3>2, <3>3, <3>4
        <3>. QED
            BY <3>1, <3>5
    <2>. QED
        BY <2>2, <2>4, <2>5
<1>5. ASSUME NEW x \in NamedIn(hc), NEW y \in NamedIn(hc), hc[x[1]][x[2]] = hc[y[1]][y[2]]
      PROVE  x = y
    <2>1. h[x[1]].content[x[2]] = h[y[1]].content[y[2]]
        BY <1>2, <1>5
    <2>2. x[1] \in DOMAIN h /\ y[1] \in DOMAIN h /\ x[2] \in DOMAIN h[x[1]].content
          /\ y[2] \in DOMAIN h[y[1]].content
        BY <1>1, <1>2, BlockTypes
    <2>3. h[x[1]].content[x[2]].type \in {"call", "result"}
        BY <1>2 DEF IsNamed
    <2>4. x[1] = y[1] /\ x[2] = y[2]
        BY <2>1, <2>2, <2>3 DEF Paired
    <2>. QED
        BY <1>2, <2>4
<1>6. \A n \in 1..Len(h) : /\ Sequential(h[n].content)
                           /\ h[n].role \in {"user", "assistant"}
    BY BlockTypes
<1>. QED
    BY <1>1, <1>4, <1>5, <1>6 DEF Sound

LEMMA NamedPart ==
    ASSUME NEW all, Sequential(all)
    PROVE  Part(CallsAndResults(all), all, NamedOf(all))
<1>. PICK n \in Nat : n = Len(all) /\ DOMAIN all = 1..n
    BY SequenceIs
<1>1. [i \in 1..n |-> IF all[i].type \in {"call", "result"} THEN <<all[i]>> ELSE <<>>]
        = [i \in 1..n |-> IF i \in NamedOf(all) THEN <<all[i]>> ELSE <<>>]
    BY DEF NamedOf, IsNamed
<1>2. CallsAndResults(all) = Picked(all, NamedOf(all))
    BY <1>1 DEF CallsAndResults, Select, Picked
<1>3. NamedOf(all) \in SUBSET (1..Len(all))
    BY DEF NamedOf
<1>. QED
    BY <1>2, <1>3, Parting

LEMMA CountTo ==
    ASSUME NEW n \in Nat
    PROVE  IsFiniteSet(1..n) /\ Cardinality(1..n) = n
<1>1. 1 \in Int /\ n \in Int /\ (IF 1 > n THEN 0 ELSE n - 1 + 1) = n
    OBVIOUS
<1>. QED
    BY <1>1, FS_Interval

LEMMA Between ==
    ASSUME NEW l \in Nat, NEW a \in 1..l, NEW b \in 1..l, NEW p \in (a + 1)..(b - 1)
    PROVE  p \in 1..l /\ ~ (p < a) /\ ~ (b < p) /\ p # a /\ p # b
OBVIOUS

LEMMA ThisOrNext ==
    ASSUME NEW N \in Nat, NEW n \in 1..N, NEW m \in 1..N, ~ (m < n), ~ (n + 1 < m)
    PROVE  m = n \/ m = n + 1
OBVIOUS

\* As many as there are places.
LEMMA HomesCount ==
    ASSUME NEW all, NEW H, NEW hc, Homing(H, all, hc)
    PROVE  Len(CallsAndResults(all)) = Cardinality(NamedIn(hc))
<1>. PICK t : t = CallsAndResults(all)
    OBVIOUS
<1>1. Sequential(all) /\ Part(t, all, NamedOf(all))
    BY NamedPart DEF Homing
<1>. PICK n \in Nat : n = Len(t)
    BY <1>1, SequenceIs DEF Part
<1>2. PICK p : /\ p \in [1..n -> NamedOf(all)]
               /\ \A i, j \in 1..n : p[i] = p[j] => i = j
               /\ \A x \in NamedOf(all) : \E i \in 1..n : p[i] = x
    BY <1>1 DEF Part
<1>. DEFINE F == [i \in 1..n |-> H[p[i]]]
<1>3. F \in [1..n -> NamedIn(hc)]
    BY <1>2 DEF Homing
<1>4. \A i, j \in 1..n : F[i] = F[j] => i = j
    BY <1>2 DEF Homing
<1>5. ASSUME NEW y \in NamedIn(hc) PROVE \E i \in 1..n : F[i] = y
    <2>1. PICK q \in NamedOf(all) : H[q] = y
        BY DEF Homing
    <2>2. PICK i \in 1..n : p[i] = q
        BY <1>2
    <2>. QED
        BY <2>1, <2>2
<1>. HIDE DEF F
<1>6. F \in Bijection(1..n, NamedIn(hc))
    BY <1>3, <1>4, <1>5, Fun_IsBij
<1>7. ExistsBijection(1..n, NamedIn(hc))
    BY <1>6 DEF ExistsBijection
<1>8. IsFiniteSet(1..n) /\ Cardinality(1..n) = n
    BY CountTo
<1>9. Cardinality(NamedIn(hc)) = n
    BY <1>7, <1>8, FS_Bijection
<1>. QED
    BY <1>9

LEMMA HomingKeepsOrder ==
    ASSUME NEW h, Sound(h), NEW all, NEW H, Homing(H, all, Contents(h))
    PROVE  /\ IsInjective(CallsAndResults(all))
           /\ \A n \in DOMAIN all : all[n].type = "result" =>
                \E k \in 1..(n - 1) : all[k] = Block("call", all[n].id)
<1>. PICK hc : hc = Contents(h)
    OBVIOUS
<1>. PICK t : t = CallsAndResults(all)
    OBVIOUS
<1>0. Homing(H, all, hc) /\ DOMAIN all = 1..Len(all) /\ Len(all) \in Nat
    BY SequenceIs DEF Homing
<1>1. Part(t, all, NamedOf(all))
    BY <1>0, NamedPart DEF Homing
<1>2. IsInjective(t)
    <2>1. DOMAIN t = 1..Len(t)
        BY <1>1, SequenceIs DEF Part
    <2>2. PICK p : /\ p \in [1..Len(t) -> NamedOf(all)]
                   /\ \A i, j \in 1..Len(t) : p[i] = p[j] => i = j
                   /\ \A i \in 1..Len(t) : t[i] = all[p[i]]
        BY <1>1 DEF Part
    <2>3. ASSUME NEW i \in 1..Len(t), NEW j \in 1..Len(t), t[i] = t[j]
          PROVE  i = j
        <3>1. p[i] \in NamedOf(all) /\ p[j] \in NamedOf(all) /\ all[p[i]] = all[p[j]]
            BY <2>2, <2>3
        <3>2. H[p[i]] \in NamedIn(hc) /\ H[p[j]] \in NamedIn(hc)
              /\ hc[H[p[i]][1]][H[p[i]][2]] = hc[H[p[j]][1]][H[p[j]][2]]
            BY <1>0, <3>1 DEF Homing
        <3>3. H[p[i]] = H[p[j]]
            BY <3>2 DEF Sound
        <3>4. p[i] = p[j]
            BY <1>0, <3>1, <3>3 DEF Homing
        <3>. QED
            BY <2>2, <3>4
    <2>. QED
        BY <2>1, <2>3 DEF IsInjective
<1>3. ASSUME NEW n \in 1..Len(all), all[n].type = "result"
      PROVE  \E k \in 1..(n - 1) : all[k] = Block("call", all[n].id)
    <2>1. n \in NamedOf(all)
        BY <1>3 DEF NamedOf, IsNamed
    <2>. PICK x, b : x = H[n] /\ b = all[n]
        OBVIOUS
    <2>2. x \in NamedIn(hc) /\ b = hc[x[1]][x[2]] /\ b.type = "result"
        BY <1>0, <1>3, <2>1 DEF Homing
    <2>3. PICK y \in NamedIn(hc) : y[1] = x[1] - 1 /\ hc[y[1]][y[2]] = Block("call", b.id)
        BY <2>2 DEF Sound
    <2>4. PICK k \in NamedOf(all) : H[k] = y
        BY <1>0 DEF Homing
    <2>5. all[k] = Block("call", b.id)
        BY <1>0, <2>3, <2>4 DEF Homing
    <2>6. H[k][1] < H[n][1]
        <3>1. x[1] \in Nat
            <4>1. Sequential(h)
                BY DEF Sound
            <4>2. x \in Places(hc) /\ Len(hc) \in Nat
                BY <2>2, <4>1, ContentsAre DEF NamedIn
            <4>. QED
                BY <4>2, PlaceIs
        <3>. QED
            BY <2>3, <2>4, <3>1
    <2>7. k < n
        BY <1>0, <2>1, <2>4, <2>6 DEF Homing
    <2>8. k \in 1..(n - 1)
        BY <1>0, <2>7 DEF NamedOf
    <2>. QED
        BY <2>5, <2>8
<1>. QED
    BY <1>0, <1>2, <1>3

\* The answers stand where a backend looks for them.
LEMMA RenderingAnswers ==
    ASSUME NEW h, Sound(h), NEW W, Sequential(W), Len(W) = Len(h),
           \A n \in 1..Len(h) : Renders(W[n], h[n])
    PROVE  LET wire == FlattenSeq(W)
           IN  /\ Sequential(wire) /\ \A k \in DOMAIN wire : wire[k].content # <<>>
               /\ CallsAnswered(wire)
<1>. PICK wire : wire = FlattenSeq(W)
    OBVIOUS
<1>. PICK hc : hc = Contents(h)
    OBVIOUS
<1>. PICK N \in Nat : N = Len(h) /\ N = Len(W)
    BY SequenceIs
<1>1. \A n \in 1..N : Sequential(W[n])
    BY DEF Renders
<1>2. PICK at : Placing(at, W, wire)
    BY <1>1, FlatPlaces
<1>3. ASSUME NEW x \in Places(W)
      PROVE  /\ x = <<x[1], x[2]>> /\ x[1] \in 1..N /\ x[2] \in 1..Len(W[x[1]])
             /\ at[x] \in 1..Len(wire) /\ wire[at[x]] = W[x[1]][x[2]]
    <2>1. x = <<x[1], x[2]>> /\ x[1] \in 1..N /\ x[2] \in 1..Len(W[x[1]])
        BY PlaceIs
    <2>2. at[x] \in 1..Len(wire) /\ wire[at[x]] = W[x[1]][x[2]]
        BY <1>2 DEF Placing
    <2>. QED
        BY <2>1, <2>2
<1>4. Sequential(wire) /\ DOMAIN wire = 1..Len(wire) /\ Len(wire) \in Nat
      /\ \A k \in 1..Len(wire) : \E x \in Places(W) : at[x] = k
    BY <1>2, SequenceIs DEF Placing
<1>5. ASSUME NEW n \in 1..N, NEW j \in 1..Len(W[n])
      PROVE  /\ Sequential(W[n][j].content) /\ W[n][j].content # <<>>
             /\ DOMAIN W[n][j].content = 1..Len(W[n][j].content)
             /\ Contents(W[n])[j] = W[n][j].content /\ Len(Contents(W[n])) = Len(W[n])
    BY <1>1, SequenceIs, ContentsAre DEF Renders
<1>6. ASSUME NEW n \in 1..N, NEW j \in 1..Len(W[n]), NEW i \in 1..Len(W[n][j].content),
             IsNamed(W[n][j].content[i])
      PROVE  \E x \in NamedIn(hc) : x[1] = n /\ hc[x[1]][x[2]] = W[n][j].content[i]
    <2>1. PICK b : CarriesBy(b, W[n], h[n].content)
        BY DEF Renders, Carries
    <2>. PICK v : v = <<j, i>>
        OBVIOUS
    <2>2. v \in Places(Contents(W[n])) /\ v[1] = j /\ v[2] = i
        BY <1>5, PlaceIs
    <2>3. v \in NamedIn(Contents(W[n]))
        BY <1>5, <1>6, <2>2 DEF NamedIn
    <2>4. b[v] \in 1..Len(h[n].content) /\ h[n].content[b[v]] = W[n][j].content[i]
        BY <2>1, <2>2, <2>3 DEF CarriesBy
    <2>5. hc[n] = h[n].content /\ Sequential(hc[n]) /\ Len(hc) = N
        BY ContentsAre DEF Sound
    <2>. PICK x : x = <<n, b[v]>>
        OBVIOUS
    <2>6. x \in Places(hc) /\ x[1] = n /\ x[2] = b[v]
        BY <2>4, <2>5, PlaceIs
    <2>. QED
        BY <1>6, <2>4, <2>5, <2>6 DEF NamedIn
<1>7. ASSUME NEW x \in NamedIn(hc)
      PROVE  \E j \in 1..Len(W[x[1]]) : \E i \in 1..Len(W[x[1]][j].content) :
                W[x[1]][j].content[i] = hc[x[1]][x[2]]
    <2>. PICK n : n = x[1]
        OBVIOUS
    <2>1. x \in Places(hc) /\ IsNamed(hc[n][x[2]])
        BY DEF NamedIn
    <2>2. Len(hc) = N /\ \A m \in 1..N : hc[m] = h[m].content
        BY ContentsAre DEF Sound
    <2>3. n \in 1..N /\ x[2] \in 1..Len(h[n].content) /\ hc[n] = h[n].content
        BY <2>1, <2>2, PlaceIs
    <2>4. PICK b : CarriesBy(b, W[n], h[n].content)
        BY <2>3 DEF Renders, Carries
    <2>5. PICK v \in NamedIn(Contents(W[n])) : b[v] = x[2]
        BY <2>1, <2>3, <2>4 DEF CarriesBy
    <2>6. h[n].content[b[v]] = W[n][v[1]].content[v[2]]
        BY <2>4 DEF CarriesBy
    <2>7. v[1] \in 1..Len(Contents(W[n])) /\ v[2] \in 1..Len(Contents(W[n])[v[1]])
        BY PlaceIs DEF NamedIn
    <2>8. v[1] \in 1..Len(W[n])
        BY <1>1, <2>3, <2>7, ContentsAre
    <2>9. v[2] \in 1..Len(W[n][v[1]].content)
        BY <1>5, <2>3, <2>7, <2>8
    <2>. QED
        BY <2>3, <2>5, <2>6, <2>8, <2>9
<1>8. ASSUME NEW k \in DOMAIN wire PROVE wire[k].content # <<>>
    BY <1>3, <1>4, <1>5
<1>9. ASSUME NEW k \in DOMAIN wire, NEW b \in Range(wire[k].content), b.type = "call"
      PROVE  AnsweredAt(wire, k, b)
    <2>1. PICK x \in Places(W) : at[x] = k
        BY <1>4
    <2>. PICK n, j : n = x[1] /\ j = x[2]
        OBVIOUS
    <2>2. n \in 1..N /\ j \in 1..Len(W[n]) /\ wire[k] = W[n][j] /\ k \in 1..Len(wire)
        BY <1>3, <2>1
    <2>3. PICK i \in 1..Len(W[n][j].content) : W[n][j].content[i] = b
        BY <1>5, <2>2 DEF Range
    <2>4. PICK y \in NamedIn(hc) : y[1] = n /\ hc[y[1]][y[2]] = b
        BY <1>6, <1>9, <2>2, <2>3 DEF IsNamed
    <2>5. PICK z \in NamedIn(hc) : z[1] = n + 1 /\ hc[z[1]][z[2]] = Block("result", b.id)
        BY <1>9, <2>4 DEF Sound
    <2>6. h[n].role = "assistant" /\ n < N /\ h[n + 1].role = "user"
        BY <1>9, <2>4 DEF Sound
    <2>7. n + 1 \in 1..N
        BY <2>2, <2>6
    <2>8. CallsLast(W[n]) /\ ResultsFirst(W[n + 1])
        BY <2>2, <2>6, <2>7 DEF Renders
    <2>9. PICK l \in 1..Len(W[n + 1]) : \E i2 \in 1..Len(W[n + 1][l].content) :
                W[n + 1][l].content[i2] = Block("result", b.id)
        BY <1>7, <2>5
    <2>10. PICK m \in 1..Len(W[n + 1][l].content) : W[n + 1][l].content[m] = Block("result", b.id)
        BY <2>9
    <2>. PICK w, c : w = <<n + 1, l>> /\ c = Block("result", b.id)
        OBVIOUS
    <2>11. w \in Places(W) /\ w[1] = n + 1 /\ w[2] = l
        BY <1>1, <2>7, PlaceIs
    <2>12. at[w] \in 1..Len(wire) /\ wire[at[w]] = W[n + 1][l]
        BY <1>3, <2>11
    <2>13. k < at[w]
        BY <1>2, <2>1, <2>2, <2>11 DEF Placing
    <2>14. c.type = "result"
        BY DEF Block
    <2>15. /\ \A k2 \in 1..Len(W[n + 1]) : k2 < l => IsResults(W[n + 1][k2])
           /\ \A k2 \in 1..m : W[n + 1][l].content[k2].type = "result"
        BY <2>8, <2>10, <2>14 DEF ResultsFirst
    <2>16. \A k2 \in 1..Len(W[n]) : j < k2 => IsCalls(W[n][k2])
        BY <1>9, <2>2, <2>3, <2>8 DEF CallsLast
    <2>17. ASSUME NEW p \in (k + 1)..(at[w] - 1)
           PROVE  IsCalls(wire[p]) \/ IsResults(wire[p])
        <3>1. p \in 1..Len(wire) /\ ~ (p < k) /\ ~ (at[w] < p) /\ p # k /\ p # at[w]
            BY <1>4, <2>2, <2>12, Between
        <3>2. PICK v \in Places(W) : at[v] = p
            BY <1>4, <3>1
        <3>. PICK n2, j2 : n2 = v[1] /\ j2 = v[2]
            OBVIOUS
        <3>3. n2 \in 1..N /\ j2 \in 1..Len(W[n2]) /\ wire[p] = W[n2][j2]
            BY <1>3, <3>2
        <3>4. ~ (at[v] < at[x]) /\ ~ (at[w] < at[v]) /\ at[v] # at[x] /\ at[v] # at[w]
            BY <2>1, <3>1, <3>2, Zenon
        <3>5. ~ (n2 < n) /\ ~ (n + 1 < n2) /\ ~ (n2 = n /\ j2 < j) /\ ~ (n2 = n + 1 /\ l < j2)
            BY <1>2, <2>1, <2>11, <3>2, <3>4 DEF Placing
        <3>6. v = <<n2, j2>> /\ x = <<n, j>>
            BY <1>3, <2>1, <3>2
        <3>7. ~ (n2 = n /\ j2 = j) /\ ~ (n2 = n + 1 /\ j2 = l)
            BY <3>4, <3>6
        <3>8. Len(W[n]) \in Nat /\ Len(W[n + 1]) \in Nat
            BY <1>1, <2>2, <2>7, SequenceIs
        <3>9. CASE n2 = n
            <4>1. j2 \in 1..Len(W[n]) /\ j < j2
                BY <2>2, <3>3, <3>5, <3>7, <3>8, <3>9
            <4>. QED
                BY <2>16, <3>3, <3>9, <4>1
        <3>10. CASE n2 = n + 1
            <4>1. j2 \in 1..Len(W[n + 1]) /\ j2 < l
                BY <2>9, <3>3, <3>5, <3>7, <3>8, <3>10
            <4>. QED
                BY <2>15, <3>3, <3>10, <4>1
        <3>11. n2 = n \/ n2 = n + 1
            BY <2>2, <3>3, <3>5, ThisOrNext
        <3>. QED
            BY <3>9, <3>10, <3>11
    <2>18. at[w] \in (k + 1)..Len(wire)
        BY <1>4, <2>2, <2>12, <2>13
    <2>19. m \in DOMAIN wire[at[w]].content
        BY <1>5, <2>7, <2>12
    <2>. QED
        BY <2>10, <2>12, <2>15, <2>17, <2>18, <2>19 DEF AnsweredAt
<1>. QED
    BY <1>4, <1>8, <1>9 DEF CallsAnswered

-----------------------------------------------------------------------------
(* What a message is sent as.                                              *)

Unnamed(s) == \A i \in 1..Len(s) : ~ IsNamed(s[i])

\* R holds the calls and results of c, perhaps with others: it is what stands
\* at the positions X.
Holds(R, c, X) ==
    /\ Part(R, c, X) /\ X \in SUBSET (1..Len(c))
    /\ \A i \in 1..Len(c) : IsNamed(c[i]) => i \in X

LEMMA CarriesAll ==
    ASSUME NEW c, NEW R, NEW X, Holds(R, c, X), NEW u, NEW d,
           \A x \in NamedIn(Contents(u)) : d[x] \in 1..Len(R) /\ R[d[x]] = u[x[1]].content[x[2]],
           \A x, y \in NamedIn(Contents(u)) : d[x] = d[y] => x = y,
           \A i \in 1..Len(R) : IsNamed(R[i]) => \E x \in NamedIn(Contents(u)) : d[x] = i
    PROVE  Carries(u, c)
<1>1. PICK p : /\ p \in [1..Len(R) -> X]
               /\ \A i, j \in 1..Len(R) : p[i] = p[j] => i = j
               /\ \A x \in X : \E i \in 1..Len(R) : p[i] = x
               /\ \A i \in 1..Len(R) : R[i] = c[p[i]]
    BY DEF Holds, Part
<1>. DEFINE b == [x \in NamedIn(Contents(u)) |-> p[d[x]]]
<1>2. \A x \in NamedIn(Contents(u)) : b[x] = p[d[x]]
    OBVIOUS
<1>. HIDE DEF b
<1>3. ASSUME NEW x \in NamedIn(Contents(u))
      PROVE  b[x] \in 1..Len(c) /\ c[b[x]] = u[x[1]].content[x[2]]
    BY <1>1, <1>2 DEF Holds
<1>4. ASSUME NEW x \in NamedIn(Contents(u)), NEW y \in NamedIn(Contents(u)), b[x] = b[y]
      PROVE  x = y
    BY <1>1, <1>2, <1>4
<1>5. ASSUME NEW i \in 1..Len(c), IsNamed(c[i])
      PROVE  \E x \in NamedIn(Contents(u)) : b[x] = i
    <2>1. PICK j \in 1..Len(R) : p[j] = i
        BY <1>1, <1>5 DEF Holds
    <2>2. IsNamed(R[j])
        BY <1>1, <1>5, <2>1
    <2>. QED
        BY <1>2, <2>1, <2>2
<1>6. CarriesBy(b, u, c)
    BY <1>3, <1>4, <1>5 DEF CarriesBy
<1>. QED
    BY <1>6 DEF Carries

LEMMA Middle ==
    ASSUME NEW a \in Nat, NEW b \in Nat, NEW c \in Nat, NEW i \in 1..(a + b + c)
    PROVE  \/ i \in 1..a
           \/ i - a \in 1..b /\ a + (i - a) = i
           \/ i - (a + b) \in 1..c /\ (a + b) + (i - (a + b)) = i
OBVIOUS

LEMMA InTheMiddle ==
    ASSUME NEW a \in Nat, NEW b \in Nat, NEW c \in Nat
    PROVE  /\ \A i \in 1..a : i \in 1..(a + b + c) /\ i \in 1..(a + b)
           /\ \A i \in 1..b : a + i \in 1..(a + b + c) /\ (a + i) - a = i /\ a + i \in 1..(a + b)
           /\ \A i \in 1..c : (a + b) + i \in 1..(a + b + c)
           /\ \A i, j \in 1..(a + b + c) : i - a = j - a => i = j
           /\ a + b \in Nat
OBVIOUS

\* Three sequences, one after the other: with whom each member comes.
Row(s, pre, R, post) ==
    /\ Sequential(s) /\ Len(s) = Len(pre) + Len(R) + Len(post)
    /\ \A i \in 1..Len(pre) : s[i] = pre[i]
    /\ \A i \in 1..Len(R) : s[Len(pre) + i] = R[i]
    /\ \A i \in 1..Len(post) : s[(Len(pre) + Len(R)) + i] = post[i]

LEMMA Rows ==
    ASSUME NEW pre, NEW R, NEW post, Sequential(pre), Sequential(R), Sequential(post)
    PROVE  Row((pre \o R) \o post, pre, R, post)
<1>. PICK s, t : s = pre \o R /\ t = (pre \o R) \o post
    OBVIOUS
<1>1. Joins(s, pre, R) /\ Joins(t, s, post)
    BY Joining DEF Joins
<1>2. Len(pre) \in Nat /\ Len(R) \in Nat /\ Len(post) \in Nat
    BY SequenceIs
<1>3. Len(s) = Len(pre) + Len(R) /\ Len(t) = Len(s) + Len(post) /\ Sequential(t)
    BY <1>1 DEF Joins
<1>4. \A i \in 1..Len(pre) : i \in 1..Len(s)
    BY <1>2, <1>3, InTheMiddle
<1>5. \A i \in 1..Len(R) : Len(pre) + i \in 1..Len(s)
    BY <1>2, <1>3, InTheMiddle
<1>6. \A i \in 1..Len(pre) : t[i] = pre[i]
    BY <1>1, <1>4 DEF Joins
<1>7. \A i \in 1..Len(R) : t[Len(pre) + i] = R[i]
    BY <1>1, <1>5 DEF Joins
<1>8. \A i \in 1..Len(post) : t[(Len(pre) + Len(R)) + i] = post[i]
    <2>1. \A i \in 1..Len(post) : t[Len(s) + i] = post[i]
        BY <1>1 DEF Joins
    <2>. QED
        BY <1>3, <2>1, Zenon
<1>9. Len(t) = Len(pre) + Len(R) + Len(post)
    BY <1>3, Zenon
<1>. QED
    BY <1>3, <1>6, <1>7, <1>8, <1>9, Zenon DEF Row

\* A message of its own.
LEMMA InOneMessage ==
    ASSUME NEW c, NEW R, NEW X, Holds(R, c, X),
           NEW pre, NEW post, Sequential(pre), Sequential(post), Unnamed(pre), Unnamed(post),
           NEW s, Row(s, pre, R, post), NEW role
    PROVE  /\ s # <<>> => Carries(<<Wire(role, s)>>, c)
           /\ s = <<>> => Carries(<<>>, c)
<1>. PICK a, b, e : a = Len(pre) /\ b = Len(R) /\ e = Len(post)
    OBVIOUS
<1>0. a \in Nat /\ b \in Nat /\ e \in Nat /\ Len(s) = a + b + e
    BY SequenceIs DEF Holds, Part, Row
<1>1. ASSUME NEW i \in 1..Len(s), IsNamed(s[i])
      PROVE  i - a \in 1..b /\ R[i - a] = s[i]
    <2>1. CASE i \in 1..a
        BY <1>1, <2>1 DEF Row, Unnamed
    <2>2. CASE i - a \in 1..b /\ a + (i - a) = i
        BY <2>2 DEF Row
    <2>3. CASE i - (a + b) \in 1..e /\ (a + b) + (i - (a + b)) = i
        <3>1. s[(a + b) + (i - (a + b))] = post[i - (a + b)]
            BY <2>3, Zenon DEF Row
        <3>. QED
            BY <1>1, <2>3, <3>1 DEF Unnamed
    <2>. QED
        BY <1>0, <2>1, <2>2, <2>3, Middle
<1>2. ASSUME NEW i \in 1..b
      PROVE  a + i \in 1..Len(s) /\ s[a + i] = R[i] /\ (a + i) - a = i
    BY <1>0, InTheMiddle DEF Row
<1>3. ASSUME s # <<>>
      PROVE  Carries(<<Wire(role, s)>>, c)
    <2>. PICK w, u : w = Wire(role, s) /\ u = <<w>>
        OBVIOUS
    <2>1. w.content = s
        BY DEF Wire
    <2>2. Sequential(u) /\ Len(u) = 1 /\ u[1] = w
        BY OneElement
    <2>3. Len(Contents(u)) = 1 /\ Contents(u)[1] = s
        BY <2>1, <2>2, ContentsAre
    <2>4. ASSUME NEW x \in NamedIn(Contents(u))
          PROVE  x = <<1, x[2]>> /\ x[1] = 1 /\ x[2] \in 1..Len(s) /\ IsNamed(s[x[2]])
        <3>1. x \in Places(Contents(u)) /\ IsNamed(Contents(u)[x[1]][x[2]])
            BY DEF NamedIn
        <3>2. x = <<x[1], x[2]>> /\ x[1] \in 1..1 /\ x[2] \in 1..Len(Contents(u)[x[1]])
            BY <2>3, <3>1, PlaceIs
        <3>3. x[1] = 1
            BY <3>2
        <3>4. Contents(u)[x[1]] = s
            BY <2>3, <3>3
        <3>. QED
            BY <3>1, <3>2, <3>3, <3>4, Zenon
    <2>5. ASSUME NEW i \in 1..Len(s), IsNamed(s[i])
          PROVE  <<1, i>> \in NamedIn(Contents(u)) /\ <<1, i>>[2] = i
        <3>. PICK t : t = Contents(u)
            OBVIOUS
        <3>0. 1 \in 1..Len(t) /\ Sequential(t[1]) /\ i \in 1..Len(t[1])
            BY <2>3 DEF Row
        <3>1. <<1, i>> \in Places(t) /\ <<1, i>>[1] = 1 /\ <<1, i>>[2] = i
            BY <3>0, PlaceIs
        <3>. QED
            BY <2>3, <2>5, <3>1 DEF NamedIn
    <2>. DEFINE d == [x \in NamedIn(Contents(u)) |-> x[2] - a]
    <2>6. \A x \in NamedIn(Contents(u)) : d[x] = x[2] - a
        OBVIOUS
    <2>. HIDE DEF d
    <2>7. ASSUME NEW x \in NamedIn(Contents(u))
          PROVE  d[x] \in 1..Len(R) /\ R[d[x]] = u[x[1]].content[x[2]]
        <3>. PICK i : i = x[2]
            OBVIOUS
        <3>1. i \in 1..Len(s) /\ IsNamed(s[i]) /\ x[1] = 1
            BY <2>4
        <3>2. i - a \in 1..b /\ R[i - a] = s[i]
            BY <1>1, <3>1
        <3>3. u[x[1]].content = s
            BY <2>1, <2>2, <3>1
        <3>4. d[x] = i - a
            BY <2>6
        <3>. QED
            BY <3>2, <3>3, <3>4, Zenon
    <2>8. ASSUME NEW x \in NamedIn(Contents(u)), NEW y \in NamedIn(Contents(u)), d[x] = d[y]
          PROVE  x = y
        <3>1. x[2] - a = y[2] - a
            BY <2>6, <2>8
        <3>2. x[2] = y[2]
            BY <1>0, <2>4, <3>1, InTheMiddle
        <3>. QED
            BY <2>4, <3>2
    <2>9. ASSUME NEW i \in 1..Len(R), IsNamed(R[i])
          PROVE  \E x \in NamedIn(Contents(u)) : d[x] = i
        <3>1. a + i \in 1..Len(s) /\ s[a + i] = R[i] /\ (a + i) - a = i
            BY <1>2
        <3>2. <<1, a + i>> \in NamedIn(Contents(u)) /\ <<1, a + i>>[2] = a + i
            BY <2>5, <2>9, <3>1
        <3>3. d[<<1, a + i>>] = i
            BY <2>6, <3>1, <3>2
        <3>. QED
            BY <3>2, <3>3
    <2>10. Carries(u, c)
        BY <2>7, <2>8, <2>9, CarriesAll
    <2>. QED
        BY <2>10
<1>4. ASSUME s = <<>>
      PROVE  Carries(<<>>, c)
    <2>1. Len(s) = 0
        BY <1>4, Nothing
    <2>2. Len(Contents(<<>>)) = 0
        BY Nothing, ContentsAre
    <2>3. \A x \in NamedIn(Contents(<<>>)) : FALSE
        <3>1. \A x \in Places(Contents(<<>>)) : x[1] \in 1..0
            BY <2>2, PlaceIs
        <3>. QED
            BY <3>1 DEF NamedIn
    <2>4. b = 0
        BY <1>0, <2>1
    <2>5. \A i \in 1..Len(R) : FALSE
        BY <2>4
    <2>. PICK d : d = <<>>
        OBVIOUS
    <2>. QED
        BY <2>3, <2>5, CarriesAll
<1>. QED
    BY <1>3, <1>4

\* Messages that hold no call and no result.
Quiet(u) ==
    /\ Sequential(u)
    /\ \A j \in 1..Len(u) : /\ Sequential(u[j].content) /\ u[j].content # <<>>
                            /\ Unnamed(u[j].content)

LEMMA EachIs ==
    ASSUME NEW R, Sequential(R), NEW role
    PROVE  /\ Sequential(Each(R, role)) /\ Len(Each(R, role)) = Len(R)
           /\ \A i \in 1..Len(R) : Each(R, role)[i] = Wire(role, <<R[i]>>)
<1>. PICK n \in Nat : n = Len(R) /\ DOMAIN R = 1..n
    BY SequenceIs
<1>. PICK s : s = [i \in 1..n |-> Wire(role, <<R[i]>>)]
    OBVIOUS
<1>1. s = Each(R, role)
    BY DEF Each
<1>2. s = [i \in 1..n |-> s[i]] /\ \A i \in 1..n : s[i] = Wire(role, <<R[i]>>)
    OBVIOUS
<1>3. Sequential(s) /\ Len(s) = n
    BY <1>2, FunctionIsSequence
<1>. QED
    BY <1>1, <1>2, <1>3

LEMMA OfOne ==
    ASSUME NEW role, NEW b
    PROVE  LET w == Wire(role, <<b>>)
           IN  /\ w.role = role /\ w.content = <<b>> /\ Sequential(w.content) /\ w.content # <<>>
               /\ Len(w.content) = 1 /\ DOMAIN w.content = 1..1 /\ w.content[1] = b
               /\ \A i \in 1..Len(w.content) : i = 1
<1>. PICK s : s = <<b>>
    OBVIOUS
<1>1. Sequential(s) /\ Len(s) = 1 /\ s[1] = b
    BY OneElement
<1>2. DOMAIN s = 1..1 /\ s # <<>>
    BY <1>1, SequenceIs, Nothing
<1>3. \A i \in 1..Len(s) : i = 1
    BY <1>1
<1>4. Wire(role, s).role = role /\ Wire(role, s).content = s
    BY DEF Wire
<1>. QED
    BY <1>1, <1>2, <1>3, <1>4

\* A message for each of R, which the content c holds, among others.
Lined(u, c, pre, R, role, post) ==
    /\ Carries(u, c)
    /\ Sequential(u) /\ \A j \in 1..Len(u) : Sequential(u[j].content) /\ u[j].content # <<>>
    /\ \A j \in 1..Len(u) : \A i \in 1..Len(u[j].content) :
          IsNamed(u[j].content[i]) =>
             /\ i = 1 /\ j - Len(pre) \in 1..Len(R)
             /\ u[j].content[i] = R[j - Len(pre)]
    /\ \A k \in 1..Len(R) : u[Len(pre) + k] = Wire(role, <<R[k]>>)
    /\ Len(u) = Len(pre) + Len(R) + Len(post)

LEMMA OneByOne ==
    ASSUME NEW c, NEW R, NEW X, Holds(R, c, X), NEW role,
           NEW pre, NEW post, Quiet(pre), Quiet(post),
           NEW u, Row(u, pre, Each(R, role), post)
    PROVE  Lined(u, c, pre, R, role, post)
<1>. PICK rs : rs = Each(R, role)
    OBVIOUS
<1>. PICK a, b, e : a = Len(pre) /\ b = Len(R) /\ e = Len(post)
    OBVIOUS
<1>1. Sequential(rs) /\ Len(rs) = b /\ \A i \in 1..b : rs[i] = Wire(role, <<R[i]>>)
    BY EachIs DEF Holds, Part
<1>0. a \in Nat /\ b \in Nat /\ e \in Nat
    BY SequenceIs DEF Holds, Part, Quiet
<1>2. /\ Sequential(u) /\ Len(u) = a + b + e
      /\ \A i \in 1..a : u[i] = pre[i]
      /\ \A i \in 1..b : u[a + i] = rs[i]
      /\ \A i \in 1..e : u[(a + b) + i] = post[i]
    <2>1. Row(u, pre, rs, post)
        OBVIOUS
    <2>2. /\ Sequential(u) /\ Len(u) = Len(pre) + Len(rs) + Len(post)
          /\ \A i \in 1..Len(pre) : u[i] = pre[i]
          /\ \A i \in 1..Len(rs) : u[Len(pre) + i] = rs[i]
          /\ \A i \in 1..Len(post) : u[(Len(pre) + Len(rs)) + i] = post[i]
        BY <2>1, Zenon DEF Row
    <2>. QED
        BY <1>1, <2>2, Zenon
<1>3. ASSUME NEW j \in 1..Len(u)
      PROVE  /\ Sequential(u[j].content) /\ u[j].content # <<>>
             /\ \/ Unnamed(u[j].content)
                \/ j - a \in 1..b /\ a + (j - a) = j /\ u[j] = Wire(role, <<R[j - a]>>)
    <2>1. \/ j \in 1..a
          \/ j - a \in 1..b /\ a + (j - a) = j
          \/ j - (a + b) \in 1..e /\ (a + b) + (j - (a + b)) = j
        BY <1>0, <1>2, Middle
    <2>2. CASE j \in 1..a
        BY <1>2, <2>2 DEF Quiet
    <2>3. CASE j - a \in 1..b /\ a + (j - a) = j
        <3>1. u[a + (j - a)] = rs[j - a] /\ rs[j - a] = Wire(role, <<R[j - a]>>)
            BY <1>1, <1>2, <2>3, Zenon
        <3>2. u[j] = Wire(role, <<R[j - a]>>)
            BY <2>3, <3>1, Zenon
        <3>. PICK x : x = R[j - a]
            OBVIOUS
        <3>3. Sequential(u[j].content) /\ u[j].content # <<>>
            BY <3>2, OfOne
        <3>. QED
            BY <2>3, <3>2, <3>3
    <2>4. CASE j - (a + b) \in 1..e /\ (a + b) + (j - (a + b)) = j
        <3>1. u[(a + b) + (j - (a + b))] = post[j - (a + b)]
            BY <1>2, <2>4, Zenon
        <3>2. u[j] = post[j - (a + b)]
            BY <2>4, <3>1, Zenon
        <3>. QED
            BY <2>4, <3>2 DEF Quiet
    <2>. QED
        BY <2>1, <2>2, <2>3, <2>4
<1>4. ASSUME NEW j \in 1..Len(u), NEW i \in 1..Len(u[j].content), IsNamed(u[j].content[i])
      PROVE  /\ i = 1 /\ j - a \in 1..b /\ a + (j - a) = j
             /\ u[j].content[i] = R[j - a]
    <2>1. j - a \in 1..b /\ a + (j - a) = j /\ u[j] = Wire(role, <<R[j - a]>>)
        BY <1>3, <1>4 DEF Unnamed
    <2>. PICK y : y = R[j - a]
        OBVIOUS
    <2>2. u[j] = Wire(role, <<y>>)
        BY <2>1
    <2>3. i = 1 /\ u[j].content[1] = y
        BY <2>2, OfOne
    <2>. QED
        BY <2>1, <2>3
<1>5. ASSUME NEW k \in 1..b
      PROVE  /\ a + k \in 1..Len(u) /\ (a + k) - a = k
             /\ u[a + k] = Wire(role, <<R[k]>>)
    BY <1>0, <1>1, <1>2, InTheMiddle
<1>6. /\ Sequential(Contents(u)) /\ Len(Contents(u)) = Len(u)
      /\ \A j \in 1..Len(u) : Contents(u)[j] = u[j].content
    BY <1>2, ContentsAre
<1>7. ASSUME NEW x \in NamedIn(Contents(u))
      PROVE  /\ x = <<x[1], x[2]>> /\ x[1] \in 1..Len(u) /\ x[2] \in 1..Len(u[x[1]].content)
             /\ IsNamed(u[x[1]].content[x[2]])
    <2>1. x \in Places(Contents(u)) /\ IsNamed(Contents(u)[x[1]][x[2]])
        BY DEF NamedIn
    <2>. QED
        BY <1>6, <2>1, PlaceIs
<1>. DEFINE d == [x \in NamedIn(Contents(u)) |-> x[1] - a]
<1>8. \A x \in NamedIn(Contents(u)) : d[x] = x[1] - a
    OBVIOUS
<1>. HIDE DEF d
<1>9. ASSUME NEW x \in NamedIn(Contents(u))
      PROVE  /\ d[x] \in 1..Len(R) /\ R[d[x]] = u[x[1]].content[x[2]]
             /\ x = <<x[1], 1>> /\ a + d[x] = x[1]
    <2>. PICK j, i : j = x[1] /\ i = x[2]
        OBVIOUS
    <2>1. j \in 1..Len(u) /\ i \in 1..Len(u[j].content) /\ IsNamed(u[j].content[i]) /\ x = <<j, i>>
        BY <1>7
    <2>2. i = 1 /\ j - a \in 1..b /\ a + (j - a) = j /\ u[j].content[i] = R[j - a]
        BY <1>4, <2>1
    <2>3. d[x] = j - a
        BY <1>8
    <2>. QED
        BY <2>1, <2>2, <2>3, Zenon
<1>10. ASSUME NEW x \in NamedIn(Contents(u)), NEW y \in NamedIn(Contents(u)), d[x] = d[y]
       PROVE  x = y
    <2>1. a + d[x] = x[1] /\ a + d[y] = y[1] /\ x = <<x[1], 1>> /\ y = <<y[1], 1>>
        BY <1>9, Zenon
    <2>2. x[1] = y[1]
        BY <1>10, <2>1, Zenon
    <2>. QED
        BY <2>1, <2>2, Zenon
<1>11. ASSUME NEW i \in 1..Len(R), IsNamed(R[i])
       PROVE  \E x \in NamedIn(Contents(u)) : d[x] = i
    <2>. PICK j, y, r : j = a + i /\ y = <<j, 1>> /\ r = R[i]
        OBVIOUS
    <2>1. j \in 1..Len(u) /\ j - a = i /\ u[j] = Wire(role, <<r>>)
        BY <1>5
    <2>2. Sequential(u[j].content) /\ 1 \in 1..Len(u[j].content) /\ u[j].content[1] = r
        BY <2>1, OfOne
    <2>3. Contents(u)[j] = u[j].content
        BY <1>6, <2>1
    <2>4. y \in Places(Contents(u)) /\ y[1] = j /\ y[2] = 1
        BY <1>6, <2>1, <2>2, <2>3, PlaceIs
    <2>5. y \in NamedIn(Contents(u))
        BY <1>11, <2>2, <2>3, <2>4 DEF NamedIn
    <2>. QED
        BY <1>8, <2>1, <2>4, <2>5
<1>12. Carries(u, c)
    BY <1>9, <1>10, <1>11, CarriesAll
<1>. QED
    BY <1>2, <1>3, <1>4, <1>5, <1>12 DEF Lined

\* The blocks of a type, and the others.
Having(c, type) == {i \in 1..Len(c) : c[i].type = type}

LEMMA OnlyIs ==
    ASSUME NEW c, Sequential(c), NEW type
    PROVE  /\ Part(Only(c, type), c, Having(c, type)) /\ Sequential(Only(c, type))
           /\ \A i \in 1..Len(Only(c, type)) : Only(c, type)[i].type = type
           /\ \A i \in 1..Len(Only(c, type)) : \E k \in 1..Len(c) : Only(c, type)[i] = c[k]
           /\ Having(c, type) # {} => Only(c, type) # <<>>
<1>. PICK n \in Nat : n = Len(c) /\ DOMAIN c = 1..n
    BY SequenceIs
<1>. PICK X, t : X = Having(c, type) /\ t = Only(c, type)
    OBVIOUS
<1>1. [i \in 1..n |-> IF c[i].type = type THEN <<c[i]>> ELSE <<>>]
        = [i \in 1..n |-> IF i \in X THEN <<c[i]>> ELSE <<>>]
    BY DEF Having
<1>2. t = Picked(c, X)
    BY <1>1 DEF Only, Select, Picked
<1>3. X \in SUBSET (1..Len(c))
    BY DEF Having
<1>4. Part(t, c, X)
    BY <1>2, <1>3, Parting
<1>5. PICK p : /\ p \in [1..Len(t) -> X]
               /\ \A x \in X : \E i \in 1..Len(t) : p[i] = x
               /\ \A i \in 1..Len(t) : t[i] = c[p[i]]
    BY <1>4 DEF Part
<1>6. \A i \in 1..Len(t) : t[i].type = type
    BY <1>5 DEF Having
<1>7. ASSUME X # {} PROVE t # <<>>
    <2>1. \E i \in 1..Len(t) : TRUE
        BY <1>5, <1>7
    <2>. QED
        BY <2>1, Nothing
<1>8. \A i \in 1..Len(t) : \E k \in 1..Len(c) : t[i] = c[k]
    BY <1>3, <1>5
<1>. QED
    BY <1>4, <1>6, <1>7, <1>8 DEF Part

Aloud(c) == Select(c, LAMBDA b : b.type # "reasoning")

LEMMA AloudIs ==
    ASSUME NEW c, Sequential(c)
    PROVE  Holds(Aloud(c), c, {i \in 1..Len(c) : c[i].type # "reasoning"})
<1>. PICK n \in Nat : n = Len(c) /\ DOMAIN c = 1..n
    BY SequenceIs
<1>. DEFINE X == {i \in 1..Len(c) : c[i].type # "reasoning"}
<1>1. [i \in 1..n |-> IF c[i].type # "reasoning" THEN <<c[i]>> ELSE <<>>]
        = [i \in 1..n |-> IF i \in X THEN <<c[i]>> ELSE <<>>]
    OBVIOUS
<1>2. Aloud(c) = Picked(c, X)
    BY <1>1 DEF Aloud, Select, Picked
<1>3. X \in SUBSET (1..Len(c)) /\ \A i \in 1..Len(c) : IsNamed(c[i]) => i \in X
    BY DEF IsNamed
<1>. HIDE DEF X
<1>4. Part(Aloud(c), c, X)
    BY <1>2, <1>3, Parting
<1>5. Holds(Aloud(c), c, X)
    BY <1>3, <1>4 DEF Holds
<1>. QED
    BY <1>5 DEF X

-----------------------------------------------------------------------------
(* What each protocol makes of a message.                                  *)

Utterance(m) ==
    /\ m.role \in {"user", "assistant"} /\ Sequential(m.content)
    /\ m.role = "user" => m.content # <<>>
    /\ \A i \in 1..Len(m.content) :
          /\ m.role = "user" => m.content[i].type \in {"text", "result"}
          /\ m.role = "assistant" => m.content[i].type \in {"text", "reasoning", "call"}

LEMMA NotEmpty ==
    ASSUME NEW s, Sequential(s), s # <<>>
    PROVE  1 \in 1..Len(s)
<1>1. PICK n \in Nat : n = Len(s)
    BY SequenceIs
<1>2. n # 0
    <2>1. ASSUME n = 0 PROVE FALSE
        <3>1. s = [i \in 1..0 |-> s[i]]
            BY <1>1, <2>1, SequenceIs
        <3>2. <<>> = [i \in 1..0 |-> s[i]]
            OBVIOUS
        <3>. QED
            BY <3>1, <3>2
    <2>. QED
        BY <2>1
<1>. QED
    BY <1>1, <1>2

\* What is said by one message, or by none.
LEMMA OneMessage ==
    ASSUME NEW m, NEW R, NEW X, Holds(R, m.content, X),
           NEW pre, NEW post, Sequential(pre), Sequential(post), Unnamed(pre), Unnamed(post),
           NEW s, Row(s, pre, R, post), NEW u,
           u = IF s = <<>> THEN <<>> ELSE <<Wire(m.role, s)>>,
           m.role = "user" => Len(pre) = 0 /\ \A i \in 1..Len(R) : R[i].type = "result"
    PROVE  Renders(u, m)
<1>. PICK c : c = m.content
    OBVIOUS
<1>1. Sequential(s)
    BY DEF Row
<1>2. CASE s = <<>>
    <2>1. u = <<>> /\ Sequential(u) /\ Len(u) = 0
        BY <1>2, Nothing
    <2>2. \A j \in 1..Len(u) : FALSE
        BY <2>1
    <2>3. Carries(u, c)
        <3>1. Holds(R, c, X)
            OBVIOUS
        <3>. QED
            BY <1>2, <2>1, <3>1, InOneMessage
    <2>. QED
        BY <2>1, <2>2, <2>3 DEF Renders, CallsLast, ResultsFirst
<1>3. CASE s # <<>>
    <2>. PICK w : w = Wire(m.role, s)
        OBVIOUS
    <2>1. u = <<w>> /\ w.content = s
        BY <1>3 DEF Wire
    <2>2. Sequential(u) /\ Len(u) = 1 /\ u[1] = w
        BY <2>1, OneElement
    <2>3. \A j \in 1..Len(u) : j = 1 /\ u[j].content = s
        BY <2>1, <2>2
    <2>4. Carries(u, c)
        <3>1. Holds(R, c, X)
            OBVIOUS
        <3>. QED
            BY <1>3, <2>1, <3>1, InOneMessage
    <2>5. CallsLast(u)
        <3>1. \A j, k \in 1..Len(u) : ~ (j < k)
            BY <2>2
        <3>. QED
            BY <3>1 DEF CallsLast
    <2>6. ASSUME m.role = "user" PROVE ResultsFirst(u)
        <3>1. \A j, k \in 1..Len(u) : ~ (k < j)
            BY <2>2
        <3>2. ASSUME NEW i \in 1..Len(s), s[i].type = "result", NEW k \in 1..i
              PROVE  s[k].type = "result"
            <4>. PICK b, e : b = Len(R) /\ e = Len(post)
                OBVIOUS
            <4>1. b \in Nat /\ e \in Nat /\ Len(s) = 0 + b + e /\ Len(pre) = 0
                BY <2>6, SequenceIs DEF Row, Holds, Part
            <4>2. (\A n \in 1..b : s[0 + n] = R[n]) /\ \A n \in 1..e : s[(0 + b) + n] = post[n]
                <5>1. (\A n \in 1..Len(R) : s[Len(pre) + n] = R[n])
                      /\ \A n \in 1..Len(post) : s[(Len(pre) + Len(R)) + n] = post[n]
                    BY DEF Row
                <5>. QED
                    BY <4>1, <5>1, Zenon
            <4>3. \/ i \in 1..0 \/ (i - 0 \in 1..b /\ 0 + (i - 0) = i)
                  \/ i - (0 + b) \in 1..e /\ (0 + b) + (i - (0 + b)) = i
                BY <4>1, Middle
            <4>4. ~ (i - (0 + b) \in 1..e /\ (0 + b) + (i - (0 + b)) = i)
                <5>. SUFFICES ASSUME i - (0 + b) \in 1..e, (0 + b) + (i - (0 + b)) = i PROVE FALSE
                    OBVIOUS
                <5>1. s[(0 + b) + (i - (0 + b))] = post[i - (0 + b)]
                    BY <4>2, Zenon
                <5>. PICK x : x = i - (0 + b)
                    OBVIOUS
                <5>2. x \in 1..Len(post) /\ s[i] = post[x]
                    BY <5>1, Zenon
                <5>. QED
                    BY <3>2, <5>2 DEF Unnamed, IsNamed
            <4>5. i \in 1..b
                BY <4>3, <4>4
            <4>6. k \in 1..b /\ 0 + k = k
                BY <4>1, <4>5
            <4>7. s[k] = R[k]
                BY <4>2, <4>6, Zenon
            <4>. QED
                BY <2>6, <4>6, <4>7
        <3>. QED
            BY <2>3, <3>1, <3>2 DEF ResultsFirst
    <2>. QED
        BY <1>1, <1>3, <2>2, <2>3, <2>4, <2>5, <2>6 DEF Renders
<1>. QED
    BY <1>2, <1>3

LEMMA TextsAreUnnamed ==
    ASSUME NEW c, Sequential(c)
    PROVE  Unnamed(Only(c, "text"))
BY OnlyIs DEF Unnamed, IsNamed

\* The calls of an assistant's message, the results of a user's, are all that
\* its message names.
LEMMA OnlyHolds ==
    ASSUME NEW m, Utterance(m), NEW type, type = IF m.role = "user" THEN "result" ELSE "call"
    PROVE  Holds(Only(m.content, type), m.content, Having(m.content, type))
<1>1. Part(Only(m.content, type), m.content, Having(m.content, type))
    BY OnlyIs DEF Utterance
<1>2. \A i \in 1..Len(m.content) : IsNamed(m.content[i]) => i \in Having(m.content, type)
    BY DEF Utterance, IsNamed, Having
<1>. QED
    BY <1>1, <1>2 DEF Holds, Having

LEMMA AnthropicRenders ==
    ASSUME NEW m, Utterance(m), m.role = "assistant" => AnthropicMessage(m)[1].content # <<>>
    PROVE  Renders(AnthropicMessage(m), m)
<1>. PICK c : c = m.content
    OBVIOUS
<1>0. Sequential(c) /\ (m.role = "user" => c # <<>>)
    BY DEF Utterance
<1>1. CASE m.role = "user"
    <2>. PICK R, t, s, none : R = Only(c, "result") /\ t = Only(c, "text") /\ s = R \o t /\ none = <<>>
        OBVIOUS
    <2>1. Holds(R, c, Having(c, "result")) /\ Sequential(R) /\ Sequential(t) /\ Unnamed(t)
        BY <1>0, <1>1, OnlyHolds, OnlyIs, TextsAreUnnamed
    <2>2. (none \o R) \o t = s /\ Sequential(none) /\ Len(none) = 0
        BY <2>1, Nothing
    <2>3. Row(s, none, R, t)
        BY <2>1, <2>2, Rows
    <2>4. Unnamed(none)
        BY <2>2 DEF Unnamed
    <2>5. s # <<>>
        <3>1. 1 \in 1..Len(c)
            BY <1>0, <1>1, NotEmpty
        <3>2. c[1].type \in {"text", "result"}
            BY <1>1, <3>1 DEF Utterance
        <3>3. R # <<>> \/ t # <<>>
            <4>1. 1 \in Having(c, "result") \/ 1 \in Having(c, "text")
                BY <3>1, <3>2 DEF Having
            <4>. QED
                BY <1>0, <4>1, OnlyIs
        <3>4. 1 \in 1..Len(R) \/ 1 \in 1..Len(t)
            BY <2>1, <3>3, NotEmpty
        <3>5. Len(s) = Len(R) + Len(t) /\ Len(R) \in Nat /\ Len(t) \in Nat
            BY <2>1, Joining, SequenceIs DEF Joins
        <3>6. Len(s) # 0
            BY <3>4, <3>5
        <3>. QED
            BY <3>6, Nothing
    <2>6. AnthropicMessage(m) = <<Wire(m.role, s)>>
        BY <1>1 DEF AnthropicMessage
    <2>7. \A i \in 1..Len(R) : R[i].type = "result"
        BY <1>0, OnlyIs
    <2>8. Renders(AnthropicMessage(m), m)
        <3>1. Holds(R, m.content, Having(c, "result"))
            BY <2>1
        <3>2. AnthropicMessage(m) = IF s = <<>> THEN <<>> ELSE <<Wire(m.role, s)>>
            BY <2>5, <2>6
        <3>3. m.role = "user" => Len(none) = 0 /\ \A i \in 1..Len(R) : R[i].type = "result"
            BY <2>2, <2>7, Zenon
        <3>4. Sequential(none) /\ Sequential(t) /\ Unnamed(none) /\ Unnamed(t) /\ Row(s, none, R, t)
            BY <2>1, <2>2, <2>3, <2>4
        <3>. QED
            BY <3>1, <3>2, <3>3, <3>4, OneMessage
    <2>. QED
        BY <2>8
<1>2. CASE m.role = "assistant"
    <2>. PICK R, X, none : R = Aloud(c) /\ X = {i \in 1..Len(c) : c[i].type # "reasoning"} /\ none = <<>>
        OBVIOUS
    <2>1. Holds(R, c, X) /\ Sequential(R)
        <3>1. Holds(R, c, X)
            BY <1>0, AloudIs
        <3>. QED
            BY <3>1 DEF Holds, Part
    <2>2. (none \o R) \o none = R /\ Sequential(none) /\ Len(none) = 0
        BY <2>1, Nothing
    <2>3. Row(R, none, R, none)
        BY <2>1, <2>2, Rows
    <2>4. Unnamed(none)
        BY <2>2 DEF Unnamed
    <2>. PICK w : w = Wire(m.role, R)
        OBVIOUS
    <2>5. AnthropicMessage(m) = <<w>>
        BY <1>2 DEF AnthropicMessage, Aloud
    <2>6. R # <<>>
        <3>1. <<w>>[1].content = R
            BY OneElement DEF Wire
        <3>. QED
            BY <1>2, <2>5, <3>1
    <2>7. Renders(AnthropicMessage(m), m)
        <3>1. Holds(R, m.content, X)
            BY <2>1
        <3>2. AnthropicMessage(m) = IF R = <<>> THEN <<>> ELSE <<Wire(m.role, R)>>
            BY <2>5, <2>6
        <3>3. m.role # "user"
            BY <1>2
        <3>. QED
            BY <2>1, <2>2, <2>3, <2>4, <3>1, <3>2, <3>3, OneMessage
    <2>. QED
        BY <2>7
<1>. QED
    BY <1>1, <1>2 DEF Utterance

\* At most one message, of texts only.
LEMMA QuietOne ==
    ASSUME NEW t, Sequential(t), Unnamed(t), NEW role,
           NEW u, u = IF t = <<>> THEN <<>> ELSE <<Wire(role, t)>>
    PROVE  Quiet(u)
<1>1. CASE t = <<>>
    <2>1. u = <<>> /\ Sequential(u) /\ Len(u) = 0
        BY <1>1, Nothing
    <2>. QED
        BY <2>1 DEF Quiet
<1>2. CASE t # <<>>
    <2>. PICK w : w = Wire(role, t)
        OBVIOUS
    <2>1. u = <<w>> /\ w.content = t
        BY <1>2 DEF Wire
    <2>2. Sequential(u) /\ Len(u) = 1 /\ u[1] = w
        BY <2>1, OneElement
    <2>3. \A j \in 1..Len(u) : u[j].content = t
        BY <2>1, <2>2
    <2>. QED
        BY <1>2, <2>2, <2>3 DEF Quiet
<1>. QED
    BY <1>1, <1>2

LEMMA QuietNone == Quiet(<<>>)
BY Nothing DEF Quiet

\* Results one by one, and then texts.
LEMMA ResultsThenTexts ==
    ASSUME NEW m, m.role = "user", NEW R, NEW X, Holds(R, m.content, X),
           \A i \in 1..Len(R) : R[i].type = "result",
           NEW role, NEW post, Quiet(post)
    PROVE  Renders(Each(R, role) \o post, m)
<1>. PICK rs, u, c : rs = Each(R, role) /\ u = rs \o post /\ c = m.content
    OBVIOUS
<1>1. Sequential(rs) /\ Sequential(post) /\ Sequential(<<>>) /\ Len(<<>>) = 0
    BY EachIs, Nothing DEF Holds, Part, Quiet
<1>2. (<<>> \o rs) \o post = u
    BY <1>1, Nothing
<1>3. Row(u, <<>>, Each(R, role), post)
    BY <1>1, <1>2, Rows
<1>. PICK b, e : b = Len(R) /\ e = Len(post)
    OBVIOUS
<1>. PICK none : none = <<>>
    OBVIOUS
<1>4. Lined(u, c, none, R, role, post)
    <2>1. Holds(R, c, X) /\ Quiet(none) /\ Row(u, none, Each(R, role), post)
        BY <1>3, QuietNone
    <2>. QED
        BY <2>1, OneByOne
<1>5. /\ \A j \in 1..Len(u) : \A i \in 1..Len(u[j].content) :
            IsNamed(u[j].content[i]) => i = 1 /\ j - 0 \in 1..b
      /\ \A k \in 1..b : u[0 + k] = Wire(role, <<R[k]>>)
      /\ Len(u) = 0 + b + e
    BY <1>1, <1>4, Zenon DEF Lined
<1>6. b \in Nat /\ e \in Nat
    BY SequenceIs DEF Holds, Part, Quiet
<1>7. ASSUME NEW k \in 1..b
      PROVE  Len(u[k].content) = 1 /\ u[k].content[1].type = "result" /\ IsResults(u[k])
    <2>. PICK x : x = R[k]
        OBVIOUS
    <2>1. 0 + k = k
        BY <1>6
    <2>2. u[k] = Wire(role, <<x>>) /\ x.type = "result"
        BY <1>5, <2>1, Zenon
    <2>3. Len(u[k].content) = 1 /\ u[k].content[1] = x /\ DOMAIN u[k].content = 1..1
        BY <2>2, OfOne
    <2>4. \A n \in DOMAIN u[k].content : n = 1
        BY <2>3
    <2>. QED
        BY <2>2, <2>3, <2>4 DEF IsResults
<1>8. ASSUME NEW j \in 1..Len(u), NEW i \in 1..Len(u[j].content), u[j].content[i].type = "result"
      PROVE  /\ \A k \in 1..Len(u) : k < j => IsResults(u[k])
             /\ \A k \in 1..i : u[j].content[k].type = "result"
    <2>1. i = 1 /\ j - 0 \in 1..b
        BY <1>5, <1>8 DEF IsNamed
    <2>2. j \in 1..b
        BY <1>5, <1>6, <2>1
    <2>3. \A k \in 1..Len(u) : k < j => k \in 1..b
        BY <1>5, <1>6, <2>2
    <2>4. \A k \in 1..i : k = 1
        BY <2>1
    <2>. QED
        BY <1>7, <2>2, <2>3, <2>4
<1>9. ResultsFirst(u)
    BY <1>8 DEF ResultsFirst
<1>. QED
    BY <1>4, <1>9 DEF Renders, Lined

\* Texts, and then calls one by one.
LEMMA TextsThenCalls ==
    ASSUME NEW m, m.role = "assistant", NEW R, NEW X, Holds(R, m.content, X),
           \A i \in 1..Len(R) : R[i].type = "call", NEW pre, Quiet(pre)
    PROVE  Renders(pre \o Each(R, "item"), m)
<1>. PICK rs, u, c : rs = Each(R, "item") /\ u = pre \o rs /\ c = m.content
    OBVIOUS
<1>1. Sequential(rs) /\ Sequential(pre) /\ Sequential(u) /\ Sequential(<<>>) /\ Len(<<>>) = 0
    BY EachIs, Nothing, Joining DEF Holds, Part, Quiet, Joins
<1>2. (pre \o rs) \o <<>> = u
    BY <1>1, Nothing
<1>3. Row(u, pre, Each(R, "item"), <<>>)
    BY <1>1, <1>2, Rows
<1>. PICK a, b : a = Len(pre) /\ b = Len(R)
    OBVIOUS
<1>. PICK none : none = <<>>
    OBVIOUS
<1>4. Lined(u, c, pre, R, "item", none)
    <2>1. Holds(R, c, X) /\ Quiet(none) /\ Row(u, pre, Each(R, "item"), none)
        BY <1>3, QuietNone
    <2>. QED
        BY <2>1, OneByOne
<1>5. /\ \A j \in 1..Len(u) : \A i \in 1..Len(u[j].content) :
            IsNamed(u[j].content[i]) => j - a \in 1..b
      /\ \A k \in 1..b : u[a + k] = Wire("item", <<R[k]>>)
      /\ Len(u) = a + b + 0
    BY <1>1, <1>4, Zenon DEF Lined
<1>6. a \in Nat /\ b \in Nat
    BY SequenceIs DEF Holds, Part, Quiet
<1>7. ASSUME NEW j \in 1..Len(u), NEW k \in 1..Len(u), j - a \in 1..b, j < k
      PROVE  IsCalls(u[k])
    <2>1. k - a \in 1..b /\ a + (k - a) = k
        BY <1>5, <1>6, <1>7
    <2>2. u[a + (k - a)] = Wire("item", <<R[k - a]>>)
        BY <1>5, <2>1, Zenon
    <2>. PICK x : x = R[k - a]
        OBVIOUS
    <2>3. u[k] = Wire("item", <<x>>) /\ x.type = "call"
        BY <2>1, <2>2, Zenon
    <2>4. u[k].role = "item" /\ u[k].content[1] = x /\ DOMAIN u[k].content = 1..1
        BY <2>3, OfOne
    <2>5. \A n \in DOMAIN u[k].content : n = 1
        BY <2>4
    <2>. QED
        BY <2>3, <2>4, <2>5 DEF IsCalls
<1>8. CallsLast(u)
    BY <1>5, <1>7 DEF CallsLast, IsNamed
<1>. QED
    BY <1>4, <1>8 DEF Renders, Lined

LEMMA JoinedIs ==
    ASSUME NEW c
    PROVE  /\ Sequential(Joined(c)) /\ Unnamed(Joined(c))
           /\ Joined(c) = <<>> <=> Only(c, "text") = <<>>
           /\ Only(c, "text") # <<>> => Joined(c) = <<Text>>
<1>1. Sequential(<<>>) /\ Unnamed(<<>>)
    BY Nothing DEF Unnamed
<1>. PICK t : t = Text
    OBVIOUS
<1>2. ~ IsNamed(t)
    BY DEF Text, Block, IsNamed
<1>3. Sequential(<<t>>) /\ <<t>> # <<>> /\ Len(<<t>>) = 1 /\ <<t>>[1] = t
    BY OneElement
<1>4. \A i \in 1..Len(<<t>>) : i = 1
    BY <1>3
<1>5. Unnamed(<<t>>)
    BY <1>2, <1>3, <1>4 DEF Unnamed
<1>. QED
    BY <1>1, <1>3, <1>5 DEF Joined

LEMMA ChatRenders ==
    ASSUME NEW m, Utterance(m)
    PROVE  Renders(ChatMessage(m), m)
<1>. PICK c : c = m.content
    OBVIOUS
<1>0. Sequential(c)
    BY DEF Utterance
<1>. PICK t : t = Joined(c)
    OBVIOUS
<1>1. CASE m.role = "user"
    <2>. PICK R : R = Only(c, "result")
        OBVIOUS
    <2>. PICK post : post = IF t = <<>> THEN <<>> ELSE <<Wire("user", t)>>
        OBVIOUS
    <2>1. Quiet(post)
        BY JoinedIs, QuietOne
    <2>2. Holds(R, m.content, Having(c, "result")) /\ \A i \in 1..Len(R) : R[i].type = "result"
        BY <1>0, <1>1, OnlyHolds, OnlyIs
    <2>3. post = IF Only(c, "text") = <<>> THEN <<>> ELSE <<Wire("user", <<Text>>)>>
        BY JoinedIs
    <2>4. ChatMessage(m) = Each(R, "tool") \o post
        BY <1>1, <2>3 DEF ChatMessage
    <2>5. Renders(Each(R, "tool") \o post, m)
        BY <1>1, <2>1, <2>2, ResultsThenTexts
    <2>. QED
        BY <2>4, <2>5
<1>2. CASE m.role = "assistant"
    <2>. PICK R, s, none : R = Only(c, "call") /\ s = t \o R /\ none = <<>>
        OBVIOUS
    <2>1. Holds(R, m.content, Having(c, "call")) /\ Sequential(R)
        BY <1>0, <1>2, OnlyHolds, OnlyIs
    <2>2. Sequential(t) /\ Unnamed(t) /\ Sequential(none) /\ Unnamed(none)
        BY JoinedIs, Nothing DEF Unnamed
    <2>3. (t \o R) \o none = s
        <3>1. Sequential(s)
            BY <2>1, <2>2, Joining DEF Joins
        <3>. QED
            BY <3>1, Nothing
    <2>4. Row(s, t, R, none)
        BY <2>1, <2>2, <2>3, Rows
    <2>5. ChatMessage(m) = IF s = <<>> THEN <<>> ELSE <<Wire(m.role, s)>>
        BY <1>2 DEF ChatMessage
    <2>6. m.role # "user"
        BY <1>2
    <2>7. Renders(ChatMessage(m), m)
        BY <2>1, <2>2, <2>4, <2>5, <2>6, OneMessage
    <2>. QED
        BY <2>7
<1>. QED
    BY <1>1, <1>2 DEF Utterance

\* The Codex backend is told the call's part of an id.
Short(b)     == Block(b.type, CallIdOf(b.id))
Shorts(s)    == [n \in DOMAIN s |-> Block(s[n].type, CallIdOf(s[n].id))]
Shortened(m) ==
    [role |-> m.role,
     content |-> [i \in DOMAIN m.content |->
                    IF IsNamed(m.content[i]) THEN Short(m.content[i]) ELSE m.content[i]]]

LEMMA ShortenedIs ==
    ASSUME NEW m, Sequential(m.content)
    PROVE  /\ Shortened(m).role = m.role
           /\ Sequential(Shortened(m).content) /\ Len(Shortened(m).content) = Len(m.content)
           /\ \A i \in 1..Len(m.content) :
                 /\ Shortened(m).content[i]
                      = IF IsNamed(m.content[i]) THEN Short(m.content[i]) ELSE m.content[i]
                 /\ IsNamed(Shortened(m).content[i]) <=> IsNamed(m.content[i])
           /\ Shortened(m).content = <<>> <=> m.content = <<>>
<1>. PICK c : c = m.content
    OBVIOUS
<1>. PICK n \in Nat : n = Len(c) /\ DOMAIN c = 1..n
    BY SequenceIs
<1>. PICK s : s = [i \in 1..n |-> IF IsNamed(c[i]) THEN Short(c[i]) ELSE c[i]]
    OBVIOUS
<1>1. Shortened(m).role = m.role /\ Shortened(m).content = s
    BY DEF Shortened
<1>2. s = [i \in 1..n |-> s[i]] /\ \A i \in 1..n : s[i] = IF IsNamed(c[i]) THEN Short(c[i]) ELSE c[i]
    OBVIOUS
<1>3. Sequential(s) /\ Len(s) = n
    BY <1>2, FunctionIsSequence
<1>4. \A b : IsNamed(Short(b)) <=> IsNamed(b)
    BY DEF IsNamed, Short, Block
<1>5. \A i \in 1..n : IsNamed(s[i]) <=> IsNamed(c[i])
    BY <1>2, <1>4
<1>6. s = <<>> <=> c = <<>>
    <2>1. s = <<>> => n = 0
        BY <1>3, Nothing
    <2>2. c = <<>> => n = 0
        BY Nothing
    <2>3. n = 0 => 1 \notin 1..n
        OBVIOUS
    <2>. QED
        BY <1>3, <2>1, <2>2, <2>3, NotEmpty
<1>. QED
    BY <1>1, <1>2, <1>3, <1>5, <1>6

LEMMA ShortsHold ==
    ASSUME NEW m, Utterance(m), NEW type, type = IF m.role = "user" THEN "result" ELSE "call"
    PROVE  /\ Holds(Shorts(Only(m.content, type)), Shortened(m).content, Having(m.content, type))
           /\ \A i \in 1..Len(Shorts(Only(m.content, type))) :
                 Shorts(Only(m.content, type))[i].type = type
<1>. PICK c, R, X, d : c = m.content /\ R = Only(c, type) /\ X = Having(c, type) /\ d = Shortened(m).content
    OBVIOUS
<1>1. Sequential(c)
    BY DEF Utterance
<1>2. Holds(R, c, X)
    BY OnlyHolds
<1>3. Sequential(R) /\ \A i \in 1..Len(R) : R[i].type = type
    BY <1>1, OnlyIs
<1>. PICK n \in Nat : n = Len(R) /\ DOMAIN R = 1..n
    BY <1>3, SequenceIs
<1>. PICK s : s = [i \in 1..n |-> Block(R[i].type, CallIdOf(R[i].id))]
    OBVIOUS
<1>4. s = Shorts(R)
    BY DEF Shorts
<1>5. s = [i \in 1..n |-> s[i]] /\ \A i \in 1..n : s[i] = Short(R[i])
    BY DEF Short
<1>6. Sequential(s) /\ Len(s) = n
    BY <1>5, FunctionIsSequence
<1>7. PICK p : /\ p \in [1..n -> X]
               /\ \A i, j \in 1..n : p[i] = p[j] => i = j
               /\ \A x \in X : \E i \in 1..n : p[i] = x
               /\ \A i \in 1..n : R[i] = c[p[i]]
    BY <1>2 DEF Holds, Part
<1>8. /\ Len(d) = Len(c)
      /\ \A i \in 1..Len(c) : /\ d[i] = IF IsNamed(c[i]) THEN Short(c[i]) ELSE c[i]
                              /\ IsNamed(d[i]) <=> IsNamed(c[i])
    BY <1>1, ShortenedIs
<1>9. ASSUME NEW i \in 1..n PROVE s[i] = d[p[i]] /\ s[i].type = type
    <2>1. p[i] \in 1..Len(c) /\ c[p[i]] = R[i] /\ R[i].type = type
        BY <1>2, <1>3, <1>7 DEF Holds
    <2>2. IsNamed(c[p[i]])
        BY <2>1 DEF IsNamed
    <2>3. d[p[i]] = Short(R[i])
        BY <1>8, <2>1, <2>2
    <2>4. Short(R[i]).type = type
        BY <2>1 DEF Short, Block
    <2>. QED
        BY <1>5, <2>3, <2>4
<1>10. Part(s, d, X)
    BY <1>6, <1>7, <1>9 DEF Part
<1>11. Holds(s, d, X)
    BY <1>2, <1>8, <1>10 DEF Holds
<1>. QED
    BY <1>4, <1>6, <1>9, <1>11

LEMMA CodexRenders ==
    ASSUME NEW m, Utterance(m)
    PROVE  Renders(CodexMessage(m), Shortened(m))
<1>. PICK c, g, t : c = m.content /\ g = Shortened(m) /\ t = Only(c, "text")
    OBVIOUS
<1>. PICK message : message = IF t = <<>> THEN <<>> ELSE <<Wire(m.role, t)>>
    OBVIOUS
<1>0. Sequential(c) /\ g.role = m.role
    BY ShortenedIs DEF Utterance
<1>1. Quiet(message)
    BY <1>0, OnlyIs, TextsAreUnnamed, QuietOne
<1>2. CASE m.role = "user"
    <2>. PICK R, X : R = Shorts(Only(c, "result")) /\ X = Having(c, "result")
        OBVIOUS
    <2>1. Holds(R, g.content, X) /\ \A i \in 1..Len(R) : R[i].type = "result"
        BY <1>2, ShortsHold
    <2>2. CodexMessage(m) = Each(R, "item") \o message
        BY <1>2 DEF CodexMessage, Shorts
    <2>3. Renders(Each(R, "item") \o message, g)
        BY <1>0, <1>1, <1>2, <2>1, ResultsThenTexts
    <2>. QED
        BY <2>2, <2>3
<1>3. CASE m.role = "assistant"
    <2>. PICK R, X : R = Shorts(Only(c, "call")) /\ X = Having(c, "call")
        OBVIOUS
    <2>1. Holds(R, g.content, X) /\ \A i \in 1..Len(R) : R[i].type = "call"
        BY <1>3, ShortsHold
    <2>2. CodexMessage(m) = message \o Each(R, "item")
        BY <1>3 DEF CodexMessage, Shorts
    <2>3. Renders(message \o Each(R, "item"), g)
        BY <1>0, <1>1, <1>3, <2>1, TextsThenCalls
    <2>. QED
        BY <2>2, <2>3
<1>. QED
    BY <1>2, <1>3 DEF Utterance

-----------------------------------------------------------------------------
(* What each protocol makes of a transcript.                               *)

Transcript(h) ==
    /\ Sequential(h) /\ DOMAIN h = 1..Len(h) /\ Len(h) \in Nat
    /\ \A n \in 1..Len(h) : Utterance(h[n])

LEMMA PairedIsTranscript ==
    ASSUME NEW h, Paired(h)
    PROVE  Transcript(h)
BY BlockTypes DEF Transcript, Utterance

Keeps(wire, h) ==
    WellFormed(wire) /\ Len(CallsAndResults(BlocksOf(wire))) = Len(CallsAndResults(BlocksOf(h)))

\* g is the transcript h, with the ids the backend is told.
LEMMA Rendered ==
    ASSUME NEW h, Transcript(h), NEW g, Sound(g), Len(g) = Len(h),
           NamedIn(Contents(g)) = NamedIn(Contents(h)),
           NEW W, Sequential(W), Len(W) = Len(h), \A n \in 1..Len(h) : Renders(W[n], g[n])
    PROVE  Keeps(FlattenSeq(W), h)
<1>. PICK wire : wire = FlattenSeq(W)
    OBVIOUS
<1>. PICK k : k = Len(h)
    OBVIOUS
<1>1. Sequential(wire) /\ (\A n \in DOMAIN wire : wire[n].content # <<>>) /\ CallsAnswered(wire)
    BY RenderingAnswers
<1>2. PICK H : Homing(H, BlocksOf(wire), Contents(g))
    <2>1. Sequential(g) /\ \A n \in 1..Len(g) : Sequential(g[n].content)
        BY DEF Sound
    <2>. QED
        BY <2>1, RenderingIsHoming
<1>3. IsInjective(CallsAndResults(BlocksOf(wire))) /\ ResultsAsked(wire)
    BY <1>2, HomingKeepsOrder DEF ResultsAsked
<1>4. WellFormed(wire)
    BY <1>1, <1>3 DEF WellFormed, NothingTwice
<1>. PICK hc : hc = Contents(h)
    OBVIOUS
<1>5. Sequential(hc) /\ \A n \in 1..Len(hc) : Sequential(hc[n])
    BY ContentsAre DEF Transcript, Utterance
<1>6. PICK G : Homing(G, FlattenSeq(hc), hc)
    BY <1>5, HomeAtHome
<1>7. BlocksOf(h) = FlattenSeq(hc)
    BY DEF BlocksOf, Contents
<1>8. Len(CallsAndResults(BlocksOf(h))) = Cardinality(NamedIn(hc))
    BY <1>6, <1>7, HomesCount
<1>9. Len(CallsAndResults(BlocksOf(wire))) = Cardinality(NamedIn(hc))
    BY <1>2, HomesCount
<1>. QED
    BY <1>4, <1>8, <1>9, Zenon DEF Keeps

Shortenings(h) == [n \in DOMAIN h |-> Shortened(h[n])]

LEMMA ShorteningsAre ==
    ASSUME NEW h, Transcript(h)
    PROVE  /\ Sequential(Shortenings(h)) /\ Len(Shortenings(h)) = Len(h)
           /\ \A n \in 1..Len(h) : Shortenings(h)[n] = Shortened(h[n])
<1>. PICK k \in Nat : k = Len(h) /\ DOMAIN h = 1..k
    BY DEF Transcript
<1>. PICK g : g = [n \in 1..k |-> Shortened(h[n])]
    OBVIOUS
<1>1. g = Shortenings(h)
    BY DEF Shortenings
<1>2. g = [n \in 1..k |-> g[n]] /\ \A n \in 1..k : g[n] = Shortened(h[n])
    OBVIOUS
<1>3. Sequential(g) /\ Len(g) = k
    BY <1>2, FunctionIsSequence
<1>. QED
    BY <1>1, <1>2, <1>3

LEMMA ShortIsSound ==
    ASSUME NEW h, Paired(h)
    PROVE  Sound(Shortenings(h)) /\ NamedIn(Contents(Shortenings(h))) = NamedIn(Contents(h))
<1>. PICK g, hc, gc : g = Shortenings(h) /\ hc = Contents(h) /\ gc = Contents(g)
    OBVIOUS
<1>. PICK k \in Nat : k = Len(h)
    BY BlockTypes
<1>1. Transcript(h) /\ Sound(h)
    BY PairedIsTranscript, PairedIsSound
<1>2. Sequential(g) /\ Len(g) = k /\ \A n \in 1..k : g[n] = Shortened(h[n])
    BY <1>1, ShorteningsAre
<1>3. ASSUME NEW n \in 1..k
      PROVE  /\ g[n].role = h[n].role /\ h[n].role \in {"user", "assistant"}
             /\ Sequential(g[n].content)
             /\ Len(g[n].content) = Len(h[n].content)
             /\ \A i \in 1..Len(h[n].content) :
                   /\ g[n].content[i]
                        = IF IsNamed(h[n].content[i]) THEN Short(h[n].content[i]) ELSE h[n].content[i]
                   /\ IsNamed(g[n].content[i]) <=> IsNamed(h[n].content[i])
    <2>1. Utterance(h[n])
        BY <1>1 DEF Transcript
    <2>2. Sequential(h[n].content) /\ h[n].role \in {"user", "assistant"}
        BY <2>1 DEF Utterance
    <2>. QED
        BY <1>2, <2>2, ShortenedIs
<1>4. /\ Sequential(hc) /\ Len(hc) = k /\ \A n \in 1..k : hc[n] = h[n].content /\ Sequential(hc[n])
    BY <1>1, ContentsAre DEF Transcript, Utterance
<1>5. /\ Sequential(gc) /\ Len(gc) = k /\ \A n \in 1..k : gc[n] = g[n].content
    BY <1>2, ContentsAre
<1>6. \A x : x \in Places(gc) <=> x \in Places(hc)
    BY <1>3, <1>4, <1>5 DEF Places
<1>7. ASSUME NEW x \in Places(hc)
      PROVE  /\ IsNamed(gc[x[1]][x[2]]) <=> IsNamed(hc[x[1]][x[2]])
             /\ IsNamed(hc[x[1]][x[2]]) => gc[x[1]][x[2]] = Short(hc[x[1]][x[2]])
    <2>. PICK n, i : n = x[1] /\ i = x[2]
        OBVIOUS
    <2>1. n \in 1..k /\ i \in 1..Len(hc[n])
        BY <1>4, PlaceIs
    <2>2. hc[n] = h[n].content /\ gc[n] = g[n].content
        BY <1>4, <1>5, <2>1
    <2>3. i \in 1..Len(h[n].content)
        BY <2>1, <2>2
    <2>. QED
        BY <1>3, <2>1, <2>2, <2>3
<1>8. NamedIn(gc) = NamedIn(hc)
    BY <1>6, <1>7 DEF NamedIn
<1>9. ASSUME NEW x \in NamedIn(hc)
      PROVE  /\ gc[x[1]][x[2]] = Short(hc[x[1]][x[2]])
             /\ x[1] \in 1..k /\ x[2] \in 1..Len(h[x[1]].content)
             /\ hc[x[1]][x[2]] = h[x[1]].content[x[2]] /\ IsNamed(h[x[1]].content[x[2]])
             /\ x = <<x[1], x[2]>>
    <2>1. x \in Places(hc) /\ IsNamed(hc[x[1]][x[2]])
        BY DEF NamedIn
    <2>2. x = <<x[1], x[2]>> /\ x[1] \in 1..k /\ x[2] \in 1..Len(hc[x[1]])
        BY <1>4, <2>1, PlaceIs
    <2>3. hc[x[1]] = h[x[1]].content
        BY <1>4, <2>2
    <2>. QED
        BY <1>7, <2>1, <2>2, <2>3
<1>10. ASSUME NEW type, NEW id
       PROVE  /\ Block(type, id).type = type /\ Block(type, id).id = id
              /\ Short(Block(type, id)) = Block(type, CallIdOf(id))
    BY DEF Block, Short
<1>11. ASSUME NEW x \in NamedIn(hc), NEW b, b = gc[x[1]][x[2]]
       PROVE  /\ b = Block(b.type, b.id)
              /\ b.type = "call" => /\ g[x[1]].role = "assistant" /\ x[1] < Len(g)
                                    /\ g[x[1] + 1].role = "user"
                                    /\ \E y \in NamedIn(gc) : y[1] = x[1] + 1
                                         /\ gc[y[1]][y[2]] = Block("result", b.id)
              /\ b.type = "result" => /\ g[x[1]].role = "user"
                                      /\ \E y \in NamedIn(gc) : y[1] = x[1] - 1
                                           /\ gc[y[1]][y[2]] = Block("call", b.id)
    <2>. PICK a : a = hc[x[1]][x[2]]
        OBVIOUS
    <2>1. b = Short(a)
        BY <1>9, <1>11
    <2>2. b.type = a.type /\ b.id = CallIdOf(a.id) /\ b = Block(b.type, b.id)
        BY <2>1 DEF Short, Block
    <2>3. x[1] \in 1..k
        BY <1>9
    <2>4. ASSUME b.type = "call"
          PROVE  /\ g[x[1]].role = "assistant" /\ x[1] < Len(g)
                 /\ g[x[1] + 1].role = "user"
                 /\ \E y \in NamedIn(gc) : y[1] = x[1] + 1 /\ gc[y[1]][y[2]] = Block("result", b.id)
        <3>1. /\ h[x[1]].role = "assistant" /\ x[1] < Len(h) /\ h[x[1] + 1].role = "user"
              /\ \E y \in NamedIn(hc) : y[1] = x[1] + 1 /\ hc[y[1]][y[2]] = Block("result", a.id)
            BY <1>1, <2>2, <2>4 DEF Sound
        <3>2. PICK y \in NamedIn(hc) : y[1] = x[1] + 1 /\ hc[y[1]][y[2]] = Block("result", a.id)
            BY <3>1
        <3>3. gc[y[1]][y[2]] = Block("result", b.id)
            BY <1>9, <1>10, <2>2, <3>2
        <3>4. x[1] + 1 \in 1..k
            BY <2>3, <3>1
        <3>. QED
            BY <1>2, <1>3, <1>8, <2>3, <3>1, <3>2, <3>3, <3>4
    <2>5. ASSUME b.type = "result"
          PROVE  /\ g[x[1]].role = "user"
                 /\ \E y \in NamedIn(gc) : y[1] = x[1] - 1 /\ gc[y[1]][y[2]] = Block("call", b.id)
        <3>1. /\ h[x[1]].role = "user"
              /\ \E y \in NamedIn(hc) : y[1] = x[1] - 1 /\ hc[y[1]][y[2]] = Block("call", a.id)
            BY <1>1, <2>2, <2>5 DEF Sound
        <3>2. PICK y \in NamedIn(hc) : y[1] = x[1] - 1 /\ hc[y[1]][y[2]] = Block("call", a.id)
            BY <3>1
        <3>3. gc[y[1]][y[2]] = Block("call", b.id)
            BY <1>9, <1>10, <2>2, <3>2
        <3>. QED
            BY <1>3, <1>8, <2>3, <3>1, <3>2, <3>3
    <2>. QED
        BY <2>2, <2>4, <2>5
<1>12. ASSUME NEW x \in NamedIn(hc), NEW y \in NamedIn(hc), gc[x[1]][x[2]] = gc[y[1]][y[2]]
       PROVE  x = y
    <2>. PICK a, b : a = h[x[1]].content[x[2]] /\ b = h[y[1]].content[y[2]]
        OBVIOUS
    <2>1. Short(a) = Short(b)
        BY <1>9, <1>12
    <2>2. a.type = b.type /\ Head(a.id) = Head(b.id)
        <3>1. a.type = b.type /\ CallIdOf(a.id) = CallIdOf(b.id)
            BY <2>1 DEF Short, Block
        <3>2. <<Head(a.id)>>[1] = <<Head(b.id)>>[1]
            BY <3>1 DEF CallIdOf
        <3>. QED
            BY <3>1, <3>2
    <2>3. x[1] \in DOMAIN h /\ y[1] \in DOMAIN h /\ x[2] \in DOMAIN h[x[1]].content
          /\ y[2] \in DOMAIN h[y[1]].content
        BY <1>9, BlockTypes
    <2>4. a.type \in {"call", "result"}
        BY <1>9 DEF IsNamed
    <2>5. x[1] = y[1] /\ x[2] = y[2]
        <3>1. \A m, n \in DOMAIN h : \A i \in DOMAIN h[m].content, j \in DOMAIN h[n].content :
                 /\ h[m].content[i].type = h[n].content[j].type
                 /\ h[m].content[i].type \in {"call", "result"}
                 /\ Head(h[m].content[i].id) = Head(h[n].content[j].id)
                 => m = n /\ i = j
            BY Zenon DEF Paired
        <3>2. /\ h[x[1]].content[x[2]].type = h[y[1]].content[y[2]].type
              /\ h[x[1]].content[x[2]].type \in {"call", "result"}
              /\ Head(h[x[1]].content[x[2]].id) = Head(h[y[1]].content[y[2]].id)
            BY <2>2, <2>4, Zenon
        <3>. QED
            BY <2>3, <3>1, <3>2, Zenon
    <2>. QED
        BY <1>9, <2>5
<1>13. Sound(g)
    <2>1. Contents(g) = gc
        OBVIOUS
    <2>2. \A n \in 1..Len(g) : /\ Sequential(g[n].content)
                               /\ g[n].role \in {"user", "assistant"}
        BY <1>2, <1>3
    <2>. QED
        BY <1>2, <1>8, <1>11, <1>12, <2>1, <2>2 DEF Sound
<1>. QED
    BY <1>8, <1>13

LEMMA AnthropicKeeps ==
    ASSUME NEW h, Paired(h), ~ LowerAnthropic(h).refused
    PROVE  Keeps(LowerAnthropic(h).wire, h)
<1>. PICK W : W = [n \in DOMAIN h |-> AnthropicMessage(h[n])]
    OBVIOUS
<1>1. Transcript(h) /\ Sound(h)
    BY PairedIsTranscript, PairedIsSound
<1>. PICK k \in Nat : k = Len(h) /\ DOMAIN h = 1..k
    BY <1>1 DEF Transcript
<1>2. Sequential(W) /\ Len(W) = k /\ \A n \in 1..k : W[n] = AnthropicMessage(h[n])
    <2>1. W = [n \in 1..k |-> W[n]] /\ \A n \in 1..k : W[n] = AnthropicMessage(h[n])
        OBVIOUS
    <2>. QED
        BY <2>1, FunctionIsSequence
<1>3. LowerAnthropic(h) = Sent(FlattenSeq(W))
      /\ \A n \in 1..k : h[n].role = "assistant" => AnthropicMessage(h[n])[1].content # <<>>
    <2>1. Refusal.refused
        BY DEF Refusal
    <2>. QED
        BY <2>1 DEF LowerAnthropic, LowerAll
<1>4. LowerAnthropic(h).wire = FlattenSeq(W)
    BY <1>3 DEF Sent
<1>5. \A n \in 1..k : Renders(W[n], h[n])
    BY <1>1, <1>2, <1>3, AnthropicRenders DEF Transcript
<1>6. Keeps(FlattenSeq(W), h)
    BY <1>1, <1>2, <1>5, Rendered
<1>. QED
    BY <1>4, <1>6

LEMMA AnthropicRefuses ==
    ASSUME NEW h, Paired(h), LowerAnthropic(h).refused
    PROVE  h = <<>> \/ \E n \in DOMAIN h : SaysNothing(h[n])
<1>. SUFFICES ASSUME h # <<>> PROVE \E n \in DOMAIN h : SaysNothing(h[n])
    OBVIOUS
<1>1. PICK n \in DOMAIN h :
        h[n].role = "assistant" /\ (h[n].content = <<>> \/ AnthropicMessage(h[n])[1].content = <<>>)
    <2>1. h[1].role = "user" /\ \A n \in DOMAIN h : h[n].role = "user" => h[n].content # <<>>
        BY DEF Paired
    <2>2. \A n \in DOMAIN h : h[n].role \in {"user", "assistant"}
        BY BlockTypes
    <2>. PICK wire : wire = LowerAll(AnthropicMessage, h)
        OBVIOUS
    <2>3. ~ Sent(wire).refused
        BY DEF Sent
    <2>. QED
        BY <2>1, <2>2, <2>3 DEF LowerAnthropic
<1>. PICK c, X, R : c = h[n].content /\ R = Aloud(c) /\ X = {i \in 1..Len(c) : c[i].type # "reasoning"}
    OBVIOUS
<1>2. Sequential(c) /\ DOMAIN c = 1..Len(c)
    BY BlockTypes
<1>3. \A i \in 1..Len(c) : c[i].type = "reasoning"
    <2>1. CASE c = <<>>
        BY <2>1, Nothing
    <2>2. CASE AnthropicMessage(h[n])[1].content = <<>>
        <3>. PICK w : w = Wire(h[n].role, R)
            OBVIOUS
        <3>1. AnthropicMessage(h[n]) = <<w>>
            BY <1>1 DEF AnthropicMessage, Aloud
        <3>2. <<w>>[1].content = R
            BY OneElement DEF Wire
        <3>3. R = <<>>
            BY <2>2, <3>1, <3>2
        <3>4. Part(R, c, X)
            BY <1>2, AloudIs DEF Holds
        <3>5. \A x \in X : \E i \in 1..Len(R) : TRUE
            BY <3>4 DEF Part
        <3>6. \A i \in 1..Len(R) : FALSE
            BY <3>3, Nothing
        <3>. QED
            BY <3>5, <3>6
    <2>. QED
        BY <1>1, <2>1, <2>2
<1>. QED
    BY <1>1, <1>2, <1>3 DEF SaysNothing, Range

LEMMA ChatKeeps ==
    ASSUME NEW h, Paired(h)
    PROVE  ~ LowerChat(h).refused /\ Keeps(LowerChat(h).wire, h)
<1>. PICK W : W = [n \in DOMAIN h |-> ChatMessage(h[n])]
    OBVIOUS
<1>1. Transcript(h) /\ Sound(h)
    BY PairedIsTranscript, PairedIsSound
<1>. PICK k \in Nat : k = Len(h) /\ DOMAIN h = 1..k
    BY <1>1 DEF Transcript
<1>2. Sequential(W) /\ Len(W) = k /\ \A n \in 1..k : W[n] = ChatMessage(h[n])
    <2>1. W = [n \in 1..k |-> W[n]] /\ \A n \in 1..k : W[n] = ChatMessage(h[n])
        OBVIOUS
    <2>. QED
        BY <2>1, FunctionIsSequence
<1>3. ~ LowerChat(h).refused /\ LowerChat(h).wire = FlattenSeq(W)
    BY DEF LowerChat, LowerAll, Sent
<1>4. \A n \in 1..k : Renders(W[n], h[n])
    BY <1>1, <1>2, ChatRenders DEF Transcript
<1>5. Keeps(FlattenSeq(W), h)
    BY <1>1, <1>2, <1>4, Rendered
<1>. QED
    BY <1>3, <1>5

LEMMA CodexKeeps ==
    ASSUME NEW h, Paired(h)
    PROVE  ~ LowerCodex(h).refused /\ Keeps(LowerCodex(h).wire, h)
<1>. PICK W, g : W = [n \in DOMAIN h |-> CodexMessage(h[n])] /\ g = Shortenings(h)
    OBVIOUS
<1>1. Transcript(h) /\ Sound(g) /\ NamedIn(Contents(g)) = NamedIn(Contents(h))
    BY PairedIsTranscript, ShortIsSound
<1>. PICK k \in Nat : k = Len(h) /\ DOMAIN h = 1..k
    BY <1>1 DEF Transcript
<1>2. Sequential(W) /\ Len(W) = k /\ \A n \in 1..k : W[n] = CodexMessage(h[n])
    <2>1. W = [n \in 1..k |-> W[n]] /\ \A n \in 1..k : W[n] = CodexMessage(h[n])
        OBVIOUS
    <2>. QED
        BY <2>1, FunctionIsSequence
<1>3. ~ LowerCodex(h).refused /\ LowerCodex(h).wire = FlattenSeq(W)
    BY DEF LowerCodex, LowerAll, Sent
<1>4. Len(g) = k /\ \A n \in 1..k : g[n] = Shortened(h[n])
    BY <1>1, ShorteningsAre
<1>5. \A n \in 1..k : Renders(W[n], g[n])
    BY <1>1, <1>2, <1>4, CodexRenders DEF Transcript
<1>6. Keeps(FlattenSeq(W), h)
    BY <1>1, <1>2, <1>4, <1>5, Rendered
<1>. QED
    BY <1>3, <1>6
=============================================================================
