----------------------------- MODULE Frames_proofs -----------------------------
(***************************************************************************)
(* Proofs about Frames, for any streams of the gateway, sizes, codes and   *)
(* numbers of connections: as long as no connection was torn, the decoder  *)
(* stands where a frame begins, whatever the reads were, and what the user *)
(* was told are the frames with content before it, in order.               *)
(*                                                                         *)
(* A stream is a FlattenSeq of the answer and the frames, with each frame  *)
(* at its place.                                                           *)
(***************************************************************************)
EXTENDS Frames, SequenceTheorems, WellFoundedInduction, TLAPS

(***************************************************************************)
(* What FlattenSeq makes of the parts of a stream: each of them at its     *)
(* place. Its definition chooses a function that grows by one part after   *)
(* the other; what holds of each of its values is shown with an induction  *)
(* over a set, from a least counterexample.                                *)
(***************************************************************************)
\* Induction over the natural numbers, for a set.
LEMMA SetInduction ==
  ASSUME NEW T, 0 \in T, \A n \in Nat : n \in T => n + 1 \in T
  PROVE  Nat \subseteq T
<1> DEFINE Others == Nat \ T
<1> SUFFICES ASSUME Others # {} PROVE FALSE
  OBVIOUS
<1>1. PICK n \in Others : \A m \in Others : ~ (<<m, n>> \in OpToRel(<, Nat))
  <2>1. Others \subseteq Nat
    OBVIOUS
  <2> HIDE DEF Others
  <2> QED BY <2>1, NatLessThanWellFounded, WFMin
<1>2. \A m \in Others : ~(m < n)
  BY <1>1 DEF OpToRel
<1>3. n \in Nat /\ n # 0
  OBVIOUS
<1>4. n - 1 \in Nat /\ n - 1 < n /\ (n - 1) + 1 = n
  BY <1>3
<1>5. n - 1 \in T
  BY <1>2, <1>4
<1> QED
  BY <1>4, <1>5

\* The sequence that begins with s[1] and grows by one after the other.
Grown(s, m, g) == g = [i \in 1..m |-> IF i = 1 THEN s[i] ELSE g[i - 1] \o s[i]]

\* What it is at a place, and after the first.
LEMMA GrownAt ==
  ASSUME NEW s, NEW m \in Nat, NEW g, Grown(s, m, g), NEW i \in 1..m
  PROVE  g[i] = IF i = 1 THEN s[i] ELSE g[i - 1] \o s[i]
<1> DEFINE G == [j \in 1..m |-> IF j = 1 THEN s[j] ELSE g[j - 1] \o s[j]]
<1>1. g = G
  BY DEF Grown
<1>2. G[i] = IF i = 1 THEN s[i] ELSE g[i - 1] \o s[i]
  OBVIOUS
<1> QED
  <2> HIDE DEF G
  <2> QED BY <1>1, <1>2

LEMMA GrownNext ==
  ASSUME NEW s, NEW m \in Nat, NEW g, Grown(s, m, g), NEW i \in 1..m, i # 1
  PROVE  g[i] = g[i - 1] \o s[i]
<1> DEFINE G == [j \in 1..m |-> IF j = 1 THEN s[j] ELSE g[j - 1] \o s[j]]
<1>1. g = G
  BY DEF Grown
<1>2. G[i] = g[i - 1] \o s[i]
  OBVIOUS
<1> QED
  <2> HIDE DEF G
  <2> QED BY <1>1, <1>2

\* There is one for every length.
LEMMA GrownExists ==
  ASSUME NEW s, NEW n \in Nat PROVE \E g : Grown(s, n, g)
<1> DEFINE T == {m \in Nat : \E g : Grown(s, m, g)}
<1>1. 0 \in T
  <2>1. Grown(s, 0, [i \in 1..0 |-> s])
    BY DEF Grown
  <2> QED BY <2>1
<1>2. ASSUME NEW m \in Nat, m \in T PROVE m + 1 \in T
  <2>1. PICK g : Grown(s, m, g)
    BY <1>2
  <2> DEFINE h == [i \in 1..(m + 1) |->
                     IF i <= m THEN g[i] ELSE IF i = 1 THEN s[i] ELSE g[m] \o s[i]]
  <2>2. ASSUME NEW i \in 1..(m + 1)
        PROVE  h[i] = IF i = 1 THEN s[i] ELSE h[i - 1] \o s[i]
    <3>1. CASE i <= m
      <4>1. g[i] = IF i = 1 THEN s[i] ELSE g[i - 1] \o s[i]
        BY <2>1, <3>1, GrownAt
      <4> QED BY <3>1, <4>1
    <3>2. CASE i = m + 1 /\ i # 1
      <4>1. i - 1 = m /\ i - 1 \in 1..(m + 1) /\ ~(i <= m)
        BY <3>2
      <4>2. h[i - 1] = g[m]
        BY <4>1
      <4> QED BY <3>2, <4>1, <4>2
    <3>3. CASE i = m + 1 /\ i = 1
      BY <3>3
    <3> QED BY <3>1, <3>2, <3>3
  <2>3. Grown(s, m + 1, h)
    <3>1. h = [i \in 1..(m + 1) |-> h[i]]
      OBVIOUS
    <3> HIDE DEF h
    <3> QED BY <2>2, <3>1, Zenon DEF Grown
  <2> QED BY <2>3
<1>3. Nat \subseteq T
  <2> HIDE DEF T
  <2> QED BY <1>1, <1>2, SetInduction
<1> QED
  BY <1>3

\* FlattenSeq chooses such a sequence and takes its last element.
LEMMA FlattenIs ==
  ASSUME NEW s, NEW n \in Nat \ {0}, Len(s) = n
  PROVE  \E g : Grown(s, n, g) /\ FlattenSeq(s) = g[n]
<1> DEFINE f == CHOOSE g : Grown(s, n, g)
<1>1. Grown(s, n, f)
  BY GrownExists
<1>2. FlattenSeq(s) = f[n]
  BY DEF FlattenSeq, Grown
<1> QED
  BY <1>1, <1>2

\* A sequence and what follows it.
LEMMA ConcatExtends ==
  ASSUME NEW S, NEW a \in Seq(S), NEW b \in Seq(S), NEW c, c = a \o b
  PROVE  /\ c \in Seq(S) /\ Len(c) = Len(a) + Len(b)
         /\ Len(a) <= Len(c) /\ \A j \in 1..Len(a) : c[j] = a[j]
         /\ \A j \in 1..Len(b) : c[Len(a) + j] = b[j]
  OBVIOUS

\* To begin with what another begins with.
LEMMA AgreeTransitive ==
  ASSUME NEW a, NEW b, NEW c, Len(a) \in Nat, Len(b) \in Nat, Len(c) \in Nat,
         Len(a) <= Len(b), Len(b) <= Len(c),
         \A j \in 1..Len(b) : c[j] = b[j], \A j \in 1..Len(a) : b[j] = a[j]
  PROVE  Len(a) <= Len(c) /\ \A j \in 1..Len(a) : c[j] = a[j]
<1> DEFINE m == Len(a)  n == Len(b)  l == Len(c)
<1>1. /\ m \in Nat /\ n \in Nat /\ l \in Nat /\ m <= n /\ n <= l
      /\ \A j \in 1..n : c[j] = b[j] /\ \A i \in 1..m : b[i] = a[i]
  OBVIOUS
<1>2. m <= l /\ \A j \in 1..m : c[j] = a[j]
  <2> HIDE DEF m, n, l
  <2>1. \A j \in 1..m : j \in 1..n
    BY <1>1
  <2> QED BY <1>1, <2>1
<1> QED
  BY <1>2

\* g[i] is what FlattenSeq(s) begins with: the first i parts.
Beginnings(g, s, n, S) ==
  /\ g \in [1..n -> Seq(S)]
  /\ g[1] = s[1] /\ FlattenSeq(s) = g[n]
  /\ \A i \in 2..n : g[i] = g[i - 1] \o s[i]
  /\ \A i \in 1..n : \A j \in 1..Len(g[i]) : Len(g[i]) <= Len(g[n]) /\ g[n][j] = g[i][j]

\* A flattened sequence has each of its prefixes, and so each part at its place.
LEMMA Flattened ==
  ASSUME NEW S, NEW n \in Nat \ {0}, NEW s \in Seq(Seq(S)), Len(s) = n
  PROVE  \E g : Beginnings(g, s, n, S)
<1>1. PICK g : Grown(s, n, g) /\ FlattenSeq(s) = g[n]
  BY FlattenIs
<1>2. \A i \in 1..n : s[i] \in Seq(S)
  OBVIOUS
<1> DEFINE T == {m \in Nat : m + 1 \in 1..n => g[m + 1] \in Seq(S)}
<1>3. Nat \subseteq T
  <2>1. 0 \in T
    BY <1>1, <1>2, GrownAt
  <2>2. ASSUME NEW m \in Nat, m \in T PROVE m + 1 \in T
    <3> SUFFICES ASSUME (m + 1) + 1 \in 1..n PROVE g[(m + 1) + 1] \in Seq(S)
      OBVIOUS
    <3>1. g[m + 1] \in Seq(S)
      BY <2>2
    <3>2. PICK i \in 1..n : i = (m + 1) + 1 /\ i # 1 /\ i - 1 = m + 1
      OBVIOUS
    <3>3. g[i] = g[i - 1] \o s[i]
      BY <1>1, <3>2, GrownNext
    <3> QED
      BY <1>2, <3>1, <3>2, <3>3
  <2> HIDE DEF T
  <2> QED BY <2>1, <2>2, SetInduction
<1>4. \A i \in 1..n : g[i] \in Seq(S)
  <2> SUFFICES ASSUME NEW i \in 1..n PROVE g[i] \in Seq(S)
    OBVIOUS
  <2>1. i - 1 \in Nat /\ (i - 1) + 1 = i
    OBVIOUS
  <2>2. i - 1 \in T
    BY <1>3, <2>1, Zenon
  <2> QED BY <2>1, <2>2
<1>5. g \in [1..n -> Seq(S)]
  BY <1>1, <1>4, Zenon DEF Grown
<1>6. \A i \in 2..n : g[i] = g[i - 1] \o s[i]
  <2> SUFFICES ASSUME NEW i \in 2..n PROVE g[i] = g[i - 1] \o s[i]
    OBVIOUS
  <2>1. i \in 1..n /\ i # 1
    OBVIOUS
  <2> QED BY <1>1, <2>1, GrownNext
<1> DEFINE U == {m \in Nat : m < n => /\ Len(g[n - m]) <= Len(g[n])
                                     /\ \A j \in 1..Len(g[n - m]) : g[n][j] = g[n - m][j]}
<1>7. Nat \subseteq U
  <2>1. 0 \in U
    <3>1. n - 0 = n /\ Len(g[n]) \in Nat
      BY <1>4
    <3> QED BY <3>1
  <2>2. ASSUME NEW m \in Nat, m \in U PROVE m + 1 \in U
    <3> SUFFICES ASSUME m + 1 < n
                 PROVE  /\ Len(g[n - (m + 1)]) <= Len(g[n])
                        /\ \A j \in 1..Len(g[n - (m + 1)]) : g[n][j] = g[n - (m + 1)][j]
      OBVIOUS
    <3>1. PICK i \in 1..n : i = n - (m + 1) /\ i + 1 = n - m
      OBVIOUS
    <3>2. g[i + 1] = g[i] \o s[i + 1]
      <4>1. i + 1 \in 2..n /\ (i + 1) - 1 = i
        BY <3>1
      <4> QED BY <4>1, <1>6
    <3>3. g[i] \in Seq(S) /\ s[i + 1] \in Seq(S) /\ g[n] \in Seq(S)
      BY <1>2, <1>4, <3>1
    <3>4. Len(g[i + 1]) <= Len(g[n]) /\ \A j \in 1..Len(g[i + 1]) : g[n][j] = g[i + 1][j]
      BY <2>2, <3>1
    <3>5. Len(g[i]) <= Len(g[i + 1]) /\ \A j \in 1..Len(g[i]) : g[i + 1][j] = g[i][j]
      <4> DEFINE a == g[i]  b == s[i + 1]  c == g[i + 1]
      <4>1. a \in Seq(S) /\ b \in Seq(S) /\ c = a \o b
        BY <3>2, <3>3
      <4>2. Len(a) <= Len(c) /\ \A j \in 1..Len(a) : c[j] = a[j]
        <5> HIDE DEF a, b, c
        <5> QED BY <4>1, ConcatExtends
      <4> QED BY <4>2
    <3>6. Len(g[i]) \in Nat /\ Len(g[i + 1]) \in Nat /\ Len(g[n]) \in Nat
      <4>1. g[i + 1] \in Seq(S)
        BY <3>2, <3>3, ConcatExtends, Zenon
      <4> QED BY <3>3, <4>1, LenProperties, Zenon
    <3>7. Len(g[i]) <= Len(g[n]) /\ \A j \in 1..Len(g[i]) : g[n][j] = g[i][j]
      <4> DEFINE a == g[i]  c == g[i + 1]  e == g[n]
      <4>1. Len(a) \in Nat /\ Len(c) \in Nat /\ Len(e) \in Nat /\ Len(a) <= Len(c) /\ Len(c) <= Len(e)
        BY <3>4, <3>5, <3>6
      <4>2. \A j \in 1..Len(c) : e[j] = c[j]
        BY <3>4
      <4>3. \A j \in 1..Len(a) : c[j] = a[j]
        BY <3>5
      <4>4. Len(a) <= Len(e) /\ \A j \in 1..Len(a) : e[j] = a[j]
        <5> HIDE DEF a, c, e
        <5> QED BY <4>1, <4>2, <4>3, AgreeTransitive
      <4> QED BY <4>4
    <3> HIDE DEF T, U
    <3> QED
      BY <3>1, <3>7
  <2> HIDE DEF U
  <2> QED BY <2>1, <2>2, SetInduction
<1>8. \A i \in 1..n : \A j \in 1..Len(g[i]) : Len(g[i]) <= Len(g[n]) /\ g[n][j] = g[i][j]
  <2> SUFFICES ASSUME NEW i \in 1..n
               PROVE  Len(g[i]) <= Len(g[n]) /\ \A j \in 1..Len(g[i]) : g[n][j] = g[i][j]
    OBVIOUS
  <2>1. n - i \in Nat /\ n - (n - i) = i /\ n - i < n
    OBVIOUS
  <2>2. n - i \in U
    BY <1>7, <2>1, Zenon
  <2> QED BY <2>1, <2>2
<1>9. g[1] = s[1]
  BY <1>1, GrownAt
<1> HIDE DEF T, U
<1> QED
  BY <1>1, <1>5, <1>6, <1>8, <1>9 DEF Beginnings

(***************************************************************************)
(* The stream of a connection.                                             *)
(***************************************************************************)
\* the bytes of a connection and of those before it
Bytes(c, p) == (1..c) \X (0..Len(p)) \X Nat

FrameSize(h) == h.head + h.size
FrameOf(p, c, k) == [i \in 1..FrameSize(p[k]) |-> <<c, k, i>>]
AnswerOf(c, a) == [i \in 1..a |-> <<c, 0, i>>]
PartsOf(p, c, a) == <<AnswerOf(c, a)>> \o [k \in DOMAIN p |-> FrameOf(p, c, k)]
StreamOf(p, c, a) == FlattenSeq(PartsOf(p, c, a))

\* start[k] bytes come before frame k.
Cuts(start, p, c, a) ==
  /\ start \in [1..(Len(p) + 1) -> Nat] /\ start[1] = a
  /\ \A k \in 1..Len(p) : /\ start[k + 1] = start[k] + FrameSize(p[k])
                          /\ \A i \in 1..FrameSize(p[k]) :
                               StreamOf(p, c, a)[start[k] + i] = <<c, k, i>>
  /\ \A i \in 1..a : StreamOf(p, c, a)[i] = <<c, 0, i>>
  /\ Len(StreamOf(p, c, a)) = start[Len(p) + 1]
  /\ \A k \in 1..(Len(p) + 1) : start[k] <= Len(StreamOf(p, c, a))

LEMMA HeadersHaveSizes ==
  ASSUME NEW h \in Headers PROVE h.head \in Nat /\ h.size \in Nat /\ h.head >= 2 /\ FrameSize(h) \in Nat
<1>1. HeadSizes \subseteq Nat \ {0, 1} /\ PayloadSizes \subseteq Nat
  BY FramesAssumption
<1>2. h.head \in HeadSizes /\ h.size \in PayloadSizes
  BY DEF Headers
<1>3. h.head \in Nat \ {0, 1} /\ h.size \in Nat
  BY <1>1, <1>2
<1> HIDE DEF Headers
<1> QED
  BY <1>3 DEF FrameSize

LEMMA PartsAre ==
  ASSUME NEW p \in Seq(Headers), NEW c \in Nat \ {0}, NEW a \in Nat
  PROVE  \E s :
         /\ s = PartsOf(p, c, a)
         /\ s \in Seq(Seq(Bytes(c, p))) /\ Len(s) = Len(p) + 1
         /\ s[1] = AnswerOf(c, a) /\ Len(s[1]) = a
         /\ \A k \in 1..Len(p) : s[k + 1] = FrameOf(p, c, k) /\ Len(s[k + 1]) = FrameSize(p[k])
<1> DEFINE B == Bytes(c, p)  t == [k \in DOMAIN p |-> FrameOf(p, c, k)]  s == PartsOf(p, c, a)
<1>1. AnswerOf(c, a) \in Seq(B) /\ Len(AnswerOf(c, a)) = a
  BY DEF AnswerOf, Bytes
<1>2. ASSUME NEW k \in 1..Len(p)
      PROVE  FrameOf(p, c, k) \in Seq(B) /\ Len(FrameOf(p, c, k)) = FrameSize(p[k])
  <2>1. FrameSize(p[k]) \in Nat
    BY HeadersHaveSizes
  <2> QED BY <2>1 DEF FrameOf, Bytes
<1>3. t \in Seq(Seq(B)) /\ Len(t) = Len(p) /\ \A k \in 1..Len(p) : t[k] = FrameOf(p, c, k)
  BY <1>2
<1>4. <<AnswerOf(c, a)>> \in Seq(Seq(B)) /\ Len(<<AnswerOf(c, a)>>) = 1
  BY <1>1
<1>5. s = <<AnswerOf(c, a)>> \o t
  BY DEF PartsOf
<1> HIDE DEF B, t, s
<1>6. /\ s \in Seq(Seq(B)) /\ Len(s) = 1 + Len(t)
      /\ \A j \in 1..1 : s[j] = <<AnswerOf(c, a)>>[j]
      /\ \A k \in 1..Len(t) : s[1 + k] = t[k]
  BY <1>3, <1>4, <1>5, ConcatExtends
<1>7. s[1] = AnswerOf(c, a)
  BY <1>6
<1>8. ASSUME NEW k \in 1..Len(p) PROVE s[k + 1] = FrameOf(p, c, k)
  <2>1. k \in 1..Len(t) /\ k + 1 = 1 + k
    BY <1>3
  <2> QED BY <1>3, <1>6, <2>1
<1>9. Len(s) = Len(p) + 1
  BY <1>3, <1>6
<1>10. s \in Seq(Seq(Bytes(c, p))) /\ s = PartsOf(p, c, a)
  BY <1>6 DEF B, s
<1> QED
  BY <1>1, <1>2, <1>7, <1>8, <1>9, <1>10, Zenon

\* The stream consists of bytes of the connection, each frame at its place.
LEMMA CutsExist ==
  ASSUME NEW p \in Seq(Headers), NEW c \in Nat \ {0}, NEW a \in Nat
  PROVE  /\ StreamOf(p, c, a) \in Seq(Bytes(c, p))
         /\ \E start : Cuts(start, p, c, a)
<1> DEFINE n == Len(p) + 1  S == Bytes(c, p)  stream == StreamOf(p, c, a)
<1>0. n \in Nat \ {0}
  OBVIOUS
<1>1. PICK s :
      /\ s = PartsOf(p, c, a)
      /\ s \in Seq(Seq(Bytes(c, p))) /\ Len(s) = Len(p) + 1
      /\ s[1] = AnswerOf(c, a) /\ Len(s[1]) = a
      /\ \A k \in 1..Len(p) : s[k + 1] = FrameOf(p, c, k) /\ Len(s[k + 1]) = FrameSize(p[k])
  BY PartsAre, Zenon
<1>2. s \in Seq(Seq(S)) /\ Len(s) = n /\ \A j \in 1..n : s[j] \in Seq(S)
  BY <1>1
<1>21. PICK g : Beginnings(g, s, n, S)
  <2> HIDE DEF n, S
  <2> QED BY <1>0, <1>2, Flattened, Zenon
<1>22. /\ g \in [1..n -> Seq(S)]
       /\ g[1] = s[1] /\ FlattenSeq(s) = g[n]
       /\ \A i \in 2..n : g[i] = g[i - 1] \o s[i]
       /\ \A i \in 1..n : \A j \in 1..Len(g[i]) : Len(g[i]) <= Len(g[n]) /\ g[n][j] = g[i][j]
  BY <1>21 DEF Beginnings
<1>3. stream = g[n] /\ stream \in Seq(S)
  <2>1. n \in 1..n
    OBVIOUS
  <2> HIDE DEF n, S
  <2> QED BY <1>1, <1>22, <2>1 DEF StreamOf
<1> DEFINE start == [k \in 1..n |-> Len(g[k])]
<1>4. start \in [1..n -> Nat] /\ start[1] = a /\ Len(stream) = start[n]
  BY <1>1, <1>22, <1>3
<1>5. \A k \in 1..n : start[k] <= Len(stream)
  <2> SUFFICES ASSUME NEW k \in 1..n PROVE start[k] <= Len(stream)
    OBVIOUS
  <2>1. start[k] \in Nat /\ Len(stream) \in Nat /\ start[k] = Len(g[k])
    BY <1>3, <1>4
  <2>2. CASE start[k] = 0
    BY <2>1, <2>2
  <2>3. CASE start[k] # 0
    <3>1. 1 \in 1..Len(g[k])
      BY <2>1, <2>3
    <3> QED BY <1>22, <1>3, <2>1, <3>1
  <2> QED BY <2>2, <2>3
<1>6. ASSUME NEW k \in 1..Len(p)
      PROVE  /\ start[k + 1] = start[k] + FrameSize(p[k])
             /\ \A i \in 1..FrameSize(p[k]) : stream[start[k] + i] = <<c, k, i>>
  <2> DEFINE x == g[k]  y == s[k + 1]  z == g[k + 1]
  <2>0. k \in 1..n /\ k + 1 \in 1..n /\ k + 1 \in 2..n /\ (k + 1) - 1 = k
    OBVIOUS
  <2>1. x \in Seq(S) /\ y \in Seq(S) /\ z = x \o y
    <3> HIDE DEF n, S
    <3> QED BY <1>2, <1>22, <2>0
  <2>2. Len(z) = Len(x) + Len(y) /\ \A j \in 1..Len(y) : z[Len(x) + j] = y[j]
    <3> HIDE DEF x, y, z
    <3> QED BY <2>1, ConcatExtends
  <2>3. y = FrameOf(p, c, k) /\ Len(y) = FrameSize(p[k]) /\ FrameSize(p[k]) \in Nat
    BY <1>1, HeadersHaveSizes
  <2>4. start[k + 1] = Len(z) /\ start[k] = Len(x) /\ Len(x) \in Nat
    <3>1. Len(x) \in Nat
      <4> HIDE DEF x
      <4> QED BY <2>1, LenProperties, Zenon
    <3> QED BY <2>0, <3>1
  <2>5. ASSUME NEW i \in 1..FrameSize(p[k]) PROVE stream[start[k] + i] = <<c, k, i>>
    <3>1. start[k] + i \in 1..Len(z)
      BY <2>2, <2>3, <2>4
    <3>2. stream[start[k] + i] = z[start[k] + i]
      BY <1>22, <1>3, <2>0, <3>1
    <3>3. z[start[k] + i] = y[i]
      BY <2>2, <2>3, <2>4
    <3> QED BY <2>3, <3>2, <3>3 DEF FrameOf
  <2> QED BY <2>2, <2>3, <2>4, <2>5
<1>7. ASSUME NEW i \in 1..a PROVE stream[i] = <<c, 0, i>>
  <2>1. stream[i] = g[1][i]
    <3>1. 1 \in 1..n /\ i \in 1..Len(g[1])
      BY <1>1, <1>22
    <3> HIDE DEF n, S, stream
    <3> QED BY <1>22, <1>3, <3>1
  <2> QED BY <1>1, <1>22, <2>1 DEF AnswerOf
<1>8. Cuts(start, p, c, a)
  <2> HIDE DEF start
  <2> QED BY <1>4, <1>5, <1>6, <1>7 DEF Cuts
<1> QED
  BY <1>3, <1>8

AnswerSize == IF code = 101 THEN 2 ELSE 3

LEMMA StreamIs == /\ Stream = StreamOf(plan, connection, AnswerSize)
                  /\ Stream' = StreamOf(plan', connection', AnswerSize')
                  /\ Answer = AnswerOf(connection, AnswerSize) /\ Len(Answer) = AnswerSize
                  /\ (Len(Answer))' = AnswerSize'
  BY DEF Stream, StreamOf, PartsOf, AnswerOf, FrameOf, FrameSize, Answer, Item, Frame, AnswerSize

(***************************************************************************)
(* The invariant.                                                          *)
(***************************************************************************)
FramesTyped ==
  /\ plan \in Plans /\ connection \in Nat \ {0}
  /\ sent \in 0..Len(Stream) /\ read \in 0..sent
  /\ buffer \in Seq(Bytes(connection, plan)) /\ events \in Seq(Bytes(connection, plan))
  /\ rStatus \in {"HeadSize", "HeadBody", "ContentBody"} /\ wsType \in Headers
  /\ phase \in {"gateway", "frames", "closed"} /\ at \in {"idle", "parse", "again"}
  /\ tries \in 0..MaxTryAgain /\ eLoop \in BOOLEAN /\ torn \in BOOLEAN
  /\ at # "idle" => buffer # <<>>
  /\ phase = "gateway" => at = "idle"

\* The events of this connection are the frames with content before frame k.
EventsAre(k) ==
  /\ \A i \in DOMAIN events : events[i][1] = connection => events[i][2] < k
  /\ \A j \in 1..(k - 1) :
       Useful(plan[j]) => \E m \in DOMAIN events : events[m] = <<connection, j, 1>>

\* The buffer begins where frame k does.
AtCut(start, k) ==
  /\ k \in 1..(Len(plan) + 1)
  /\ start[k] + Len(buffer) = read
  /\ \A i \in 1..Len(buffer) : buffer[i] = Stream[start[k] + i]
  /\ rStatus # "HeadSize" => buffer # <<>> /\ wsType = plan[k] /\ wsType.op # "pong"
  /\ EventsAre(k)

InFrames == \E start, k : Cuts(start, plan, connection, AnswerSize) /\ AtCut(start, k)

Untorn ==
  ~torn =>
    /\ FramesInOrder
    /\ phase # "frames" => at = "idle" /\ rStatus = "HeadSize"
    /\ phase = "gateway" => sent <= AnswerSize /\ \A i \in DOMAIN events : events[i][1] # connection
    /\ phase = "frames" => code = 101 /\ InFrames

FramesInv == FramesTyped /\ Untorn

\* A pong of the gateway has the shortest header and no payload.
PongsAreBare == \A p \in Plans : \A k \in DOMAIN p :
                  p[k].op = "pong" => p[k].head = 2 /\ p[k].size = 0

(***************************************************************************)
(* Types.                                                                  *)
(***************************************************************************)
LEMMA PlanIs ==
  ASSUME plan \in Plans
  PROVE  /\ plan \in Seq(Headers) /\ Len(plan) \in Nat /\ DOMAIN plan = 1..Len(plan)
         /\ \A k \in 1..Len(plan) : plan[k] \in Headers
         /\ \A k \in 1..Len(plan) : plan[k].op = "close" => k = Len(plan)
<1>1. /\ plan \in Seq(Headers)
      /\ \A k \in DOMAIN plan : plan[k].op = "close" => k = Len(plan)
  BY FramesAssumption, Zenon
<1>2. Len(plan) \in Nat /\ DOMAIN plan = 1..Len(plan) /\ \A k \in 1..Len(plan) : plan[k] \in Headers
  <2> HIDE DEF Headers
  <2> QED BY <1>1
<1> QED
  BY <1>1, <1>2, Zenon

LEMMA StreamTyped ==
  ASSUME plan \in Plans, connection \in Nat \ {0}
  PROVE  /\ Stream \in Seq(Bytes(connection, plan)) /\ Len(Stream) \in Nat
         /\ \A i \in 1..Len(Stream) : Stream[i] \in Bytes(connection, plan)
         /\ \E start : Cuts(start, plan, connection, AnswerSize)
<1>1. AnswerSize \in Nat
  BY DEF AnswerSize
<1>2. /\ Stream \in Seq(Bytes(connection, plan))
      /\ \E start : Cuts(start, plan, connection, AnswerSize)
  BY <1>1, CutsExist, StreamIs, PlanIs, Zenon
<1>3. /\ Len(Stream) \in Nat
      /\ \A i \in 1..Len(Stream) : Stream[i] \in Bytes(connection, plan)
  BY <1>2, LenProperties, ElementOfSeq, Zenon
<1> QED
  BY <1>2, <1>3

\* The stream is that of the connection.
LEMMA StreamKept ==
  ASSUME UNCHANGED <<plan, code, connection>>
  PROVE  /\ Stream' = Stream /\ AnswerSize' = AnswerSize
         /\ Bytes(connection, plan)' = Bytes(connection, plan)
         /\ \A start : Cuts(start, plan, connection, AnswerSize)'
                       <=> Cuts(start, plan, connection, AnswerSize)
  BY StreamIs DEF AnswerSize, Bytes, Cuts

LEMMA PieceOf ==
  ASSUME NEW S, NEW s \in Seq(S), NEW m \in Nat, NEW n \in Nat, m + n <= Len(s),
         NEW t, t = SubSeq(s, m + 1, m + n)
  PROVE  t \in Seq(S) /\ Len(t) = n /\ \A i \in 1..n : t[i] = s[m + i]
<1>1. \A i \in (m + 1)..(m + n) : s[i] \in S
  OBVIOUS
<1> QED
  BY <1>1

\* What is left of a sequence from place m + 1 on.
LEMMA RestOf ==
  ASSUME NEW S, NEW s \in Seq(S), NEW m \in Nat, NEW t, t = SubSeq(s, m + 1, Len(s))
  PROVE  /\ t \in Seq(S) /\ Len(t) = IF m <= Len(s) THEN Len(s) - m ELSE 0
         /\ \A i \in 1..Len(t) : t[i] = s[m + i]
<1>1. \A i \in (m + 1)..Len(s) : s[i] \in S
  OBVIOUS
<1> QED
  BY <1>1

\* nlsReceive puts the next bytes of the stream behind the buffer.
LEMMA ReceiveIs ==
  ASSUME FramesTyped, NEW n \in 0..(sent - read), Receive(n)
  PROVE  /\ buffer' \in Seq(Bytes(connection, plan)) /\ Len(buffer') = Len(buffer) + n
         /\ read' = read + n /\ read' \in 0..sent
         /\ \A i \in 1..Len(buffer) : buffer'[i] = buffer[i]
         /\ \A i \in 1..n : buffer'[Len(buffer) + i] = Stream[read + i]
         /\ n # 0 \/ buffer # <<>> => buffer' # <<>>
<1> DEFINE B == Bytes(connection, plan)  s == Stream  piece == SubSeq(Stream, read + 1, read + n)
           old == buffer  new == buffer'
<1>1. /\ sent \in 0..Len(s) /\ read \in 0..sent /\ Len(s) \in Nat /\ old \in Seq(B)
      /\ read + n <= Len(s) /\ read + n \in 0..sent /\ n \in Nat /\ read \in Nat /\ s \in Seq(B)
  BY StreamTyped DEF FramesTyped
<1>2. new = old \o piece /\ read' = read + n
  BY DEF Receive, Piece
<1>3. piece \in Seq(B) /\ Len(piece) = n /\ \A i \in 1..n : piece[i] = s[read + i]
  <2>1. piece = SubSeq(s, read + 1, read + n)
    OBVIOUS
  <2> HIDE DEF B, s, piece
  <2> QED BY <1>1, <2>1, PieceOf
<1> HIDE DEF B, s, piece, old, new
<1>4. /\ new \in Seq(B) /\ Len(new) = Len(old) + Len(piece)
      /\ \A i \in 1..Len(old) : new[i] = old[i]
      /\ \A i \in 1..Len(piece) : new[Len(old) + i] = piece[i]
  BY <1>1, <1>2, <1>3, ConcatExtends
<1>5. n # 0 \/ old # <<>> => new # <<>>
  BY <1>1, <1>3, <1>4
<1>6. \A i \in 1..n : new[Len(old) + i] = s[read + i]
  BY <1>3, <1>4
<1> QED
  BY <1>1, <1>2, <1>3, <1>4, <1>5, <1>6 DEF B, s, old, new

LEMMA DecodedTyped ==
  ASSUME FramesTyped, at # "idle"
  PROVE  Decoded \subseteq Headers
<1>1. buffer # <<>> /\ buffer \in Seq(Bytes(connection, plan)) /\ 1 \in DOMAIN buffer
  BY DEF FramesTyped
<1>2. buffer[1] \in Bytes(connection, plan)
  BY <1>1
<1>3. AtFrame => buffer[1][2] \in 1..Len(plan)
  <2>1. Len(plan) \in Nat
    BY PlanIs DEF FramesTyped
  <2> QED BY <1>2, <2>1 DEF Bytes, AtFrame
<1>4. AtFrame => plan[buffer[1][2]] \in Headers
  BY <1>3, PlanIs, Zenon DEF FramesTyped
<1>5. wsType \in Headers
  BY DEF FramesTyped
<1> QED
  BY <1>4, <1>5, Zenon DEF Decoded, HeadersHere

\* Where neither the stream nor what was read of it changes.
LEMMA TypedKept ==
  ASSUME FramesTyped, UNCHANGED <<plan, code, connection, sent, read>>,
         buffer' \in Seq(Bytes(connection, plan)), events' \in Seq(Bytes(connection, plan)),
         rStatus' \in {"HeadSize", "HeadBody", "ContentBody"}, wsType' \in Headers,
         phase' \in {"gateway", "frames", "closed"}, at' \in {"idle", "parse", "again"},
         tries' \in 0..MaxTryAgain, eLoop' \in BOOLEAN, torn' \in BOOLEAN,
         at' # "idle" => buffer' # <<>>, phase' = "gateway" => at' = "idle"
  PROVE  FramesTyped'
<1>1. Stream' = Stream /\ Bytes(connection, plan)' = Bytes(connection, plan)
  BY StreamKept
<1> HIDE DEF Headers
<1> QED
  BY <1>1, Zenon DEF FramesTyped

LEMMA TypedReceive ==
  ASSUME FramesTyped, NEW n \in 0..(sent - read), Receive(n),
         UNCHANGED <<plan, code, connection, sent, decoder, events>>,
         phase' \in {"gateway", "frames", "closed"}, at' \in {"idle", "parse", "again"},
         tries' \in 0..MaxTryAgain, eLoop' \in BOOLEAN, torn' \in BOOLEAN,
         n # 0 \/ buffer # <<>> \/ at' = "idle", phase' = "gateway" => at' = "idle"
  PROVE  FramesTyped'
<1>1. /\ buffer' \in Seq(Bytes(connection, plan)) /\ read' \in 0..sent
      /\ n # 0 \/ buffer # <<>> => buffer' # <<>>
  BY ReceiveIs
<1>2. Stream' = Stream /\ Bytes(connection, plan)' = Bytes(connection, plan)
  BY StreamKept
<1> HIDE DEF Headers
<1> QED
  BY <1>1, <1>2, Zenon DEF FramesTyped, decoder

\* What is left when a frame is drained.
LEMMA DrainedIs ==
  ASSUME FramesTyped, NEW h \in Headers, buffer' = Drained(h)
  PROVE  /\ buffer' \in Seq(Bytes(connection, plan))
         /\ Len(buffer') = IF h.head + Length(h) <= Len(buffer)
                           THEN Len(buffer) - (h.head + Length(h)) ELSE 0
         /\ \A i \in 1..Len(buffer') : buffer'[i] = buffer[(h.head + Length(h)) + i]
<1> DEFINE B == Bytes(connection, plan)  m == h.head + Length(h)  old == buffer  new == buffer'
<1>1. m \in Nat
  BY HeadersHaveSizes DEF Length
<1>2. new = SubSeq(old, m + 1, Len(old)) /\ old \in Seq(B)
  BY DEF Drained, FramesTyped
<1> HIDE DEF B, m, old, new
<1>3. /\ new \in Seq(B) /\ Len(new) = IF m <= Len(old) THEN Len(old) - m ELSE 0
      /\ \A i \in 1..Len(new) : new[i] = old[m + i]
  BY <1>1, <1>2, RestOf
<1> QED
  BY <1>3, Zenon DEF B, m, old, new

LEMMA SendableIs ==
  ASSUME FramesTyped PROVE Sendable \in 0..Len(Stream) /\ (phase = "gateway" => Sendable = AnswerSize)
<1>1. PICK start : Cuts(start, plan, connection, AnswerSize)
  BY StreamTyped, Zenon DEF FramesTyped
<1>2. start[1] = AnswerSize /\ start[1] <= Len(Stream)
  <2>1. Len(plan) \in Nat
    BY PlanIs DEF FramesTyped
  <2>2. 1 \in 1..(Len(plan) + 1)
    BY <2>1
  <2> QED BY <1>1, <2>2, StreamIs DEF Cuts
<1>3. Len(Stream) \in Nat
  BY StreamTyped DEF FramesTyped
<1>4. Len(Answer) = AnswerSize /\ AnswerSize \in Nat
  BY StreamIs DEF AnswerSize
<1>5. CASE code = 101 /\ phase = "frames"
  BY <1>3, <1>5 DEF Sendable
<1>6. CASE ~(code = 101 /\ phase = "frames")
  <2>1. Sendable = Len(Answer)
    BY <1>6, Zenon DEF Sendable
  <2> QED BY <1>2, <1>3, <1>4, <1>6, <2>1
<1> QED
  BY <1>5, <1>6, Zenon

LEMMA TypedInit == Init => FramesTyped
<1> SUFFICES ASSUME Init PROVE FramesTyped
  OBVIOUS
<1>1. plan \in Plans /\ connection = 1 /\ MaxTryAgain \in Nat
  BY FramesAssumption DEF Init
<1>2. Len(Stream) \in Nat
  BY <1>1, StreamTyped
<1>3. wsType \in Headers
  <2>1. 2 \in HeadSizes /\ 0 \in PayloadSizes
    BY FramesAssumption
  <2> QED BY <2>1 DEF Init, Headers, Ops
<1>4. /\ sent \in 0..Len(Stream) /\ read \in 0..sent /\ connection \in Nat \ {0}
      /\ tries \in 0..MaxTryAgain
  BY <1>1, <1>2 DEF Init
<1>5. buffer \in Seq(Bytes(connection, plan)) /\ events \in Seq(Bytes(connection, plan))
  BY DEF Init
<1> HIDE DEF Headers
<1> QED
  BY <1>1, <1>3, <1>4, <1>5, Zenon DEF Init, FramesTyped

LEMMA TypedSend ==
  ASSUME FramesTyped, NEW n \in 1..(Sendable - sent), Send(n)
  PROVE  FramesTyped'
<1>1. Stream' = Stream /\ Bytes(connection, plan)' = Bytes(connection, plan)
  BY StreamKept DEF Send
<1>2. sent' = sent + n /\ Sendable \in 0..Len(Stream) /\ Len(Stream) \in Nat
  BY SendableIs, StreamTyped DEF Send, FramesTyped
<1>3. sent' \in 0..Len(Stream) /\ read \in 0..sent'
  BY <1>2 DEF FramesTyped
<1> HIDE DEF Headers
<1> QED
  BY <1>1, <1>3, Zenon DEF FramesTyped, Send, decoder, response

LEMMA TypedGateway ==
  ASSUME FramesTyped, NEW n \in 1..(sent - read),
         GatewayMore(n) \/ GatewayUpgrade(n) \/ GatewayRefuse(n)
  PROVE  FramesTyped'
<1>0. n \in 0..(sent - read) /\ n # 0
  OBVIOUS
<1>1. CASE GatewayMore(n)
  <2>1. UNCHANGED <<phase, at, tries, eLoop, torn>>
    BY <1>1 DEF GatewayMore, response
  <2> QED
    BY <1>0, <1>1, <2>1, TypedReceive, Zenon DEF GatewayMore, FramesTyped
<1>2. CASE GatewayUpgrade(n)
  <2>1. Stream' = Stream /\ Bytes(connection, plan)' = Bytes(connection, plan)
    BY <1>2, StreamKept DEF GatewayUpgrade
  <2>2. read' = read + n /\ sent' = sent /\ read' \in 0..sent'
    BY <1>2 DEF GatewayUpgrade, FramesTyped
  <2>3. buffer' = <<>> /\ buffer' \in Seq(Bytes(connection, plan)) /\ torn' \in BOOLEAN
    BY <1>2 DEF GatewayUpgrade, FramesTyped
  <2>4. at' = "idle" /\ phase' = "frames"
    BY <1>2 DEF GatewayUpgrade, FramesTyped, response
  <2> HIDE DEF Headers
  <2> QED
    BY <1>2, <2>1, <2>2, <2>3, <2>4, Zenon DEF FramesTyped, GatewayUpgrade, decoder, response
<1>3. CASE GatewayRefuse(n)
  <2>1. phase' = "closed" /\ at' = "idle" /\ tries' = tries /\ eLoop' = eLoop /\ torn' = TRUE
    BY <1>3 DEF GatewayRefuse, Close
  <2> QED
    BY <1>0, <1>3, <2>1, TypedReceive, Zenon DEF GatewayRefuse, FramesTyped
<1> QED
  BY <1>1, <1>2, <1>3

LEMMA TypedReading ==
  ASSUME FramesTyped, NEW n \in 1..(sent - read), ReadEvent(n)
  PROVE  FramesTyped'
<1>1. n \in 0..(sent - read) /\ n # 0
  OBVIOUS
<1>2. MaxTryAgain \in 0..MaxTryAgain
  <2>1. MaxTryAgain \in Nat
    BY FramesAssumption
  <2> QED BY <2>1
<1>3. at' = "parse" /\ tries' = MaxTryAgain /\ eLoop' = FALSE /\ phase' = phase /\ phase = "frames"
  BY DEF ReadEvent
<1> QED
  BY <1>1, <1>2, <1>3, TypedReceive, Zenon DEF ReadEvent, FramesTyped

LEMMA TypedRetrying ==
  ASSUME FramesTyped, NEW n \in 0..(sent - read), Again(n)
  PROVE  FramesTyped'
<1>1. buffer # <<>> /\ phase # "gateway"
  BY DEF Again, FramesTyped
<1>2. at' \in {"parse", "idle"} /\ UNCHANGED <<phase, tries, eLoop, torn>>
  BY DEF Again
<1> QED
  BY <1>1, <1>2, TypedReceive, Zenon DEF Again, FramesTyped

LEMMA TypedParsing ==
  ASSUME FramesTyped, Parsing
  PROVE  FramesTyped'
<1>0. /\ at = "parse" /\ buffer # <<>> /\ phase # "gateway" /\ Decoded \subseteq Headers
      /\ MaxTryAgain \in Nat /\ tries \in 0..MaxTryAgain
  <2>1. at = "parse"
    BY DEF Parsing, Short, More, Whole, Fails
  <2>2. MaxTryAgain \in Nat
    BY FramesAssumption
  <2> QED BY <2>1, <2>2, DecodedTyped DEF FramesTyped
<1>1. CASE Short
  <2>1. rStatus' \in {"HeadSize", "HeadBody", "ContentBody"} /\ wsType' \in Headers
    <3>1. CASE UNCHANGED decoder
      BY <3>1 DEF decoder, FramesTyped
    <3>2. CASE \E h \in Decoded : rStatus' = "HeadBody" /\ wsType' = h
      BY <1>0, <3>2
    <3> QED BY <1>1, <3>1, <3>2, Zenon DEF Short
  <2>2. at' \in {"idle", "again"} /\ tries' \in 0..MaxTryAgain
    BY <1>0, <1>1 DEF Short
  <2> QED
    BY <1>0, <1>1, <2>1, <2>2, TypedKept, Zenon DEF Short, FramesTyped
<1>2. CASE More
  <2>1. rStatus' = "ContentBody" /\ wsType' \in Headers /\ at' = "idle" /\ eLoop' = FALSE
    BY <1>0, <1>2 DEF More
  <2> QED
    BY <1>0, <1>2, <2>1, TypedKept, Zenon DEF More, FramesTyped
<1>3. CASE Whole
  <2>1. PICK h \in Decoded :
          /\ wsType' = h
          /\ events' = IF Useful(h) THEN Append(events, buffer[1]) ELSE events
          /\ buffer' = Drained(h)
          /\ eLoop' = (buffer' # <<>>)
          /\ at' = IF buffer' # <<>> THEN "parse" ELSE "idle"
          /\ phase' = IF h.op = "close" THEN "closed" ELSE phase
    BY <1>3, Zenon DEF Whole
  <2>2. h \in Headers /\ buffer' \in Seq(Bytes(connection, plan))
    BY <1>0, <2>1, DrainedIs
  <2>3. events' \in Seq(Bytes(connection, plan))
    <3>1. buffer[1] \in Bytes(connection, plan)
      BY <1>0 DEF FramesTyped
    <3> QED BY <2>1, <3>1 DEF FramesTyped
  <2>4. tries' \in 0..MaxTryAgain /\ rStatus' = "HeadSize"
    BY <1>0, <1>3 DEF Whole
  <2>5. phase' \in {"frames", "closed"} /\ at' \in {"idle", "parse"} /\ eLoop' \in BOOLEAN
        /\ (at' # "idle" => buffer' # <<>>)
    BY <1>0, <2>1, Zenon DEF FramesTyped
  <2> QED
    BY <1>3, <2>1, <2>2, <2>3, <2>4, <2>5, TypedKept, Zenon DEF Whole, FramesTyped
<1>4. CASE Fails
  <2>1. /\ wsType' \in Headers /\ rStatus' = "HeadSize" /\ phase' = "closed" /\ at' = "idle"
        /\ tries' = tries /\ eLoop' = eLoop /\ torn' = TRUE
    BY <1>0, <1>4 DEF Fails, Close
  <2> QED
    BY <1>0, <1>4, <2>1, TypedKept, Zenon DEF Fails, FramesTyped
<1> QED
  BY <1>1, <1>2, <1>3, <1>4 DEF Parsing

LEMMA TypedBreak ==
  ASSUME FramesTyped, Break
  PROVE  FramesTyped'
<1>1. /\ phase' = "closed" /\ at' = "idle" /\ tries' = tries /\ eLoop' = eLoop
      /\ rStatus' = rStatus /\ wsType' = wsType
  BY DEF Break, Close, decoder
<1>2. torn' \in BOOLEAN
  BY DEF Break, FramesTyped
<1> QED
  BY <1>1, <1>2, TypedKept, Zenon DEF Break, FramesTyped

LEMMA TypedConnect ==
  ASSUME FramesTyped, Connect
  PROVE  FramesTyped'
<1>1. connection' = connection + 1 /\ connection' \in Nat \ {0} /\ plan' = plan /\ plan \in Plans
  BY DEF Connect, FramesTyped
<1>2. Len(Stream)' \in Nat
  <2>1. (plan \in Plans)' /\ (connection \in Nat \ {0})'
    BY <1>1
  <2>2. AnswerSize' \in Nat
    BY DEF AnswerSize
  <2>3. plan' \in Seq(Headers)
    BY <1>1, PlanIs
  <2>4. StreamOf(plan', connection', AnswerSize') \in Seq(Bytes(connection', plan'))
    BY <1>1, <2>2, <2>3, CutsExist, Zenon
  <2>5. Stream' \in Seq(Bytes(connection', plan'))
    BY <2>4, StreamIs, Zenon
  <2>6. Len(Stream') \in Nat
    BY <2>5, LenProperties, Zenon
  <2> QED BY <2>6
<1>3. sent' \in 0..Len(Stream') /\ read' \in 0..sent'
  BY <1>2 DEF Connect
<1>4. Bytes(connection, plan) \subseteq Bytes(connection', plan')
  <2>1. 1..connection \subseteq 1..connection'
    BY <1>1 DEF FramesTyped
  <2> QED BY <1>1, <2>1, Zenon DEF Bytes
<1>5. buffer' \in Seq(Bytes(connection', plan')) /\ events' \in Seq(Bytes(connection', plan'))
  <2>1. /\ buffer \in Seq(Bytes(connection, plan)) /\ events \in Seq(Bytes(connection, plan))
        /\ buffer' = buffer /\ events' = events
    BY DEF Connect, FramesTyped
  <2> QED BY <1>4, <2>1
<1>6. at' = at /\ at = "idle" /\ phase' = "gateway" /\ tries' = tries /\ eLoop' = eLoop
      /\ rStatus' = rStatus /\ wsType' = wsType /\ torn' = torn
  BY DEF Connect, response, decoder
<1> HIDE DEF Headers
<1> QED
  BY <1>1, <1>3, <1>5, <1>6, Zenon DEF FramesTyped

\* The types, for every action.
LEMMA TypedNext == FramesTyped /\ [Next]_vars => FramesTyped'
<1> SUFFICES ASSUME FramesTyped, [Next]_vars PROVE FramesTyped'
  OBVIOUS
<1>1. CASE UNCHANGED vars
  <2>1. Stream' = Stream /\ Bytes(connection, plan)' = Bytes(connection, plan)
    BY <1>1, StreamKept DEF vars
  <2> HIDE DEF Headers
  <2> QED BY <1>1, <2>1, Zenon DEF FramesTyped, vars
<1>2. CASE Next
  BY <1>2, TypedSend, TypedGateway, TypedReading, TypedRetrying, TypedParsing, TypedBreak,
     TypedConnect, Zenon DEF Next, Gateway, Reading, Retrying
<1> QED
  BY <1>1, <1>2

(***************************************************************************)
(* Where the decoder is.                                                   *)
(***************************************************************************)
\* The decoder is in the frame it believes to be in.
Here(start, k) ==
  /\ Cuts(start, plan, connection, AnswerSize) /\ AtCut(start, k)
  /\ k \in 1..Len(plan) /\ plan[k] \in Headers /\ buffer[1] = <<connection, k, 1>>
  /\ Decoded \subseteq {plan[k]}

\* With anything in the buffer the decoder is in a frame and takes it for what it is.
LEMMA HereIs ==
  ASSUME FramesInv, ~torn, phase = "frames", buffer # <<>>
  PROVE  \E start, k : Here(start, k)
<1>1. InFrames /\ buffer # <<>> /\ buffer \in Seq(Bytes(connection, plan))
  BY Zenon DEF FramesInv, FramesTyped, Untorn
<1>2. PICK start, k : Cuts(start, plan, connection, AnswerSize) /\ AtCut(start, k)
  BY <1>1 DEF InFrames
<1>3. Len(plan) \in Nat /\ Len(buffer) \in Nat /\ Len(buffer) # 0 /\ 1 \in 1..Len(buffer)
  <2>1. Len(plan) \in Nat
    BY PlanIs, Zenon DEF FramesInv, FramesTyped
  <2> QED BY <1>1, <2>1
<1>4. read \in 0..sent /\ sent \in 0..Len(Stream) /\ Len(Stream) \in Nat
  BY StreamTyped DEF FramesInv, FramesTyped
<1>5. /\ start \in [1..(Len(plan) + 1) -> Nat] /\ Len(Stream) = start[Len(plan) + 1]
      /\ k \in 1..(Len(plan) + 1) /\ start[k] + Len(buffer) = read
      /\ buffer[1] = Stream[start[k] + 1]
  BY <1>2, <1>3, StreamIs DEF Cuts, AtCut
<1>6. k \in 1..Len(plan)
  BY <1>3, <1>4, <1>5
<1>7. plan[k] \in Headers /\ 1 \in 1..FrameSize(plan[k])
  <2>1. plan[k] \in Headers
    BY <1>6, PlanIs, Zenon DEF FramesInv, FramesTyped
  <2>2. plan[k].head \in Nat /\ plan[k].size \in Nat /\ plan[k].head >= 2
    BY <2>1, HeadersHaveSizes
  <2> QED BY <2>1, <2>2 DEF FrameSize
<1>8. buffer[1] = <<connection, k, 1>>
  <2>1. StreamOf(plan, connection, AnswerSize)[start[k] + 1] = <<connection, k, 1>>
    BY <1>2, <1>6, <1>7, Zenon DEF Cuts
  <2> QED BY <1>5, <2>1, StreamIs
<1>9. HeadersHere = {plan[k]}
  BY <1>6, <1>8 DEF HeadersHere, AtFrame
<1>10. rStatus # "HeadSize" => wsType = plan[k]
  BY <1>2 DEF AtCut
<1>11. Decoded \subseteq {plan[k]}
  BY <1>9, <1>10, Zenon DEF Decoded
<1> QED
  BY <1>2, <1>6, <1>7, <1>8, <1>11 DEF Here

LEMMA OrderKept ==
  ASSUME FramesInOrder, ~torn, UNCHANGED <<plan, connection, events>>
  PROVE  FramesInOrder'
  BY Zenon DEF FramesInOrder, Useful

\* Where only the decoder may have changed.
LEMMA InFramesKept ==
  ASSUME NEW start, NEW k, Cuts(start, plan, connection, AnswerSize), AtCut(start, k),
         UNCHANGED <<plan, code, connection, read, buffer, events>>,
         rStatus' # "HeadSize" => buffer # <<>> /\ wsType' = plan[k] /\ wsType'.op # "pong"
  PROVE  InFrames'
<1>1. Cuts(start, plan, connection, AnswerSize)' /\ Stream' = Stream
  BY StreamKept
<1>2. EventsAre(k)'
  BY Zenon DEF AtCut, EventsAre, Useful
<1>3. AtCut(start, k)'
  <2> HIDE DEF EventsAre
  <2> QED BY <1>1, <1>2, Zenon DEF AtCut
<1> QED
  BY <1>1, <1>3 DEF InFrames

\* Where bytes were read behind those of the buffer.
LEMMA InFramesReceive ==
  ASSUME FramesTyped, InFrames, NEW n \in 0..(sent - read), Receive(n),
         UNCHANGED <<plan, code, connection, sent, decoder, events>>
  PROVE  InFrames'
<1>1. PICK start, k : Cuts(start, plan, connection, AnswerSize) /\ AtCut(start, k)
  BY DEF InFrames
<1>2. Cuts(start, plan, connection, AnswerSize)' /\ Stream' = Stream
  BY <1>1, StreamKept
<1>3. EventsAre(k)'
  BY <1>1, Zenon DEF AtCut, EventsAre, Useful
<1>4. /\ Len(buffer') = Len(buffer) + n /\ read' = read + n
      /\ \A i \in 1..Len(buffer) : buffer'[i] = buffer[i]
      /\ \A i \in 1..n : buffer'[Len(buffer) + i] = Stream[read + i]
      /\ buffer # <<>> => buffer' # <<>>
  BY ReceiveIs
<1>5. /\ k \in 1..(Len(plan) + 1) /\ start[k] + Len(buffer) = read /\ start[k] \in Nat
      /\ Len(buffer) \in Nat /\ n \in Nat /\ read \in Nat
  <2>1. k \in 1..(Len(plan) + 1) /\ start[k] + Len(buffer) = read /\ start[k] \in Nat
    BY <1>1 DEF AtCut, Cuts
  <2>2. Len(buffer) \in Nat /\ read \in Nat
    BY StreamTyped DEF FramesTyped
  <2> QED BY <2>1, <2>2
<1>6. ASSUME NEW i \in 1..Len(buffer') PROVE buffer'[i] = Stream[start[k] + i]
  <2>1. CASE i <= Len(buffer)
    <3>1. i \in 1..Len(buffer)
      BY <1>4, <1>5, <2>1
    <3> QED BY <1>1, <1>4, <3>1 DEF AtCut
  <2>2. CASE ~(i <= Len(buffer))
    <3>1. PICK j \in 1..n : i = Len(buffer) + j /\ read + j = start[k] + i
      <4>1. i - Len(buffer) \in 1..n
        BY <1>4, <1>5, <2>2
      <4>2. ASSUME NEW b \in Nat, NEW j \in 1..n, j = i - b, start[k] + b = read
            PROVE  i = b + j /\ read + j = start[k] + i
        BY <1>5, <4>2
      <4>3. i - Len(buffer) = i - Len(buffer) /\ start[k] + Len(buffer) = read /\ Len(buffer) \in Nat
        BY <1>5
      <4>4. /\ i = Len(buffer) + (i - Len(buffer))
            /\ read + (i - Len(buffer)) = start[k] + i
        BY <4>1, <4>2, <4>3, Zenon
      <4> QED BY <4>1, <4>4
    <3>2. buffer'[Len(buffer) + j] = Stream[read + j]
      BY <1>4
    <3> QED BY <3>1, <3>2
  <2> QED BY <2>1, <2>2
<1>7. start[k] + Len(buffer') = read'
  BY <1>4, <1>5
<1>8. AtCut(start, k)'
  <2>1. rStatus' # "HeadSize" => buffer' # <<>> /\ wsType' = plan[k] /\ wsType'.op # "pong"
    BY <1>1, <1>4, Zenon DEF AtCut, decoder
  <2>2. plan' = plan
    OBVIOUS
  <2> HIDE DEF EventsAre
  <2> QED BY <1>2, <1>3, <1>5, <1>6, <1>7, <2>1, <2>2, Zenon DEF AtCut
<1> QED
  BY <1>2, <1>8 DEF InFrames

(***************************************************************************)
(* The frames, in their order.                                             *)
(***************************************************************************)
\* What holds of a connection that was not torn, for the next state.
LEMMA UntornNext ==
  ASSUME ~torn' =>
           /\ FramesInOrder'
           /\ phase' # "frames" => at' = "idle" /\ rStatus' = "HeadSize"
           /\ phase' = "gateway" => /\ sent' <= AnswerSize'
                                    /\ \A i \in DOMAIN events' : events'[i][1] # connection'
           /\ phase' = "frames" => code' = 101 /\ InFrames'
  PROVE  Untorn'
<1> HIDE DEF FramesInOrder, InFrames, AnswerSize
<1> QED
  BY Zenon DEF Untorn

LEMMA UntornInit == Init => Untorn
<1> SUFFICES ASSUME Init PROVE Untorn
  OBVIOUS
<1>1. FramesInOrder /\ \A i \in DOMAIN events : events[i][1] # connection
  BY DEF Init, FramesInOrder
<1>2. sent <= AnswerSize
  BY DEF Init, AnswerSize
<1>3. phase = "gateway" /\ at = "idle" /\ rStatus = "HeadSize"
  BY DEF Init
<1> HIDE DEF FramesInOrder, AnswerSize
<1> QED
  BY <1>1, <1>2, <1>3, Zenon DEF Untorn

LEMMA UntornSend ==
  ASSUME FramesInv, NEW n \in 1..(Sendable - sent), Send(n)
  PROVE  Untorn'
<1> SUFFICES ASSUME ~torn PROVE Untorn'
  BY DEF Untorn, Send
<1>1. UNCHANGED <<plan, code, connection, read, buffer, rStatus, wsType, phase, at, events, torn>>
  BY DEF Send, decoder, response
<1>2. FramesInOrder' /\ AnswerSize' = AnswerSize
  BY <1>1, OrderKept, StreamKept DEF FramesInv, Untorn
<1>3. phase = "gateway" => sent' <= AnswerSize
  <2>1. phase = "gateway" => Sendable = AnswerSize
    BY SendableIs DEF FramesInv
  <2>2. Sendable \in Nat /\ sent \in Nat /\ sent' = sent + n
    BY SendableIs, StreamTyped DEF FramesInv, FramesTyped, Send
  <2> QED BY <2>1, <2>2
<1>4. phase = "frames" => InFrames'
  <2> SUFFICES ASSUME phase = "frames" PROVE InFrames'
    OBVIOUS
  <2>1. PICK start, k : Cuts(start, plan, connection, AnswerSize) /\ AtCut(start, k)
    BY DEF FramesInv, Untorn, InFrames
  <2> QED BY <1>1, <2>1, InFramesKept, Zenon DEF AtCut
<1> HIDE DEF FramesInOrder, InFrames, AnswerSize
<1> QED
  BY <1>1, <1>2, <1>3, <1>4, UntornNext, Zenon DEF FramesInv, Untorn

LEMMA UntornGateway ==
  ASSUME FramesInv, NEW n \in 1..(sent - read),
         GatewayMore(n) \/ GatewayUpgrade(n) \/ GatewayRefuse(n)
  PROVE  Untorn'
<1>1. CASE GatewayMore(n)
  <2> SUFFICES ASSUME ~torn PROVE Untorn'
    BY <1>1 DEF Untorn, GatewayMore
  <2>1. /\ phase = "gateway"
        /\ UNCHANGED <<plan, code, connection, sent, rStatus, phase, at, events, torn>>
    BY <1>1 DEF GatewayMore, decoder, response
  <2>2. FramesInOrder' /\ AnswerSize' = AnswerSize
    BY <2>1, OrderKept, StreamKept DEF FramesInv, Untorn
  <2> HIDE DEF FramesInOrder, InFrames, AnswerSize
  <2> QED
    BY <2>1, <2>2, UntornNext, Zenon DEF FramesInv, Untorn
<1>2. CASE GatewayUpgrade(n)
  <2> SUFFICES ASSUME ~torn' PROVE Untorn'
    BY DEF Untorn
  <2>1. ~torn /\ code = 101
    BY <1>2 DEF GatewayUpgrade, FramesInv, FramesTyped
  <2>2. /\ phase = "gateway" /\ phase' = "frames" /\ buffer' = <<>>
        /\ read' = read + n /\ read + n >= 2
        /\ UNCHANGED <<plan, code, connection, sent, rStatus, events>>
    BY <1>2 DEF GatewayUpgrade, decoder, response, HeadEnd
  <2>3. FramesInOrder'
    BY <2>1, <2>2, OrderKept DEF FramesInv, Untorn
  <2>4. PICK start : Cuts(start, plan, connection, AnswerSize)
    BY StreamTyped, Zenon DEF FramesInv, FramesTyped
  <2>5. rStatus = "HeadSize" /\ \A i \in DOMAIN events : events[i][1] # connection
    BY <2>1, <2>2 DEF FramesInv, Untorn
  <2>6. start[1] + Len(buffer') = read'
    <3>1. sent <= AnswerSize /\ AnswerSize = 2 /\ start[1] = AnswerSize
      BY <2>1, <2>2, <2>4 DEF FramesInv, Untorn, AnswerSize, Cuts
    <3>2. read \in Nat /\ sent \in Nat
      BY StreamTyped DEF FramesInv, FramesTyped
    <3> QED BY <2>2, <3>1, <3>2
  <2>7. Cuts(start, plan, connection, AnswerSize)'
    BY <2>2, <2>4, StreamKept
  <2>8. AtCut(start, 1)'
    <3>1. 1 \in 1..(Len(plan') + 1)
      <4>1. Len(plan) \in Nat
        BY PlanIs, Zenon DEF FramesInv, FramesTyped
      <4> QED BY <2>2, <4>1
    <3>2. EventsAre(1)'
      <4>1. \A i \in DOMAIN events' : events'[i][1] # connection'
        BY <2>2, <2>5, Zenon
      <4> QED BY <4>1 DEF EventsAre
    <3>3. Len(buffer') = 0 /\ rStatus' = "HeadSize"
      BY <2>2, <2>5
    <3> HIDE DEF EventsAre
    <3> QED BY <2>6, <3>1, <3>2, <3>3 DEF AtCut
  <2>9. InFrames'
    BY <2>7, <2>8 DEF InFrames
  <2> HIDE DEF FramesInOrder, InFrames, AnswerSize
  <2> QED
    BY <2>1, <2>2, <2>3, <2>9, UntornNext
<1>3. CASE GatewayRefuse(n)
  BY <1>3, UntornNext DEF GatewayRefuse
<1> QED
  BY <1>1, <1>2, <1>3

LEMMA UntornReceive ==
  ASSUME FramesInv, NEW n \in 0..(sent - read), Receive(n), phase = "frames",
         UNCHANGED <<plan, code, connection, sent, decoder, phase, events, torn>>
  PROVE  Untorn'
<1> SUFFICES ASSUME ~torn PROVE Untorn'
  BY DEF Untorn
<1>1. FramesInOrder'
  BY OrderKept DEF FramesInv, Untorn
<1>2. InFrames'
  BY InFramesReceive DEF FramesInv, Untorn
<1> HIDE DEF FramesInOrder, InFrames, AnswerSize
<1> QED
  BY <1>1, <1>2, UntornNext, Zenon DEF FramesInv, Untorn

LEMMA UntornBreak ==
  ASSUME FramesInv, Break
  PROVE  Untorn'
<1> SUFFICES ASSUME ~torn' PROVE Untorn'
  BY DEF Untorn
<1>1. ~torn /\ rStatus = "HeadSize"
  BY DEF Break, FramesInv, FramesTyped
<1>2. phase' = "closed" /\ at' = "idle" /\ UNCHANGED <<plan, connection, rStatus, events>>
  BY DEF Break, Close, decoder
<1>3. FramesInOrder'
  BY <1>1, <1>2, OrderKept DEF FramesInv, Untorn
<1> HIDE DEF FramesInOrder, InFrames, AnswerSize
<1> QED
  BY <1>1, <1>2, <1>3, UntornNext

LEMMA UntornConnect ==
  ASSUME FramesInv, Connect
  PROVE  Untorn'
<1> SUFFICES ASSUME ~torn PROVE Untorn'
  BY DEF Untorn, Connect
<1>1. /\ phase = "closed" /\ phase' = "gateway" /\ connection' = connection + 1 /\ sent' = 0
      /\ UNCHANGED <<plan, rStatus, at, events, torn>>
  BY DEF Connect, decoder, response
<1>2. rStatus = "HeadSize" /\ at = "idle"
  BY <1>1 DEF FramesInv, Untorn
<1>3. ASSUME NEW i \in DOMAIN events' PROVE events'[i][1] # connection'
  <2>1. events \in Seq(Bytes(connection, plan)) /\ connection \in Nat
    BY DEF FramesInv, FramesTyped
  <2>2. events[i] \in Bytes(connection, plan)
    BY <1>1, <2>1
  <2>3. events[i][1] \in 1..connection
    BY <2>2 DEF Bytes
  <2> QED BY <1>1, <2>1, <2>3
<1>4. FramesInOrder'
  BY <1>3, Zenon DEF FramesInOrder
<1>5. sent' <= AnswerSize'
  BY <1>1 DEF AnswerSize
<1> HIDE DEF FramesInOrder, InFrames, AnswerSize
<1> QED
  BY <1>1, <1>2, <1>3, <1>4, <1>5, UntornNext

\* A frame more: its event is the next, if it has content.
LEMMA EventsNext ==
  ASSUME FramesTyped, ~torn, FramesInOrder, UNCHANGED <<plan, connection>>,
         NEW k \in 1..Len(plan), EventsAre(k),
         events' = IF Useful(plan[k]) THEN Append(events, <<connection, k, 1>>) ELSE events
  PROVE  EventsAre(k + 1)' /\ FramesInOrder'
<1>1. Len(plan) \in Nat /\ DOMAIN plan = 1..Len(plan) /\ k \in Nat /\ k \in DOMAIN plan
  <2>1. Len(plan) \in Nat /\ DOMAIN plan = 1..Len(plan)
    BY PlanIs, Zenon DEF FramesTyped
  <2> QED BY <2>1
<1>2. /\ events \in Seq(Bytes(connection, plan)) /\ Len(events) \in Nat
      /\ DOMAIN events = 1..Len(events)
  BY DEF FramesTyped
<1>3. ASSUME NEW i \in DOMAIN events, events[i][1] = connection PROVE events[i][2] < k
  BY <1>3 DEF EventsAre
<1>4. ASSUME NEW j \in 1..(k - 1), Useful(plan[j])
      PROVE  \E m \in DOMAIN events : events[m] = <<connection, j, 1>>
  BY <1>4 DEF EventsAre
<1>5. ASSUME NEW i \in DOMAIN events PROVE events[i][2] \in Nat
  <2>1. events[i] \in Bytes(connection, plan)
    BY <1>2, <1>5
  <2> QED BY <1>1, <2>1 DEF Bytes
<1>6. CASE Useful(plan[k])
  <2> DEFINE last == Len(events) + 1  e == <<connection, k, 1>>
  <2>1. /\ DOMAIN events' = 1..last /\ events'[last] = e
        /\ \A i \in DOMAIN events : events'[i] = events[i] /\ i \in 1..(last - 1) /\ i \in 1..last
        /\ \A i \in 1..last : i = last \/ i \in DOMAIN events
    BY <1>2, <1>6
  <2>2. e[1] = connection /\ e[2] = k
    OBVIOUS
  <2>3. 1..(last - 1) = DOMAIN events /\ last \in Nat
    BY <1>2
  <2> HIDE DEF last
  <2>4. EventsAre(k + 1)'
    <3>1. ASSUME NEW i \in DOMAIN events', events'[i][1] = connection' PROVE events'[i][2] < k + 1
      <4>1. CASE i = last
        BY <1>1, <2>1, <2>2, <4>1
      <4>2. CASE i \in DOMAIN events
        <5>1. events[i][2] < k /\ events'[i] = events[i] /\ events[i][2] \in Nat
          BY <1>3, <1>5, <2>1, <3>1, <4>2
        <5> QED BY <1>1, <5>1
      <4> QED BY <2>1, <4>1, <4>2
    <3>2. ASSUME NEW j \in 1..((k + 1) - 1), Useful(plan'[j])
          PROVE  \E m \in DOMAIN events' : events'[m] = <<connection', j, 1>>
      <4>1. CASE j = k
        <5>1. last \in DOMAIN events' /\ events'[last] = <<connection', j, 1>>
          BY <2>1, <2>3, <4>1, <1>2 DEF last
        <5> QED BY <5>1
      <4>2. CASE j # k
        <5>1. j \in 1..(k - 1) /\ Useful(plan[j])
          BY <1>1, <3>2, <4>2
        <5>2. PICK m \in DOMAIN events : events[m] = <<connection, j, 1>>
          BY <1>4, <5>1
        <5> QED BY <2>1, <5>2
      <4> QED BY <4>1, <4>2
    <3> QED BY <3>1, <3>2 DEF EventsAre
  <2>5. ASSUME NEW i \in DOMAIN events', events'[i][1] = connection'
        PROVE  /\ events'[i][2] \in DOMAIN plan' /\ Useful(plan'[events'[i][2]])
               /\ events'[i] = <<connection', events'[i][2], 1>>
               /\ \A j \in 1..(events'[i][2] - 1) : Useful(plan'[j]) =>
                    \E m \in 1..(i - 1) : events'[m] = <<connection', j, 1>>
               /\ \A m \in 1..(i - 1) : events'[m][1] = connection' => events'[m][2] < events'[i][2]
    <3>1. CASE i = last
      <4>1. events'[i] = e
        BY <2>1, <3>1
      <4>2. ASSUME NEW j \in 1..(k - 1), Useful(plan[j])
            PROVE  \E m \in 1..(i - 1) : events'[m] = <<connection, j, 1>>
        BY <1>4, <2>1, <2>3, <3>1, <4>2
      <4>3. ASSUME NEW m \in 1..(i - 1), events'[m][1] = connection PROVE events'[m][2] < k
        BY <1>3, <2>1, <2>3, <3>1, <4>3
      <4> QED BY <1>1, <1>6, <2>2, <4>1, <4>2, <4>3
    <3>2. CASE i \in DOMAIN events
      <4>1. events'[i] = events[i] /\ 1..(i - 1) \subseteq DOMAIN events
        BY <1>2, <2>1, <3>2
      <4>2. /\ events[i][2] \in DOMAIN plan /\ Useful(plan[events[i][2]])
            /\ events[i] = <<connection, events[i][2], 1>>
            /\ \A j \in 1..(events[i][2] - 1) : Useful(plan[j]) =>
                 \E m \in 1..(i - 1) : events[m] = <<connection, j, 1>>
            /\ \A m \in 1..(i - 1) : events[m][1] = connection => events[m][2] < events[i][2]
        BY <2>5, <3>2, <4>1, Zenon DEF FramesInOrder
      <4>3. \A m \in 1..(i - 1) : events'[m] = events[m]
        BY <2>1, <4>1
      <4>4. plan' = plan /\ connection' = connection
        OBVIOUS
      <4> QED BY <4>1, <4>2, <4>3, <4>4, Zenon
    <3> QED BY <2>1, <3>1, <3>2
  <2>6. FramesInOrder'
    BY <2>5, Zenon DEF FramesInOrder
  <2> QED BY <2>4, <2>6
<1>7. CASE ~Useful(plan[k])
  <2>1. FramesInOrder'
    BY <1>7, OrderKept
  <2>2. ASSUME NEW i \in DOMAIN events', events'[i][1] = connection' PROVE events'[i][2] < k + 1
    <3>1. events' = events /\ events[i][2] < k /\ events[i][2] \in Nat
      BY <1>3, <1>5, <1>7, <2>2
    <3> QED BY <1>1, <3>1
  <2>3. ASSUME NEW j \in 1..((k + 1) - 1), Useful(plan'[j])
        PROVE  \E m \in DOMAIN events' : events'[m] = <<connection', j, 1>>
    <3>1. j # k
      BY <1>7, <2>3
    <3>2. j \in 1..(k - 1) /\ Useful(plan[j])
      BY <1>1, <2>3, <3>1
    <3> QED BY <1>4, <1>7, <3>2
  <2> QED BY <2>1, <2>2, <2>3 DEF EventsAre
<1> QED
  BY <1>6, <1>7

\* What Whole makes of the buffer: it begins where the next frame does.
LEMMA WholeMoves ==
  ASSUME PongsAreBare, FramesInv, ~torn, NEW start, NEW k, Here(start, k), at = "parse",
         Decoded # {}, BodyIsThere(plan[k]), buffer' = Drained(plan[k]),
         UNCHANGED <<plan, code, connection, sent, read>>, rStatus' = "HeadSize"
  PROVE  /\ start[k + 1] \in Nat /\ start[k + 1] + Len(buffer') = read'
         /\ EventsAre(k + 1)' => AtCut(start, k + 1)'
<1> DEFINE h == plan[k]  n == FrameSize(h)
<1>1. h \in Headers /\ k \in 1..Len(plan) /\ Len(plan) \in Nat
  <2>1. Len(plan) \in Nat
    BY PlanIs, Zenon DEF FramesInv, FramesTyped
  <2> QED BY <2>1, Zenon DEF Here
<1>2. h.head \in Nat /\ h.size \in Nat /\ n = h.head + h.size /\ n \in Nat
  BY <1>1, HeadersHaveSizes DEF FrameSize
<1>3. Len(buffer) \in Nat
  BY DEF FramesInv, FramesTyped
<1>4. h.head + Length(h) = n /\ n <= Len(buffer)
  <2>1. CASE h.op = "pong"
    <3>1. h.head = 2 /\ h.size = 0
      <4>1. plan \in Plans /\ k \in DOMAIN plan
        BY <1>1, PlanIs, Zenon DEF FramesInv, FramesTyped
      <4> QED BY <2>1, <4>1, Zenon DEF PongsAreBare
    <3>2. rStatus = "HeadSize"
      BY <2>1, Zenon DEF Here, AtCut
    <3>3. ~(Len(buffer) < 2)
      BY <3>2, Zenon DEF Decoded
    <3> QED BY <1>2, <1>3, <2>1, <3>1, <3>3 DEF Length
  <2>2. CASE h.op # "pong"
    BY <1>2, <2>2 DEF Length, BodyIsThere
  <2> QED BY <2>1, <2>2
<1>5. /\ Len(buffer') = Len(buffer) - n
      /\ \A i \in 1..Len(buffer') : buffer'[i] = buffer[n + i]
  <2>1. /\ Len(buffer') = IF h.head + Length(h) <= Len(buffer)
                          THEN Len(buffer) - (h.head + Length(h)) ELSE 0
        /\ \A i \in 1..Len(buffer') : buffer'[i] = buffer[(h.head + Length(h)) + i]
    BY <1>1, DrainedIs, Zenon DEF FramesInv
  <2> HIDE DEF n, h
  <2> QED BY <1>4, <2>1
<1>6. /\ start[k + 1] = start[k] + n /\ start[k] \in Nat
      /\ start[k] + Len(buffer) = read
      /\ \A i \in 1..Len(buffer) : buffer[i] = Stream[start[k] + i]
  <2>1. start \in [1..(Len(plan) + 1) -> Nat] /\ k \in 1..(Len(plan) + 1)
    BY <1>1 DEF Here, Cuts
  <2> QED BY <1>1, <2>1 DEF Here, Cuts, AtCut
<1>61. n \in Nat /\ n <= Len(buffer)
  BY <1>2, <1>4
<1> HIDE DEF n, h
<1>62. /\ Len(buffer') = Len(buffer) - n /\ start[k + 1] = start[k] + n /\ start[k] \in Nat
       /\ start[k] + Len(buffer) = read /\ read' = read
  BY <1>5, <1>6
<1>7. start[k + 1] \in Nat /\ start[k + 1] + Len(buffer') = read'
  BY <1>3, <1>61, <1>62
<1>8. Stream' = Stream
  BY StreamKept
<1>9. ASSUME NEW i \in 1..Len(buffer') PROVE buffer'[i] = Stream'[start[k + 1] + i]
  <2>1. n + i \in 1..Len(buffer) /\ start[k] + (n + i) = start[k + 1] + i
    <3>1. start[k] + (n + i) = start[k + 1] + i
      BY <1>61, <1>62
    <3>2. n + i \in 1..Len(buffer)
      BY <1>3, <1>61, <1>62
    <3> QED BY <3>1, <3>2
  <2>2. buffer[n + i] = Stream[start[k] + (n + i)]
    BY <1>6, <2>1
  <2> QED BY <1>5, <1>8, <2>1, <2>2
<1>10. k + 1 \in 1..(Len(plan') + 1)
  <2>1. plan' = plan
    OBVIOUS
  <2> QED BY <1>1, <2>1
<1>11. EventsAre(k + 1)' => AtCut(start, k + 1)'
  <2> HIDE DEF EventsAre
  <2> QED BY <1>7, <1>9, <1>10, Zenon DEF AtCut
<1> QED
  BY <1>7, <1>11

LEMMA UntornWhole ==
  ASSUME PongsAreBare, FramesInv, Whole
  PROVE  Untorn'
<1> SUFFICES ASSUME ~torn PROVE Untorn'
  BY DEF Untorn, Whole
<1>1. at = "parse" /\ phase = "frames" /\ buffer # <<>>
  <2>1. at = "parse"
    BY DEF Whole
  <2>2. phase = "frames"
    BY <2>1, Zenon DEF FramesInv, Untorn
  <2> QED BY <2>1, <2>2, Zenon DEF FramesInv, FramesTyped
<1>2. PICK start, k : Here(start, k)
  BY <1>1, HereIs
<1>3. PICK h \in Decoded :
        /\ BodyIsThere(h)
        /\ events' = IF Useful(h) THEN Append(events, buffer[1]) ELSE events
        /\ buffer' = Drained(h)
        /\ at' = IF buffer' # <<>> THEN "parse" ELSE "idle"
        /\ phase' = IF h.op = "close" THEN "closed" ELSE phase
  BY Zenon DEF Whole
<1>4. h = plan[k] /\ Decoded # {}
  BY <1>2, <1>3, Zenon DEF Here
<1>5. UNCHANGED <<plan, code, connection, sent, read, torn>> /\ rStatus' = "HeadSize"
  BY DEF Whole
<1>6. k \in 1..Len(plan) /\ EventsAre(k) /\ buffer[1] = <<connection, k, 1>>
      /\ Cuts(start, plan, connection, AnswerSize)
  BY <1>2, Zenon DEF Here, AtCut
<1>7. EventsAre(k + 1)' /\ FramesInOrder'
  <2>1. events' = IF Useful(plan[k]) THEN Append(events, <<connection, k, 1>>) ELSE events
    BY <1>3, <1>4, <1>6, Zenon
  <2> QED BY <1>5, <1>6, <2>1, EventsNext, Zenon DEF FramesInv, Untorn
<1>8. /\ start[k + 1] \in Nat /\ start[k + 1] + Len(buffer') = read'
      /\ AtCut(start, k + 1)'
  BY <1>1, <1>2, <1>3, <1>4, <1>5, <1>7, WholeMoves, Zenon
<1>9. InFrames'
  <2>1. Cuts(start, plan, connection, AnswerSize)'
    BY <1>5, <1>6, StreamKept, Zenon
  <2> QED BY <1>8, <2>1, Zenon DEF InFrames
<1>10. phase' # "frames" => at' = "idle"
  <2> SUFFICES ASSUME phase' # "frames" PROVE buffer' = <<>>
    BY <1>3
  <2>1. k = Len(plan)
    <3>1. plan[k].op = "close"
      BY <1>1, <1>3, <1>4
    <3> QED BY <1>6, <3>1, PlanIs, Zenon DEF FramesInv, FramesTyped
  <2>2. start[k + 1] = Len(Stream)
    BY <1>6, <2>1, StreamIs DEF Cuts
  <2>3. read \in 0..sent /\ sent \in 0..Len(Stream) /\ Len(Stream) \in Nat /\ read' = read
    BY <1>5, StreamTyped DEF FramesInv, FramesTyped
  <2>4. buffer' \in Seq(Bytes(connection, plan))
    <3>1. plan[k] \in Headers
      BY <1>2 DEF Here
    <3> QED BY <1>3, <1>4, <3>1, DrainedIs, Zenon DEF FramesInv
  <2>5. Len(buffer') \in Nat
    BY <2>4, LenProperties, Zenon
  <2>6. Len(buffer') = 0
    BY <1>8, <2>2, <2>3, <2>5
  <2> QED BY <2>4, <2>6
<1>11. code' = 101 /\ phase' # "gateway"
  <2>1. code = 101
    BY <1>1, Zenon DEF FramesInv, Untorn
  <2> QED BY <1>1, <1>3, <1>5, <2>1
<1> HIDE DEF FramesInOrder, InFrames, AnswerSize
<1> QED
  BY <1>5, <1>7, <1>9, <1>10, <1>11, UntornNext, Zenon

\* Where a header or a body is not complete.
LEMMA UntornWaits ==
  ASSUME FramesInv, Short \/ More
  PROVE  Untorn'
<1> SUFFICES ASSUME ~torn PROVE Untorn'
  BY DEF Untorn, Short, More
<1>1. at = "parse" /\ UNCHANGED <<plan, code, connection, sent, read, buffer, phase, events, torn>>
  BY DEF Short, More
<1>2. phase = "frames" /\ buffer # <<>>
  <2>1. phase = "frames"
    BY <1>1, Zenon DEF FramesInv, Untorn
  <2> QED BY <1>1, <2>1, Zenon DEF FramesInv, FramesTyped
<1>3. PICK start, k : Here(start, k)
  BY <1>2, HereIs
<1>4. Cuts(start, plan, connection, AnswerSize) /\ AtCut(start, k) /\ Decoded \subseteq {plan[k]}
  BY <1>3, Zenon DEF Here
<1>5. rStatus' # "HeadSize" => buffer # <<>> /\ wsType' = plan[k] /\ wsType'.op # "pong"
  <2>1. CASE UNCHANGED decoder
    BY <1>4, <2>1, Zenon DEF decoder, AtCut
  <2>2. CASE \E h \in Decoded : ~HeaderIsThere(h) /\ wsType' = h
    BY <1>2, <1>4, <2>2, Zenon DEF HeaderIsThere
  <2>3. CASE \E h \in Decoded : ~BodyIsThere(h) /\ wsType' = h
    BY <1>2, <1>4, <2>3, Zenon DEF BodyIsThere
  <2> QED BY <2>1, <2>2, <2>3, Zenon DEF Short, More
<1>6. InFrames'
  BY <1>1, <1>4, <1>5, InFramesKept, Zenon
<1>7. FramesInOrder'
  BY <1>1, OrderKept, Zenon DEF FramesInv, Untorn
<1>8. code' = 101 /\ phase' = "frames"
  <2>1. code = 101
    BY <1>2, Zenon DEF FramesInv, Untorn
  <2> QED BY <1>1, <1>2, <2>1
<1> HIDE DEF FramesInOrder, InFrames, AnswerSize
<1> QED
  BY <1>6, <1>7, <1>8, UntornNext

\* The invariant is inductive.
LEMMA FramesInvInit == Init => FramesInv
  BY TypedInit, UntornInit DEF FramesInv

LEMMA FramesInvNext == PongsAreBare /\ FramesInv /\ [Next]_vars => FramesInv'
<1> SUFFICES ASSUME PongsAreBare, FramesInv, [Next]_vars PROVE FramesInv'
  OBVIOUS
<1> SUFFICES Untorn'
  BY TypedNext DEF FramesInv
<1>1. CASE UNCHANGED vars
  <2> SUFFICES ASSUME ~torn PROVE Untorn'
    BY <1>1 DEF Untorn, vars
  <2>1. UNCHANGED <<plan, code, connection, sent, read, buffer, rStatus, wsType, phase, at, events, torn>>
    BY <1>1 DEF vars
  <2>2. FramesInOrder' /\ AnswerSize' = AnswerSize
    BY <2>1, OrderKept, StreamKept, Zenon DEF FramesInv, Untorn
  <2>3. phase = "frames" => InFrames'
    <3> SUFFICES ASSUME phase = "frames" PROVE InFrames'
      OBVIOUS
    <3>1. PICK start, k : Cuts(start, plan, connection, AnswerSize) /\ AtCut(start, k)
      BY Zenon DEF FramesInv, Untorn, InFrames
    <3> QED BY <2>1, <3>1, InFramesKept, Zenon DEF AtCut
  <2> HIDE DEF FramesInOrder, InFrames, AnswerSize
  <2> QED
    BY <2>1, <2>2, <2>3, UntornNext, Zenon DEF FramesInv, Untorn
<1>2. CASE Next
  <2>1. ASSUME NEW n \in 1..(sent - read), ReadEvent(n) PROVE Untorn'
    <3>1. n \in 0..(sent - read)
      OBVIOUS
    <3> QED BY <2>1, <3>1, UntornReceive, Zenon DEF ReadEvent
  <2>2. ASSUME NEW n \in 0..(sent - read), Again(n) PROVE Untorn'
    <3> SUFFICES ASSUME ~torn PROVE Untorn'
      BY <2>2 DEF Untorn, Again
    <3>1. phase = "frames"
      BY <2>2 DEF Again, FramesInv, Untorn
    <3> QED BY <2>2, <3>1, UntornReceive, Zenon DEF Again
  <2>3. CASE Fails
    BY <2>3 DEF Fails, Untorn
  <2> QED
    BY <1>2, <2>1, <2>2, <2>3, UntornSend, UntornGateway, UntornWaits, UntornWhole, UntornBreak,
       UntornConnect, Zenon DEF Next, Gateway, Reading, Retrying, Parsing
<1> QED
  BY <1>1, <1>2

\* The inductive invariant of the decoder, for any plans, sizes, codes and connections
\* that meet the assumptions and whose pongs are bare.
THEOREM FramesInvariant == ASSUME PongsAreBare PROVE Spec => []FramesInv
<1>1. FramesInv /\ [Next]_vars => FramesInv'
  BY FramesInvNext
<1> QED
  BY <1>1, FramesInvInit, PTL DEF Spec

\* The decoder has its types, and where no connection was torn it stands at the
\* beginning of a frame with no other frame's header in mind.
THEOREM FramesTypesOK == ASSUME PongsAreBare PROVE Spec => []FramesTypeOK
<1>1. FramesInv => FramesTypeOK
  <2> SUFFICES ASSUME FramesInv PROVE FramesTypeOK
    OBVIOUS
  <2>1. ASSUME ~torn, phase = "frames", buffer # <<>>
        PROVE  AtFrame /\ (rStatus # "HeadSize" => wsType = plan[buffer[1][2]])
    <3>1. PICK start, k : Here(start, k)
      BY <2>1, HereIs
    <3>2. buffer[1] = <<connection, k, 1>> /\ k > 0
      BY <3>1 DEF Here
    <3>3. rStatus # "HeadSize" => wsType = plan[k]
      BY <3>1 DEF Here, AtCut
    <3> QED BY <3>2, <3>3 DEF AtFrame
  <2>2. ASSUME ~torn, phase = "frames", buffer = <<>> PROVE rStatus = "HeadSize"
    BY <2>2, Zenon DEF FramesInv, Untorn, InFrames, AtCut
  <2> HIDE DEF Headers
  <2> QED BY <2>1, <2>2, Zenon DEF FramesInv, FramesTyped, FramesTypeOK
<1> QED
  BY <1>1, FramesInvariant, PTL

\* However the bytes of a connection were cut into reads, the user gets each frame with
\* content once, in order.
THEOREM FramesComeInOrder == ASSUME PongsAreBare PROVE Spec => []FramesInOrder
<1>1. FramesInv => FramesInOrder
  BY Zenon DEF FramesInv, Untorn, FramesInOrder
<1> QED
  BY <1>1, FramesInvariant, PTL
================================================================================
