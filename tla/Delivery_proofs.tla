---------------------------- MODULE Delivery_proofs ----------------------------
(***************************************************************************)
(* Proofs about Delivery, for any requests, event threads and ways to use  *)
(* them: every callback sees the event it is called for, and one frame of  *)
(* audio at a time, in C++ and through the C# binding; and the callbacks   *)
(* of a round are those its messages are meant for.                        *)
(*                                                                         *)
(* Two things carry the first. The tables of the event and of the listener *)
(* fit together: what a message of the service becomes has a callback of   *)
(* its own. And an event of the binding is empty unless a callback is      *)
(* between its copy and its fetch, where the event is that callback's; for *)
(* this, requests that share an event have to share their event thread.    *)
(*                                                                         *)
(* The second is shown as an account: the callbacks made, and those the    *)
(* thread is about to make, are the ones promised for the messages it has  *)
(* taken. It balances because the end of a round is the last message on    *)
(* the wire until the round is Closed, and what a connection that is kept  *)
(* may still send is a failure that is ignored.                            *)
(***************************************************************************)
EXTENDS Delivery, SequenceTheorems, WellFoundedInduction, TLAPS

(***************************************************************************)
(* What FlattenSeq makes of the promises of a round: one promise more, and *)
(* a beginning of a beginning. Its definition chooses a function that      *)
(* grows by one part after the other; what holds of each of its values is  *)
(* shown with an induction over a set, from a least counterexample.        *)
(***************************************************************************)
\* Induction over the natural numbers, for a set.
LEMMA SetInduction ==
  ASSUME NEW T, 0 \in T, \A n \in Nat : n \in T => n + 1 \in T
  PROVE  Nat \subseteq T
<1> DEFINE Others == Nat \ T
<1> SUFFICES ASSUME Others # {} PROVE FALSE
  OBVIOUS
<1>1. PICK n \in Others : \A m \in Others : ~ (<<m, n>> \in OpToRel(<, Nat))
  <2>1. Others \subseteq Nat
    OBVIOUS
  <2> HIDE DEF Others
  <2> QED BY <2>1, NatLessThanWellFounded, WFMin
<1>2. \A m \in Others : ~(m < n)
  BY <1>1 DEF OpToRel
<1>3. n \in Nat /\ n # 0
  OBVIOUS
<1>4. n - 1 \in Nat /\ n - 1 < n /\ (n - 1) + 1 = n
  BY <1>3
<1>5. n - 1 \in T
  BY <1>2, <1>4
<1> QED
  BY <1>4, <1>5

\* The sequence that begins with s[1] and grows by one after the other.
Grown(s, m, g) == g = [i \in 1..m |-> IF i = 1 THEN s[i] ELSE g[i - 1] \o s[i]]

\* What it is at a place, and after the first.
LEMMA GrownAt ==
  ASSUME NEW s, NEW m \in Nat, NEW g, Grown(s, m, g), NEW i \in 1..m
  PROVE  g[i] = IF i = 1 THEN s[i] ELSE g[i - 1] \o s[i]
<1> DEFINE G == [j \in 1..m |-> IF j = 1 THEN s[j] ELSE g[j - 1] \o s[j]]
<1>1. g = G
  BY DEF Grown
<1>2. G[i] = IF i = 1 THEN s[i] ELSE g[i - 1] \o s[i]
  OBVIOUS
<1> QED
  <2> HIDE DEF G
  <2> QED BY <1>1, <1>2

LEMMA GrownNext ==
  ASSUME NEW s, NEW m \in Nat, NEW g, Grown(s, m, g), NEW i \in 1..m, i # 1
  PROVE  g[i] = g[i - 1] \o s[i]
<1> DEFINE G == [j \in 1..m |-> IF j = 1 THEN s[j] ELSE g[j - 1] \o s[j]]
<1>1. g = G
  BY DEF Grown
<1>2. G[i] = g[i - 1] \o s[i]
  OBVIOUS
<1> QED
  <2> HIDE DEF G
  <2> QED BY <1>1, <1>2

\* There is one for every length.
LEMMA GrownExists ==
  ASSUME NEW s, NEW n \in Nat PROVE \E g : Grown(s, n, g)
<1> DEFINE T == {m \in Nat : \E g : Grown(s, m, g)}
<1>1. 0 \in T
  <2>1. Grown(s, 0, [i \in 1..0 |-> s])
    BY DEF Grown
  <2> QED BY <2>1
<1>2. ASSUME NEW m \in Nat, m \in T PROVE m + 1 \in T
  <2>1. PICK g : Grown(s, m, g)
    BY <1>2
  <2> DEFINE h == [i \in 1..(m + 1) |->
                     IF i <= m THEN g[i] ELSE IF i = 1 THEN s[i] ELSE g[m] \o s[i]]
  <2>2. ASSUME NEW i \in 1..(m + 1)
        PROVE  h[i] = IF i = 1 THEN s[i] ELSE h[i - 1] \o s[i]
    <3>1. CASE i <= m
      <4>1. g[i] = IF i = 1 THEN s[i] ELSE g[i - 1] \o s[i]
        BY <2>1, <3>1, GrownAt
      <4> QED BY <3>1, <4>1
    <3>2. CASE i = m + 1 /\ i # 1
      <4>1. i - 1 = m /\ i - 1 \in 1..(m + 1) /\ ~(i <= m)
        BY <3>2
      <4>2. h[i - 1] = g[m]
        BY <4>1
      <4> QED BY <3>2, <4>1, <4>2
    <3>3. CASE i = m + 1 /\ i = 1
      BY <3>3
    <3> QED BY <3>1, <3>2, <3>3
  <2>3. Grown(s, m + 1, h)
    <3>1. h = [i \in 1..(m + 1) |-> h[i]]
      OBVIOUS
    <3> HIDE DEF h
    <3> QED BY <2>2, <3>1, Zenon DEF Grown
  <2> QED BY <2>3
<1>3. Nat \subseteq T
  <2> HIDE DEF T
  <2> QED BY <1>1, <1>2, SetInduction
<1> QED
  BY <1>3

\* FlattenSeq chooses such a sequence and takes its last element.
LEMMA FlattenIs ==
  ASSUME NEW s, NEW n \in Nat \ {0}, Len(s) = n
  PROVE  \E g : Grown(s, n, g) /\ FlattenSeq(s) = g[n]
<1> DEFINE f == CHOOSE g : Grown(s, n, g)
<1>1. Grown(s, n, f)
  BY GrownExists
<1>2. FlattenSeq(s) = f[n]
  BY DEF FlattenSeq, Grown
<1> QED
  BY <1>1, <1>2

\* The flattened beginning of a sequence is an element of what grew for all of it.
Begins(s, i, t) == Len(t) = i /\ \A j \in 1..i : t[j] = s[j]

\* A beginning of the parts flattens to what had grown so far.
LEMMA FlattenAt ==
  ASSUME NEW s, NEW n \in Nat \ {0}, NEW g, Grown(s, n, g), NEW i \in 1..n,
         NEW t, Begins(s, i, t)
  PROVE  FlattenSeq(t) = g[i]
<1>0. Len(t) = i /\ \A j \in 1..i : t[j] = s[j]
  BY DEF Begins
<1>1. PICK h : Grown(t, i, h) /\ FlattenSeq(t) = h[i]
  <2>1. i \in Nat \ {0}
    OBVIOUS
  <2> QED BY <1>0, <2>1, FlattenIs
<1> DEFINE T == {m \in Nat : m + 1 \in 1..i => h[m + 1] = g[m + 1]}
<1>2. 0 \in T
  <2>1. 1 \in 1..i /\ 1 \in 1..n
    OBVIOUS
  <2>2. h[1] = t[1] /\ g[1] = s[1]
    BY <1>1, <2>1, GrownAt
  <2> QED BY <1>0, <2>1, <2>2
<1>3. ASSUME NEW m \in Nat, m \in T PROVE m + 1 \in T
  <2> SUFFICES ASSUME (m + 1) + 1 \in 1..i PROVE h[(m + 1) + 1] = g[(m + 1) + 1]
    OBVIOUS
  <2>1. h[m + 1] = g[m + 1]
    BY <1>3
  <2>2. PICK k \in 1..i : k = (m + 1) + 1 /\ k # 1 /\ k - 1 = m + 1 /\ i \in Nat
    OBVIOUS
  <2>3. k \in 1..n /\ t[k] = s[k]
    BY <1>0
  <2>4. h[k] = h[k - 1] \o t[k]
    BY <1>1, <2>2, GrownNext
  <2>5. g[k] = g[k - 1] \o s[k]
    BY <2>2, <2>3, GrownNext
  <2> QED BY <2>1, <2>2, <2>3, <2>4, <2>5
<1>4. Nat \subseteq T
  <2> HIDE DEF T
  <2> QED BY <1>2, <1>3, SetInduction
<1>5. h[i] = g[i]
  <2>1. i - 1 \in Nat /\ (i - 1) + 1 = i
    OBVIOUS
  <2>2. i - 1 \in T
    BY <1>4, <2>1, Zenon
  <2> QED BY <2>1, <2>2
<1> QED
  BY <1>1, <1>5

\* Nothing flattens to nothing.
LEMMA FlattenNothing == FlattenSeq(<<>>) = <<>>
  BY DEF FlattenSeq

\* One part more.
LEMMA FlattenAppend ==
  ASSUME NEW S, NEW a \in Seq(Seq(S)), NEW z \in Seq(S), NEW b, b = Append(a, z)
  PROVE  FlattenSeq(b) = FlattenSeq(a) \o z
<1> DEFINE n == Len(b)
<1>1. /\ n = Len(a) + 1 /\ n \in Nat \ {0} /\ n \in 1..n /\ b[n] = z /\ Len(a) \in Nat
      /\ \A j \in 1..Len(a) : a[j] = b[j]
  OBVIOUS
<1>2. PICK g : Grown(b, n, g) /\ FlattenSeq(b) = g[n]
  BY <1>1, FlattenIs
<1>3. CASE Len(a) = 0
  <2>1. a = <<>> /\ n = 1
    BY <1>1, <1>3
  <2>2. g[n] = b[n]
    BY <1>1, <1>2, <2>1, GrownAt
  <2>3. FlattenSeq(a) = <<>> /\ <<>> \o z = z
    BY <2>1, FlattenNothing
  <2> QED BY <1>1, <1>2, <2>2, <2>3
<1>4. CASE Len(a) # 0
  <2>0. Len(a) \in 1..n /\ Len(a) = n - 1 /\ n # 1
    BY <1>1, <1>4
  <2>1. PICK i \in 1..n : i = Len(a) /\ i = n - 1 /\ n # 1
    <3> HIDE DEF n
    <3> QED BY <2>0, Zenon
  <2>2. FlattenSeq(a) = g[i]
    <3>1. Begins(b, i, a)
      BY <1>1, <2>1 DEF Begins
    <3>2. Len(b) \in Nat \ {0} /\ Grown(b, Len(b), g) /\ i \in 1..Len(b)
      BY <1>1, <1>2, <2>1
    <3> QED BY <3>1, <3>2, FlattenAt, Zenon
  <2>3. g[n] = g[n - 1] \o b[n]
    <3> HIDE DEF n
    <3> QED BY <1>1, <1>2, <2>1, GrownNext
  <2> QED BY <1>1, <1>2, <2>1, <2>2, <2>3
<1> QED
  BY <1>3, <1>4

\* The last part and what comes before it.
LEMMA LastPart ==
  ASSUME NEW S, NEW s \in Seq(S), s # <<>>
  PROVE  \E a \in Seq(S), z \in S :
           s = Append(a, z) /\ Len(s) = Len(a) + 1 /\ \A j \in 1..Len(a) : a[j] = s[j]
<1> DEFINE a == SubSeq(s, 1, Len(s) - 1)
<1> DEFINE z == s[Len(s)]
<1>1. Len(s) \in Nat /\ Len(s) # 0
  OBVIOUS
<1>2. a \in Seq(S) /\ z \in S /\ Len(a) = Len(s) - 1 /\ \A j \in 1..Len(a) : a[j] = s[j]
  <2>1. a \in Seq(S)
    BY <1>1
  <2>2. z \in S
    BY <1>1, ElementOfSeq
  <2>3. Len(a) = Len(s) - 1 /\ \A j \in 1..(Len(s) - 1) : a[j] = s[j]
    <3> DEFINE n == Len(s) - 1
    <3>1. n \in Nat /\ 1 \in Int /\ n \in Int /\ \A i \in 1..n : s[i] \in S
      BY <1>1
    <3> HIDE DEF n
    <3>2. /\ Len(SubSeq(s, 1, n)) = IF 1 <= n THEN n - 1 + 1 ELSE 0
          /\ \A j \in 1..(n - 1 + 1) : SubSeq(s, 1, n)[j] = s[1 + j - 1]
      BY <3>1, SubSeqProperties
    <3>3. n - 1 + 1 = n /\ \A j \in 1..n : 1 + j - 1 = j
      BY <3>1
    <3>4. Len(SubSeq(s, 1, n)) = n
      BY <3>1, <3>2
    <3>5. \A j \in 1..n : SubSeq(s, 1, n)[j] = s[j]
      BY <3>1, <3>2, <3>3
    <3> QED
      BY <3>4, <3>5 DEF n
  <2> HIDE DEF a, z
  <2> QED BY <2>1, <2>2, <2>3
<1>3. s = Append(a, z)
  <2>1. Append(a, z) \in Seq(S) /\ Len(Append(a, z)) = Len(s)
    BY <1>1, <1>2
  <2>2. \A j \in 1..Len(s) : Append(a, z)[j] = s[j]
    BY <1>1, <1>2
  <2> HIDE DEF a, z
  <2> QED
    BY <2>1, <2>2, SeqEqual
<1>4. Len(s) = Len(a) + 1
  BY <1>1, <1>2
<1> QED
  BY <1>2, <1>3, <1>4

\* The type of a flattened sequence.
LEMMA FlattenTyped ==
  ASSUME NEW S, NEW s \in Seq(Seq(S)) PROVE FlattenSeq(s) \in Seq(S)
<1> DEFINE T == {m \in Nat : \A t \in Seq(Seq(S)) : Len(t) = m => FlattenSeq(t) \in Seq(S)}
<1>1. 0 \in T
  <2> SUFFICES ASSUME NEW t \in Seq(Seq(S)), Len(t) = 0 PROVE FlattenSeq(t) \in Seq(S)
    OBVIOUS
  <2>1. t = <<>>
    OBVIOUS
  <2>2. FlattenSeq(t) = <<>>
    BY <2>1, FlattenNothing, Zenon
  <2> QED BY <2>2
<1>2. ASSUME NEW m \in Nat, m \in T PROVE m + 1 \in T
  <2> SUFFICES ASSUME NEW t \in Seq(Seq(S)), Len(t) = m + 1 PROVE FlattenSeq(t) \in Seq(S)
    OBVIOUS
  <2>1. t # <<>>
    OBVIOUS
  <2>2. PICK a \in Seq(Seq(S)), z \in Seq(S) : t = Append(a, z) /\ Len(t) = Len(a) + 1
    BY <2>1, LastPart
  <2>3. Len(a) = m
    BY <2>2
  <2>4. FlattenSeq(a) \in Seq(S)
    BY <1>2, <2>3
  <2>5. FlattenSeq(t) = FlattenSeq(a) \o z
    BY <2>2, FlattenAppend
  <2> QED BY <2>4, <2>5
<1>3. Nat \subseteq T
  <2> HIDE DEF T
  <2> QED BY <1>1, <1>2, SetInduction
<1>4. Len(s) \in T
  BY <1>3
<1> QED
  BY <1>4

\* A sequence and what follows it.
LEMMA ConcatExtends ==
  ASSUME NEW S, NEW a \in Seq(S), NEW b \in Seq(S), NEW c, c = a \o b
  PROVE  /\ c \in Seq(S) /\ Len(c) = Len(a) + Len(b)
         /\ Len(a) <= Len(c) /\ \A j \in 1..Len(a) : c[j] = a[j]
         /\ \A j \in 1..Len(b) : c[Len(a) + j] = b[j]
  OBVIOUS

\* Beginnings of sequences.
LEMMA PrefixReflexive == ASSUME NEW S, NEW a \in Seq(S) PROVE IsPrefix(a, a)
  BY DEF IsPrefix

LEMMA PrefixConcat ==
  ASSUME NEW S, NEW a \in Seq(S), NEW b \in Seq(S), NEW c, c = a \o b PROVE IsPrefix(a, c)
<1>1. Len(a) <= Len(c) /\ \A j \in 1..Len(a) : c[j] = a[j]
  BY ConcatExtends
<1>2. c \in Seq(S) /\ Len(a) \in Nat
  BY ConcatExtends
<1>3. SubSeq(a, 1, Len(a)) = SubSeq(c, 1, Len(a))
  BY <1>1, <1>2
<1> QED
  BY <1>1, <1>3 DEF IsPrefix

LEMMA PrefixTransitive ==
  ASSUME NEW S, NEW a \in Seq(S), NEW b \in Seq(S), NEW c \in Seq(S), IsPrefix(a, b), IsPrefix(b, c)
  PROVE  IsPrefix(a, c)
<1>1. Len(a) <= Len(b) /\ Len(b) <= Len(c) /\ Len(a) \in Nat /\ Len(b) \in Nat /\ Len(c) \in Nat
  BY DEF IsPrefix
<1>2. ASSUME NEW j \in 1..Len(a) PROVE a[j] = b[j]
  <2>1. SubSeq(a, 1, Len(a))[j] = a[j] /\ SubSeq(b, 1, Len(a))[j] = b[j]
    BY <1>1
  <2> QED BY <2>1 DEF IsPrefix
<1>3. ASSUME NEW j \in 1..Len(b) PROVE b[j] = c[j]
  <2>1. SubSeq(b, 1, Len(b))[j] = b[j] /\ SubSeq(c, 1, Len(b))[j] = c[j]
    BY <1>1
  <2> QED BY <2>1 DEF IsPrefix
<1>4. \A j \in 1..Len(a) : a[j] = c[j]
  BY <1>1, <1>2, <1>3
<1>5. SubSeq(a, 1, Len(a)) = SubSeq(c, 1, Len(a))
  BY <1>1, <1>4
<1> QED
  BY <1>1, <1>5 DEF IsPrefix

\* A beginning flattens to a beginning.
Continues(S, m) ==
  \A a, b \in Seq(Seq(S)) :
    Len(b) = Len(a) + m /\ (\A j \in 1..Len(a) : a[j] = b[j])
    => IsPrefix(FlattenSeq(a), FlattenSeq(b))

LEMMA FlattenPrefix ==
  ASSUME NEW S, NEW a \in Seq(Seq(S)), NEW b \in Seq(Seq(S)), Len(a) <= Len(b),
         \A j \in 1..Len(a) : a[j] = b[j]
  PROVE  IsPrefix(FlattenSeq(a), FlattenSeq(b))
<1> DEFINE T == {m \in Nat : Continues(S, m)}
<1>1. 0 \in T
  <2>1. ASSUME NEW c \in Seq(Seq(S)), NEW d \in Seq(Seq(S)), Len(d) = Len(c) + 0,
               \A j \in 1..Len(c) : c[j] = d[j]
        PROVE  IsPrefix(FlattenSeq(c), FlattenSeq(d))
    <3>1. c = d
      BY <2>1, SeqEqual
    <3> QED BY <3>1, FlattenTyped, PrefixReflexive
  <2> QED BY <2>1 DEF Continues
<1>2. ASSUME NEW m \in Nat, m \in T PROVE m + 1 \in T
  <2>1. ASSUME NEW c \in Seq(Seq(S)), NEW d \in Seq(Seq(S)), Len(d) = Len(c) + (m + 1),
               \A j \in 1..Len(c) : c[j] = d[j]
        PROVE  IsPrefix(FlattenSeq(c), FlattenSeq(d))
    <3>1. d # <<>>
      BY <2>1
    <3>2. PICK e \in Seq(Seq(S)), z \in Seq(S) :
            d = Append(e, z) /\ Len(d) = Len(e) + 1 /\ \A j \in 1..Len(e) : e[j] = d[j]
      BY <3>1, LastPart
    <3>3. Len(e) = Len(c) + m /\ \A j \in 1..Len(c) : c[j] = e[j]
      BY <2>1, <3>2
    <3>4. IsPrefix(FlattenSeq(c), FlattenSeq(e))
      BY <1>2, <3>3 DEF Continues
    <3>5. FlattenSeq(d) = FlattenSeq(e) \o z
      BY <3>2, FlattenAppend
    <3>6. /\ FlattenSeq(c) \in Seq(S) /\ FlattenSeq(d) \in Seq(S) /\ FlattenSeq(e) \in Seq(S)
          /\ IsPrefix(FlattenSeq(e), FlattenSeq(d))
      BY <3>5, FlattenTyped, PrefixConcat
    <3> QED
      BY <3>4, <3>6, PrefixTransitive
  <2> QED BY <2>1 DEF Continues
<1>3. Nat \subseteq T
  <2> HIDE DEF T
  <2> QED BY <1>1, <1>2, SetInduction
<1>4. Len(b) - Len(a) \in Nat /\ Len(b) = Len(a) + (Len(b) - Len(a))
  OBVIOUS
<1>5. Continues(S, Len(b) - Len(a))
  BY <1>3, <1>4
<1> QED
  BY <1>4, <1>5 DEF Continues

\* A set of natural numbers has a least one.
LEMMA LeastExists ==
  ASSUME NEW T, T \subseteq Nat, T # {}
  PROVE  \E i \in T : \A j \in T : i <= j
<1>1. PICK i \in T : \A j \in T : ~ (<<j, i>> \in OpToRel(<, Nat))
  BY NatLessThanWellFounded, WFMin
<1>2. \A j \in T : ~(j < i)
  BY <1>1 DEF OpToRel
<1> QED
  BY <1>2

\* The binding has one event for a feature and nothing to guard it: its requests of
\* one feature are called back by one thread.
OneThreadPerFeature ==
  \A s \in Setups : \A q, r \in Requests :
    s[q].csharp /\ s[r].csharp /\ s[q].kind = s[r].kind => ThreadOf[q] = ThreadOf[r]

(***************************************************************************)
(* The tables.                                                             *)
(***************************************************************************)
\* What the service of a feature sends, and its gateway. Only the synthesizer of
\* the first generation has no opening.
Messages(k) ==
  {"101", Verdict(k)} \union Results(k) \union Failures(k)
    \union (IF k = "sy" THEN {} ELSE {Opening(k)})

\* What a listener has a callback for.
Types(k) == Listener(k) \union {"TaskFailed"}

\* An event that a listener knows is given to the callback of its name.
LEMMA ListenerHears ==
  ASSUME NEW k, NEW type \in Types(k) PROVE listenerFrame(k, type) = type
BY DEF listenerFrame, Types

\* Every listener but that of dialogs has the callback of setEnableOnMessage.
LEMMA ListenerHearsMessage ==
  ASSUME NEW k \in Kinds, k # "da" PROVE "Message" \in Listener(k)
BY DEF Kinds, Listener, SpeechRecognizerListener, SpeechTranscriberListener,
       DashFunAsrTranscriberListener, DashParaformerTranscriberListener,
       SpeechSynthesizerListener, FlowingSynthesizerListener,
       DashCosyVoiceSynthesizerListener

\* Every listener hears how a task ends.
LEMMA ListenerHearsEnd ==
  ASSUME NEW k \in Kinds
  PROVE  "Close" \in Types(k) /\ "TaskFailed" \in Types(k)
BY DEF Types, Kinds, Listener, SpeechRecognizerListener, SpeechTranscriberListener,
       DashFunAsrTranscriberListener, DashParaformerTranscriberListener,
       SpeechSynthesizerListener, FlowingSynthesizerListener,
       DashCosyVoiceSynthesizerListener, DialogAssistantListener

Known(k) ==
  \A m \in Messages(k) \ {"101", "CLOSE"} :
    convertResult(k, m) \in Types(k) \union {"ignored", "failed"}

\* The recognizers of DashScope.
LEMMA TranscriptsAreKnown ==
  ASSUME NEW k \in {"funasr", "paraformer"} PROVE Known(k)
<1> DEFINE types == {"TranscriptionStarted", "TranscriptionCompleted", "SentenceBegin",
                     "SentenceEnd", "TranscriptionResultChanged", "TaskFailed"}
<1>1. SUFFICES ASSUME NEW m \in Messages(k) \ {"101", "CLOSE"}
               PROVE  convertResult(k, m) \in Types(k) \union {"ignored", "failed"}
  BY DEF Known
<1>2. m \in {"task-started", "task-finished", "sentence_begin", "sentence", "sentence_end",
             "task-failed", "not json"}
  BY <1>1 DEF Messages, Opening, Results, Verdict, Failures, DashScope
<1>3. types \subseteq Types(k)
  BY DEF Types, Listener, DashFunAsrTranscriberListener, DashParaformerTranscriberListener
<1>4. m # "not json" => convertResult(k, m) = convertFunAsr(parseMsgType(m), m)
  BY <1>2 DEF convertResult, parseJsonMsg, convertParaformer
<1>5. m = "not json" => convertResult(k, m) = "failed"
  BY DEF convertResult, parseJsonMsg
<1>6. CASE m = "task-started"
  BY <1>6, <1>3, <1>4 DEF parseMsgType, convertFunAsr
<1>7. CASE m = "task-finished"
  BY <1>7, <1>3, <1>4 DEF parseMsgType, convertFunAsr
<1>8. CASE m \in {"sentence_begin", "sentence", "sentence_end"}
  <2>1. parseMsgType(m) = "ResultGenerated"
    BY <1>8 DEF parseMsgType
  <2> QED
    BY <1>8, <1>3, <1>4, <2>1 DEF convertFunAsr
<1>9. CASE m = "task-failed"
  BY <1>9, <1>3, <1>4 DEF parseMsgType, convertFunAsr
<1> QED
  BY <1>2, <1>5, <1>6, <1>7, <1>8, <1>9

\* Whatever a service sends becomes an event its listener knows, unless it is dropped
\* or cannot be parsed.
LEMMA MessagesAreKnown == ASSUME NEW k \in Kinds PROVE Known(k)
<1>0. k \in {"sr", "st", "sy", "fss", "cosyvoice", "da", "funasr", "paraformer"}
  BY DEF Kinds
<1>7. CASE k \in {"funasr", "paraformer"}
  BY <1>7, TranscriptsAreKnown
<1> USE DEF Known, Messages, Types, Opening, Results, Verdict, Failures, DashScope,
            convertResult, parseJsonMsg, parseMsgType
<1>1. CASE k = "sr"
  BY <1>1 DEF Listener, SpeechRecognizerListener
<1>2. CASE k = "st"
  BY <1>2 DEF Listener, SpeechTranscriberListener
<1>3. CASE k = "sy"
  BY <1>3 DEF Listener, SpeechSynthesizerListener
<1>4. CASE k = "fss"
  BY <1>4 DEF Listener, FlowingSynthesizerListener
<1>5. CASE k = "cosyvoice"
  BY <1>5 DEF Listener, DashCosyVoiceSynthesizerListener, convertCosyVoice
<1>6. CASE k = "da"
  BY <1>6 DEF Listener, DialogAssistantListener
<1> HIDE DEF Known
<1> QED
  BY <1>0, <1>1, <1>2, <1>3, <1>4, <1>5, <1>6, <1>7

(***************************************************************************)
(* The invariant.                                                          *)
(***************************************************************************)
Statuses == {"Created", "Handshaked", "Starting", "Started", "Completed", "Failed", "Closed"}
Servers == {"none", "asked", "working", "over"}

Typing ==
  /\ setup \in Setups
  /\ link \in [Requests -> BOOLEAN] /\ status \in [Requests -> Statuses]
  /\ server \in [Requests -> Servers] /\ rounds \in [Requests -> 0..MaxRounds]

\* What is on its way to a request was sent by the service of its feature.
WireGood ==
  /\ DOMAIN wire = Requests
  /\ \A r \in Requests : wire[r] \in Seq(Messages(Kind(r)))

\* What a thread does is for one of its own requests, and with an event it knows.
Works(t) ==
  LET d == thread[t] IN
  /\ DOMAIN d = {"at", "req", "type", "then"}
  /\ d.at \in {"call", "fetch", "settle"} /\ d.then \in {"switch", "end", "rest", "closed"}
  /\ d.req \in Requests /\ ThreadOf[d.req] = t /\ d.type \in Types(Kind(d.req))

ThreadsGood ==
  /\ DOMAIN thread = Threads
  /\ \A t \in Threads : thread[t] = Idle \/ Works(t)

\* The event of a callback.
Event(r, type) == [owner |-> r, type |-> type, bytes |-> IF type = "Binary" THEN 1 ELSE 0]

\* Between the copy and the fetch the event of a feature is that of the one callback
\* that is to fetch it, and empty otherwise.
Fetches(t, k) == thread[t].at = "fetch" /\ Kind(thread[t].req) = k

Fetchable(t) ==
  LET d == thread[t] IN
  setup[d.req].csharp /\ shared[Kind(d.req)] = Event(d.req, d.type)

EventsGood ==
  /\ DOMAIN shared = Bound
  /\ \A k \in Bound : shared[k] = Blank \/ \E t \in Threads : Fetches(t, k)
  /\ \A t \in Threads : thread[t].at = "fetch" => Fetchable(t)

\* What a callback should see: an event of its request and of its own name.
OwnCall(r) == {[callback |-> type, event |-> Event(r, type)] : type \in Types(Kind(r))}

CallsGood ==
  /\ DOMAIN calls = Requests
  /\ \A r \in Requests : calls[r] \in Seq(OwnCall(r))

DInv == Typing /\ WireGood /\ ThreadsGood /\ EventsGood /\ CallsGood

\* The setup of a request.
LEMMA SetupIs ==
  ASSUME Typing, NEW r \in Requests
  PROVE  /\ Kind(r) \in Kinds /\ setup[r].rounds <= MaxRounds
         /\ setup[r].rounds \in Nat
         /\ setup[r].csharp => Kind(r) \in Bound /\ ~setup[r].message
         /\ setup[r].message => Kind(r) # "da"
BY DeliveryAssumption DEF Typing, Setup, Kind

(***************************************************************************)
(* What a step of a thread has to show.                                    *)
(***************************************************************************)
\* The parts that do not depend on the rest go on where nothing of theirs changes.
LEMMA SameSetup ==
  ASSUME setup' = setup
  PROVE  \A r \in Requests : /\ Kind(r)' = Kind(r)
                             /\ Messages(Kind(r))' = Messages(Kind(r))
                             /\ Types(Kind(r))' = Types(Kind(r))
                             /\ OwnCall(r)' = OwnCall(r)
<1>1. \A r : Kind(r)' = Kind(r)
  BY DEF Kind
<1>2. \A r : OwnCall(r)' = OwnCall(r)
  BY <1>1 DEF OwnCall, Event
<1> QED
  BY <1>1, <1>2

LEMMA WireStays == ASSUME WireGood, UNCHANGED <<setup, wire>> PROVE WireGood'
BY SameSetup DEF WireGood

LEMMA CallsStay == ASSUME CallsGood, UNCHANGED <<setup, calls>> PROVE CallsGood'
BY SameSetup DEF CallsGood

LEMMA ThreadsStay ==
  ASSUME ThreadsGood, EventsGood, UNCHANGED <<setup, thread, shared>>
  PROVE  ThreadsGood' /\ EventsGood'
<1>1. ASSUME NEW t \in Threads, Works(t)
      PROVE  Works(t)'
  BY <1>1, SameSetup DEF Works
<1>2. ThreadsGood'
  BY <1>1 DEF ThreadsGood
<1>3. \A r : Kind(r)' = Kind(r)
  BY DEF Kind
<1>4. EventsGood'
  BY <1>3 DEF EventsGood, Fetches, Fetchable, Event
<1> QED
  BY <1>2, <1>4

\* A thread that copies no event for the binding and fetches none: it goes to rest, or
\* on with a callback.
LEMMA ThreadGoesOn ==
  ASSUME ThreadsGood, EventsGood, NEW t \in Threads, NEW d,
         thread' = [thread EXCEPT ![t] = d], thread[t].at # "fetch",
         UNCHANGED <<setup, shared>>,
         \/ d = Idle
         \/ /\ DOMAIN d = {"at", "req", "type", "then"}
            /\ d.at \in {"call", "settle"} /\ d.then \in {"switch", "end", "rest", "closed"}
            /\ d.req \in Requests /\ ThreadOf[d.req] = t /\ d.type \in Types(Kind(d.req))
  PROVE  ThreadsGood' /\ EventsGood'
<1>1. /\ DOMAIN thread' = Threads /\ thread'[t] = d
      /\ \A u \in Threads : u # t => thread'[u] = thread[u]
  BY DEF ThreadsGood
<1>2. ASSUME NEW u \in Threads, u # t
      PROVE  (thread[u] = Idle \/ Works(u))'
  BY <1>1, <1>2, SameSetup DEF ThreadsGood, Works
<1>3. (thread[t] = Idle \/ Works(t))'
  <2>1. CASE d = Idle
    BY <1>1, <2>1 DEF Idle
  <2>2. CASE d # Idle
    BY <1>1, <2>2, SameSetup DEF Works
  <2> QED
    BY <2>1, <2>2
<1>4. ThreadsGood'
  BY <1>1, <1>2, <1>3 DEF ThreadsGood
<1>5. d.at # "fetch"
  <2>1. Idle.at = "idle"
    BY DEF Idle
  <2> QED
    BY <2>1
<1>6. \A r : Kind(r)' = Kind(r)
  BY DEF Kind
<1>7. ASSUME NEW u \in Threads, NEW k, Fetches(u, k)
      PROVE  Fetches(u, k)'
  BY <1>1, <1>6, <1>7 DEF Fetches
<1>8. ASSUME NEW u \in Threads, thread'[u].at = "fetch"
      PROVE  Fetchable(u)'
  BY <1>1, <1>5, <1>6, <1>8 DEF EventsGood, Fetchable, Event
<1>9. EventsGood'
  BY <1>7, <1>8 DEF EventsGood
<1> QED
  BY <1>4, <1>9

\* Messages that are taken, sent or dropped.
LEMMA WireGoesOn ==
  ASSUME WireGood, setup' = setup, NEW r \in Requests, NEW s \in Seq(Messages(Kind(r))),
         wire' = [wire EXCEPT ![r] = s]
  PROVE  WireGood'
BY SameSetup DEF WireGood

\* What is taken off the wire.
LEMMA HeadIsGood ==
  ASSUME WireGood, NEW r \in Requests, wire[r] # <<>>
  PROVE  Head(wire[r]) \in Messages(Kind(r)) /\ Tail(wire[r]) \in Seq(Messages(Kind(r)))
<1>1. wire[r] \in Seq(Messages(Kind(r)))
  BY DEF WireGood
<1> HIDE DEF WireGood
<1> QED
  BY <1>1

\* A callback of the user that sees its event.
LEMMA ToUserIsGood ==
  ASSUME CallsGood, setup' = setup, NEW r \in Requests, NEW type \in Types(Kind(r)),
         ToUser(r, type, Event(r, type))
  PROVE  CallsGood'
<1> DEFINE c == [callback |-> type, event |-> Event(r, type)]
<1>1. c \in OwnCall(r) /\ calls[r] \in Seq(OwnCall(r))
  BY DEF OwnCall, CallsGood
<1>2. calls' = [calls EXCEPT ![r] = Append(@, c)]
  BY DEF ToUser
<1> HIDE DEF c
<1>3. Append(calls[r], c) \in Seq(OwnCall(r))
  BY <1>1
<1>4. /\ DOMAIN calls' = Requests /\ calls'[r] = Append(calls[r], c)
      /\ \A q \in Requests : q # r => calls'[q] = calls[q]
  BY <1>2 DEF CallsGood
<1> QED
  BY <1>3, <1>4, SameSetup DEF CallsGood

(***************************************************************************)
(* The user and the service.                                               *)
(***************************************************************************)
LEMMA StartKeeps == ASSUME DInv, NEW r \in Requests, Start(r) PROVE DInv'
<1>1. UNCHANGED <<setup, thread, shared>>
  BY DEF Start
<1>2. Typing'
  <2>1. rounds[r] + 1 \in 0..MaxRounds
    BY SetupIs, DeliveryAssumption DEF DInv, Typing, Start
  <2>2. rounds' \in [Requests -> 0..MaxRounds]
    BY <2>1 DEF DInv, Typing, Start
  <2>3. link' \in [Requests -> BOOLEAN]
    BY DEF DInv, Typing, Start
  <2>4. status' \in [Requests -> Statuses] /\ server' \in [Requests -> Servers]
    BY DEF DInv, Typing, Start, Statuses, Servers
  <2> QED
    BY <1>1, <2>2, <2>3, <2>4 DEF DInv, Typing
<1>3. WireGood'
  <2>1. CASE UNCHANGED wire
    BY <1>1, <2>1, WireStays DEF DInv
  <2>2. CASE wire' = [wire EXCEPT ![r] = <<"101">>]
    <3>1. "101" \in Messages(Kind(r))
      BY DEF Messages
    <3>2. <<"101">> \in Seq(Messages(Kind(r)))
      BY <3>1
    <3> QED
      BY <1>1, <2>2, <3>2, WireGoesOn DEF DInv
  <2> QED
    BY <2>1, <2>2 DEF Start
<1>4. CallsGood'
  <2>1. calls' = [calls EXCEPT ![r] = <<>>]
    BY DEF Start
  <2>2. <<>> \in Seq(OwnCall(r))
    OBVIOUS
  <2>3. /\ DOMAIN calls' = Requests /\ calls'[r] = <<>>
        /\ \A q \in Requests : q # r => calls'[q] = calls[q]
    BY <2>1 DEF DInv, CallsGood
  <2> QED
    BY <1>1, <2>2, <2>3, SameSetup DEF DInv, CallsGood
<1> QED
  BY <1>1, <1>2, <1>3, <1>4, ThreadsStay DEF DInv

LEMMA ServeKeeps ==
  ASSUME DInv, NEW r \in Requests, NEW m \in Messages(Kind(r)), NEW state \in Servers,
         Serve(r, m, state)
  PROVE  DInv'
<1>1. UNCHANGED <<setup, link, status, rounds, thread, shared, calls>>
  BY DEF Serve
<1>2. Typing'
  BY <1>1 DEF DInv, Typing, Serve
<1>3. WireGood'
  <2>1. wire[r] \in Seq(Messages(Kind(r)))
    BY DEF DInv, WireGood
  <2>2. Append(wire[r], m) \in Seq(Messages(Kind(r)))
    BY <2>1
  <2> QED
    BY <1>1, <2>2, WireGoesOn DEF DInv, Serve
<1> QED
  BY <1>1, <1>2, <1>3, ThreadsStay, CallsStay DEF DInv

LEMMA ServiceKeeps == ASSUME DInv, NEW r \in Requests, Service(r) PROVE DInv'
<1>1. {"working", "over"} \subseteq Servers
  BY DEF Servers
<1>2. /\ Results(Kind(r)) \union Failures(Kind(r)) \subseteq Messages(Kind(r))
      /\ Verdict(Kind(r)) \in Messages(Kind(r))
      /\ Kind(r) # "sy" => Opening(Kind(r)) \in Messages(Kind(r))
  BY DEF Messages
<1>3. \E m \in Messages(Kind(r)), state \in {"working", "over"} : Serve(r, m, state)
  BY <1>2 DEF Service, ServeStarted, ServeResult, ServeVerdict, ServeFailure, ServeIdle
<1> QED
  BY <1>1, <1>3, ServeKeeps

(***************************************************************************)
(* The event thread.                                                       *)
(***************************************************************************)
\* What a thread that takes a message starts to do.
LEMMA DoKeeps ==
  ASSUME DInv, NEW t \in Threads, NEW r \in Requests, ThreadOf[r] = t,
         thread[t].at # "fetch", NEW type \in Types(Kind(r)),
         NEW then \in {"switch", "end", "rest", "closed"}, Do(t, "call", r, type, then),
         UNCHANGED <<setup, shared>>
  PROVE  ThreadsGood' /\ EventsGood'
<1> DEFINE d == [at |-> "call", req |-> r, type |-> type, then |-> then]
<1>1. thread' = [thread EXCEPT ![t] = d]
  BY DEF Do
<1>2. /\ DOMAIN d = {"at", "req", "type", "then"}
      /\ d.at = "call" /\ d.req = r /\ d.type = type /\ d.then = then
  OBVIOUS
<1> HIDE DEF d
<1> QED
  BY <1>1, <1>2, ThreadGoesOn DEF DInv

LEMMA RestKeeps ==
  ASSUME DInv, NEW t \in Threads, thread[t].at # "fetch", Rest(t), UNCHANGED <<setup, shared>>
  PROVE  ThreadsGood' /\ EventsGood'
BY ThreadGoesOn DEF DInv, Rest

\* The message that a thread takes.
LEMMA TakeKeeps ==
  ASSUME DInv, NEW t \in Threads, NEW r \in Requests, Take(t, r), setup' = setup
  PROVE  /\ WireGood' /\ ThreadOf[r] = t /\ thread[t].at = "idle"
         /\ Head(wire[r]) \in Messages(Kind(r))
BY HeadIsGood, WireGoesOn DEF DInv, Take

LEMMA DisconnectKeeps ==
  ASSUME DInv, NEW r \in Requests, Disconnect(r), setup' = setup
  PROVE  WireGood' /\ link' \in [Requests -> BOOLEAN]
<1>1. <<>> \in Seq(Messages(Kind(r)))
  OBVIOUS
<1>2. WireGood'
  BY <1>1, WireGoesOn DEF DInv, Disconnect
<1> QED
  BY <1>2 DEF DInv, Typing, Disconnect

LEMMA GatewayAnswersKeeps ==
  ASSUME DInv, NEW t \in Threads, NEW r \in Requests, GatewayAnswers(t, r)
  PROVE  DInv'
<1>1. UNCHANGED <<setup, link, rounds, shared, calls>> /\ Take(t, r)
  BY DEF GatewayAnswers
<1>2. Typing'
  BY <1>1 DEF DInv, Typing, GatewayAnswers, Statuses, Servers
<1>3. WireGood' /\ ThreadOf[r] = t /\ thread[t].at = "idle"
  BY <1>1, TakeKeeps
<1>4. ThreadsGood' /\ EventsGood'
  <2>1. CASE Kind(r) = "sy" /\ Do(t, "call", r, "SynthesisStarted", "rest")
    <3>1. "SynthesisStarted" \in Types(Kind(r))
      BY <2>1 DEF Types, Listener, SpeechSynthesizerListener
    <3> QED
      BY <1>1, <1>3, <2>1, <3>1, DoKeeps
  <2>2. CASE UNCHANGED thread
    BY <1>1, <2>2, ThreadsStay DEF DInv
  <2> QED
    BY <2>1, <2>2 DEF GatewayAnswers
<1> QED
  BY <1>1, <1>2, <1>3, <1>4, CallsStay DEF DInv

LEMMA ParseEventKeeps ==
  ASSUME DInv, NEW t \in Threads, NEW r \in Requests, ParseEvent(t, r)
  PROVE  DInv'
<1> DEFINE type == convertResult(Kind(r), Head(wire[r]))
<1>1. UNCHANGED <<setup, link, status, server, rounds, shared, calls>> /\ Take(t, r)
  BY DEF ParseEvent
<1>2. Typing'
  BY <1>1 DEF DInv, Typing
<1>3. /\ WireGood' /\ ThreadOf[r] = t /\ thread[t].at = "idle"
      /\ Head(wire[r]) \in Messages(Kind(r)) \ {"101", "CLOSE"}
  BY <1>1, TakeKeeps DEF ParseEvent
<1>4. type \in Types(Kind(r)) \union {"ignored", "failed"}
  BY <1>3, MessagesAreKnown, SetupIs DEF Known, DInv
<1>5. \/ UNCHANGED thread
      \/ type \in Types(Kind(r)) /\ Do(t, "call", r, type, "switch")
  BY <1>4 DEF ParseEvent
<1> HIDE DEF type
<1>6. ThreadsGood' /\ EventsGood'
  <2>1. CASE UNCHANGED thread
    BY <1>1, <2>1, ThreadsStay DEF DInv
  <2>2. CASE type \in Types(Kind(r)) /\ Do(t, "call", r, type, "switch")
    BY <1>1, <1>3, <2>2, DoKeeps
  <2> QED
    BY <1>5, <2>1, <2>2
<1> QED
  BY <1>1, <1>2, <1>3, <1>6, CallsStay DEF DInv

\* A CLOSE frame, and a message that cannot be parsed.
LEMMA ParseEndsKeeps ==
  ASSUME DInv, NEW t \in Threads, NEW r \in Requests, ParseClose(t, r) \/ ParseFails(t, r)
  PROVE  DInv'
<1>1. UNCHANGED <<setup, status, server, rounds, shared, calls>>
  BY DEF ParseClose, ParseFails
<1>2. CASE Disconnect(r) /\ UNCHANGED thread
  <2>1. WireGood' /\ link' \in [Requests -> BOOLEAN]
    BY <1>1, <1>2, DisconnectKeeps
  <2>2. Typing'
    BY <1>1, <2>1 DEF DInv, Typing
  <2> QED
    BY <1>1, <1>2, <2>1, <2>2, ThreadsStay, CallsStay DEF DInv
<1>3. ASSUME NEW then \in {"switch", "end"}, Take(t, r), UNCHANGED link,
             Do(t, "call", r, "TaskFailed", then)
      PROVE  DInv'
  <2>1. WireGood' /\ ThreadOf[r] = t /\ thread[t].at = "idle"
    BY <1>1, <1>3, TakeKeeps
  <2>2. Typing'
    BY <1>1, <1>3 DEF DInv, Typing
  <2>3. "TaskFailed" \in Types(Kind(r))
    BY DEF Types
  <2>4. ThreadsGood' /\ EventsGood'
    BY <1>1, <1>3, <2>1, <2>3, DoKeeps
  <2> QED
    BY <1>1, <2>1, <2>2, <2>4, CallsStay DEF DInv
<1> QED
  BY <1>2, <1>3 DEF ParseClose, ParseFails

\* The request of a thread that is not idle.
LEMMA WorksIs ==
  ASSUME DInv, NEW t \in Threads, thread[t].at # "idle"
  PROVE  /\ Works(t) /\ thread[t].req \in Requests
         /\ ThreadOf[thread[t].req] = t /\ thread[t].type \in Types(Kind(thread[t].req))
<1>1. Idle.at = "idle"
  BY DEF Idle
<1>2. Works(t)
  BY <1>1 DEF DInv, ThreadsGood
<1> QED
  BY <1>2 DEF Works

\* A thread that works goes on with the same callback.
LEMMA AtKeeps ==
  ASSUME DInv, NEW t \in Threads, thread[t].at = "call",
         thread' = [thread EXCEPT ![t].at = "settle"], UNCHANGED <<setup, shared>>
  PROVE  ThreadsGood' /\ EventsGood'
<1> DEFINE d == [thread[t] EXCEPT !.at = "settle"]
<1>1. Works(t)
  BY WorksIs
<1>2. thread' = [thread EXCEPT ![t] = d]
  OBVIOUS
<1>3. /\ DOMAIN d = {"at", "req", "type", "then"}
      /\ d.at = "settle" /\ d.req = thread[t].req /\ d.type = thread[t].type
      /\ d.then = thread[t].then
  BY <1>1 DEF Works
<1> HIDE DEF d
<1> QED
  BY <1>1, <1>2, <1>3, ThreadGoesOn DEF Works, DInv

\* The copy for the binding: of the requests of this feature only this one is called.
LEMMA CopyKeeps ==
  ASSUME OneThreadPerFeature, DInv, NEW t \in Threads, thread[t].at = "call",
         thread' = [thread EXCEPT ![t].at = "fetch"], setup' = setup,
         setup[thread[t].req].csharp, ToBinding(thread[t].req, thread[t].type)
  PROVE  ThreadsGood' /\ EventsGood'
<1> DEFINE r == thread[t].req
           type == thread[t].type
           k == Kind(r)
           d == [thread[t] EXCEPT !.at = "fetch"]
<1>1. Works(t) /\ r \in Requests /\ ThreadOf[r] = t /\ type \in Types(k)
  BY WorksIs
<1>2. k \in Bound
  BY <1>1, SetupIs DEF DInv
<1>3. \A u \in Threads : ~Fetches(u, k)
  <2>1. SUFFICES ASSUME NEW u \in Threads, Fetches(u, k) PROVE FALSE
    OBVIOUS
  <2>2. thread[u].at = "fetch" /\ Kind(thread[u].req) = k
    BY <2>1 DEF Fetches
  <2>3. thread[u].req \in Requests /\ ThreadOf[thread[u].req] = u /\ setup[thread[u].req].csharp
    BY <2>2, WorksIs DEF DInv, EventsGood, Fetchable
  <2>4. u = t
    BY <1>1, <2>2, <2>3 DEF OneThreadPerFeature, DInv, Typing, Kind
  <2> QED
    BY <2>2, <2>4
<1>4. shared[k] = Blank
  BY <1>2, <1>3 DEF DInv, EventsGood
<1>5. ConvertNlsEvent(Blank, r, type) = Event(r, type)
  BY DEF ConvertNlsEvent, Blank, Event
<1>6. /\ DOMAIN shared' = Bound /\ shared'[k] = Event(r, type)
      /\ \A j \in Bound : j # k => shared'[j] = shared[j]
  BY <1>2, <1>4, <1>5 DEF DInv, EventsGood, ToBinding
<1>7. /\ DOMAIN d = {"at", "req", "type", "then"}
      /\ d.at = "fetch" /\ d.req = r /\ d.type = type /\ d.then = thread[t].then
  BY <1>1 DEF Works
<1>8. /\ DOMAIN thread' = Threads /\ thread'[t] = d
      /\ \A u \in Threads : u # t => thread'[u] = thread[u]
  BY DEF DInv, ThreadsGood
<1>9. \A q : Kind(q)' = Kind(q)
  BY DEF Kind
<1> HIDE DEF d
<1>10. ThreadsGood'
  <2>1. ASSUME NEW u \in Threads
        PROVE  (thread[u] = Idle \/ Works(u))'
    BY <1>1, <1>7, <1>8, SameSetup DEF DInv, ThreadsGood, Works
  <2> QED
    BY <1>8, <2>1 DEF ThreadsGood
<1>11. EventsGood'
  <2>1. ASSUME NEW j \in Bound, j = k
        PROVE  Fetches(t, j)'
    BY <1>7, <1>8, <1>9, <2>1 DEF Fetches
  <2>2. ASSUME NEW j \in Bound, j # k
        PROVE  (shared[j] = Blank \/ \E u \in Threads : Fetches(u, j))'
    <3>1. CASE shared[j] = Blank
      BY <1>6, <2>2, <3>1 DEF Blank
    <3>2. ASSUME NEW u \in Threads, Fetches(u, j)
          PROVE  Fetches(u, j)'
      BY <1>8, <1>9, <3>2 DEF Fetches
    <3> QED
      BY <3>1, <3>2 DEF DInv, EventsGood
  <2>3. Fetchable(t)'
    BY <1>6, <1>7, <1>8, <1>9 DEF Fetchable, Event
  <2>4. ASSUME NEW u \in Threads, u # t, thread'[u].at = "fetch"
        PROVE  Fetchable(u)'
    <3>1. Fetches(u, Kind(thread[u].req)) /\ Fetchable(u)
      BY <1>8, <2>4 DEF Fetches, DInv, EventsGood
    <3>2. Kind(thread[u].req) # k
      BY <1>3, <3>1
    <3>3. Kind(thread[u].req) \in Bound
      BY <1>8, <2>4, <3>1, WorksIs, SetupIs DEF Fetchable, DInv
    <3> QED
      BY <1>6, <1>8, <1>9, <2>4, <3>1, <3>2, <3>3 DEF Fetchable, Event
  <2> HIDE DEF k
  <2>5. \A j \in Bound : (shared[j] = Blank \/ \E u \in Threads : Fetches(u, j))'
    BY <2>1, <2>2
  <2>6. \A u \in Threads : thread'[u].at = "fetch" => Fetchable(u)'
    BY <2>3, <2>4
  <2> QED
    BY <1>6, <2>5, <2>6 DEF EventsGood
<1> QED
  BY <1>10, <1>11

LEMMA CallKeeps ==
  ASSUME OneThreadPerFeature, DInv, NEW t \in Threads, Call(t) PROVE DInv'
<1> DEFINE r == thread[t].req
           type == thread[t].type
           given == Given(r, type)
           callback == listenerFrame(Kind(r), given)
<1>1. /\ UNCHANGED <<setup, link, status, server, wire, rounds>> /\ thread[t].at = "call"
  BY DEF Call
<1>2. r \in Requests /\ type \in Types(Kind(r))
  BY <1>1, WorksIs
<1>3. given \in Types(Kind(r)) /\ callback = given
  <2>1. CASE setup[r].message
    BY <1>2, <2>1, SetupIs, ListenerHearsMessage, ListenerHears DEF DInv, Given, Types
  <2>2. CASE ~setup[r].message
    BY <1>2, <2>2, ListenerHears DEF Given
  <2> QED
    BY <2>1, <2>2
<1>4. ConvertNlsEvent(Blank, r, given) = Event(r, given)
  BY DEF ConvertNlsEvent, Blank, Event
<1>5. Typing'
  BY <1>1 DEF DInv, Typing
<1>6. WireGood'
  BY <1>1, WireStays DEF DInv
<1>7. \/ /\ setup[r].csharp /\ thread' = [thread EXCEPT ![t].at = "fetch"]
         /\ ToBinding(r, type) /\ UNCHANGED calls
      \/ /\ thread' = [thread EXCEPT ![t].at = "settle"] /\ UNCHANGED shared
         /\ \/ ToUser(r, callback, ConvertNlsEvent(Blank, r, given))
            \/ UNCHANGED calls
  BY DEF Call
<1>8. ThreadsGood' /\ EventsGood'
  BY <1>1, <1>7, AtKeeps, CopyKeeps
<1>9. CallsGood'
  <2>1. CASE ToUser(r, callback, ConvertNlsEvent(Blank, r, given))
    BY <1>1, <1>2, <1>3, <1>4, <2>1, ToUserIsGood DEF DInv
  <2>2. CASE UNCHANGED calls
    BY <1>1, <2>2, CallsStay DEF DInv
  <2> QED
    BY <1>7, <2>1, <2>2
<1> QED
  BY <1>5, <1>6, <1>8, <1>9 DEF DInv

\* The fetch: the thread finds its own event, and leaves it empty.
LEMMA GetNlsEventKeeps ==
  ASSUME OneThreadPerFeature, DInv, NEW t \in Threads, GetNlsEvent(t) PROVE DInv'
<1> DEFINE r == thread[t].req
           type == thread[t].type
           k == Kind(r)
           d == [thread[t] EXCEPT !.at = "settle"]
<1>1. /\ UNCHANGED <<setup, link, status, server, wire, rounds>> /\ thread[t].at = "fetch"
      /\ ToUser(r, listenerFrame(k, type), shared[k])
      /\ shared' = [shared EXCEPT ![k] = Blank]
      /\ thread' = [thread EXCEPT ![t].at = "settle"]
  BY DEF GetNlsEvent, CleanNlsEvent
<1>2. /\ Works(t) /\ r \in Requests /\ ThreadOf[r] = t /\ type \in Types(k)
      /\ setup[r].csharp /\ shared[k] = Event(r, type)
  BY <1>1, WorksIs DEF DInv, EventsGood, Fetchable
<1>3. k \in Bound
  BY <1>2, SetupIs DEF DInv
<1>4. Typing'
  BY <1>1 DEF DInv, Typing
<1>5. WireGood'
  BY <1>1, WireStays DEF DInv
<1>6. CallsGood'
  BY <1>1, <1>2, ListenerHears, ToUserIsGood DEF DInv
<1>7. /\ DOMAIN shared' = Bound /\ shared'[k] = Blank
      /\ \A j \in Bound : j # k => shared'[j] = shared[j]
  BY <1>1, <1>3 DEF DInv, EventsGood
<1>8. /\ DOMAIN d = {"at", "req", "type", "then"}
      /\ d.at = "settle" /\ d.req = r /\ d.type = type /\ d.then = thread[t].then
  BY <1>2 DEF Works
<1>9. /\ DOMAIN thread' = Threads /\ thread'[t] = d
      /\ \A u \in Threads : u # t => thread'[u] = thread[u]
  BY <1>1 DEF DInv, ThreadsGood
<1>10. \A q : Kind(q)' = Kind(q)
  BY <1>1 DEF Kind
<1> HIDE DEF d
<1>11. ThreadsGood'
  <2>1. ASSUME NEW u \in Threads
        PROVE  (thread[u] = Idle \/ Works(u))'
    BY <1>1, <1>2, <1>8, <1>9, SameSetup DEF DInv, ThreadsGood, Works
  <2> QED
    BY <1>9, <2>1 DEF ThreadsGood
<1>12. EventsGood'
  <2>1. ASSUME NEW u \in Threads, u # t, thread[u].at = "fetch"
        PROVE  Kind(thread[u].req) # k /\ Kind(thread[u].req) \in Bound /\ Fetchable(u)
    <3>1. /\ thread[u].req \in Requests /\ ThreadOf[thread[u].req] = u
          /\ setup[thread[u].req].csharp /\ Fetchable(u)
      BY <2>1, WorksIs DEF DInv, EventsGood, Fetchable
    <3>2. Kind(thread[u].req) \in Bound
      BY <3>1, SetupIs DEF DInv
    <3> QED
      BY <1>2, <2>1, <3>1, <3>2 DEF OneThreadPerFeature, DInv, Typing, Kind
  <2>2. ASSUME NEW j \in Bound, j # k
        PROVE  (shared[j] = Blank \/ \E u \in Threads : Fetches(u, j))'
    <3>1. CASE shared[j] = Blank
      BY <1>7, <2>2, <3>1 DEF Blank
    <3>2. ASSUME NEW u \in Threads, Fetches(u, j)
          PROVE  Fetches(u, j)'
      <4>1. u # t
        BY <2>2, <3>2 DEF Fetches
      <4> QED
        BY <1>9, <1>10, <3>2, <4>1 DEF Fetches
    <3> QED
      BY <3>1, <3>2 DEF DInv, EventsGood
  <2>3. ASSUME NEW u \in Threads, thread'[u].at = "fetch"
        PROVE  Fetchable(u)'
    <3>1. u # t
      BY <1>8, <1>9, <2>3
    <3>2. Kind(thread[u].req) # k /\ Kind(thread[u].req) \in Bound /\ Fetchable(u)
      BY <1>9, <2>1, <2>3, <3>1
    <3> QED
      BY <1>1, <1>7, <1>9, <1>10, <3>1, <3>2 DEF Fetchable, Event
  <2>4. ASSUME NEW j \in Bound, j = k
        PROVE  (shared[j] = Blank)'
    BY <1>7, <2>4 DEF Blank
  <2> HIDE DEF k
  <2>5. \A j \in Bound : (shared[j] = Blank \/ \E u \in Threads : Fetches(u, j))'
    BY <2>2, <2>4
  <2> QED
    BY <1>7, <2>3, <2>5 DEF EventsGood
<1> QED
  BY <1>4, <1>5, <1>6, <1>11, <1>12 DEF DInv

\* After the callback: the thread rests, or makes the Close callback.
LEMMA SettleGoesOn ==
  ASSUME DInv, NEW t \in Threads, thread[t].at = "settle", UNCHANGED <<setup, shared>>,
         Rest(t) \/ Do(t, "call", thread[t].req, "Close", "closed")
  PROVE  ThreadsGood' /\ EventsGood'
<1>1. thread[t].req \in Requests /\ ThreadOf[thread[t].req] = t
  BY WorksIs
<1>2. "Close" \in Types(Kind(thread[t].req))
  BY <1>1, SetupIs, ListenerHearsEnd DEF DInv
<1> QED
  BY <1>1, <1>2, RestKeeps, DoKeeps

LEMMA StatusAfterIs ==
  ASSUME DInv, NEW r \in Requests, NEW type PROVE StatusAfter(r, type) \in Statuses
<1>1. status[r] \in Statuses
  BY DEF DInv, Typing
<1> QED
  BY <1>1 DEF StatusAfter, Statuses

LEMMA SettlesKeep ==
  ASSUME DInv, NEW t \in Threads, Settle(t) \/ SettleFailure(t) \/ SettleCall(t)
  PROVE  DInv'
<1> DEFINE r == thread[t].req
<1>1. /\ thread[t].at = "settle" /\ UNCHANGED <<setup, server, rounds, shared, calls>>
      /\ Disconnect(r) \/ UNCHANGED <<link, wire>>
      /\ Rest(t) \/ Do(t, "call", r, "Close", "closed")
  BY DEF Settle, SettleFailure, SettleCall
<1>2. r \in Requests
  BY <1>1, WorksIs
<1>3. status' \in [Requests -> Statuses]
  <2>1. CASE Settle(t)
    <3>1. StatusAfter(r, thread[t].type) \in Statuses
      BY <1>2, StatusAfterIs
    <3> QED
      BY <1>2, <2>1, <3>1 DEF Settle, DInv, Typing
  <2>2. CASE SettleFailure(t)
    BY <2>2 DEF SettleFailure, DInv, Typing
  <2>3. CASE SettleCall(t)
    BY <1>2, <2>3 DEF SettleCall, DInv, Typing, Statuses
  <2> QED
    BY <2>1, <2>2, <2>3
<1>4. WireGood' /\ link' \in [Requests -> BOOLEAN]
  <2>1. CASE Disconnect(r)
    BY <1>1, <1>2, <2>1, DisconnectKeeps
  <2>2. CASE UNCHANGED <<link, wire>>
    BY <1>1, <2>2, WireStays DEF DInv, Typing
  <2> QED
    BY <1>1, <2>1, <2>2
<1>5. Typing'
  BY <1>1, <1>3, <1>4 DEF DInv, Typing
<1>6. ThreadsGood' /\ EventsGood'
  BY <1>1, SettleGoesOn
<1> QED
  BY <1>1, <1>4, <1>5, <1>6, CallsStay DEF DInv

(***************************************************************************)
(* The invariant, and what follows from it.                                *)
(***************************************************************************)
LEMMA InitHolds == Init => DInv
<1> SUFFICES ASSUME Init PROVE DInv
  OBVIOUS
<1>1. Typing
  BY DeliveryAssumption DEF Init, Typing, Statuses, Servers
<1>2. WireGood
  <2>1. ASSUME NEW r \in Requests PROVE <<>> \in Seq(Messages(Kind(r)))
    OBVIOUS
  <2> QED
    BY <2>1 DEF Init, WireGood
<1>3. CallsGood
  <2>1. ASSUME NEW r \in Requests PROVE <<>> \in Seq(OwnCall(r))
    OBVIOUS
  <2> QED
    BY <2>1 DEF Init, CallsGood
<1>4. ThreadsGood
  BY DEF Init, ThreadsGood
<1>5. EventsGood
  <2>1. Idle.at = "idle"
    BY DEF Idle
  <2> QED
    BY <2>1 DEF Init, EventsGood
<1> QED
  BY <1>1, <1>2, <1>3, <1>4, <1>5 DEF DInv

LEMMA NextKeeps == OneThreadPerFeature /\ DInv /\ [Next]_vars => DInv'
<1> SUFFICES ASSUME OneThreadPerFeature, DInv, [Next]_vars PROVE DInv'
  OBVIOUS
<1>1. ASSUME NEW r \in Requests, User(r) \/ Service(r)
      PROVE  DInv'
  BY <1>1, StartKeeps, ServiceKeeps DEF User
<1>2. ASSUME NEW t \in Threads, EventThread(t)
      PROVE  DInv'
  <2>1. ASSUME NEW r \in Requests,
               \/ GatewayAnswers(t, r) \/ ParseEvent(t, r)
               \/ ParseClose(t, r) \/ ParseFails(t, r)
        PROVE  DInv'
    BY <2>1, GatewayAnswersKeeps, ParseEventKeeps, ParseEndsKeeps
  <2>2. CASE Call(t) \/ GetNlsEvent(t)
    BY <2>2, CallKeeps, GetNlsEventKeeps
  <2>3. CASE Settle(t) \/ SettleFailure(t) \/ SettleCall(t)
    BY <2>3, SettlesKeep
  <2> QED
    BY <1>2, <2>1, <2>2, <2>3 DEF EventThread
<1>3. CASE UNCHANGED vars
  <2>1. Typing'
    BY <1>3 DEF vars, DInv, Typing
  <2> QED
    BY <1>3, <2>1, WireStays, ThreadsStay, CallsStay DEF vars, DInv
<1> QED
  BY <1>1, <1>2, <1>3 DEF Next

\* The invariant, for requests that share an event only where they share a thread.
THEOREM DeliveryInvAlways == ASSUME OneThreadPerFeature PROVE Spec => []DInv
BY InitHolds, NextKeeps, PTL DEF Spec

\* Every callback sees an event of its own request, of its own name and with the audio
\* of one frame: in C++, with setEnableOnMessage, and through the event that the C#
\* requests of a feature share, as long as one thread calls them back.
THEOREM EventsAreTheirOwn == ASSUME OneThreadPerFeature PROVE Spec => []EventIsOwn
<1>1. DInv => EventIsOwn
  <2> SUFFICES ASSUME DInv, NEW r \in Requests, NEW i \in DOMAIN calls[r]
               PROVE  LET c == calls[r][i]
                      IN /\ c.event.owner = r
                         /\ c.event.type = c.callback
                         /\ c.event.bytes = IF c.callback = "Binary" THEN 1 ELSE 0
    BY DEF EventIsOwn
  <2>1. calls[r] \in Seq(OwnCall(r))
    BY DEF DInv, CallsGood
  <2>2. calls[r][i] \in OwnCall(r)
    BY <2>1
  <2> QED
    BY <2>2 DEF OwnCall, Event
<1> QED
  BY <1>1, DeliveryInvAlways, PTL

\* Every variable has its type, and the event of a feature never gathers the audio of
\* two frames.
THEOREM DeliveryIsTyped == ASSUME OneThreadPerFeature PROVE Spec => []DeliveryTypeOK
<1>1. DInv => DeliveryTypeOK
  <2> SUFFICES ASSUME DInv PROVE DeliveryTypeOK
    OBVIOUS
  <2>1. ASSUME NEW t \in Threads
        PROVE  /\ thread[t].at \in {"idle", "call", "fetch", "settle"}
               /\ thread[t].then \in {"", "switch", "end", "rest", "closed"}
    <3>1. Idle.at = "idle" /\ Idle.then = ""
      BY DEF Idle
    <3> QED
      BY <3>1 DEF DInv, ThreadsGood, Works
  <2>2. ASSUME NEW k \in Bound
        PROVE  shared[k].bytes \in 0..1
    <3>1. CASE shared[k] = Blank
      BY <3>1 DEF Blank
    <3>2. ASSUME NEW t \in Threads, Fetches(t, k)
          PROVE  shared[k].bytes \in 0..1
      <4>1. \E r, type : shared[k] = Event(r, type)
        BY <3>2 DEF DInv, EventsGood, Fetches, Fetchable
      <4> QED
        BY <4>1 DEF Event
    <3> QED
      BY <3>1, <3>2 DEF DInv, EventsGood
  <2> QED
    BY <2>1, <2>2 DEF DInv, Typing, Statuses, Servers, DeliveryTypeOK
<1> QED
  BY <1>1, DeliveryInvAlways, PTL

(***************************************************************************)
(* What a message means.                                                   *)
(***************************************************************************)
\* setEnableOnMessage only where there is no audio: it disables the callback of audio
\* in the code, too.
MessagesWithoutAudio ==
  \A s \in Setups : \A r \in Requests :
    s[r].message => s[r].kind \in {"sr", "st", "funasr", "paraformer"}

\* The types that end a round of a feature (closeFlag).
Enders(k) ==
  {"TaskFailed", "TranscriptionCompleted", "SynthesisCompleted", "DialogResultGenerated"}
    \union (IF k = "da" THEN {} ELSE {"Close", "RecognitionCompleted"})

\* closeFlag is a matter of the feature and the type.
LEMMA closeFlagIs ==
  ASSUME NEW r \in Requests, NEW type PROVE closeFlag(r, type) <=> type \in Enders(Kind(r))
BY DEF closeFlag, Enders

\* A message becomes the event of the callback it is meant for, and the event ends the
\* round where the message does; only one that is for nobody is dropped.
Means(k, m) ==
  /\ convertResult(k, m) = "failed" <=> m = "not json"
  /\ convertResult(k, m) = "ignored" => Meant(k, m) = "" /\ ~Ends(k, m)
  /\ convertResult(k, m) \notin {"failed", "ignored"} =>
       /\ convertResult(k, m) = Meant(k, m) /\ Meant(k, m) # ""
       /\ Meant(k, m) \in Enders(k) <=> Ends(k, m)

AllMean(k) == \A m \in Messages(k) \ {"101", "CLOSE"} : Means(k, m)

\* The recognizers of DashScope.
LEMMA TranscriptsMean ==
  ASSUME NEW k \in {"funasr", "paraformer"} PROVE AllMean(k)
<1> SUFFICES ASSUME NEW m \in Messages(k) \ {"101", "CLOSE"} PROVE Means(k, m)
  BY DEF AllMean
<1>2. m \in {"task-started", "task-finished", "sentence_begin", "sentence", "sentence_end",
             "task-failed", "not json"}
  BY DEF Messages, Opening, Results, Verdict, Failures, DashScope
<1>3. Ends(k, m) <=> m \in {"task-finished", "task-failed", "not json"}
  BY <1>2 DEF Ends, Verdict, Failures, DashScope
<1>4. m # "not json" => convertResult(k, m) = convertFunAsr(parseMsgType(m), m)
  BY <1>2 DEF convertResult, parseJsonMsg, convertParaformer
<1>5. m = "not json" => convertResult(k, m) = "failed"
  BY DEF convertResult, parseJsonMsg
<1>6. m # "not json" => convertResult(k, m) = Meant(k, m)
  <2>1. CASE m = "task-started"
    BY <2>1, <1>4 DEF parseMsgType, convertFunAsr, Meant
  <2>2. CASE m = "task-finished"
    BY <2>2, <1>4 DEF parseMsgType, convertFunAsr, Meant
  <2>3. CASE m \in {"sentence_begin", "sentence", "sentence_end"}
    <3>1. parseMsgType(m) = "ResultGenerated"
      BY <2>3 DEF parseMsgType
    <3> QED BY <2>3, <1>4, <3>1 DEF convertFunAsr, Meant
  <2>4. CASE m = "task-failed"
    BY <2>4, <1>4 DEF parseMsgType, convertFunAsr, Meant
  <2> QED BY <1>2, <2>1, <2>2, <2>3, <2>4
<1>7. m # "not json" => /\ Meant(k, m) \notin {"failed", "ignored", ""}
                        /\ Meant(k, m) \in Enders(k) <=> Ends(k, m)
  BY <1>2, <1>3 DEF Meant, Enders
<1> QED
  BY <1>5, <1>6, <1>7 DEF Means

\* The features of the first generation: the event has the name of the message.
LEMMA NamesMean ==
  ASSUME NEW k \in {"sr", "st", "sy", "fss", "da"}, NEW m, m # "101", m # "CLOSE",
         m \notin {"task-started", "task-finished", "task-failed", "sentence_begin",
                  "sentence", "sentence_end", "words", "no words", "failed", "ignored", ""},
         m # "not json" => (m \in Enders(k) <=> Ends(k, m))
  PROVE  Means(k, m)
<1>1. m = "not json" => convertResult(k, m) = "failed"
  BY DEF convertResult, parseJsonMsg
<1>2. m # "not json" => parseMsgType(m) = m
  BY DEF parseMsgType
<1>3. m # "not json" => convertResult(k, m) = m
  BY <1>2 DEF convertResult, parseJsonMsg
<1>4. m # "not json" => Meant(k, m) = m
  BY DEF Meant
<1> QED
  BY <1>1, <1>3, <1>4 DEF Means

\* The synthesizer of DashScope.
LEMMA CosyVoiceMeans == AllMean("cosyvoice")
<1> SUFFICES ASSUME NEW m \in Messages("cosyvoice") \ {"101", "CLOSE"} PROVE Means("cosyvoice", m)
  BY DEF AllMean
<1>2. m \in {"task-started", "task-finished", "words", "no words", "Binary",
             "task-failed", "not json"}
  BY DEF Messages, Opening, Results, Verdict, Failures, DashScope
<1>3. Ends("cosyvoice", m) <=> m \in {"task-finished", "task-failed", "not json"}
  BY <1>2 DEF Ends, Verdict, Failures, DashScope
<1>4. m \notin {"not json", "Binary"} =>
        convertResult("cosyvoice", m) = convertCosyVoice(parseMsgType(m), m)
  BY <1>2 DEF convertResult, parseJsonMsg
<1>5. m = "not json" => convertResult("cosyvoice", m) = "failed"
  BY DEF convertResult, parseJsonMsg
<1>6. CASE m \in {"task-started", "task-finished", "task-failed"}
  <2>1. convertResult("cosyvoice", m) = Meant("cosyvoice", m)
    BY <1>4, <1>6 DEF parseMsgType, convertCosyVoice, Meant
  <2>2. Meant("cosyvoice", m) \in {"SynthesisStarted", "SynthesisCompleted", "TaskFailed"}
    BY <1>6 DEF Meant
  <2>3. Meant("cosyvoice", m) \in Enders("cosyvoice") <=> Ends("cosyvoice", m)
    BY <1>3, <1>6 DEF Meant, Enders
  <2> QED BY <1>6, <2>1, <2>2, <2>3 DEF Means
<1>7. CASE m \in {"words", "no words"}
  <2>1. parseMsgType(m) = "ResultGenerated"
    BY <1>7 DEF parseMsgType
  <2>2. /\ m = "words" => convertResult("cosyvoice", m) = "SentenceSynthesis"
        /\ m = "no words" => convertResult("cosyvoice", m) = "ignored"
    BY <1>4, <1>7, <2>1 DEF convertCosyVoice
  <2>3. /\ m = "words" => Meant("cosyvoice", m) = "SentenceSynthesis"
        /\ m = "no words" => Meant("cosyvoice", m) = ""
    BY <1>7 DEF Meant
  <2>4. "SentenceSynthesis" \notin Enders("cosyvoice")
    BY DEF Enders
  <2> QED BY <1>3, <1>7, <2>2, <2>3, <2>4 DEF Means
<1>8. CASE m = "Binary"
  BY <1>3, <1>8 DEF Means, convertResult, Meant, Enders
<1>9. CASE m = "not json"
  BY <1>5, <1>9 DEF Means
<1> QED
  BY <1>2, <1>6, <1>7, <1>8, <1>9

\* Every message of every service.
LEMMA MessagesMean == ASSUME NEW k \in Kinds PROVE AllMean(k)
<1>1. CASE k \in {"sr", "st", "sy", "fss", "da"}
  <2> SUFFICES ASSUME NEW m \in Messages(k) \ {"101", "CLOSE"} PROVE Means(k, m)
    BY DEF AllMean
  <2>1. m \notin {"task-started", "task-finished", "task-failed", "sentence_begin",
                  "sentence", "sentence_end", "words", "no words", "failed", "ignored", ""}
    BY <1>1 DEF Messages, Opening, Results, Verdict, Failures, DashScope
  <2>2. m # "not json" => (m \in Enders(k) <=> Ends(k, m))
    BY <1>1 DEF Messages, Opening, Results, Verdict, Failures, DashScope, Enders, Ends
  <2> QED BY <1>1, <2>1, <2>2, NamesMean
<1>2. CASE k \in {"funasr", "paraformer"}
  BY <1>2, TranscriptsMean
<1>3. CASE k = "cosyvoice"
  BY <1>3, CosyVoiceMeans
<1> QED
  BY <1>1, <1>2, <1>3 DEF Kinds

\* What a service may say, and when.
LEMMA ServiceSays ==
  ASSUME NEW k \in Kinds
  PROVE  /\ ~Ends(k, "101") /\ "101" \notin Failures(k)
         /\ Verdict(k) # "101" /\ Verdict(k) \notin Failures(k) /\ Ends(k, Verdict(k))
         /\ \A m \in Failures(k) : Ends(k, m)
         /\ \A m \in Results(k) : ~Ends(k, m) /\ m # "101"
         /\ k # "sy" => ~Ends(k, Opening(k)) /\ Opening(k) # "101"
<1>0. k \in {"sr", "st", "sy", "fss", "cosyvoice", "da", "funasr", "paraformer"}
  BY DEF Kinds
<1> USE DEF Opening, Results, Verdict, Failures, DashScope, Ends
<1>1. CASE k = "sr"
  BY <1>1
<1>2. CASE k = "st"
  BY <1>2
<1>3. CASE k = "sy"
  BY <1>3
<1>4. CASE k = "fss"
  BY <1>4
<1>5. CASE k = "cosyvoice"
  BY <1>5
<1>6. CASE k = "da"
  BY <1>6
<1>7. CASE k \in {"funasr", "paraformer"}
  BY <1>7
<1> QED
  BY <1>0, <1>1, <1>2, <1>3, <1>4, <1>5, <1>6, <1>7

(***************************************************************************)
(* What is promised for a sequence of messages.                            *)
(***************************************************************************)
\* The callbacks of a request, and the names of those promised.
Callable(r) ==
  Types(Kind(r)) \union {MeantBy(r, m) : m \in Messages(Kind(r))} \union {"Close", "Message"}

\* One of them ends the round.
Ended(r, messages) == \E i \in DOMAIN messages : Ends(Kind(r), messages[i])

\* What is promised for them.
Due(r, messages) == PromisedForAll(r, Round(r, messages))

\* A promise is a sequence of callbacks.
LEMMA PromiseIsTyped ==
  ASSUME NEW r \in Requests, NEW m \in Messages(Kind(r))
  PROVE  PromisedFor(r, m) \in Seq(Callable(r))
<1>1. MeantBy(r, m) \in Callable(r) /\ {"Close", "Message"} \subseteq Callable(r)
  BY DEF Callable
<1>2. ASSUME NEW c \in Callable(r) PROVE Heard(r, c) \in Seq(Callable(r))
  <2> DEFINE T == Callable(r)
  <2>1. <<c>> \in Seq(T) /\ <<>> \in Seq(T)
    <3>1. c \in T
      OBVIOUS
    <3> HIDE DEF T
    <3> QED BY <3>1
  <2> QED BY <2>1 DEF Heard
<1> DEFINE S == Callable(r)
<1>3. Heard(r, MeantBy(r, m)) \in Seq(S)
  BY <1>1, <1>2
<1>4. Heard(r, IF setup[r].message THEN "Message" ELSE "Close") \in Seq(S)
  <2>1. (IF setup[r].message THEN "Message" ELSE "Close") \in S
    BY <1>1
  <2> QED BY <1>2, <2>1
<1> HIDE DEF S
<1>5. PromisedFor(r, m) \in Seq(S)
  BY <1>3, <1>4 DEF PromisedFor
<1> QED
  BY <1>5 DEF S

\* The promises, one for each message.
Promises(r, s) == [i \in DOMAIN s |-> PromisedFor(r, s[i])]

\* They are sequences to be flattened.
LEMMA PromisesAre ==
  ASSUME NEW r \in Requests, NEW s \in Seq(Messages(Kind(r)))
  PROVE  /\ Promises(r, s) \in Seq(Seq(Callable(r))) /\ Len(Promises(r, s)) = Len(s)
         /\ \A i \in 1..Len(s) : Promises(r, s)[i] = PromisedFor(r, s[i])
         /\ PromisedForAll(r, s) = FlattenSeq(Promises(r, s))
<1> DEFINE p == Promises(r, s)  n == Len(s)
<1>1. n \in Nat /\ DOMAIN s = 1..n /\ \A i \in 1..n : s[i] \in Messages(Kind(r))
  OBVIOUS
<1>2. p = [i \in 1..n |-> PromisedFor(r, s[i])]
  BY <1>1 DEF Promises
<1>3. \A i \in 1..n : p[i] = PromisedFor(r, s[i]) /\ p[i] \in Seq(Callable(r))
  BY <1>1, <1>2, PromiseIsTyped
<1>4. p \in [1..n -> Seq(Callable(r))]
  BY <1>2, <1>3, Zenon
<1>5. p \in Seq(Seq(Callable(r))) /\ Len(p) = n
  <2> HIDE DEF p, n
  <2> QED BY <1>1, <1>4, SeqDef
<1>6. PromisedForAll(r, s) = FlattenSeq(p)
  BY Zenon DEF PromisedForAll, Promises
<1> QED
  BY <1>3, <1>5, <1>6

\* A beginning promises the beginning.
LEMMA PromisePrefix ==
  ASSUME NEW r \in Requests, NEW a \in Seq(Messages(Kind(r))), NEW b \in Seq(Messages(Kind(r))),
         Len(a) <= Len(b), \A j \in 1..Len(a) : a[j] = b[j]
  PROVE  IsPrefix(PromisedForAll(r, a), PromisedForAll(r, b))
<1> DEFINE p == Promises(r, a)  q == Promises(r, b)  S == Callable(r)
<1>1. /\ p \in Seq(Seq(S)) /\ Len(p) = Len(a) /\ PromisedForAll(r, a) = FlattenSeq(p)
      /\ \A i \in 1..Len(a) : p[i] = PromisedFor(r, a[i])
  BY PromisesAre
<1>2. /\ q \in Seq(Seq(S)) /\ Len(q) = Len(b) /\ PromisedForAll(r, b) = FlattenSeq(q)
      /\ \A i \in 1..Len(b) : q[i] = PromisedFor(r, b[i])
  BY PromisesAre
<1>3. Len(p) <= Len(q)
  BY <1>1, <1>2
<1>4. \A j \in 1..Len(p) : p[j] = q[j]
  <2> SUFFICES ASSUME NEW j \in 1..Len(p) PROVE p[j] = q[j]
    OBVIOUS
  <2>1. j \in 1..Len(a) /\ j \in 1..Len(b)
    <3>1. Len(a) \in Nat /\ Len(b) \in Nat
      OBVIOUS
    <3> HIDE DEF p, q
    <3> QED BY <1>1, <3>1
  <2> QED BY <1>1, <1>2, <2>1
<1>5. IsPrefix(FlattenSeq(p), FlattenSeq(q))
  <2> HIDE DEF p, q, S
  <2> QED BY <1>1, <1>2, <1>3, <1>4, FlattenPrefix
<1> QED
  BY <1>1, <1>2, <1>5, Zenon

\* One message more.
LEMMA PromiseAppend ==
  ASSUME NEW r \in Requests, NEW a \in Seq(Messages(Kind(r))), NEW m \in Messages(Kind(r)),
         NEW b, b = Append(a, m)
  PROVE  PromisedForAll(r, b) = PromisedForAll(r, a) \o PromisedFor(r, m)
<1> DEFINE p == Promises(r, a)  q == Promises(r, b)  S == Callable(r)  z == PromisedFor(r, m)
<1>0. b \in Seq(Messages(Kind(r))) /\ Len(b) = Len(a) + 1 /\ Len(a) \in Nat /\ b[Len(b)] = m
      /\ \A i \in 1..Len(a) : b[i] = a[i]
  OBVIOUS
<1>1. /\ p \in Seq(Seq(S)) /\ Len(p) = Len(a) /\ PromisedForAll(r, a) = FlattenSeq(p)
      /\ \A i \in 1..Len(a) : p[i] = PromisedFor(r, a[i])
  BY PromisesAre
<1>2. /\ q \in Seq(Seq(S)) /\ Len(q) = Len(b) /\ PromisedForAll(r, b) = FlattenSeq(q)
      /\ \A i \in 1..Len(b) : q[i] = PromisedFor(r, b[i])
  BY <1>0, PromisesAre
<1>3. z \in Seq(S)
  BY PromiseIsTyped
<1>4. q = Append(p, z)
  <2>1. Len(b) \in 1..Len(b) /\ \A i \in 1..Len(a) : i \in 1..Len(b)
    BY <1>0
  <2>2. q[Len(b)] = z
    BY <1>0, <1>2, <2>1
  <2>3. \A i \in 1..Len(a) : q[i] = p[i]
    BY <1>0, <1>1, <1>2, <2>1
  <2> HIDE DEF p, q, z, S
  <2> QED BY <1>0, <1>1, <1>2, <1>3, <2>2, <2>3
<1>5. FlattenSeq(q) = FlattenSeq(p) \o z
  <2> HIDE DEF p, q, z, S
  <2> QED BY <1>1, <1>3, <1>4, FlattenAppend
<1> QED
  BY <1>1, <1>2, <1>5, Zenon

\* Round, up to the first message that ends it.
LEMMA RoundNotEnded ==
  ASSUME NEW r, NEW s, ~Ended(r, s) PROVE Round(r, s) = s
<1>1. {i \in DOMAIN s : Ends(Kind(r), s[i])} = {}
  BY DEF Ended
<1> QED
  BY <1>1 DEF Round

\* The first message that ends it.
First(r, s, i) ==
  /\ i \in DOMAIN s /\ Ends(Kind(r), s[i])
  /\ \A j \in DOMAIN s : Ends(Kind(r), s[j]) => i <= j

\* Where there is one, the round goes up to it; and there is one.
LEMMA RoundUpTo ==
  ASSUME NEW r, NEW s, NEW n \in Nat, DOMAIN s = 1..n, NEW i, First(r, s, i)
  PROVE  Round(r, s) = SubSeq(s, 1, i)
<1> DEFINE last == {j \in DOMAIN s : Ends(Kind(r), s[j])}
<1>1. i \in last /\ \A j \in last : i <= j
  BY DEF First
<1>2. \A j \in last : (\A k \in last : j <= k) => j = i
  <2>1. last \subseteq Nat
    OBVIOUS
  <2> HIDE DEF last
  <2> QED BY <1>1, <2>1
<1>3. (CHOOSE j \in last : \A k \in last : j <= k) = i
  <2> HIDE DEF last
  <2> QED BY <1>1, <1>2, Zenon
<1>4. Round(r, s) = IF last = {} THEN s
                    ELSE SubSeq(s, 1, CHOOSE j \in last : \A k \in last : j <= k)
  BY Zenon DEF Round
<1> HIDE DEF last
<1> QED
  BY <1>1, <1>3, <1>4

LEMMA RoundEnded ==
  ASSUME NEW r, NEW s, NEW n \in Nat, DOMAIN s = 1..n, Ended(r, s)
  PROVE  \E i \in 1..n : First(r, s, i)
<1> DEFINE last == {j \in DOMAIN s : Ends(Kind(r), s[j])}
<1>1. last \subseteq Nat /\ last # {}
  BY DEF Ended
<1>2. PICK i \in last : \A j \in last : i <= j
  <2> HIDE DEF last
  <2> QED BY <1>1, LeastExists
<1> QED
  BY <1>2 DEF First

\* Nothing is promised for nothing.
LEMMA DueNothing == ASSUME NEW r PROVE Due(r, <<>>) = <<>>
<1>1. ~Ended(r, <<>>)
  BY DEF Ended
<1>2. Round(r, <<>>) = <<>>
  BY <1>1, RoundNotEnded
<1>3. PromisedForAll(r, <<>>) = FlattenSeq(<<>>)
  <2>1. DOMAIN <<>> = {}
    OBVIOUS
  <2>2. [i \in DOMAIN <<>> |-> PromisedFor(r, <<>>[i])] = <<>>
    BY <2>1
  <2> QED BY <2>2 DEF PromisedForAll
<1> QED
  BY <1>2, <1>3, FlattenNothing DEF Due

\* What is promised are callbacks.
LEMMA DueTyped ==
  ASSUME NEW r \in Requests, NEW s \in Seq(Messages(Kind(r))) PROVE Due(r, s) \in Seq(Callable(r))
<1>1. Round(r, s) \in Seq(Messages(Kind(r)))
  <2>1. CASE ~Ended(r, s)
    BY <2>1, RoundNotEnded
  <2>2. CASE Ended(r, s)
    <3>1. PICK i \in 1..Len(s) : First(r, s, i)
      <4>1. Len(s) \in Nat /\ DOMAIN s = 1..Len(s)
        OBVIOUS
      <4> QED BY <2>2, <4>1, RoundEnded
    <3>2. Round(r, s) = SubSeq(s, 1, i)
      <4>1. Len(s) \in Nat /\ DOMAIN s = 1..Len(s)
        OBVIOUS
      <4> QED BY <3>1, <4>1, RoundUpTo
    <3> QED BY <3>2
  <2> QED BY <2>1, <2>2
<1> DEFINE a == Round(r, s)
<1>2. PromisedForAll(r, a) = FlattenSeq(Promises(r, a)) /\ Promises(r, a) \in Seq(Seq(Callable(r)))
  <2> HIDE DEF a
  <2> QED BY <1>1, PromisesAre DEF a
<1>3. FlattenSeq(Promises(r, a)) \in Seq(Callable(r))
  <2> HIDE DEF a
  <2> QED BY <1>2, FlattenTyped
<1> QED
  BY <1>2, <1>3 DEF Due

\* The next message of a round that goes on.
LEMMA DueNext ==
  ASSUME NEW r \in Requests, NEW a \in Seq(Messages(Kind(r))), NEW m \in Messages(Kind(r)),
         ~Ended(r, a)
  PROVE  Due(r, Append(a, m)) = Due(r, a) \o PromisedFor(r, m)
<1> DEFINE b == Append(a, m)  n == Len(a) + 1
<1>1. /\ n \in Nat /\ DOMAIN b = 1..n /\ \A i \in 1..Len(a) : b[i] = a[i]
      /\ SubSeq(b, 1, n) = b /\ b \in Seq(Messages(Kind(r)))
  OBVIOUS
<1>2. Round(r, a) = a
  BY RoundNotEnded
<1>3. Round(r, b) = b
  <2>1. CASE Ended(r, b)
    <3> HIDE DEF b
    <3>1. PICK i \in 1..n : First(r, b, i)
      <4> HIDE DEF n
      <4> QED BY <1>1, <2>1, RoundEnded
    <3>2. i = n
      <4>1. Ends(Kind(r), b[i])
        BY <3>1 DEF First
      <4>2. i \in 1..Len(a) => Ends(Kind(r), a[i])
        BY <1>1, <4>1
      <4>3. i \notin 1..Len(a)
        <5>1. DOMAIN a = 1..Len(a)
          OBVIOUS
        <5> QED BY <4>2, <5>1 DEF Ended
      <4> QED BY <4>3
    <3>3. Round(r, b) = SubSeq(b, 1, i)
      <4> HIDE DEF n
      <4> QED BY <1>1, <3>1, RoundUpTo
    <3> QED BY <1>1, <3>2, <3>3
  <2>2. CASE ~Ended(r, b)
    <3> HIDE DEF b
    <3> QED BY <2>2, RoundNotEnded
  <2> QED BY <2>1, <2>2
<1>4. PromisedForAll(r, b) = PromisedForAll(r, a) \o PromisedFor(r, m)
  <2>1. b = Append(a, m)
    OBVIOUS
  <2> HIDE DEF b
  <2> QED BY <2>1, PromiseAppend
<1> QED
  BY <1>2, <1>3, <1>4 DEF Due

\* Of what comes after the end of a round nothing is promised.
LEMMA DueOver ==
  ASSUME NEW r \in Requests, NEW a \in Seq(Messages(Kind(r))), NEW b \in Seq(Messages(Kind(r))),
         Ended(r, a)
  PROVE  Due(r, a \o b) = Due(r, a) /\ Ended(r, a \o b)
<1> DEFINE c == a \o b  n == Len(a)  l == Len(c)
<1>1. /\ n \in Nat /\ l \in Nat /\ n <= l /\ DOMAIN a = 1..n /\ DOMAIN c = 1..l
      /\ \A i \in 1..n : c[i] = a[i] /\ i \in 1..l
      /\ \A i \in 1..n : SubSeq(c, 1, i) = SubSeq(a, 1, i)
  OBVIOUS
<1>2. PICK i \in 1..n : First(r, a, i)
  <2> HIDE DEF n
  <2> QED BY <1>1, RoundEnded
<1> HIDE DEF c, n, l
<1>3. First(r, c, i)
  <2>1. i \in DOMAIN c /\ Ends(Kind(r), c[i])
    BY <1>1, <1>2 DEF First
  <2>2. ASSUME NEW j \in DOMAIN c, Ends(Kind(r), c[j]) PROVE i <= j
    <3>1. CASE j \in 1..n
      BY <1>1, <1>2, <2>2, <3>1 DEF First
    <3>2. CASE j \notin 1..n
      BY <1>1, <3>2
    <3> QED BY <3>1, <3>2
  <2> QED BY <2>1, <2>2 DEF First
<1>4. Round(r, a) = SubSeq(a, 1, i)
  BY <1>1, <1>2, RoundUpTo
<1>5. Round(r, c) = SubSeq(c, 1, i)
  BY <1>1, <1>3, RoundUpTo
<1>6. Ended(r, c)
  BY <1>3 DEF Ended, First
<1>7. Due(r, c) = Due(r, a)
  BY <1>1, <1>4, <1>5 DEF Due
<1> QED
  BY <1>6, <1>7 DEF c

\* More messages never take a promise back.
LEMMA DueExtends ==
  ASSUME NEW r \in Requests, NEW a \in Seq(Messages(Kind(r))), NEW b \in Seq(Messages(Kind(r)))
  PROVE  IsPrefix(Due(r, a), Due(r, a \o b))
<1> DEFINE c == a \o b  n == Len(a)  l == Len(c)
<1>1. /\ n \in Nat /\ l \in Nat /\ n <= l /\ DOMAIN a = 1..n /\ DOMAIN c = 1..l
      /\ \A i \in 1..n : c[i] = a[i]
      /\ c \in Seq(Messages(Kind(r)))
  OBVIOUS
<1>2. CASE Ended(r, a)
  BY <1>2, DueOver, DueTyped, PrefixReflexive
<1>3. CASE ~Ended(r, a)
  <2>1. Round(r, a) = a
    BY <1>3, RoundNotEnded
  <2>2. PICK d \in Seq(Messages(Kind(r))) :
           Round(r, c) = d /\ n <= Len(d) /\ \A j \in 1..n : d[j] = c[j]
    <3>1. CASE ~Ended(r, c)
      <4>1. Round(r, c) = c
        <5> HIDE DEF c
        <5> QED BY <3>1, RoundNotEnded
      <4> QED BY <1>1, <4>1
    <3>2. CASE Ended(r, c)
      <4> HIDE DEF c, n, l
      <4>1. PICK i \in 1..l : First(r, c, i)
        BY <1>1, <3>2, RoundEnded
      <4>2. Round(r, c) = SubSeq(c, 1, i)
        BY <1>1, <4>1, RoundUpTo
      <4>3. ~(i <= n)
        <5>1. SUFFICES ASSUME i <= n PROVE FALSE
          OBVIOUS
        <5>2. i \in DOMAIN a /\ Ends(Kind(r), a[i])
          BY <1>1, <4>1, <5>1 DEF First
        <5> QED BY <1>3, <5>2 DEF Ended
      <4>4. i \in Nat /\ i <= Len(c)
        BY <1>1, <4>1 DEF l
      <4>5. SubSeq(c, 1, i) \in Seq(Messages(Kind(r))) /\ Len(SubSeq(c, 1, i)) = i
            /\ \A j \in 1..i : SubSeq(c, 1, i)[j] = c[j]
        BY <1>1, <4>4
      <4>6. n <= i /\ \A j \in 1..n : j \in 1..i
        BY <1>1, <4>3, <4>4
      <4> QED BY <4>2, <4>5, <4>6
    <3> QED BY <3>1, <3>2
  <2>3. IsPrefix(PromisedForAll(r, a), PromisedForAll(r, d))
    <3>1. Len(a) <= Len(d) /\ \A j \in 1..Len(a) : a[j] = d[j]
      BY <1>1, <2>2
    <3> QED BY <3>1, PromisePrefix
  <2> QED BY <2>1, <2>2, <2>3 DEF Due
<1> QED
  BY <1>2, <1>3

(***************************************************************************)
(* Where a request is in its round: of the messages sent, done are taken,  *)
(* and the rest are on the wire.                                           *)
(***************************************************************************)
\* What its thread is doing for a request.
Doing(r) == IF Busy(r) THEN thread[ThreadOf[r]] ELSE Idle

\* The callback in hand is the one that ends the round, or Close itself.
Closing(r, d) ==
  d.then \in {"end", "closed"} \/ (d.then = "switch" /\ d.type \in Enders(Kind(r)))

\* The failure of a connection nobody uses.
Ignored(r, st, type) == setup[r].long /\ st = "Closed" /\ type = "TaskFailed"

\* What the thread is about to call: the callback in hand, and Close after it.
OwedCall(r, st, d) ==
  IF d.at \in {"call", "fetch"} /\ ~Ignored(r, st, d.type)
  THEN Heard(r, Given(r, d.type)) ELSE <<>>
OwedClose(r, st, d) ==
  IF st # "Closed" /\ d.then # "closed" /\ Closing(r, d) THEN Heard(r, Given(r, "Close")) ELSE <<>>

\* The service: nothing follows the end of a round, but the failure of a connection
\* that is kept; and the gateway answers before it is asked.
Sends(r, done, l, st, sv, w, s) ==
  /\ done \in Seq(Messages(Kind(r))) /\ w \in Seq(Messages(Kind(r))) /\ s = done \o w
  /\ sv # "over" => ~Ended(r, s)
  /\ st # "Closed" => \A i \in 1..(Len(s) - 1) : ~Ends(Kind(r), s[i])
  /\ st = "Closed" => w = <<>> \/ (setup[r].long /\ \E f \in Failures(Kind(r)) : w = <<f>>)
  /\ st = "Created" => l = FALSE
  /\ sv = "none" => w = <<>> \/ w = <<"101">>
  /\ sv # "none" => \A i \in DOMAIN w : w[i] # "101"

\* The thread: the end of a round is taken where it is Closed, or on its way there.
Does(r, done, st, d) ==
  /\ Ended(r, done) <=> st = "Closed" \/ Closing(r, d)
  /\ d.at # "idle" /\ st = "Closed" =>
       setup[r].long /\ d.then = "switch" /\ d.type = "TaskFailed"
  /\ d.at = "fetch" => setup[r].csharp /\ Registered(r, Given(r, d.type))

\* The callbacks made and owed are those due.
Calls(r, done, st, d, cs) ==
  cs \o (OwedCall(r, st, d) \o OwedClose(r, st, d)) = Due(r, done)

\* The three together, of given values.
Standing(r, done, l, st, sv, w, s, d, cs) ==
  Sends(r, done, l, st, sv, w, s) /\ Does(r, done, st, d) /\ Calls(r, done, st, d, cs)

\* And of the state.
Progress(r, done) ==
  Standing(r, done, link[r], status[r], server[r], wire[r], sent[r], Doing(r), Callbacks(r))

\* Some of the messages of each round are taken.
Progresses == DOMAIN sent = Requests /\ \A r \in Requests : \E done : Progress(r, done)

\* Nothing but the setup is read here.
LEMMA StandingPrimed ==
  ASSUME setup' = setup, NEW r, NEW done, NEW l, NEW st, NEW sv, NEW w, NEW s, NEW d, NEW cs,
         l = link'[r], st = status'[r], sv = server'[r], w = wire'[r], s = sent'[r],
         d = Doing(r)', cs = Callbacks(r)', Standing(r, done, l, st, sv, w, s, d, cs)
  PROVE  Progress(r, done)'
<1>1. Kind(r)' = Kind(r)
  BY DEF Kind
<1>2. \A c : Heard(r, c)' = Heard(r, c) /\ Registered(r, c)' = Registered(r, c)
  BY <1>1 DEF Heard, Registered
<1>3. \A c : Given(r, c)' = Given(r, c)
  BY DEF Given
<1>4. \A m : PromisedFor(r, m)' = PromisedFor(r, m)
  BY Zenon DEF PromisedFor, MeantBy, Heard, Registered, Kind
<1>5. \A x : Ended(r, x)' = Ended(r, x) /\ Round(r, x)' = Round(r, x)
  BY <1>1 DEF Ended, Round
<1>6. Due(r, done)' = Due(r, done)
  <2>1. ASSUME NEW x PROVE PromisedForAll(r, x)' = PromisedForAll(r, x)
    <3>1. [i \in DOMAIN x |-> PromisedFor(r, x[i])]' = [i \in DOMAIN x |-> PromisedFor(r, x[i])]
      BY <1>4
    <3> QED BY <3>1 DEF PromisedForAll
  <2>2. \A x : PromisedForAll(r, x)' = PromisedForAll(r, x)
    BY <2>1
  <2>3. Round(r, done)' = Round(r, done)
    BY <1>5
  <2> QED BY <2>2, <2>3 DEF Due
<1>7. Closing(r, d)' = Closing(r, d)
  BY <1>1 DEF Closing
<1>8. \A type : Ignored(r, st, type)' = Ignored(r, st, type)
  BY DEF Ignored
<1>9. OwedCall(r, st, d)' = OwedCall(r, st, d)
  BY <1>2, <1>3, <1>8 DEF OwedCall
<1>10. OwedClose(r, st, d)' = OwedClose(r, st, d)
  BY <1>2, <1>3, <1>7 DEF OwedClose
<1>11. Calls(r, done, st, d, cs)' = Calls(r, done, st, d, cs)
  BY <1>6, <1>9, <1>10 DEF Calls
<1>12. Does(r, done, st, d)' = Does(r, done, st, d)
  BY <1>2, <1>3, <1>5, <1>7 DEF Does
<1>13. Sends(r, done, l, st, sv, w, s)' = Sends(r, done, l, st, sv, w, s)
  BY <1>1, <1>5 DEF Sends
<1>14. Standing(r, done, l, st, sv, w, s, d, cs)'
  BY <1>11, <1>12, <1>13 DEF Standing
<1> HIDE DEF Standing
<1> QED
  BY <1>14 DEF Progress

\* A step of one request.
MovesTo(r, l, st, sv, w, s, d, cs) ==
  /\ setup' = setup /\ DOMAIN sent' = Requests
  /\ link'[r] = l /\ status'[r] = st /\ server'[r] = sv /\ wire'[r] = w /\ sent'[r] = s
  /\ Doing(r)' = d /\ Callbacks(r)' = cs
  /\ \A q \in Requests : q # r =>
       /\ link'[q] = link[q] /\ status'[q] = status[q] /\ server'[q] = server[q]
       /\ wire'[q] = wire[q] /\ sent'[q] = sent[q]
       /\ Doing(q)' = Doing(q) /\ Callbacks(q)' = Callbacks(q)

\* A step of one request keeps the account of all if it keeps that of the one.
LEMMA MovesKeep ==
  ASSUME DInv, Progresses, NEW r \in Requests, NEW done, NEW l, NEW st, NEW sv, NEW w, NEW s,
         NEW d, NEW cs, MovesTo(r, l, st, sv, w, s, d, cs),
         Standing(r, done, l, st, sv, w, s, d, cs)
  PROVE  Progresses'
<1>2. Progress(r, done)'
  <2>1. /\ l = link'[r] /\ st = status'[r] /\ sv = server'[r] /\ w = wire'[r] /\ s = sent'[r]
        /\ d = Doing(r)' /\ cs = Callbacks(r)' /\ setup' = setup
    BY DEF MovesTo
  <2> QED BY <2>1, StandingPrimed, Zenon
<1>3. ASSUME NEW q \in Requests, q # r
      PROVE  \E e : Progress(q, e)'
  <2>1. PICK e : Progress(q, e)
    BY DEF Progresses
  <2>2. Standing(q, e, link[q], status[q], server[q], wire[q], sent[q], Doing(q), Callbacks(q))
    BY <2>1 DEF Progress
  <2>3. /\ link[q] = link'[q] /\ status[q] = status'[q] /\ server[q] = server'[q]
        /\ wire[q] = wire'[q] /\ sent[q] = sent'[q]
        /\ Doing(q) = Doing(q)' /\ Callbacks(q) = Callbacks(q)' /\ setup' = setup
    BY <1>3 DEF MovesTo
  <2>4. Progress(q, e)'
    BY <2>2, <2>3, StandingPrimed, Zenon
  <2> QED BY <2>4
<1>4. DOMAIN sent' = Requests
  BY DEF MovesTo
<1>5. \A q \in Requests : \E e : Progress(q, e)'
  <2> SUFFICES ASSUME NEW q \in Requests PROVE \E e : Progress(q, e)'
    OBVIOUS
  <2>1. CASE q = r
    BY <1>2, <2>1
  <2>2. CASE q # r
    BY <1>3, <2>2
  <2> QED BY <2>1, <2>2
<1> QED
  BY <1>4, <1>5 DEF Progresses

\* What a step of a thread is to the request it is for, and to the others.
LEMMA ThreadMoves ==
  ASSUME DInv, NEW r \in Requests, NEW d, thread[ThreadOf[r]] = Idle \/ thread[ThreadOf[r]].req = r,
         d = Idle \/ d.req = r, thread' = [thread EXCEPT ![ThreadOf[r]] = d]
  PROVE  Doing(r)' = d /\ \A q \in Requests : q # r => Doing(q)' = Doing(q)
<1>1. ThreadOf[r] \in Threads /\ None \notin Requests /\ Idle.req = None
  BY DeliveryAssumption DEF Idle
<1>2. /\ thread'[ThreadOf[r]] = d
      /\ \A u \in Threads : u # ThreadOf[r] => thread'[u] = thread[u]
  BY <1>1 DEF DInv, ThreadsGood
<1>3. Doing(r)' = d
  BY <1>1, <1>2 DEF Doing, Busy, Idle
<1>4. ASSUME NEW q \in Requests, q # r
      PROVE  Doing(q)' = Doing(q)
  <2>1. ThreadOf[q] \in Threads
    BY DeliveryAssumption
  <2>2. CASE ThreadOf[q] = ThreadOf[r]
    <3>1. thread[ThreadOf[q]].req # q /\ thread'[ThreadOf[q]].req # q
      BY <1>1, <1>2, <1>4, <2>2
    <3> QED BY <3>1 DEF Doing, Busy, Idle
  <2>3. CASE ThreadOf[q] # ThreadOf[r]
    <3>1. thread'[ThreadOf[q]] = thread[ThreadOf[q]]
      BY <1>2, <2>1, <2>3
    <3> QED BY <3>1 DEF Doing, Busy, Idle
  <2> QED BY <2>2, <2>3
<1> QED
  BY <1>3, <1>4

\* Where nothing of the thread, or no callback, changes.
LEMMA ThreadRests ==
  ASSUME UNCHANGED thread PROVE \A q \in Requests : Doing(q)' = Doing(q)
BY DEF Doing, Busy, Idle

LEMMA CallsRest ==
  ASSUME UNCHANGED calls PROVE \A q \in Requests : Callbacks(q)' = Callbacks(q)
BY DEF Callbacks

\* A callback of the user.
LEMMA ToUserMoves ==
  ASSUME DInv, NEW r \in Requests, NEW c, NEW e, ToUser(r, c, e)
  PROVE  /\ Callbacks(r)' = Append(Callbacks(r), c)
         /\ \A q \in Requests : q # r => Callbacks(q)' = Callbacks(q)
<1> DEFINE x == [callback |-> c, event |-> e]
<1>1. DOMAIN calls = Requests /\ \E S : calls[r] \in Seq(S)
  BY DEF DInv, CallsGood
<1>2. /\ calls'[r] = Append(calls[r], x)
      /\ \A q \in Requests : q # r => calls'[q] = calls[q]
  BY <1>1 DEF ToUser
<1>3. PICK S : calls[r] \in Seq(S)
  BY <1>1
<1>4. PICK n \in Nat : DOMAIN calls[r] = 1..n /\ Len(calls[r]) = n
  BY <1>3
<1>5. Callbacks(r) = [i \in 1..n |-> calls[r][i].callback]
  BY <1>4 DEF Callbacks
<1>6. Callbacks(r)' = [i \in 1..(n + 1) |-> IF i <= n THEN calls[r][i].callback ELSE c]
  <2>1. DOMAIN calls'[r] = 1..(n + 1)
    BY <1>2, <1>3, <1>4
  <2>2. ASSUME NEW i \in 1..(n + 1)
        PROVE  calls'[r][i].callback = IF i <= n THEN calls[r][i].callback ELSE c
    BY <1>2, <1>3, <1>4
  <2> QED BY <2>1, <2>2 DEF Callbacks
<1>7. Append(Callbacks(r), c) = [i \in 1..(n + 1) |-> IF i <= n THEN calls[r][i].callback ELSE c]
  BY <1>5
<1>8. \A q \in Requests : q # r => Callbacks(q)' = Callbacks(q)
  BY <1>2 DEF Callbacks
<1> QED
  BY <1>6, <1>7, <1>8

(***************************************************************************)
(* What happens to the messages.                                           *)
(***************************************************************************)
\* One is taken.
LEMMA TakeSends ==
  ASSUME NEW r, NEW done, NEW l, NEW st, NEW sv, NEW w, NEW s,
         Sends(r, done, l, st, sv, w, s), w # <<>>
  PROVE  Sends(r, Append(done, Head(w)), l, st, sv, Tail(w), s)
<1> DEFINE M == Messages(Kind(r))
<1>1. done \in Seq(M) /\ w \in Seq(M) /\ s = done \o w
  BY DEF Sends
<1>2. /\ Append(done, Head(w)) \in Seq(M) /\ Tail(w) \in Seq(M)
      /\ s = Append(done, Head(w)) \o Tail(w)
  <2> HIDE DEF M
  <2> QED BY <1>1
<1>3. \A f : w = <<f>> => Tail(w) = <<>>
  OBVIOUS
<1>4. \A i \in DOMAIN Tail(w) : i + 1 \in DOMAIN w /\ Tail(w)[i] = w[i + 1]
  <2> HIDE DEF M
  <2> QED BY <1>1
<1>5. sv # "none" => \A i \in DOMAIN Tail(w) : Tail(w)[i] # "101"
  BY <1>4 DEF Sends
<1>6. st = "Closed" => Tail(w) = <<>>
  BY <1>3 DEF Sends
<1>7. sv = "none" => Tail(w) = <<>>
  BY <1>3 DEF Sends
<1> QED
  BY <1>2, <1>5, <1>6, <1>7 DEF Sends

\* The rest is dropped with the connection.
LEMMA DropSends ==
  ASSUME NEW r, NEW done, NEW l, NEW st, NEW sv, NEW w, NEW s,
         Sends(r, done, l, st, sv, w, s)
  PROVE  Sends(r, done \o w, FALSE, st, sv, <<>>, s)
<1> DEFINE M == Messages(Kind(r))
<1>1. done \in Seq(M) /\ w \in Seq(M) /\ s = done \o w
  BY DEF Sends
<1>2. done \o w \in Seq(M) /\ <<>> \in Seq(M) /\ s = (done \o w) \o <<>>
  <2> HIDE DEF M
  <2> QED BY <1>1
<1> QED
  BY <1>2 DEF Sends

\* After the end of a round that is not Closed there is nothing.
LEMMA NothingFollows ==
  ASSUME NEW r, NEW done, NEW l, NEW st, NEW sv, NEW w, NEW s,
         Sends(r, done, l, st, sv, w, s), st # "Closed", Ended(r, done)
  PROVE  w = <<>>
<1> DEFINE M == Messages(Kind(r))
<1>1. done \in Seq(M) /\ w \in Seq(M) /\ s = done \o w
  BY DEF Sends
<1>2. PICK i \in DOMAIN done : Ends(Kind(r), done[i])
  BY DEF Ended
<1>3. w # <<>> => i \in 1..(Len(s) - 1) /\ s[i] = done[i]
  <2> HIDE DEF M
  <2> QED BY <1>1
<1> QED
  BY <1>2, <1>3 DEF Sends

\* The messages taken are some of those sent.
LEMMA EndedSent ==
  ASSUME NEW r, NEW done, NEW l, NEW st, NEW sv, NEW w, NEW s,
         Sends(r, done, l, st, sv, w, s), Ended(r, done)
  PROVE  Ended(r, s) /\ sv = "over"
<1> DEFINE M == Messages(Kind(r))
<1>1. done \in Seq(M) /\ w \in Seq(M) /\ s = done \o w
  BY DEF Sends
<1>2. PICK i \in DOMAIN done : Ends(Kind(r), done[i])
  BY DEF Ended
<1>3. i \in DOMAIN s /\ s[i] = done[i]
  <2> HIDE DEF M
  <2> QED BY <1>1
<1>4. Ended(r, s)
  BY <1>2, <1>3 DEF Ended
<1> QED
  BY <1>4 DEF Sends

\* The status may change, while it stays off Closed, and off Created.
LEMMA StatusSends ==
  ASSUME NEW r, NEW done, NEW l, NEW st, NEW sv, NEW w, NEW s, NEW x,
         Sends(r, done, l, st, sv, w, s), st # "Closed", x # "Closed", x = "Created" => x = st
  PROVE  Sends(r, done, l, x, sv, w, s)
BY DEF Sends

\* The last message of a round.
LEMMA EndedAppend ==
  ASSUME NEW r, NEW S, NEW a \in Seq(S), NEW m, m \in S
  PROVE  Ended(r, Append(a, m)) <=> Ended(r, a) \/ Ends(Kind(r), m)
<1> DEFINE n == Len(a)  b == Append(a, m)
<1>1. /\ n \in Nat /\ DOMAIN a = 1..n /\ DOMAIN b = 1..(n + 1) /\ b[n + 1] = m
      /\ \A i \in 1..n : b[i] = a[i]
  OBVIOUS
<1> HIDE DEF n, b
<1>2. ASSUME Ended(r, b), ~Ends(Kind(r), m)
      PROVE  Ended(r, a)
  <2>1. PICK i \in 1..(n + 1) : Ends(Kind(r), b[i])
    BY <1>1, <1>2 DEF Ended
  <2>2. i # n + 1
    BY <1>1, <1>2, <2>1
  <2>3. i \in 1..n
    BY <1>1, <2>2
  <2> QED BY <1>1, <2>1, <2>3 DEF Ended
<1>3. ASSUME Ended(r, a) PROVE Ended(r, b)
  <2>1. PICK i \in 1..n : Ends(Kind(r), a[i])
    BY <1>1, <1>3 DEF Ended
  <2>2. i \in 1..(n + 1)
    BY <1>1
  <2> QED BY <1>1, <2>1, <2>2 DEF Ended
<1>4. ASSUME Ends(Kind(r), m) PROVE Ended(r, b)
  <2>1. n + 1 \in 1..(n + 1)
    BY <1>1
  <2> QED BY <1>1, <1>4, <2>1 DEF Ended
<1> QED
  BY <1>2, <1>3, <1>4 DEF b

\* The service sends.
LEMMA ServeSends ==
  ASSUME NEW r, NEW done, NEW l, NEW st, NEW sv, NEW w, NEW s,
         NEW m \in Messages(Kind(r)), NEW x,
         Sends(r, done, l, st, sv, w, s), sv # "none", x # "none", m # "101", st # "Created",
         x # "over" => ~Ends(Kind(r), m),
         \/ sv # "over" /\ st # "Closed"
         \/ /\ st = "Closed" /\ x = "over" /\ w = <<>> /\ setup[r].long
            /\ m \in Failures(Kind(r))
  PROVE  Sends(r, done, l, st, x, Append(w, m), Append(s, m))
<1> DEFINE M == Messages(Kind(r))
<1>1. done \in Seq(M) /\ w \in Seq(M) /\ s = done \o w /\ s \in Seq(M)
  BY DEF Sends
<1>2. Append(w, m) \in Seq(M) /\ Append(s, m) = done \o Append(w, m)
  <2> HIDE DEF M
  <2>1. m \in M
    BY DEF M
  <2> QED BY <1>1, <2>1
<1>3. Ended(r, Append(s, m)) <=> Ended(r, s) \/ Ends(Kind(r), m)
  BY <1>1, EndedAppend
<1>4. \A i \in DOMAIN Append(w, m) : Append(w, m)[i] # "101"
  <2>1. \A i \in DOMAIN w : w[i] # "101"
    BY DEF Sends
  <2> HIDE DEF M
  <2> QED BY <1>1, <2>1
<1>5. sv # "over" => \A i \in 1..(Len(Append(s, m)) - 1) : ~Ends(Kind(r), Append(s, m)[i])
  <2> SUFFICES ASSUME sv # "over", NEW i \in 1..(Len(Append(s, m)) - 1)
               PROVE  ~Ends(Kind(r), Append(s, m)[i])
    OBVIOUS
  <2>1. i \in DOMAIN s /\ Append(s, m)[i] = s[i]
    <3> HIDE DEF M
    <3> QED BY <1>1
  <2> QED BY <2>1 DEF Sends, Ended
<1>6. w = <<>> => Append(w, m) = <<m>>
  OBVIOUS
<1>7. x # "over" => sv # "over"
  OBVIOUS
<1>8. x # "over" => ~Ended(r, Append(s, m))
  BY <1>3, <1>7 DEF Sends
<1> QED
  BY <1>1, <1>2, <1>4, <1>5, <1>6, <1>8 DEF Sends

(***************************************************************************)
(* What happens to the callbacks.                                          *)
(***************************************************************************)
\* A thread at rest owes nothing.
LEMMA OwedAtRest ==
  ASSUME NEW r, NEW st PROVE OwedCall(r, st, Idle) \o OwedClose(r, st, Idle) = <<>>
<1>1. Idle.at = "idle" /\ Idle.then = ""
  BY DEF Idle
<1>2. OwedCall(r, st, Idle) = <<>> /\ OwedClose(r, st, Idle) = <<>>
  BY <1>1 DEF OwedCall, OwedClose, Closing
<1> QED
  BY <1>2

\* The callbacks made are those of the listener.
LEMMA CallbacksTyped ==
  ASSUME DInv, NEW r \in Requests PROVE Callbacks(r) \in Seq(Callable(r))
<1> DEFINE S == OwnCall(r)  n == Len(calls[r])
<1>1. calls[r] \in Seq(S)
  BY DEF DInv, CallsGood
<1>2. /\ n \in Nat /\ DOMAIN calls[r] = 1..n
      /\ \A i \in 1..n : calls[r][i] \in S
  <2> HIDE DEF S
  <2> QED BY <1>1
<1>3. \A c \in S : c.callback \in Callable(r)
  BY DEF OwnCall, Callable
<1>4. Callbacks(r) = [i \in 1..n |-> calls[r][i].callback]
  BY <1>2 DEF Callbacks
<1>5. \A i \in 1..n : calls[r][i].callback \in Callable(r)
  BY <1>2, <1>3
<1> HIDE DEF S, n
<1>6. [i \in 1..n |-> calls[r][i].callback] \in [1..n -> Callable(r)]
  BY <1>5
<1> QED
  BY <1>2, <1>4, <1>6, SeqDef

\* Where nothing is owed.
LEMMA CallsAtRest ==
  ASSUME DInv, NEW r \in Requests, NEW done, NEW st PROVE
    Calls(r, done, st, Idle, Callbacks(r)) <=> Callbacks(r) = Due(r, done)
<1>1. Callbacks(r) \o <<>> = Callbacks(r)
  BY CallbacksTyped
<1> QED
  BY <1>1, OwedAtRest DEF Calls

\* The next message of a round that goes on.
LEMMA CallsTake ==
  ASSUME DInv, NEW r \in Requests, NEW done \in Seq(Messages(Kind(r))),
         NEW m \in Messages(Kind(r)), ~Ended(r, done), NEW st, NEW d, NEW x,
         Calls(r, done, x, Idle, Callbacks(r)),
         OwedCall(r, st, d) \o OwedClose(r, st, d) = PromisedFor(r, m)
  PROVE  Calls(r, Append(done, m), st, d, Callbacks(r))
<1>1. Callbacks(r) = Due(r, done)
  BY CallsAtRest
<1> QED
  BY <1>1, DueNext DEF Calls

\* What follows the end of a round is ignored.
LEMMA CallsSkip ==
  ASSUME DInv, NEW r \in Requests, NEW done \in Seq(Messages(Kind(r))),
         NEW b \in Seq(Messages(Kind(r))), Ended(r, done), NEW st, NEW d, NEW x, NEW e,
         Calls(r, done, x, e, Callbacks(r)),
         OwedCall(r, x, e) \o OwedClose(r, x, e) = OwedCall(r, st, d) \o OwedClose(r, st, d)
  PROVE  Calls(r, done \o b, st, d, Callbacks(r)) /\ Ended(r, done \o b)
BY DueOver DEF Calls

(***************************************************************************)
(* The user and the service.                                               *)
(***************************************************************************)
\* A round begins with nothing taken, or with the failure that waits on the wire.
LEMMA RoundStarts ==
  ASSUME DInv, Progresses, ~Hasty, NEW r \in Requests, Start(r) PROVE Progresses'
<1>1. PICK done : Progress(r, done)
  BY DEF Progresses
<1>2. /\ Sends(r, done, link[r], status[r], server[r], wire[r], sent[r])
      /\ Does(r, done, status[r], Doing(r))
  BY <1>1 DEF Progress, Standing
<1>3. Doing(r) = Idle
  BY DEF Start, Doing
<1>4. /\ DOMAIN link = Requests /\ DOMAIN status = Requests /\ DOMAIN server = Requests
      /\ DOMAIN wire = Requests /\ DOMAIN sent = Requests /\ DOMAIN calls = Requests
  BY DEF DInv, Typing, WireGood, Progresses, CallsGood
<1>5. UNCHANGED <<setup, thread, shared>>
  BY DEF Start
<1>6. Doing(r)' = Idle /\ \A q \in Requests : Doing(q)' = Doing(q)
  BY <1>3, <1>5, ThreadRests
<1>7. Callbacks(r)' = <<>> /\ \A q \in Requests : q # r => Callbacks(q)' = Callbacks(q)
  BY <1>4 DEF Start, Callbacks
<1>8. Kind(r) \in Kinds /\ link[r] \in BOOLEAN
  BY SetupIs DEF DInv, Typing
<1>9. /\ ~Ends(Kind(r), "101") /\ "101" \notin Failures(Kind(r))
      /\ "101" \in Messages(Kind(r))
  BY <1>8, ServiceSays DEF Messages
<1>10. Idle.at = "idle" /\ Idle.then = ""
  BY DEF Idle
<1>11. ~Ended(r, <<>>)
  BY DEF Ended
<1>12. \A st : st # "Closed" => Does(r, <<>>, st, Idle)
  BY <1>10, <1>11 DEF Does, Closing
<1>13. ASSUME NEW st PROVE Calls(r, <<>>, st, Idle, <<>>)
  <2>1. <<>> \o <<>> = <<>> /\ Due(r, <<>>) = <<>>
    BY DueNothing
  <2> QED BY <2>1, OwedAtRest, Zenon DEF Calls
<1>14. CASE link[r]
  <2> DEFINE sv == IF wire[r] = <<>> THEN "asked" ELSE "over"
  <2>1. MovesTo(r, TRUE, "Starting", sv, wire[r], wire[r], Idle, <<>>)
    BY <1>4, <1>5, <1>6, <1>7, <1>14 DEF Start, MovesTo
  <2>2. status[r] = "Closed"
    BY <1>2, <1>14 DEF Sends, Start
  <2>3. wire[r] \in Seq(Messages(Kind(r))) /\ <<>> \o wire[r] = wire[r]
    BY DEF DInv, WireGood
  <2>4. wire[r] = <<>> \/ \E f \in Failures(Kind(r)) : wire[r] = <<f>>
    BY <1>2, <2>2 DEF Sends
  <2>5. \A i \in DOMAIN wire[r] : wire[r][i] # "101"
    BY <1>9, <2>4
  <2>6. \A i \in 1..(Len(wire[r]) - 1) : ~Ends(Kind(r), wire[r][i])
    <3>1. CASE wire[r] = <<>>
      BY <3>1
    <3>2. ASSUME NEW f, wire[r] = <<f>>
          PROVE  \A i \in 1..(Len(wire[r]) - 1) : ~Ends(Kind(r), wire[r][i])
      <4>1. Len(wire[r]) = 1
        BY <3>2
      <4> QED BY <4>1
    <3> QED BY <2>4, <3>1, <3>2
  <2>7. sv # "over" => ~Ended(r, wire[r])
    BY <1>11
  <2>8. Sends(r, <<>>, TRUE, "Starting", sv, wire[r], wire[r])
    BY <2>3, <2>5, <2>6, <2>7 DEF Sends
  <2> HIDE DEF sv
  <2>9. Standing(r, <<>>, TRUE, "Starting", sv, wire[r], wire[r], Idle, <<>>)
    BY <1>12, <1>13, <2>8 DEF Standing
  <2> QED BY <2>1, <2>9, MovesKeep
<1>15. CASE ~link[r]
  <2> DEFINE w == <<"101">>
  <2>1. MovesTo(r, TRUE, "Handshaked", "none", w, w, Idle, <<>>)
    BY <1>4, <1>5, <1>6, <1>7, <1>15 DEF Start, MovesTo
  <2>2. Sends(r, <<>>, TRUE, "Handshaked", "none", w, w)
    <3>1. w \in Seq(Messages(Kind(r))) /\ <<>> \o w = w /\ Len(w) = 1
      BY <1>9
    <3>2. ~Ended(r, w)
      BY <1>9 DEF Ended
    <3> QED BY <3>1, <3>2 DEF Sends
  <2> HIDE DEF w
  <2>3. Standing(r, <<>>, TRUE, "Handshaked", "none", w, w, Idle, <<>>)
    BY <1>12, <1>13, <2>2 DEF Standing
  <2> QED BY <2>1, <2>3, MovesKeep
<1> QED
  BY <1>8, <1>14, <1>15

\* A message more on the wire.
LEMMA ServiceMoves ==
  ASSUME DInv, Progresses, NEW r \in Requests, NEW m, NEW x, Serve(r, m, x)
  PROVE  MovesTo(r, link[r], status[r], x, Append(wire[r], m), Append(sent[r], m), Doing(r),
                 Callbacks(r))
<1>1. /\ DOMAIN link = Requests /\ DOMAIN status = Requests /\ DOMAIN server = Requests
      /\ DOMAIN wire = Requests /\ DOMAIN sent = Requests
  BY DEF DInv, Typing, WireGood, Progresses
<1>2. UNCHANGED <<setup, link, status, thread, calls>>
  BY DEF Serve
<1>3. /\ \A q \in Requests : Doing(q)' = Doing(q)
      /\ \A q \in Requests : Callbacks(q)' = Callbacks(q)
  BY <1>2, ThreadRests, CallsRest
<1>4. /\ wire' = [wire EXCEPT ![r] = Append(@, m)] /\ sent' = [sent EXCEPT ![r] = Append(@, m)]
      /\ server' = [server EXCEPT ![r] = x]
  BY DEF Serve
<1> QED
  BY <1>1, <1>2, <1>3, <1>4 DEF MovesTo

\* What the service sends, and when.
LEMMA RoundServed ==
  ASSUME DInv, Progresses, NEW r \in Requests, Service(r) PROVE Progresses'
<1>1. PICK done : Progress(r, done)
  BY DEF Progresses
<1> DEFINE k == Kind(r)
<1>2. /\ Sends(r, done, link[r], status[r], server[r], wire[r], sent[r])
      /\ Does(r, done, status[r], Doing(r)) /\ Calls(r, done, status[r], Doing(r), Callbacks(r))
  BY <1>1 DEF Progress, Standing
<1>3. k \in Kinds
  BY SetupIs DEF DInv
<1>4. server[r] # "over" => status[r] # "Closed"
  BY <1>2, EndedSent DEF Does
<1>5. link[r] => status[r] # "Created"
  BY <1>2 DEF Sends
<1>6. ASSUME NEW m \in Messages(k), NEW x, Serve(r, m, x), server[r] # "none", x # "none",
             m # "101", x # "over" => ~Ends(k, m),
             \/ server[r] # "over"
             \/ /\ status[r] = "Closed" /\ x = "over" /\ wire[r] = <<>> /\ setup[r].long
                /\ m \in Failures(k)
      PROVE  Progresses'
  <2>1. link[r]
    BY <1>6 DEF Serve
  <2>2. Sends(r, done, link[r], status[r], x, Append(wire[r], m), Append(sent[r], m))
    BY <1>2, <1>4, <1>5, <1>6, <2>1, ServeSends
  <2>3. Standing(r, done, link[r], status[r], x, Append(wire[r], m), Append(sent[r], m),
                 Doing(r), Callbacks(r))
    BY <1>2, <2>2 DEF Standing
  <2> QED BY <1>6, <2>3, ServiceMoves, MovesKeep
<1>7. /\ Verdict(k) \in Messages(k) /\ Results(k) \subseteq Messages(k)
      /\ Failures(k) \subseteq Messages(k)
      /\ k # "sy" => Opening(k) \in Messages(k)
  BY DEF Messages
<1>8. /\ Verdict(k) # "101" /\ Verdict(k) \notin Failures(k) /\ "101" \notin Failures(k)
      /\ \A m \in Results(k) : ~Ends(k, m) /\ m # "101"
      /\ k # "sy" => ~Ends(k, Opening(k)) /\ Opening(k) # "101"
  BY <1>3, ServiceSays
<1>9. CASE ServeStarted(r)
  <2>1. k # "sy" /\ server[r] = "asked" /\ Serve(r, Opening(k), "working")
    BY <1>9 DEF ServeStarted
  <2>2. Opening(k) \in Messages(k) /\ Opening(k) # "101" /\ ~Ends(k, Opening(k))
    BY <1>7, <1>8, <2>1
  <2> HIDE DEF k
  <2> QED BY <1>6, <2>1, <2>2
<1>10. CASE ServeResult(r)
  <2>1. PICK m \in Results(k) : Serve(r, m, "working")
    BY <1>10 DEF ServeResult
  <2>2. server[r] # "none" /\ server[r] # "over"
    BY <1>10 DEF ServeResult, Working
  <2> QED BY <1>6, <1>7, <1>8, <2>1, <2>2
<1>11. CASE ServeVerdict(r)
  BY <1>6, <1>7, <1>8, <1>11 DEF ServeVerdict, Working
<1>12. CASE ServeFailure(r)
  <2>1. PICK m \in Failures(k) : Serve(r, m, "over")
    BY <1>12 DEF ServeFailure
  <2>2. server[r] # "none" /\ server[r] # "over"
    BY <1>12 DEF ServeFailure
  <2>3. m \in Messages(k) /\ m # "101"
    BY <1>7, <1>8, <2>1
  <2> HIDE DEF k
  <2> QED BY <1>6, <2>1, <2>2, <2>3
<1>13. CASE ServeIdle(r)
  <2>1. PICK m \in Failures(k) : Serve(r, m, "over")
    BY <1>13 DEF ServeIdle
  <2>2. /\ server[r] = "over" /\ setup[r].long /\ status[r] = "Closed"
        /\ Last(sent[r]) = Verdict(k)
    BY <1>13 DEF ServeIdle
  <2>3. wire[r] = <<>>
    <3>1. SUFFICES ASSUME NEW f \in Failures(k), wire[r] = <<f>> PROVE FALSE
      BY <1>2, <2>2 DEF Sends
    <3>2. done \in Seq(Messages(k)) /\ sent[r] = done \o <<f>> /\ f \in Messages(k)
      BY <1>2, <1>7, <3>1 DEF Sends
    <3>3. Last(sent[r]) = f
      <4> DEFINE M == Messages(k)
      <4>1. done \in Seq(M) /\ sent[r] = done \o <<f>> /\ f \in M
        BY <3>2
      <4> HIDE DEF M
      <4> QED BY <4>1 DEF Last
    <3> QED BY <1>8, <2>2, <3>3
  <2>4. m \in Messages(k) /\ m # "101"
    BY <1>7, <1>8, <2>1
  <2> HIDE DEF k
  <2> QED BY <1>6, <2>1, <2>2, <2>3, <2>4
<1> QED
  BY <1>9, <1>10, <1>11, <1>12, <1>13 DEF Service

(***************************************************************************)
(* The event thread takes a message.                                       *)
(***************************************************************************)
\* A thread at rest is at rest for each of its requests.
LEMMA IdleIs ==
  ASSUME DInv, NEW r \in Requests, thread[ThreadOf[r]].at = "idle"
  PROVE  thread[ThreadOf[r]] = Idle /\ Doing(r) = Idle
<1>1. ThreadOf[r] \in Threads
  BY DeliveryAssumption
<1>2. thread[ThreadOf[r]] = Idle
  BY <1>1 DEF DInv, ThreadsGood, Works
<1> QED
  BY <1>2 DEF Doing

\* The promise for a message with a callback, and for one without.
LEMMA PromiseIs ==
  ASSUME DInv, MessagesWithoutAudio, NEW r \in Requests, NEW m \in Messages(Kind(r))
  PROVE  /\ Meant(Kind(r), m) # "" =>
              PromisedFor(r, m) =
                Heard(r, Given(r, Meant(Kind(r), m))) \o
                  IF Ends(Kind(r), m) THEN Heard(r, Given(r, "Close")) ELSE <<>>
         /\ Meant(Kind(r), m) = "" /\ ~Ends(Kind(r), m) => PromisedFor(r, m) = <<>>
<1> DEFINE k == Kind(r)
<1>1. setup[r].message => k \in {"sr", "st", "funasr", "paraformer"}
  BY DEF MessagesWithoutAudio, DInv, Typing, Kind
<1>2. k \in {"sr", "st", "funasr", "paraformer"} => m # "Binary"
  BY DEF Messages, Opening, Results, Verdict, Failures, DashScope
<1>3. Given(r, "Close") = IF setup[r].message THEN "Message" ELSE "Close"
  BY DEF Given
<1>4. ASSUME Meant(k, m) # "" PROVE MeantBy(r, m) = Given(r, Meant(k, m))
  BY <1>1, <1>2, <1>4 DEF MeantBy, Given
<1>5. Meant(k, m) = "" => MeantBy(r, m) = ""
  BY DEF MeantBy
<1>6. Heard(r, "") = <<>> /\ <<>> \o <<>> = <<>>
  BY DEF Heard
<1> HIDE DEF k
<1>7. Meant(k, m) # "" =>
        PromisedFor(r, m) =
          Heard(r, Given(r, Meant(k, m))) \o
            IF Ends(k, m) THEN Heard(r, Given(r, "Close")) ELSE <<>>
  BY <1>3, <1>4, Zenon DEF PromisedFor, k
<1>8. Meant(k, m) = "" /\ ~Ends(k, m) => PromisedFor(r, m) = <<>>
  BY <1>5, <1>6, Zenon DEF PromisedFor, k
<1> QED
  BY <1>7, <1>8 DEF k

\* A message becomes the event of its callback.
LEMMA EventTaken ==
  ASSUME DInv, MessagesWithoutAudio, NEW r \in Requests, NEW done, Progress(r, done),
         Doing(r) = Idle, wire[r] # <<>>, status[r] # "Closed",
         NEW m, m = Head(wire[r]), NEW type, type = Meant(Kind(r), m), type # "", NEW then,
         \/ then = "end" /\ Ends(Kind(r), m)
         \/ then = "switch" /\ (type \in Enders(Kind(r)) <=> Ends(Kind(r), m)),
         NEW d, d = [at |-> "call", req |-> r, type |-> type, then |-> then]
  PROVE  Standing(r, Append(done, m), link[r], status[r], server[r], Tail(wire[r]), sent[r], d,
                  Callbacks(r))
<1> DEFINE k == Kind(r)
<1>1. /\ Sends(r, done, link[r], status[r], server[r], wire[r], sent[r])
      /\ Does(r, done, status[r], Idle) /\ Calls(r, done, status[r], Idle, Callbacks(r))
  BY DEF Progress, Standing
<1>2. Sends(r, Append(done, m), link[r], status[r], server[r], Tail(wire[r]), sent[r])
  BY <1>1, TakeSends
<1>3. m \in Messages(k) /\ done \in Seq(Messages(k))
  BY <1>1, HeadIsGood DEF DInv, Sends
<1>4. ~Ended(r, done)
  BY <1>1 DEF Does, Closing, Idle
<1>5. Ended(r, Append(done, m)) <=> Ends(k, m)
  BY <1>3, <1>4, EndedAppend
<1>6. d.at = "call" /\ d.type = type /\ d.then = then
  OBVIOUS
<1>7. Closing(r, d) <=> Ends(k, m)
  BY <1>6 DEF Closing
<1>8. Does(r, Append(done, m), status[r], d)
  BY <1>5, <1>6, <1>7 DEF Does
<1>9. OwedCall(r, status[r], d) = Heard(r, Given(r, type))
  BY <1>6 DEF OwedCall, Ignored
<1>10. OwedClose(r, status[r], d) = IF Ends(k, m) THEN Heard(r, Given(r, "Close")) ELSE <<>>
  <2>1. d.then # "closed"
    BY <1>6
  <2> QED BY <1>7, <2>1, Zenon DEF OwedClose
<1>11. OwedCall(r, status[r], d) \o OwedClose(r, status[r], d) = PromisedFor(r, m)
  <2>1. PromisedFor(r, m) = Heard(r, Given(r, type)) \o
                              IF Ends(k, m) THEN Heard(r, Given(r, "Close")) ELSE <<>>
    BY <1>3, PromiseIs
  <2> QED BY <1>9, <1>10, <2>1, Zenon
<1>12. Calls(r, Append(done, m), status[r], d, Callbacks(r))
  BY <1>1, <1>3, <1>4, <1>11, CallsTake
<1> QED
  BY <1>2, <1>8, <1>12 DEF Standing

\* A message is for nobody.
LEMMA NothingTaken ==
  ASSUME DInv, MessagesWithoutAudio, NEW r \in Requests, NEW done, Progress(r, done),
         Doing(r) = Idle, wire[r] # <<>>, status[r] # "Closed",
         NEW m, m = Head(wire[r]), Meant(Kind(r), m) = "", ~Ends(Kind(r), m)
  PROVE  Standing(r, Append(done, m), link[r], status[r], server[r], Tail(wire[r]), sent[r],
                  Idle, Callbacks(r))
<1> DEFINE k == Kind(r)
<1>1. /\ Sends(r, done, link[r], status[r], server[r], wire[r], sent[r])
      /\ Does(r, done, status[r], Idle) /\ Calls(r, done, status[r], Idle, Callbacks(r))
  BY DEF Progress, Standing
<1>2. Sends(r, Append(done, m), link[r], status[r], server[r], Tail(wire[r]), sent[r])
  BY <1>1, TakeSends
<1>3. m \in Messages(k) /\ done \in Seq(Messages(k))
  BY <1>1, HeadIsGood DEF DInv, Sends
<1>4. ~Ended(r, done)
  BY <1>1 DEF Does, Closing, Idle
<1>5. ~Ended(r, Append(done, m))
  BY <1>3, <1>4, EndedAppend
<1>6. Does(r, Append(done, m), status[r], Idle)
  BY <1>5 DEF Does, Closing, Idle
<1>7. Calls(r, Append(done, m), status[r], Idle, Callbacks(r))
  <2>1. PromisedFor(r, m) = <<>>
    BY <1>3, PromiseIs
  <2> QED BY <1>1, <1>3, <1>4, <2>1, OwedAtRest, CallsTake
<1> QED
  BY <1>2, <1>6, <1>7 DEF Standing

\* The failure of a connection that is kept, after its round.
LEMMA FailureTaken ==
  ASSUME DInv, NEW r \in Requests, NEW done, Progress(r, done), Doing(r) = Idle,
         wire[r] # <<>>, status[r] = "Closed", NEW m, m = Head(wire[r]),
         NEW d, d = [at |-> "call", req |-> r, type |-> "TaskFailed", then |-> "switch"]
  PROVE  Standing(r, Append(done, m), link[r], status[r], server[r], Tail(wire[r]), sent[r], d,
                  Callbacks(r))
<1> DEFINE k == Kind(r)
<1>1. /\ Sends(r, done, link[r], status[r], server[r], wire[r], sent[r])
      /\ Does(r, done, status[r], Idle) /\ Calls(r, done, status[r], Idle, Callbacks(r))
  BY DEF Progress, Standing
<1>2. Sends(r, Append(done, m), link[r], status[r], server[r], Tail(wire[r]), sent[r])
  BY <1>1, TakeSends
<1>3. m \in Messages(k) /\ done \in Seq(Messages(k)) /\ setup[r].long
  BY <1>1, HeadIsGood DEF DInv, Sends
<1>4. Ended(r, done)
  BY <1>1 DEF Does
<1>5. Append(done, m) = done \o <<m>> /\ <<m>> \in Seq(Messages(k))
  <2> DEFINE M == Messages(k)
  <2>1. m \in M /\ done \in Seq(M)
    BY <1>3
  <2> HIDE DEF M
  <2>2. Append(done, m) = done \o <<m>> /\ <<m>> \in Seq(M)
    BY <2>1
  <2> QED BY <2>2 DEF M
<1>6. d.at = "call" /\ d.type = "TaskFailed" /\ d.then = "switch"
  OBVIOUS
<1>7. OwedCall(r, status[r], d) = <<>> /\ OwedClose(r, status[r], d) = <<>>
  BY <1>3, <1>6 DEF OwedCall, OwedClose, Ignored
<1>8. /\ Calls(r, Append(done, m), status[r], d, Callbacks(r)) /\ Ended(r, Append(done, m))
  <2>1. OwedCall(r, status[r], Idle) \o OwedClose(r, status[r], Idle)
          = OwedCall(r, status[r], d) \o OwedClose(r, status[r], d)
    BY <1>7, OwedAtRest
  <2> QED BY <1>1, <1>3, <1>4, <1>5, <2>1, CallsSkip
<1>9. Does(r, Append(done, m), status[r], d)
  BY <1>3, <1>6, <1>8 DEF Does
<1> QED
  BY <1>2, <1>8, <1>9 DEF Standing

\* The connection is closed: nothing of the round is left.
LEMMA ConnectionDropped ==
  ASSUME DInv, NEW r \in Requests, NEW done, Progress(r, done),
         status[r] = "Closed", Doing(r).at # "call", Doing(r).at # "fetch"
  PROVE  Standing(r, done \o wire[r], FALSE, status[r], server[r], <<>>, sent[r], Idle,
                  Callbacks(r))
<1>1. /\ Sends(r, done, link[r], status[r], server[r], wire[r], sent[r])
      /\ Does(r, done, status[r], Doing(r)) /\ Calls(r, done, status[r], Doing(r), Callbacks(r))
  BY DEF Progress, Standing
<1>2. Sends(r, done \o wire[r], FALSE, status[r], server[r], <<>>, sent[r])
  BY <1>1, DropSends
<1>3. Ended(r, done) /\ done \in Seq(Messages(Kind(r))) /\ wire[r] \in Seq(Messages(Kind(r)))
  BY <1>1 DEF Does, Sends
<1>4. OwedCall(r, status[r], Doing(r)) = <<>> /\ OwedClose(r, status[r], Doing(r)) = <<>>
  BY DEF OwedCall, OwedClose
<1>5. /\ Calls(r, done \o wire[r], status[r], Idle, Callbacks(r)) /\ Ended(r, done \o wire[r])
  <2>1. OwedCall(r, status[r], Doing(r)) \o OwedClose(r, status[r], Doing(r))
          = OwedCall(r, status[r], Idle) \o OwedClose(r, status[r], Idle)
    BY <1>4, OwedAtRest
  <2> QED BY <1>1, <1>3, <2>1, CallsSkip
<1>6. Does(r, done \o wire[r], status[r], Idle)
  BY <1>5 DEF Does, Idle
<1> QED
  BY <1>2, <1>5, <1>6 DEF Standing

\* The answer of the gateway is for nobody, but for the synthesizer, whose user hears
\* a SynthesisStarted that the service does not send.
LEMMA GatewayAnswered ==
  ASSUME DInv, Progresses, MessagesWithoutAudio, NEW t \in Threads, NEW r \in Requests,
         GatewayAnswers(t, r)
  PROVE  Progresses'
<1>1. PICK done : Progress(r, done)
  BY DEF Progresses
<1> DEFINE k == Kind(r)
           d == IF k = "sy" THEN [at |-> "call", req |-> r, type |-> "SynthesisStarted",
                                  then |-> "rest"] ELSE Idle
           m == "101"
<1>2. /\ ThreadOf[r] = t /\ thread[t].at = "idle" /\ wire[r] # <<>> /\ Head(wire[r]) = m
      /\ wire' = [wire EXCEPT ![r] = Tail(@)]
      /\ status' = [status EXCEPT ![r] = "Starting"] /\ server' = [server EXCEPT ![r] = "asked"]
      /\ UNCHANGED <<setup, link, sent, calls>>
  BY DEF GatewayAnswers, Take
<1>3. thread[t] = Idle /\ Doing(r) = Idle
  BY <1>2, IdleIs
<1>4. /\ Sends(r, done, link[r], status[r], server[r], wire[r], sent[r])
      /\ Does(r, done, status[r], Idle) /\ Calls(r, done, status[r], Idle, Callbacks(r))
  BY <1>1, <1>3 DEF Progress, Standing
<1>5. Doing(r)' = d /\ \A q \in Requests : q # r => Doing(q)' = Doing(q)
  <2>1. CASE k = "sy"
    <3>1. thread' = [thread EXCEPT ![ThreadOf[r]] = d] /\ d.req = r
      BY <1>2, <2>1 DEF GatewayAnswers, Do
    <3> HIDE DEF d
    <3> QED BY <1>2, <1>3, <3>1, ThreadMoves
  <2>2. CASE k # "sy"
    <3>1. UNCHANGED thread
      BY <2>2 DEF GatewayAnswers
    <3> QED BY <1>3, <2>2, <3>1, ThreadRests
  <2> QED BY <2>1, <2>2
<1>6. \A q \in Requests : Callbacks(q)' = Callbacks(q)
  BY <1>2, CallsRest
<1>7. MovesTo(r, link[r], "Starting", "asked", Tail(wire[r]), sent[r], d, Callbacks(r))
  <2>1. /\ DOMAIN link = Requests /\ DOMAIN status = Requests /\ DOMAIN server = Requests
        /\ DOMAIN wire = Requests /\ DOMAIN sent = Requests
    BY DEF DInv, Typing, WireGood, Progresses
  <2> HIDE DEF d
  <2> QED BY <1>2, <1>5, <1>6, <2>1 DEF MovesTo
<1>8. k \in Kinds
  BY SetupIs DEF DInv
<1>9. server[r] = "none" /\ wire[r] = <<m>>
  <2>1. 1 \in DOMAIN wire[r] /\ wire[r][1] = m
    BY <1>2 DEF DInv, WireGood
  <2> QED BY <1>2, <1>4, <2>1 DEF Sends
<1>10. Tail(wire[r]) = <<>>
  BY <1>9
<1>11. ~Ended(r, sent[r])
  BY <1>4, <1>9 DEF Sends
<1>12. done \in Seq(Messages(k)) /\ m \in Messages(k)
  BY <1>4 DEF Sends, Messages
<1>13. ~Ends(k, m) /\ ~Ended(r, done) /\ status[r] # "Closed"
  BY <1>4, <1>8, <1>11, EndedSent, ServiceSays DEF Does
<1>14. ~Ended(r, Append(done, m))
  BY <1>12, <1>13, EndedAppend
<1>15. Sends(r, Append(done, m), link[r], "Starting", "asked", Tail(wire[r]), sent[r])
  <2>1. Sends(r, Append(done, m), link[r], status[r], server[r], Tail(wire[r]), sent[r])
    BY <1>2, <1>4, TakeSends
  <2>2. \A i \in 1..(Len(sent[r]) - 1) : ~Ends(k, sent[r][i])
    BY <1>13, <2>1 DEF Sends
  <2>3. \A i \in DOMAIN Tail(wire[r]) : Tail(wire[r])[i] # "101"
    BY <1>10
  <2> QED BY <1>11, <2>1, <2>2, <2>3 DEF Sends
<1>16. d.at # "fetch" /\ ~Closing(r, d)
  BY DEF Closing, Idle
<1>17. Does(r, Append(done, m), "Starting", d)
  BY <1>14, <1>16 DEF Does
<1>18. OwedCall(r, "Starting", d) \o OwedClose(r, "Starting", d) = PromisedFor(r, m)
  <2>1. CASE k = "sy"
    <3>1. d.at = "call" /\ d.type = "SynthesisStarted"
      BY <2>1
    <3>2. OwedCall(r, "Starting", d) = Heard(r, Given(r, "SynthesisStarted"))
      BY <3>1 DEF OwedCall, Ignored
    <3>3. OwedClose(r, "Starting", d) = <<>>
      BY <1>16 DEF OwedClose
    <3>4. Meant(k, m) = "SynthesisStarted"
      BY <2>1 DEF Meant
    <3>5. PromisedFor(r, m) = Heard(r, Given(r, "SynthesisStarted")) \o <<>>
      <4>1. PromisedFor(r, m) = Heard(r, Given(r, Meant(k, m))) \o
                                  IF Ends(k, m) THEN Heard(r, Given(r, "Close")) ELSE <<>>
        BY <1>12, <3>4, PromiseIs
      <4> QED BY <1>13, <3>4, <4>1, Zenon
    <3> QED BY <3>2, <3>3, <3>5, Zenon
  <2>2. CASE k # "sy"
    <3>1. d = Idle
      BY <2>2
    <3>2. Meant(k, m) = ""
      BY <2>2 DEF Meant
    <3> QED BY <1>12, <1>13, <3>1, <3>2, PromiseIs, OwedAtRest
  <2> QED BY <2>1, <2>2
<1>19. Calls(r, Append(done, m), "Starting", d, Callbacks(r))
  <2> HIDE DEF d
  <2> QED BY <1>4, <1>12, <1>13, <1>18, CallsTake
<1>20. Standing(r, Append(done, m), link[r], "Starting", "asked", Tail(wire[r]), sent[r], d,
                Callbacks(r))
  BY <1>15, <1>17, <1>19 DEF Standing
<1> HIDE DEF d
<1> QED
  BY <1>7, <1>20, MovesKeep

\* What a thread does that takes one message, or all with the connection.
LEMMA TakeMoves ==
  ASSUME DInv, Progresses, NEW r \in Requests, NEW d, thread[ThreadOf[r]].at = "idle",
         \/ UNCHANGED thread /\ d = Idle
         \/ thread' = [thread EXCEPT ![ThreadOf[r]] = d] /\ d.req = r,
         UNCHANGED <<setup, status, server, sent, calls>>
  PROVE  /\ wire' = [wire EXCEPT ![r] = Tail(@)] /\ UNCHANGED link =>
              MovesTo(r, link[r], status[r], server[r], Tail(wire[r]), sent[r], d, Callbacks(r))
         /\ Disconnect(r) =>
              MovesTo(r, FALSE, status[r], server[r], <<>>, sent[r], d, Callbacks(r))
<1>1. thread[ThreadOf[r]] = Idle /\ Doing(r) = Idle
  BY IdleIs
<1>2. Doing(r)' = d /\ \A q \in Requests : q # r => Doing(q)' = Doing(q)
  BY <1>1, ThreadMoves, ThreadRests
<1>3. \A q \in Requests : Callbacks(q)' = Callbacks(q)
  BY CallsRest
<1>4. /\ DOMAIN link = Requests /\ DOMAIN status = Requests /\ DOMAIN server = Requests
      /\ DOMAIN wire = Requests /\ DOMAIN sent = Requests
  BY DEF DInv, Typing, WireGood, Progresses
<1>5. wire' = [wire EXCEPT ![r] = Tail(@)] /\ UNCHANGED link =>
        MovesTo(r, link[r], status[r], server[r], Tail(wire[r]), sent[r], d, Callbacks(r))
  BY <1>2, <1>3, <1>4 DEF MovesTo
<1>6. Disconnect(r) =>
        MovesTo(r, FALSE, status[r], server[r], <<>>, sent[r], d, Callbacks(r))
  BY <1>2, <1>3, <1>4 DEF MovesTo, Disconnect
<1> QED
  BY <1>5, <1>6

\* A frame that is an event, or dropped.
LEMMA EventParsed ==
  ASSUME DInv, Progresses, MessagesWithoutAudio, NEW t \in Threads, NEW r \in Requests,
         ParseEvent(t, r)
  PROVE  Progresses'
<1>1. PICK done : Progress(r, done)
  BY DEF Progresses
<1> DEFINE k == Kind(r)
           m == Head(wire[r])
           type == convertResult(k, m)
           d == IF type = "ignored" THEN Idle
                ELSE [at |-> "call", req |-> r, type |-> type, then |-> "switch"]
<1>2. /\ ThreadOf[r] = t /\ thread[t].at = "idle" /\ wire[r] # <<>>
      /\ m \notin {"101", "CLOSE"} /\ type # "failed"
      /\ wire' = [wire EXCEPT ![r] = Tail(@)]
      /\ IF type = "ignored" THEN UNCHANGED thread ELSE Do(t, "call", r, type, "switch")
      /\ UNCHANGED <<setup, link, status, server, sent, calls>>
  BY DEF ParseEvent, Take
<1>3. MovesTo(r, link[r], status[r], server[r], Tail(wire[r]), sent[r], d, Callbacks(r))
  <2>1. \/ UNCHANGED thread /\ d = Idle
        \/ thread' = [thread EXCEPT ![ThreadOf[r]] = d] /\ d.req = r
    BY <1>2 DEF Do
  <2> HIDE DEF d
  <2> QED BY <1>2, <2>1, TakeMoves
<1>4. Doing(r) = Idle
  BY <1>2, IdleIs
<1>5. m \in Messages(k) /\ k \in Kinds
  BY <1>2, HeadIsGood, SetupIs DEF DInv
<1>6. Means(k, m)
  BY <1>2, <1>5, MessagesMean DEF AllMean
<1>7. Standing(r, Append(done, m), link[r], status[r], server[r], Tail(wire[r]), sent[r], d,
               Callbacks(r))
  <2>1. CASE status[r] # "Closed" /\ type = "ignored"
    <3>1. Meant(k, m) = "" /\ ~Ends(k, m) /\ d = Idle
      BY <1>6, <2>1 DEF Means
    <3> HIDE DEF d, type
    <3> QED BY <1>1, <1>2, <1>4, <2>1, <3>1, NothingTaken
  <2>2. CASE status[r] # "Closed" /\ type # "ignored"
    <3>1. /\ type = Meant(k, m) /\ type # ""
          /\ type \in Enders(k) <=> Ends(k, m)
          /\ d = [at |-> "call", req |-> r, type |-> type, then |-> "switch"]
      BY <1>2, <1>6, <2>2 DEF Means
    <3> HIDE DEF d, type
    <3> QED BY <1>1, <1>2, <1>4, <2>2, <3>1, EventTaken
  <2>3. CASE status[r] = "Closed"
    <3>1. m \in Failures(k)
      <4>1. \E f \in Failures(k) : wire[r] = <<f>>
        BY <1>1, <1>2, <2>3 DEF Progress, Standing, Sends
      <4> QED BY <4>1
    <3>2. Ends(k, m) /\ m \in {"task-failed", "TaskFailed"}
      BY <1>2, <1>6, <3>1 DEF Ends, Failures, Means
    <3>3. Meant(k, m) = "TaskFailed"
      BY <3>2 DEF Meant
    <3>4. type = "TaskFailed"
      BY <1>2, <1>6, <3>2, <3>3 DEF Means
    <3>5. d = [at |-> "call", req |-> r, type |-> "TaskFailed", then |-> "switch"]
      BY <3>4
    <3> HIDE DEF d, type
    <3> QED BY <1>1, <1>2, <1>4, <2>3, <3>5, FailureTaken
  <2> QED BY <2>1, <2>2, <2>3
<1> HIDE DEF d
<1> QED
  BY <1>3, <1>7, MovesKeep

\* A frame that ends the round without being an event.
LEMMA EndParsed ==
  ASSUME DInv, Progresses, MessagesWithoutAudio, NEW t \in Threads, NEW r \in Requests,
         ParseClose(t, r) \/ ParseFails(t, r)
  PROVE  Progresses'
<1>1. PICK done : Progress(r, done)
  BY DEF Progresses
<1> DEFINE k == Kind(r)
           m == Head(wire[r])
           then == IF m = "CLOSE" THEN "switch" ELSE "end"
           d == [at |-> "call", req |-> r, type |-> "TaskFailed", then |-> then]
<1>2. /\ ThreadOf[r] = t /\ thread[t].at = "idle" /\ wire[r] # <<>>
      /\ UNCHANGED <<setup, status, server, sent, calls>>
      /\ IF status[r] = "Closed"
         THEN Disconnect(r) /\ UNCHANGED thread
         ELSE /\ wire' = [wire EXCEPT ![r] = Tail(@)] /\ UNCHANGED link
              /\ Do(t, "call", r, "TaskFailed", then)
  BY DEF ParseClose, ParseFails, Take
<1>3. Doing(r) = Idle
  BY <1>2, IdleIs
<1>4. m \in Messages(k) /\ k \in Kinds
  BY <1>2, HeadIsGood, SetupIs DEF DInv
<1>5. m \in {"CLOSE", "not json"}
  <2>1. CASE ParseClose(t, r)
    BY <2>1 DEF ParseClose
  <2>2. CASE ParseFails(t, r)
    <3>1. m \notin {"101", "CLOSE"} /\ convertResult(k, m) = "failed"
      BY <2>2 DEF ParseFails
    <3>2. Means(k, m)
      BY <1>4, <3>1, MessagesMean DEF AllMean
    <3> QED BY <3>1, <3>2 DEF Means
  <2> QED BY <2>1, <2>2
<1>6. Ends(k, m) /\ Meant(k, m) = "TaskFailed" /\ "TaskFailed" \in Enders(k)
  BY <1>5 DEF Ends, Failures, Meant, Enders
<1>7. CASE status[r] = "Closed"
  <2>1. MovesTo(r, FALSE, status[r], server[r], <<>>, sent[r], Idle, Callbacks(r))
    BY <1>2, <1>7, TakeMoves
  <2>2. Idle.at = "idle"
    BY DEF Idle
  <2>3. Standing(r, done \o wire[r], FALSE, status[r], server[r], <<>>, sent[r], Idle,
                 Callbacks(r))
    BY <1>1, <1>3, <1>7, <2>2, ConnectionDropped
  <2> QED BY <2>1, <2>3, MovesKeep
<1>8. CASE status[r] # "Closed"
  <2>1. thread' = [thread EXCEPT ![ThreadOf[r]] = d] /\ d.req = r
    BY <1>2, <1>8 DEF Do
  <2>2. MovesTo(r, link[r], status[r], server[r], Tail(wire[r]), sent[r], d, Callbacks(r))
    <3> HIDE DEF d
    <3> QED BY <1>2, <1>8, <2>1, TakeMoves
  <2>3. then = "switch" \/ then = "end"
    OBVIOUS
  <2>4. Standing(r, Append(done, m), link[r], status[r], server[r], Tail(wire[r]), sent[r], d,
                 Callbacks(r))
    <3>1. d = [at |-> "call", req |-> r, type |-> "TaskFailed", then |-> then]
      OBVIOUS
    <3> HIDE DEF d, then
    <3> QED BY <1>1, <1>2, <1>3, <1>6, <1>8, <2>3, <3>1, EventTaken
  <2> HIDE DEF d
  <2> QED BY <2>2, <2>4, MovesKeep
<1> QED
  BY <1>7, <1>8

(***************************************************************************)
(* The event thread calls back.                                            *)
(***************************************************************************)
\* A thread at work works for the request it names.
LEMMA DoingIs ==
  ASSUME DInv, NEW t \in Threads, thread[t].at # "idle"
  PROVE  /\ Works(t) /\ thread[t].req \in Requests /\ ThreadOf[thread[t].req] = t
         /\ Doing(thread[t].req) = thread[t]
BY WorksIs DEF Doing, Busy

\* It goes on with that request, or rests.
LEMMA WorkMoves ==
  ASSUME DInv, NEW t \in Threads, thread[t].at # "idle", NEW r, r = thread[t].req, NEW d,
         thread' = [thread EXCEPT ![t] = d], d = Idle \/ d.req = r
  PROVE  Doing(r)' = d /\ \A q \in Requests : q # r => Doing(q)' = Doing(q)
<1>1. r \in Requests /\ ThreadOf[r] = t
  BY DoingIs
<1> QED
  BY <1>1, ThreadMoves

\* The callback of the listener is that of the event given.
LEMMA GivenIsHeard ==
  ASSUME DInv, NEW r \in Requests, NEW type \in Types(Kind(r))
  PROVE  /\ listenerFrame(Kind(r), Given(r, type)) = Given(r, type) /\ Given(r, type) # ""
         /\ Given(r, type) \in Callable(r)
<1>1. Given(r, type) \in Types(Kind(r))
  <2>1. CASE setup[r].message
    BY <2>1, SetupIs, ListenerHearsMessage DEF DInv, Given, Types
  <2>2. CASE ~setup[r].message
    BY <2>2 DEF Given
  <2> QED BY <2>1, <2>2
<1>2. "" \notin Types(Kind(r))
  <2>1. Kind(r) \in Kinds
    BY SetupIs DEF DInv
  <2> QED
    BY <2>1 DEF Types, Kinds, Listener, SpeechRecognizerListener, SpeechTranscriberListener,
       DashFunAsrTranscriberListener, DashParaformerTranscriberListener,
       SpeechSynthesizerListener, FlowingSynthesizerListener,
       DashCosyVoiceSynthesizerListener, DialogAssistantListener
<1> QED
  BY <1>1, <1>2, ListenerHears DEF Callable

\* What is heard is one callback or none.
LEMMA HeardTyped ==
  ASSUME NEW r, NEW S, NEW c \in S PROVE Heard(r, c) \in Seq(S) /\ <<>> \in Seq(S)
<1>1. <<c>> \in Seq(S) /\ <<>> \in Seq(S)
  OBVIOUS
<1> QED
  BY <1>1 DEF Heard

\* The callback is made: what was owed is one less.
LEMMA OwedIsMade ==
  ASSUME DInv, NEW r \in Requests, NEW done, NEW st, NEW d, NEW e, NEW c \in Callable(r),
         Calls(r, done, st, d, Callbacks(r)), OwedCall(r, st, d) = <<c>>,
         OwedCall(r, st, e) = <<>>, OwedClose(r, st, e) = OwedClose(r, st, d)
  PROVE  Calls(r, done, st, e, Append(Callbacks(r), c))
<1> DEFINE S == Callable(r)  cs == Callbacks(r)  z == OwedClose(r, st, d)
<1>1. cs \in Seq(S) /\ c \in S
  BY CallbacksTyped
<1>2. z \in Seq(S)
  <2>1. Given(r, "Close") \in S
    BY DEF Given, Callable
  <2> QED BY <2>1, HeardTyped DEF OwedClose
<1>3. Append(cs, c) \o (<<>> \o z) = cs \o (<<c>> \o z)
  <2> HIDE DEF S, cs, z
  <2> QED BY <1>1, <1>2
<1>4. cs \o (<<c>> \o z) = Due(r, done)
  BY DEF Calls
<1> QED
  BY <1>3, <1>4 DEF Calls

\* What a callback leaves alone.
LEMMA CallMoves ==
  ASSUME DInv, Progresses, NEW t \in Threads, thread[t].at # "idle", NEW r, r = thread[t].req,
         NEW d, d.req = r, thread' = [thread EXCEPT ![t] = d], NEW cs,
         \/ UNCHANGED calls /\ cs = Callbacks(r)
         \/ \E c, e : ToUser(r, c, e) /\ cs = Append(Callbacks(r), c),
         UNCHANGED <<setup, link, status, server, wire, sent>>
  PROVE  MovesTo(r, link[r], status[r], server[r], wire[r], sent[r], d, cs)
<1>0. r \in Requests
  BY DoingIs
<1>1. Doing(r)' = d /\ \A q \in Requests : q # r => Doing(q)' = Doing(q)
  BY WorkMoves
<1>2. Callbacks(r)' = cs /\ \A q \in Requests : q # r => Callbacks(q)' = Callbacks(q)
  BY <1>0, CallsRest, ToUserMoves
<1>3. DOMAIN sent = Requests
  BY DEF Progresses
<1> QED
  BY <1>0, <1>1, <1>2, <1>3 DEF MovesTo

\* The listener calls the user, the binding, or nobody.
LEMMA Called ==
  ASSUME DInv, Progresses, NEW t \in Threads, Call(t), NEW r, r = thread[t].req
  PROVE  Progresses'
<1> DEFINE type == thread[t].type
           given == Given(r, type)
           called == ~ignoreCallback(r, type) /\ Registered(r, given)
           d == thread[t]
           next == IF called /\ setup[r].csharp THEN "fetch" ELSE "settle"
           e == [thread[t] EXCEPT !.at = next]
           cs == IF called /\ ~setup[r].csharp THEN Append(Callbacks(r), given)
                                               ELSE Callbacks(r)
<1>1. thread[t].at = "call" /\ UNCHANGED <<setup, link, status, server, wire, sent>>
  BY DEF Call
<1>2. /\ Works(t) /\ r \in Requests /\ Doing(r) = d /\ type \in Types(Kind(r))
  BY <1>1, DoingIs, WorksIs
<1>3. listenerFrame(Kind(r), given) = given /\ given # "" /\ given \in Callable(r)
  BY <1>2, GivenIsHeard
<1>4. /\ thread' = [thread EXCEPT ![t] = e]
      /\ IF called /\ ~setup[r].csharp
         THEN ToUser(r, given, ConvertNlsEvent(Blank, r, given)) ELSE UNCHANGED calls
  <2>1. thread' = [thread EXCEPT ![t].at = next]
    BY <1>3 DEF Call
  <2>2. IF called /\ ~setup[r].csharp
        THEN ToUser(r, given, ConvertNlsEvent(Blank, r, given)) ELSE UNCHANGED calls
    BY <1>3 DEF Call
  <2> QED BY <2>1, <2>2
<1>5. e.req = r /\ e.type = type /\ e.then = d.then /\ e.at = next /\ d.at = "call"
  BY <1>1, <1>2 DEF Works
<1>6. PICK done : Progress(r, done)
  BY <1>2 DEF Progresses
<1>7. /\ Sends(r, done, link[r], status[r], server[r], wire[r], sent[r])
      /\ Does(r, done, status[r], d) /\ Calls(r, done, status[r], d, Callbacks(r))
  BY <1>2, <1>6 DEF Progress, Standing
<1> HIDE DEF d, e, cs, given, called, next
<1>8. MovesTo(r, link[r], status[r], server[r], wire[r], sent[r], e, cs)
  <2>1. \/ UNCHANGED calls /\ cs = Callbacks(r)
        \/ \E c, x : ToUser(r, c, x) /\ cs = Append(Callbacks(r), c)
    BY <1>4 DEF cs
  <2>2. thread[t].at # "idle"
    BY <1>1
  <2> QED BY <1>1, <1>4, <1>5, <2>1, <2>2, CallMoves
<1>9. Closing(r, e) <=> Closing(r, d)
  BY <1>5 DEF Closing, d
<1>10. next \in {"fetch", "settle"} /\ (next = "fetch" => called /\ setup[r].csharp)
       /\ (next = "settle" => ~called \/ ~setup[r].csharp)
  BY DEF next
<1>11. called => Registered(r, given) /\ ~ignoreCallback(r, type)
  BY DEF called
<1>12. Does(r, done, status[r], e)
  BY <1>5, <1>7, <1>9, <1>10, <1>11 DEF Does, d, given
<1>13. OwedClose(r, status[r], e) = OwedClose(r, status[r], d)
  BY <1>5, <1>9 DEF OwedClose
<1>14. OwedCall(r, status[r], d) = IF called THEN <<given>> ELSE <<>>
  <2>1. Ignored(r, status[r], type) <=> ignoreCallback(r, type)
    BY DEF Ignored, ignoreCallback
  <2> QED BY <1>3, <1>5, <2>1 DEF OwedCall, Heard, called, given, d
<1>15. OwedCall(r, status[r], e) = IF next = "fetch" THEN OwedCall(r, status[r], d) ELSE <<>>
  BY <1>5, <1>10 DEF OwedCall, d
<1>16. Calls(r, done, status[r], e, cs)
  <2>1. CASE called /\ ~setup[r].csharp
    <3>1. cs = Append(Callbacks(r), given) /\ OwedCall(r, status[r], e) = <<>>
          /\ OwedCall(r, status[r], d) = <<given>>
      BY <1>10, <1>14, <1>15, <2>1 DEF cs
    <3> QED BY <1>2, <1>3, <1>7, <1>13, <3>1, OwedIsMade
  <2>2. CASE ~(called /\ ~setup[r].csharp)
    <3>1. cs = Callbacks(r) /\ OwedCall(r, status[r], e) = OwedCall(r, status[r], d)
      BY <1>10, <1>14, <1>15, <2>2 DEF cs, next
    <3> QED BY <1>7, <1>13, <3>1 DEF Calls
  <2> QED BY <2>1, <2>2
<1>17. Standing(r, done, link[r], status[r], server[r], wire[r], sent[r], e, cs)
  BY <1>7, <1>12, <1>16 DEF Standing
<1> QED
  BY <1>2, <1>8, <1>17, MovesKeep

\* The C# request fetches the event, and calls its user.
LEMMA Fetched ==
  ASSUME DInv, Progresses, NEW t \in Threads, GetNlsEvent(t), NEW r, r = thread[t].req
  PROVE  Progresses'
<1> DEFINE type == thread[t].type
           d == thread[t]
           e == [thread[t] EXCEPT !.at = "settle"]
           cs == Append(Callbacks(r), type)
<1>1. thread[t].at = "fetch" /\ UNCHANGED <<setup, link, status, server, wire, sent>>
  BY DEF GetNlsEvent
<1>2. /\ Works(t) /\ r \in Requests /\ Doing(r) = d /\ type \in Types(Kind(r))
  BY <1>1, DoingIs, WorksIs
<1>3. PICK done : Progress(r, done)
  BY <1>2 DEF Progresses
<1>4. /\ Sends(r, done, link[r], status[r], server[r], wire[r], sent[r])
      /\ Does(r, done, status[r], d) /\ Calls(r, done, status[r], d, Callbacks(r))
  BY <1>2, <1>3 DEF Progress, Standing
<1>5. setup[r].csharp /\ Registered(r, Given(r, type))
  BY <1>1, <1>4 DEF Does
<1>6. ~setup[r].message /\ ~setup[r].long
  BY <1>2, <1>5, DeliveryAssumption DEF DInv, Typing
<1>7. Given(r, type) = type /\ type # "" /\ listenerFrame(Kind(r), type) = type
      /\ type \in Callable(r)
  <2>1. Given(r, type) = type
    BY <1>6 DEF Given
  <2> QED BY <1>2, <2>1, GivenIsHeard
<1>8. /\ thread' = [thread EXCEPT ![t] = e] /\ ToUser(r, type, shared[Kind(r)])
  BY <1>7 DEF GetNlsEvent
<1>9. e.req = r /\ e.type = type /\ e.then = d.then /\ e.at = "settle" /\ d.at = "fetch"
  BY <1>1, <1>2 DEF Works
<1> HIDE DEF d, e, cs
<1>10. MovesTo(r, link[r], status[r], server[r], wire[r], sent[r], e, cs)
  <2>1. \E c, x : ToUser(r, c, x) /\ cs = Append(Callbacks(r), c)
    BY <1>8 DEF cs
  <2>2. thread[t].at # "idle"
    BY <1>1
  <2> QED BY <1>1, <1>8, <1>9, <2>1, <2>2, CallMoves
<1>11. Closing(r, e) <=> Closing(r, d)
  BY <1>9 DEF Closing, d
<1>12. Does(r, done, status[r], e)
  BY <1>4, <1>9, <1>11 DEF Does, d
<1>13. OwedClose(r, status[r], e) = OwedClose(r, status[r], d)
  BY <1>9, <1>11 DEF OwedClose
<1>14. OwedCall(r, status[r], d) = <<type>> /\ OwedCall(r, status[r], e) = <<>>
  BY <1>5, <1>6, <1>7, <1>9 DEF OwedCall, Heard, Ignored, d
<1>15. Calls(r, done, status[r], e, cs)
  BY <1>2, <1>4, <1>7, <1>13, <1>14, OwedIsMade DEF cs
<1>16. Standing(r, done, link[r], status[r], server[r], wire[r], sent[r], e, cs)
  BY <1>4, <1>12, <1>15 DEF Standing
<1> QED
  BY <1>2, <1>10, <1>16, MovesKeep

(***************************************************************************)
(* After the callback.                                                     *)
(***************************************************************************)
\* What a thread leaves alone that settles a callback.
LEMMA SettleMoves ==
  ASSUME DInv, Progresses, NEW t \in Threads, thread[t].at # "idle", NEW r, r = thread[t].req,
         NEW d, d = Idle \/ d.req = r, thread' = [thread EXCEPT ![t] = d], NEW st,
         \/ UNCHANGED status /\ st = status[r]
         \/ status' = [status EXCEPT ![r] = st],
         UNCHANGED <<setup, server, sent, calls>>
  PROVE  /\ UNCHANGED <<link, wire>> =>
              MovesTo(r, link[r], st, server[r], wire[r], sent[r], d, Callbacks(r))
         /\ Disconnect(r) =>
              MovesTo(r, FALSE, st, server[r], <<>>, sent[r], d, Callbacks(r))
<1>1. r \in Requests
  BY DoingIs
<1>2. Doing(r)' = d /\ \A q \in Requests : q # r => Doing(q)' = Doing(q)
  BY WorkMoves
<1>3. \A q \in Requests : Callbacks(q)' = Callbacks(q)
  BY CallsRest
<1>4. /\ DOMAIN link = Requests /\ DOMAIN status = Requests
      /\ DOMAIN wire = Requests /\ DOMAIN sent = Requests
  BY DEF DInv, Typing, WireGood, Progresses
<1>5. st = status'[r] /\ \A q \in Requests : q # r => status'[q] = status[q]
  BY <1>1, <1>4
<1>6. UNCHANGED <<link, wire>> =>
        MovesTo(r, link[r], st, server[r], wire[r], sent[r], d, Callbacks(r))
  BY <1>1, <1>2, <1>3, <1>4, <1>5 DEF MovesTo
<1>7. Disconnect(r) =>
        MovesTo(r, FALSE, st, server[r], <<>>, sent[r], d, Callbacks(r))
  BY <1>1, <1>2, <1>3, <1>4, <1>5 DEF MovesTo, Disconnect
<1> QED
  BY <1>6, <1>7

\* A status that a callback brings.
LEMMA StatusAfterOpen ==
  ASSUME NEW r, NEW type
  PROVE  /\ status[r] # "Closed" => StatusAfter(r, type) # "Closed"
         /\ StatusAfter(r, type) = "Created" => status[r] = "Created"
         /\ Ignored(r, status[r], type) => StatusAfter(r, type) = "Closed"
<1>1. Ignored(r, status[r], type) <=> ignoreCallback(r, type)
  BY DEF Ignored, ignoreCallback
<1>2. Ignored(r, status[r], type) => status[r] = "Closed" /\ type = "TaskFailed"
  BY DEF Ignored
<1> QED
  BY <1>1, <1>2 DEF StatusAfter

\* The round ends: Close is owed, and made next.
LEMMA EndStands ==
  ASSUME DInv, NEW r \in Requests, NEW done, NEW st, NEW l, NEW w, NEW d, NEW e,
         Progress(r, done), Doing(r) = d, d.at = "settle", Closing(r, d), d.then # "closed",
         status[r] # "Closed", st # "Closed", st = "Created" => status[r] = "Created",
         e = [at |-> "call", req |-> r, type |-> "Close", then |-> "closed"],
         (l = link[r] /\ w = wire[r]) \/ (l = FALSE /\ w = <<>>)
  PROVE  Standing(r, done, l, st, server[r], w, sent[r], e, Callbacks(r))
<1>1. /\ Sends(r, done, link[r], status[r], server[r], wire[r], sent[r])
      /\ Does(r, done, status[r], d) /\ Calls(r, done, status[r], d, Callbacks(r))
  BY DEF Progress, Standing
<1>2. Ended(r, done)
  BY <1>1 DEF Does
<1>3. wire[r] = <<>>
  BY <1>1, <1>2, NothingFollows
<1>4. Sends(r, done, l, st, server[r], w, sent[r])
  <2>1. Sends(r, done, link[r], st, server[r], wire[r], sent[r])
    BY <1>1, StatusSends
  <2>2. done \o <<>> = done
    BY <1>1 DEF Sends
  <2>3. Sends(r, done, FALSE, st, server[r], <<>>, sent[r])
    BY <1>3, <2>1, <2>2, DropSends
  <2> QED BY <1>3, <2>1, <2>3
<1>5. e.at = "call" /\ e.type = "Close" /\ e.then = "closed"
  OBVIOUS
<1>6. Does(r, done, st, e)
  BY <1>2, <1>5 DEF Does, Closing
<1>7. Calls(r, done, st, e, Callbacks(r))
  <2> DEFINE z == Heard(r, Given(r, "Close"))
  <2>1. OwedCall(r, status[r], d) = <<>> /\ OwedClose(r, status[r], d) = z
    BY DEF OwedCall, OwedClose
  <2>2. OwedCall(r, st, e) = z
    BY <1>5 DEF OwedCall, Ignored
  <2>3. OwedClose(r, st, e) = <<>>
    BY <1>5 DEF OwedClose
  <2>4. <<>> \o z = z \o <<>>
    BY DEF Heard
  <2> HIDE DEF z
  <2> QED BY <1>1, <2>1, <2>2, <2>3, <2>4 DEF Calls
<1> QED
  BY <1>4, <1>6, <1>7 DEF Standing

\* Nothing is owed: the thread rests.
LEMMA RestStands ==
  ASSUME DInv, NEW r \in Requests, NEW done, NEW st, NEW d,
         Progress(r, done), Doing(r) = d, d.at = "settle",
         ~Closing(r, d) \/ d.then = "closed", status[r] # "Closed",
         st = "Created" => status[r] = "Created", st = "Closed" <=> d.then = "closed"
  PROVE  Standing(r, done, link[r], st, server[r], wire[r], sent[r], Idle, Callbacks(r))
<1>1. /\ Sends(r, done, link[r], status[r], server[r], wire[r], sent[r])
      /\ Does(r, done, status[r], d) /\ Calls(r, done, status[r], d, Callbacks(r))
  BY DEF Progress, Standing
<1>2. Ended(r, done) <=> d.then = "closed"
  BY <1>1 DEF Does, Closing
<1>3. Sends(r, done, link[r], st, server[r], wire[r], sent[r])
  <2>1. CASE st # "Closed"
    BY <1>1, <2>1, StatusSends
  <2>2. CASE st = "Closed"
    <3>1. wire[r] = <<>>
      BY <1>1, <1>2, <2>2, NothingFollows
    <3> QED BY <1>1, <2>2, <3>1 DEF Sends
  <2> QED BY <2>1, <2>2
<1>4. Does(r, done, st, Idle)
  BY <1>2 DEF Does, Closing, Idle
<1>5. Calls(r, done, st, Idle, Callbacks(r))
  <2>1. OwedCall(r, status[r], d) = <<>> /\ OwedClose(r, status[r], d) = <<>>
    BY DEF OwedCall, OwedClose
  <2>2. <<>> \o <<>> = <<>>
    OBVIOUS
  <2> QED BY <1>1, <2>1, <2>2, OwedAtRest DEF Calls
<1> QED
  BY <1>3, <1>4, <1>5 DEF Standing

\* The switch of parseFrame: the thread rests, closes a connection nobody uses, or
\* goes on to Close.
LEMMA Settled ==
  ASSUME DInv, Progresses, NEW t \in Threads, Settle(t), NEW r, r = thread[t].req
  PROVE  Progresses'
<1> DEFINE type == thread[t].type
           d == thread[t]
           st == StatusAfter(r, type)
           close == [at |-> "call", req |-> r, type |-> "Close", then |-> "closed"]
<1>1. /\ d.at = "settle" /\ d.then = "switch" /\ UNCHANGED <<setup, server, sent, calls>>
      /\ status' = [status EXCEPT ![r] = st]
  BY DEF Settle
<1>2. r \in Requests /\ Doing(r) = d /\ ThreadOf[r] = t
  BY <1>1, DoingIs
<1>3. PICK done : Progress(r, done)
  BY <1>2 DEF Progresses
<1>4. Does(r, done, status[r], d)
  BY <1>2, <1>3 DEF Progress, Standing
<1>5. closeFlag(r, type) <=> Closing(r, d)
  BY <1>1, <1>2, closeFlagIs DEF Closing
<1>6. status[r] = "Closed" => Ignored(r, status[r], type) /\ Closing(r, d)
  <2>1. "TaskFailed" \in Enders(Kind(r))
    BY DEF Enders
  <2> QED BY <1>1, <1>4, <2>1 DEF Does, Ignored, Closing
<1>7. /\ status[r] # "Closed" => st # "Closed"
      /\ st = "Created" => status[r] = "Created"
      /\ status[r] = "Closed" => st = "Closed"
  BY <1>6, StatusAfterOpen
<1>8. ignoreCallback(r, type) <=> status[r] = "Closed"
  BY <1>6 DEF Ignored, ignoreCallback
<1>9. status'[r] = st
  BY <1>1, <1>2 DEF DInv, Typing
<1>10. thread[t].at # "idle"
  BY <1>1
<1> HIDE DEF st, d
<1>11. CASE ~Closing(r, d)
  <2>1. thread' = [thread EXCEPT ![t] = Idle] /\ UNCHANGED <<link, wire>>
    BY <1>5, <1>11 DEF Settle, Rest
  <2>2. MovesTo(r, link[r], st, server[r], wire[r], sent[r], Idle, Callbacks(r))
    BY <1>1, <1>10, <2>1, SettleMoves
  <2>3. status[r] # "Closed"
    BY <1>6, <1>11
  <2>4. Standing(r, done, link[r], st, server[r], wire[r], sent[r], Idle, Callbacks(r))
    BY <1>1, <1>2, <1>3, <1>7, <1>11, <2>3, RestStands
  <2> QED BY <1>2, <2>2, <2>4, MovesKeep
<1>12. CASE Closing(r, d) /\ status[r] = "Closed"
  <2>1. thread' = [thread EXCEPT ![t] = Idle] /\ Disconnect(r)
    BY <1>5, <1>8, <1>12 DEF Settle, Rest
  <2>2. MovesTo(r, FALSE, st, server[r], <<>>, sent[r], Idle, Callbacks(r))
    BY <1>1, <1>10, <2>1, SettleMoves
  <2>3. Standing(r, done \o wire[r], FALSE, st, server[r], <<>>, sent[r], Idle, Callbacks(r))
    BY <1>1, <1>2, <1>3, <1>7, <1>12, ConnectionDropped
  <2> QED BY <1>2, <2>2, <2>3, MovesKeep
<1>13. CASE Closing(r, d) /\ status[r] # "Closed"
  <2>1. thread' = [thread EXCEPT ![t] = close] /\ (Disconnect(r) \/ UNCHANGED <<link, wire>>)
    BY <1>5, <1>7, <1>8, <1>9, <1>13 DEF Settle, Do
  <2>2. close.req = r
    OBVIOUS
  <2>3. d.then # "closed" /\ st # "Closed"
    BY <1>1, <1>7, <1>13
  <2>4. close = [at |-> "call", req |-> r, type |-> "Close", then |-> "closed"]
    OBVIOUS
  <2> HIDE DEF close
  <2>5. CASE Disconnect(r)
    <3>1. MovesTo(r, FALSE, st, server[r], <<>>, sent[r], close, Callbacks(r))
      BY <1>1, <1>10, <2>1, <2>2, <2>5, SettleMoves
    <3>2. Standing(r, done, FALSE, st, server[r], <<>>, sent[r], close, Callbacks(r))
      BY <1>1, <1>2, <1>3, <1>7, <1>13, <2>3, <2>4, EndStands
    <3> QED BY <1>2, <3>1, <3>2, MovesKeep
  <2>6. CASE UNCHANGED <<link, wire>>
    <3>1. MovesTo(r, link[r], st, server[r], wire[r], sent[r], close, Callbacks(r))
      BY <1>1, <1>10, <2>1, <2>2, <2>6, SettleMoves
    <3>2. Standing(r, done, link[r], st, server[r], wire[r], sent[r], close, Callbacks(r))
      BY <1>1, <1>2, <1>3, <1>7, <1>13, <2>3, <2>4, EndStands
    <3> QED BY <1>2, <3>1, <3>2, MovesKeep
  <2> QED BY <2>1, <2>5, <2>6
<1> QED
  BY <1>11, <1>12, <1>13

\* After a message that could not be parsed the connection is closed.
LEMMA FailureSettled ==
  ASSUME DInv, Progresses, NEW t \in Threads, SettleFailure(t), NEW r, r = thread[t].req
  PROVE  Progresses'
<1> DEFINE d == thread[t]
           close == [at |-> "call", req |-> r, type |-> "Close", then |-> "closed"]
<1>1. /\ d.at = "settle" /\ d.then = "end" /\ UNCHANGED <<setup, server, sent, calls, status>>
      /\ Disconnect(r)
  BY DEF SettleFailure
<1>2. r \in Requests /\ Doing(r) = d
  BY <1>1, DoingIs
<1>3. PICK done : Progress(r, done)
  BY <1>2 DEF Progresses
<1>4. status[r] # "Closed"
  BY <1>1, <1>2, <1>3 DEF Progress, Standing, Does
<1>5. thread' = [thread EXCEPT ![t] = close] /\ close.req = r
  BY <1>4 DEF SettleFailure, Do
<1>6. close = [at |-> "call", req |-> r, type |-> "Close", then |-> "closed"]
  OBVIOUS
<1>7. thread[t].at # "idle" /\ Closing(r, d) /\ d.then # "closed"
  BY <1>1 DEF Closing
<1> HIDE DEF d, close
<1>8. MovesTo(r, FALSE, status[r], server[r], <<>>, sent[r], close, Callbacks(r))
  BY <1>1, <1>5, <1>7, SettleMoves
<1>9. Standing(r, done, FALSE, status[r], server[r], <<>>, sent[r], close, Callbacks(r))
  BY <1>1, <1>2, <1>3, <1>4, <1>6, <1>7, EndStands
<1> QED
  BY <1>2, <1>8, <1>9, MovesKeep

\* After Close the round is Closed.
LEMMA CallSettled ==
  ASSUME DInv, Progresses, NEW t \in Threads, SettleCall(t), NEW r, r = thread[t].req
  PROVE  Progresses'
<1> DEFINE d == thread[t]
           st == IF d.then = "closed" THEN "Closed" ELSE status[r]
<1>1. /\ d.at = "settle" /\ d.then \in {"closed", "rest"}
      /\ UNCHANGED <<setup, link, server, wire, sent, calls>>
      /\ thread' = [thread EXCEPT ![t] = Idle] /\ status' = [status EXCEPT ![r] = st]
  BY DEF SettleCall, Rest
<1>2. r \in Requests /\ Doing(r) = d
  BY <1>1, DoingIs
<1>3. PICK done : Progress(r, done)
  BY <1>2 DEF Progresses
<1>4. status[r] # "Closed"
  BY <1>1, <1>2, <1>3 DEF Progress, Standing, Does
<1>5. /\ thread[t].at # "idle" /\ (~Closing(r, d) \/ d.then = "closed")
      /\ st = "Created" => status[r] = "Created"
  BY <1>1 DEF Closing
<1>6. st = "Closed" <=> d.then = "closed"
  BY <1>4
<1> HIDE DEF d, st
<1>7. MovesTo(r, link[r], st, server[r], wire[r], sent[r], Idle, Callbacks(r))
  BY <1>1, <1>5, SettleMoves
<1>8. Standing(r, done, link[r], st, server[r], wire[r], sent[r], Idle, Callbacks(r))
  BY <1>1, <1>2, <1>3, <1>4, <1>5, <1>6, RestStands
<1> QED
  BY <1>2, <1>7, <1>8, MovesKeep

(***************************************************************************)
(* The callbacks are those meant.                                          *)
(***************************************************************************)
\* No round has begun.
LEMMA InitProgresses == Init => Progresses
<1> SUFFICES ASSUME Init PROVE Progresses
  OBVIOUS
<1>1. DOMAIN sent = Requests
  BY DEF Init
<1>2. ASSUME NEW r \in Requests
      PROVE  Progress(r, <<>>)
  <2>1. /\ link[r] = FALSE /\ status[r] = "Created" /\ server[r] = "none" /\ wire[r] = <<>>
        /\ sent[r] = <<>> /\ calls[r] = <<>>
    BY <1>2 DEF Init
  <2>2. Doing(r) = Idle
    BY <1>2, DeliveryAssumption DEF Init, Doing
  <2>3. Callbacks(r) = <<>>
    BY <2>1 DEF Callbacks
  <2>4. ~Ended(r, <<>>)
    BY DEF Ended
  <2>5. Sends(r, <<>>, link[r], status[r], server[r], wire[r], sent[r])
    <3>1. <<>> \in Seq(Messages(Kind(r))) /\ <<>> \o <<>> = <<>> /\ Len(<<>>) = 0
      OBVIOUS
    <3> QED BY <2>1, <2>4, <3>1 DEF Sends
  <2>6. Does(r, <<>>, status[r], Idle)
    BY <2>1, <2>4 DEF Does, Closing, Idle
  <2>7. Calls(r, <<>>, status[r], Idle, <<>>)
    <3>1. <<>> \o <<>> = <<>> /\ Due(r, <<>>) = <<>>
      BY DueNothing
    <3> QED BY <3>1, OwedAtRest, Zenon DEF Calls
  <2> QED BY <2>2, <2>3, <2>5, <2>6, <2>7 DEF Progress, Standing
<1> QED
  BY <1>1, <1>2 DEF Progresses

\* Every step keeps the account.
LEMMA NextProgresses ==
  ASSUME MessagesWithoutAudio, ~Hasty, DInv, Progresses, [Next]_vars PROVE Progresses'
<1>1. ASSUME NEW r \in Requests, User(r) \/ Service(r)
      PROVE  Progresses'
  BY <1>1, RoundStarts, RoundServed DEF User
<1>2. ASSUME NEW t \in Threads, EventThread(t)
      PROVE  Progresses'
  <2>1. ASSUME NEW r \in Requests,
               \/ GatewayAnswers(t, r) \/ ParseEvent(t, r)
               \/ ParseClose(t, r) \/ ParseFails(t, r)
        PROVE  Progresses'
    BY <2>1, GatewayAnswered, EventParsed, EndParsed
  <2>2. CASE Call(t)
    BY <2>2, Called
  <2>3. CASE GetNlsEvent(t)
    BY <2>3, Fetched
  <2>4. CASE Settle(t)
    BY <2>4, Settled
  <2>5. CASE SettleFailure(t)
    BY <2>5, FailureSettled
  <2>6. CASE SettleCall(t)
    BY <2>6, CallSettled
  <2> QED
    BY <1>2, <2>1, <2>2, <2>3, <2>4, <2>5, <2>6 DEF EventThread
<1>3. CASE UNCHANGED vars
  <2>1. /\ UNCHANGED <<setup, link, status, server, wire, sent>>
        /\ \A q \in Requests : Doing(q)' = Doing(q) /\ Callbacks(q)' = Callbacks(q)
    BY <1>3, ThreadRests, CallsRest DEF vars
  <2>2. ASSUME NEW r \in Requests PROVE \E done : Progress(r, done)'
    <3>1. PICK done : Progress(r, done)
      BY DEF Progresses
    <3>2. Standing(r, done, link[r], status[r], server[r], wire[r], sent[r], Doing(r), Callbacks(r))
      BY <3>1 DEF Progress
    <3>3. Progress(r, done)'
      BY <2>1, <3>2, StandingPrimed
    <3> QED BY <3>3
  <2> QED BY <2>1, <2>2 DEF Progresses
<1> QED
  BY <1>1, <1>2, <1>3 DEF Next

\* The invariant: the callbacks made and owed are those promised for what was taken,
\* as long as a round is not started inside of the last callback of the one before.
THEOREM RoundsProgress ==
  ASSUME OneThreadPerFeature, MessagesWithoutAudio, ~Hasty PROVE Spec => []Progresses
<1>1. DInv /\ Progresses /\ [Next]_vars => Progresses'
  BY NextProgresses
<1> QED
  BY <1>1, InitProgresses, DeliveryInvAlways, PTL DEF Spec

\* The callbacks of a round are those its messages are for, each once and in order,
\* Close after the message that ends it and nothing after Close, for every feature, in
\* C++ and C#, whether the connection is kept or not.
THEOREM CallbacksAreAsMeant ==
  ASSUME OneThreadPerFeature, MessagesWithoutAudio, ~Hasty PROVE Spec => []CallbacksAreMeant
<1>1. DInv /\ Progresses => CallbacksAreMeant
  <2> SUFFICES ASSUME DInv, Progresses, NEW r \in Requests
               PROVE  IsPrefix(Callbacks(r), Promised(r))
    BY DEF CallbacksAreMeant
  <2>1. PICK done : Progress(r, done)
    BY DEF Progresses
  <2> DEFINE st == status[r]  d == Doing(r)  cs == Callbacks(r)  S == Callable(r)
             owed == OwedCall(r, st, d) \o OwedClose(r, st, d)
  <2>2. /\ done \in Seq(Messages(Kind(r))) /\ wire[r] \in Seq(Messages(Kind(r)))
        /\ sent[r] = done \o wire[r] /\ cs \o owed = Due(r, done)
        /\ Does(r, done, st, d)
    BY <2>1 DEF Progress, Standing, Sends, Calls
  <2>3. cs \in Seq(S)
    BY CallbacksTyped
  <2>4. owed \in Seq(S)
    <3>1. OwedClose(r, st, d) \in Seq(S)
      <4>1. Given(r, "Close") \in S
        BY DEF Given, Callable
      <4> QED BY <4>1, HeardTyped DEF OwedClose
    <3>2. OwedCall(r, st, d) \in Seq(S)
      <4>1. d.at # "idle" => Given(r, d.type) \in S
        <5>1. ThreadOf[r] \in Threads /\ Idle.at = "idle"
          BY DeliveryAssumption DEF Idle
        <5>2. d.at # "idle" => d = thread[ThreadOf[r]] /\ thread[ThreadOf[r]].req = r
          BY <5>1 DEF Doing, Busy
        <5>3. d.at # "idle" => d.type \in Types(Kind(r))
          BY <5>1, <5>2, WorksIs
        <5> QED BY <5>3, GivenIsHeard
      <4> QED BY <4>1, HeardTyped DEF OwedCall
    <3> HIDE DEF S
    <3> QED BY <3>1, <3>2
  <2>5. IsPrefix(cs, Due(r, done))
    <3> HIDE DEF cs, owed, S
    <3> QED BY <2>2, <2>3, <2>4, PrefixConcat
  <2>6. IsPrefix(Due(r, done), Due(r, sent[r]))
    BY <2>2, DueExtends
  <2>7. Due(r, done) \in Seq(S) /\ Due(r, sent[r]) \in Seq(S)
    <3>1. sent[r] \in Seq(Messages(Kind(r)))
      BY <2>2
    <3> QED BY <2>2, <3>1, DueTyped
  <2>8. IsPrefix(cs, Due(r, sent[r]))
    <3> HIDE DEF cs, S
    <3> QED BY <2>3, <2>5, <2>6, <2>7, PrefixTransitive
  <2> QED BY <2>8 DEF Promised, Due
<1> QED
  BY <1>1, RoundsProgress, DeliveryInvAlways, PTL
===============================================================================
