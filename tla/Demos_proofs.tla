---------------------------- MODULE Demos_proofs ----------------------------
(***************************************************************************)
(* Proofs about Demos.                                                     *)
(*                                                                         *)
(* What a worker does next is written in its program, so the invariant     *)
(* must say what is left of it: Fits(c, q, F), that q can be run from what *)
(* is known of the request and of cbParam, F, and no operation of it is    *)
(* called where the SDK does not allow it. Fits is the greatest set of     *)
(* such pairs that is closed under the rules of the operations. A step of  *)
(* a worker or of the event thread keeps it (DemosStep), for any program.  *)
(* The programs are then shown to fit, a piece at a time: Brings(c, F, q,  *)
(* G) is a triple of facts, instructions and facts, and the triples of the *)
(* pieces make up those of head, body and tail.                            *)
(***************************************************************************)
EXTENDS Demos, SequenceTheorems, TLAPS

(***************************************************************************)
(* What is known of a worker at a point of its program, as a set of facts. *)
(***************************************************************************)
Facts == {"param",     \* cbParam is there
          "none",      \* there is no request,
          "request",   \* there is one,
          "fresh",     \* and it has not been started,
          "opening",   \* or it goes on until the worker stops it,
          "open",      \* and takes what is sent
          "answered",  \* no Started is to come, or nothing is left to wait for
          "quiet"}     \* the request may be released

Occurs(s, trouble) == trouble \in Troubles \ Fatal(s.demo, s.form)
Calm(s) == ~Occurs(s, "failure") /\ ~Occurs(s, "early")
Listens(s, cb) == Demos[s.demo].on[IF s.message THEN "Message" ELSE cb]
Waits(s) == s.demo \notin {"stMonkey", "srMonkey", "syMonkey", "fssMonkey"}

Meets(s, me, F) ==
  /\ "param" \in F => me.param
  /\ "none" \in F => me.request = "none"
  /\ "request" \in F => me.request # "none"
  /\ "fresh" \in F => me.request = "created"
  /\ "opening" \in F => Calm(s) /\ me.request \in {"starting", "started"} /\ me.exit = ""
  /\ "open" \in F => Calm(s) /\ me.request = "started" /\ me.exit = ""
  /\ "answered" \in F => me.due \/ me.request # "starting"
  /\ "quiet" \in F => me.due \/ me.request \in {"created", "closed"}

(***************************************************************************)
(* The rules of the programs: what must be known before an operation, what *)
(* is known after it, and when it may fail.                                *)
(***************************************************************************)
Jumps == {"enter", "next", "continue", "break", "return", "skip"}
Awaits == {"await Started", "await Closed"}
Sends == {"send", "send while running"}
Stops == {"stop", "stop or cancel", "stop or cancel or nothing"}
Ends == Stops \cup {"stop nothing or cancel or nothing"}
Given == {"quiet", "answered"}   \* with due

Needs(s, op, F) ==
  /\ op \in Uses => "request" \in F
  /\ op \in {"create", "forget"} => "none" \in F
  /\ op = "create" => "param" \in F
  /\ op = "release" => (Waits(s) => "quiet" \in F)

After(s, op, F) ==
  CASE op = "param" -> F \cup {"param"}
    [] op = "forget" -> F \ {"param"}
    [] op = "create" -> (F \cap {"param"}) \cup {"request", "fresh"} \cup Given
    [] op = "start" -> (F \cap {"param", "request"}) \cup (IF Calm(s) THEN {"opening"} ELSE {})
    [] op = "await Started" ->
         F \cup {"answered"} \cup (IF "opening" \in F THEN {"open"} ELSE {})
    [] op = "await Closed" ->
         F \cup (IF "answered" \in F \/ "signal" \notin Listens(s, "Started") THEN Given ELSE {})
    [] op \in Ends -> F \ {"opening", "open"}
    [] op = "cancel" -> (F \ {"opening", "open"}) \cup Given
    [] op = "release" -> (F \cap {"param"}) \cup {"none"}
    [] OTHER -> F

MayFail(s, op, F) ==
  \/ op \in {"open", "create", "vip"} /\ Occurs(s, op)
  \/ op = "start" /\ ("fresh" \notin F \/ Occurs(s, "start"))
  \/ op \in Awaits /\ Occurs(s, "silence")
  \/ op \in Sends /\ ("open" \notin F \/ Occurs(s, "refuse"))
  \/ op = "unless failed" /\ Occurs(s, "failure")
  \/ op \in Stops \cup {"lucky", "unless special"}

Otherwise(op, F) ==
  IF op \in {"start"} \cup Awaits \cup Sends \cup Stops THEN F \cup Given ELSE F

(***************************************************************************)
(* What is left of a program, q, can be run from the facts F when it is in *)
(* a set of such pairs that is closed under the rules. The context c is a  *)
(* record of the setup and of what is known at the beginnings of a round   *)
(* and of the tail.                                                        *)
(***************************************************************************)
Simple == [do : Operations, else : {<<>>}]
Instruction == [do : Operations, else : Seq(Simple)]
Points == Seq(Instruction) \X SUBSET Facts

Leads(P, q, F) == \E G \in SUBSET F : <<q, G>> \in P

Settled(c, P, q, F) ==
  LET op == Head(q).do IN
  IF q = <<>> THEN "none" \in F
  ELSE /\ Needs(c.setup, op, F)
       /\ op \in {"enter", "next", "continue"} => c.loop \subseteq F
       /\ op \in {"next", "continue", "break"} => c.tail \subseteq F
       /\ op = "return" => "none" \in F
       /\ op = "skip" => Tail(q) # <<>> /\ Leads(P, Tail(Tail(q)), F)
       /\ op \notin Jumps => Leads(P, Tail(q), After(c.setup, op, F))
       /\ op \notin Jumps /\ MayFail(c.setup, op, F)
            => Leads(P, Head(q).else \o Tail(q), Otherwise(op, F))

Closed(c, P) == \A p \in P : Settled(c, P, p[1], p[2])

Fits(c, q, F) == \E P \in SUBSET Points : Closed(c, P) /\ Leads(P, q, F)

LEMMA FitsTyped ==
  ASSUME NEW c, NEW q, NEW F, Fits(c, q, F)
  PROVE  q \in Seq(Instruction)
BY DEF Fits, Leads, Points

LEMMA FitsMore ==
  ASSUME NEW c, NEW q, NEW F, NEW G, F \subseteq G, Fits(c, q, F)
  PROVE  Fits(c, q, G)
BY DEF Fits, Leads

\* What the rules say of the next operation, whose facts may be fewer.
FitsNext(c, q, G) ==
  LET op == Head(q).do IN
  IF q = <<>> THEN "none" \in G
  ELSE /\ Needs(c.setup, op, G)
       /\ op \in {"enter", "next", "continue"} => c.loop \subseteq G
       /\ op \in {"next", "continue", "break"} => c.tail \subseteq G
       /\ op = "return" => "none" \in G
       /\ op = "skip" => Tail(q) # <<>> /\ Fits(c, Tail(Tail(q)), G)
       /\ op \notin Jumps => Fits(c, Tail(q), After(c.setup, op, G))
       /\ op \notin Jumps /\ MayFail(c.setup, op, G)
            => Fits(c, Head(q).else \o Tail(q), Otherwise(op, G))

LEMMA FitsElim ==
  ASSUME NEW c, NEW q, NEW F \in SUBSET Facts, Fits(c, q, F)
  PROVE  \E G \in SUBSET F : FitsNext(c, q, G)
<1>1. PICK P \in SUBSET Points : Closed(c, P) /\ Leads(P, q, F)
  BY DEF Fits
<1>2. PICK G \in SUBSET F : <<q, G>> \in P
  BY <1>1 DEF Leads
<1>3. Settled(c, P, q, G)
  BY <1>1, <1>2 DEF Closed
<1>4. \A r, H : Leads(P, r, H) => Fits(c, r, H)
  BY <1>1 DEF Fits
<1>5. FitsNext(c, q, G)
  BY <1>3, <1>4 DEF Settled, FitsNext
<1> QED
  BY <1>5

LEMMA FitsIntro ==
  ASSUME NEW c, NEW q \in Seq(Instruction), NEW F \in SUBSET Facts, FitsNext(c, q, F)
  PROVE  Fits(c, q, F)
<1> DEFINE All == UNION {P \in SUBSET Points : Closed(c, P)}
<1> DEFINE More == All \cup {<<q, F>>}
<1>1. \A r, H : Fits(c, r, H) => Leads(All, r, H)
  BY DEF Fits, Leads
<1>2. \A r, H : Leads(All, r, H) => Leads(More, r, H)
  BY DEF Leads
<1>3. \A P \in SUBSET Points : \A r, H : P \subseteq All /\ Leads(P, r, H) => Leads(More, r, H)
  BY DEF Leads
<1>4. More \in SUBSET Points
  BY DEF Points
<1>5. Closed(c, More)
  <2> SUFFICES ASSUME NEW p \in More PROVE Settled(c, More, p[1], p[2])
    BY DEF Closed
  <2>1. CASE p = <<q, F>>
    <3> HIDE DEF More, All
    <3>1. \A r, H : Fits(c, r, H) => Leads(More, r, H)
      BY <1>1, <1>2
    <3>2. Settled(c, More, q, F)
      BY <3>1 DEF FitsNext, Settled
    <3> QED
      BY <2>1, <3>2
  <2>2. CASE p \in All
    <3>1. PICK P \in SUBSET Points : Closed(c, P) /\ p \in P
      BY <2>2
    <3>2. P \subseteq All
      BY <3>1
    <3>3. Settled(c, P, p[1], p[2])
      BY <3>1 DEF Closed
    <3> HIDE DEF More, All
    <3>4. \A r, H : Leads(P, r, H) => Leads(More, r, H)
      BY <3>2, <1>3
    <3> QED
      BY <3>3, <3>4 DEF Settled
  <2> QED
    BY <2>1, <2>2
<1>6. Leads(More, q, F)
  BY DEF Leads
<1> HIDE DEF More
<1> QED
  BY <1>4, <1>5, <1>6 DEF Fits

(***************************************************************************)
(* A setup whose program follows the rules.                                *)
(***************************************************************************)
Form(s) == Demos[s.demo].forms[s.form]
Context(s, L, T) == [setup |-> s, loop |-> L, tail |-> T]
Cbs == {"Started", "Result", "Completed", "Failed", "Closed"}

Verified(c) ==
  /\ Fits(c, Form(c.setup).head, {"none"})
  /\ Fits(c, Form(c.setup).body, c.loop)
  /\ Fits(c, Form(c.setup).tail, c.tail)

Wakers(s) ==
  /\ DOMAIN Demos[s.demo].on \ {"Message"} = Cbs
  /\ \A cb \in Cbs : "signal" \in Listens(s, cb) => cb \in {"Started", "Closed"}

Sound(s) == Wakers(s) /\ \E L, T \in SUBSET Facts : Verified(Context(s, L, T))

(***************************************************************************)
(* The invariant of a worker.                                              *)
(***************************************************************************)
Fields == {"todo", "rounds", "param", "request", "exit", "late", "telling", "waiting", "due"}

Typed(s, me) ==
  /\ DOMAIN me = Fields
  /\ me.rounds \in 0..s.count
  /\ me.request \in {"none", "created", "starting", "started", "over", "closed"}
  /\ me.exit \in {"", "stopping", "cancelled"}
  /\ me.telling \in {"none"} \cup Cbs
  /\ me.param \in BOOLEAN /\ me.late \in BOOLEAN /\ me.due \in BOOLEAN

Fair(me) ==
  /\ me.telling # "none" => me.request \in {"started", "over"}
  /\ me.telling = "Closed" => me.request = "over"
  /\ me.request # "none" => me.param
  /\ me.waiting => me.todo # <<>> /\ Head(me.todo).do \in Awaits

Known(c, me) == \E F \in SUBSET Facts : Fits(c, me.todo, F) /\ Meets(c.setup, me, F)

WorkerInv(c, me) == Typed(c.setup, me) /\ Fair(me) /\ Known(c, me)

LEMMA FreshTyped ==
  ASSUME NEW s \in Setups, NEW q, NEW me,
         me = [Fresh EXCEPT !.todo = q] \/ (me = Fresh /\ q = <<>>)
  PROVE  Typed(s, me) /\ Fair(me) /\ me.todo = q /\ Meets(s, me, {"none"})
<1>1. 0 \in 0..s.count
  <2>1. s \in Setup
    BY DemosAssumption
  <2>2. s.count \in 0..MaxRounds
    BY <2>1 DEF Setup
  <2> QED
    BY <2>2
<1>2. CASE me = Fresh /\ q = <<>>
  BY <1>1, <1>2 DEF Fresh, Typed, Fair, Meets, Fields
<1>3. CASE me = [Fresh EXCEPT !.todo = q]
  BY <1>1, <1>3 DEF Fresh, Typed, Fair, Meets, Fields
<1> QED
  BY <1>2, <1>3

\* Once an operation is reached its rules hold of some facts that are met.
LEMMA KnownNext ==
  ASSUME NEW c, NEW me, Known(c, me)
  PROVE  \E F \in SUBSET Facts : FitsNext(c, me.todo, F) /\ Meets(c.setup, me, F)
<1>1. PICK F \in SUBSET Facts : Fits(c, me.todo, F) /\ Meets(c.setup, me, F)
  BY DEF Known
<1> DEFINE q == me.todo
<1>2. PICK G \in SUBSET F : FitsNext(c, q, G)
  <2> HIDE DEF q
  <2>1. Fits(c, q, F)
    BY <1>1 DEF q
  <2> QED
    BY <2>1, FitsElim
<1>3. Meets(c.setup, me, G)
  BY <1>1 DEF Meets
<1> QED
  BY <1>2, <1>3

LEMMA AfterTyped ==
  ASSUME NEW s, NEW op, NEW F \in SUBSET Facts
  PROVE  After(s, op, F) \in SUBSET Facts /\ Otherwise(op, F) \in SUBSET Facts
BY DEF After, Otherwise, Facts, Given

Here(me, ops) == me.todo # <<>> /\ Head(me.todo).do \in ops

LEMMA KnownDone ==
  ASSUME NEW c, NEW me, NEW f, NEW F \in SUBSET Facts, FitsNext(c, me.todo, F),
         NEW op, Here(me, {op}), op \notin Jumps, f.todo = Tail(me.todo),
         Meets(c.setup, f, After(c.setup, op, F))
  PROVE  Known(c, f)
<1> DEFINE G == After(c.setup, op, F)
<1>1. Fits(c, f.todo, G)
  <2> HIDE DEF G
  <2> QED
    BY DEF FitsNext, Here, G
<1>2. G \in SUBSET Facts
  BY AfterTyped
<1>3. Meets(c.setup, f, G)
  OBVIOUS
<1> HIDE DEF G
<1> QED
  BY <1>1, <1>2, <1>3 DEF Known

LEMMA KnownFailed ==
  ASSUME NEW c, NEW me, NEW f, NEW F \in SUBSET Facts, FitsNext(c, me.todo, F),
         NEW op, Here(me, {op}), op \notin Jumps, MayFail(c.setup, op, F),
         f.todo = Head(me.todo).else \o Tail(me.todo),
         Meets(c.setup, f, Otherwise(op, F))
  PROVE  Known(c, f)
<1> DEFINE G == Otherwise(op, F)
<1>1. Fits(c, f.todo, G)
  <2> HIDE DEF G
  <2> QED
    BY DEF FitsNext, Here, G
<1>2. G \in SUBSET Facts
  BY AfterTyped
<1>3. Meets(c.setup, f, G)
  OBVIOUS
<1> HIDE DEF G
<1> QED
  BY <1>1, <1>2, <1>3 DEF Known

\* An operation that is done keeps the invariant when its rule is right,
LEMMA DoneKeeps ==
  ASSUME NEW c, NEW me, NEW f, WorkerInv(c, me), NEW op, Here(me, {op}), op \notin Jumps,
         f.todo = Tail(me.todo), Typed(c.setup, f),
         \A F \in SUBSET Facts : Needs(c.setup, op, F) /\ Meets(c.setup, me, F)
                                 => Fair(f) /\ Meets(c.setup, f, After(c.setup, op, F))
  PROVE  WorkerInv(c, f)
<1>1. PICK F \in SUBSET Facts : FitsNext(c, me.todo, F) /\ Meets(c.setup, me, F)
  BY KnownNext DEF WorkerInv
<1>2. Needs(c.setup, op, F)
  BY <1>1 DEF FitsNext, Here
<1>3. Fair(f) /\ Meets(c.setup, f, After(c.setup, op, F))
  BY <1>1, <1>2
<1>4. Known(c, f)
  BY <1>1, <1>3, KnownDone
<1> QED
  BY <1>3, <1>4 DEF WorkerInv

\* and one that fails, when it may.
LEMMA FailedKeeps ==
  ASSUME NEW c, NEW me, NEW f, WorkerInv(c, me), NEW op, Here(me, {op}), op \notin Jumps,
         f.todo = Head(me.todo).else \o Tail(me.todo), Typed(c.setup, f),
         \A F \in SUBSET Facts : Needs(c.setup, op, F) /\ Meets(c.setup, me, F)
                                 => /\ Fair(f) /\ MayFail(c.setup, op, F)
                                    /\ Meets(c.setup, f, Otherwise(op, F))
  PROVE  WorkerInv(c, f)
<1>1. PICK F \in SUBSET Facts : FitsNext(c, me.todo, F) /\ Meets(c.setup, me, F)
  BY KnownNext DEF WorkerInv
<1>2. Needs(c.setup, op, F)
  BY <1>1 DEF FitsNext, Here
<1>3. Fair(f) /\ MayFail(c.setup, op, F) /\ Meets(c.setup, f, Otherwise(op, F))
  BY <1>1, <1>2
<1>4. Known(c, f)
  BY <1>1, <1>3, KnownFailed
<1> QED
  BY <1>3, <1>4 DEF WorkerInv

LEMMA NothingChanges == DOMAIN Unchanged = {}
BY DEF Unchanged

\* the operations that may cancel
Cancels == {"cancel", "stop or cancel", "stop or cancel or nothing",
            "stop nothing or cancel or nothing"}

LEMMA NewParamKeeps ==
  ASSUME NEW c, NEW me, WorkerInv(c, me), NEW op \in {"param"}, Here(me, {op})
  PROVE  WorkerInv(c, Did(me, [param |-> TRUE]))
<1> DEFINE f == Did(me, [param |-> TRUE])
<1>1. /\ DOMAIN f = Fields /\ f.todo = Tail(me.todo) /\ f.param = TRUE
      /\ \A x \in Fields \ {"todo", "param"} : f[x] = me[x]
  BY DEF Did, Changed, WorkerInv, Typed, Fields
<1> HIDE DEF f
<1>2. Typed(c.setup, f)
  BY <1>1 DEF WorkerInv, Typed, Fields
<1>3. ASSUME NEW F \in SUBSET Facts, Needs(c.setup, op, F), Meets(c.setup, me, F)
      PROVE  Fair(f) /\ Meets(c.setup, f, After(c.setup, op, F))
  <2>1. After(c.setup, op, F) = F \cup {"param"}
    BY DEF After, Ends, Stops, Cancels
  <2>2. Fair(f)
    BY <1>1, <1>3 DEF Fair, Needs, Meets, Fields, WorkerInv, Typed, Here, Awaits, Sends, Stops
  <2>3. Meets(c.setup, f, F \cup {"param"})
    BY <1>1, <1>3 DEF Meets, Given, Fields, Needs, WorkerInv, Typed, Uses
  <2> QED
    BY <2>1, <2>2, <2>3
<1>4. op \notin Jumps
  BY DEF Jumps, Stops, Sends, Awaits, Cancels
<1>5. WorkerInv(c, f)
  BY <1>1, <1>2, <1>3, <1>4, DoneKeeps
<1> QED
  BY <1>5 DEF f

LEMMA IdleKeeps ==
  ASSUME NEW c, NEW me, WorkerInv(c, me),
         NEW op \in {"open", "vip", "single", "lucky", "unless special", "poll",
                     "unless failed", "count", "stop nothing", "send", "send while running"},
         Here(me, {op})
  PROVE  WorkerInv(c, Did(me, Unchanged))
<1> DEFINE f == Did(me, Unchanged)
<1>1. /\ DOMAIN f = Fields /\ f.todo = Tail(me.todo)
      /\ \A x \in Fields \ {"todo"} : f[x] = me[x]
  BY NothingChanges DEF Did, Changed, WorkerInv, Typed, Fields
<1> HIDE DEF f
<1>2. Typed(c.setup, f)
  BY <1>1 DEF WorkerInv, Typed, Fields
<1>3. ASSUME NEW F \in SUBSET Facts, Needs(c.setup, op, F), Meets(c.setup, me, F)
      PROVE  Fair(f) /\ Meets(c.setup, f, After(c.setup, op, F))
  <2>1. After(c.setup, op, F) = F
    BY DEF After, Ends, Stops, Cancels
  <2>2. Fair(f)
    BY <1>1, <1>3 DEF Fair, Needs, Meets, Fields, WorkerInv, Typed, Here, Awaits, Sends, Stops
  <2>3. Meets(c.setup, f, F)
    BY <1>1, <1>3 DEF Meets, Given, Fields, Needs, WorkerInv, Typed, Uses
  <2> QED
    BY <2>1, <2>2, <2>3
<1>4. op \notin Jumps
  BY DEF Jumps, Stops, Sends, Awaits, Cancels
<1>5. WorkerInv(c, f)
  BY <1>1, <1>2, <1>3, <1>4, DoneKeeps
<1> QED
  BY <1>5 DEF f

LEMMA SpoiltKeeps ==
  ASSUME NEW c, NEW me, WorkerInv(c, me),
         NEW op \in {"open", "create", "vip", "lucky", "unless special", "unless failed"},
         Here(me, {op}),
         op \in {"open", "create", "vip"} => Occurs(c.setup, op),
         op = "unless failed" => Occurs(c.setup, "failure")
  PROVE  WorkerInv(c, DidNot(me, Unchanged))
<1> DEFINE f == DidNot(me, Unchanged)
<1>1. /\ DOMAIN f = Fields /\ f.todo = Head(me.todo).else \o Tail(me.todo)
      /\ \A x \in Fields \ {"todo"} : f[x] = me[x]
  BY NothingChanges DEF DidNot, Changed, WorkerInv, Typed, Fields
<1> HIDE DEF f
<1>2. Typed(c.setup, f)
  BY <1>1 DEF WorkerInv, Typed, Fields
<1>3. ASSUME NEW F \in SUBSET Facts, Needs(c.setup, op, F), Meets(c.setup, me, F)
      PROVE  /\ Fair(f) /\ MayFail(c.setup, op, F)
             /\ Meets(c.setup, f, Otherwise(op, F))
  <2>1. Otherwise(op, F) = F
    BY DEF Otherwise, Awaits, Sends, Stops
  <2>2. Fair(f)
    BY <1>1, <1>3 DEF Fair, Needs, Meets, Fields, WorkerInv, Typed, Here, Awaits, Sends, Stops
  <2>3. Meets(c.setup, f, F)
    BY <1>1, <1>3 DEF Meets, Given, Fields, Needs, WorkerInv, Typed, Uses
  <2>4. MayFail(c.setup, op, F)
    BY <1>3 DEF MayFail, Awaits, Sends, Stops, Meets
  <2> QED
    BY <2>1, <2>2, <2>3, <2>4
<1>4. op \notin Jumps
  BY DEF Jumps, Stops, Sends, Awaits, Cancels
<1>5. WorkerInv(c, f)
  BY <1>1, <1>2, <1>3, <1>4, FailedKeeps
<1> QED
  BY <1>5 DEF f

LEMMA CreateKeeps ==
  ASSUME NEW c, NEW me, WorkerInv(c, me), NEW op \in {"create"}, Here(me, {op})
  PROVE  WorkerInv(c, Did(me, [request |-> "created", exit |-> "", late |-> FALSE]))
<1> DEFINE f == Did(me, [request |-> "created", exit |-> "", late |-> FALSE])
<1>1. /\ DOMAIN f = Fields /\ f.todo = Tail(me.todo) /\ f.request = "created" /\ f.exit = ""
      /\ f.late = FALSE
      /\ \A x \in Fields \ {"todo", "request", "exit", "late"} : f[x] = me[x]
  BY DEF Did, Changed, WorkerInv, Typed, Fields
<1> HIDE DEF f
<1>2. Typed(c.setup, f)
  BY <1>1 DEF WorkerInv, Typed, Fields
<1>3. ASSUME NEW F \in SUBSET Facts, Needs(c.setup, op, F), Meets(c.setup, me, F)
      PROVE  Fair(f) /\ Meets(c.setup, f, After(c.setup, op, F))
  <2>1. After(c.setup, op, F) = (F \cap {"param"}) \cup {"request", "fresh"} \cup Given
    BY DEF After, Ends, Stops, Cancels
  <2>2. Fair(f)
    BY <1>1, <1>3 DEF Fair, Needs, Meets, Fields, WorkerInv, Typed, Here, Awaits, Sends, Stops
  <2>3. Meets(c.setup, f, (F \cap {"param"}) \cup {"request", "fresh"} \cup Given)
    BY <1>1, <1>3 DEF Meets, Given, Fields, Needs, WorkerInv, Typed, Uses
  <2> QED
    BY <2>1, <2>2, <2>3
<1>4. op \notin Jumps
  BY DEF Jumps, Stops, Sends, Awaits, Cancels
<1>5. WorkerInv(c, f)
  BY <1>1, <1>2, <1>3, <1>4, DoneKeeps
<1> QED
  BY <1>5 DEF f

LEMMA ForgetKeeps ==
  ASSUME NEW c, NEW me, WorkerInv(c, me), NEW op \in {"forget"}, Here(me, {op})
  PROVE  WorkerInv(c, Did(me, [param |-> FALSE]))
<1> DEFINE f == Did(me, [param |-> FALSE])
<1>1. /\ DOMAIN f = Fields /\ f.todo = Tail(me.todo) /\ f.param = FALSE
      /\ \A x \in Fields \ {"todo", "param"} : f[x] = me[x]
  BY DEF Did, Changed, WorkerInv, Typed, Fields
<1> HIDE DEF f
<1>2. Typed(c.setup, f)
  BY <1>1 DEF WorkerInv, Typed, Fields
<1>3. ASSUME NEW F \in SUBSET Facts, Needs(c.setup, op, F), Meets(c.setup, me, F)
      PROVE  Fair(f) /\ Meets(c.setup, f, After(c.setup, op, F))
  <2>1. After(c.setup, op, F) = F \ {"param"}
    BY DEF After, Ends, Stops, Cancels
  <2>2. Fair(f)
    BY <1>1, <1>3 DEF Fair, Needs, Meets, Fields, WorkerInv, Typed, Here, Awaits, Sends, Stops
  <2>3. Meets(c.setup, f, F \ {"param"})
    BY <1>1, <1>3 DEF Meets, Given, Fields, Needs, WorkerInv, Typed, Uses
  <2> QED
    BY <2>1, <2>2, <2>3
<1>4. op \notin Jumps
  BY DEF Jumps, Stops, Sends, Awaits, Cancels
<1>5. WorkerInv(c, f)
  BY <1>1, <1>2, <1>3, <1>4, DoneKeeps
<1> QED
  BY <1>5 DEF f

LEMMA StartKeeps ==
  ASSUME NEW c, NEW me, WorkerInv(c, me), NEW op \in {"start"}, Here(me, {op}),
         me.request \in {"created", "closed"},
         NEW n \in 0..c.setup.count
  PROVE  WorkerInv(c, Did(me, [request |-> "starting", exit |-> "", due |-> FALSE,
                               rounds |-> n]))
<1> DEFINE f == Did(me, [request |-> "starting", exit |-> "", due |-> FALSE, rounds |-> n])
<1>1. /\ DOMAIN f = Fields /\ f.todo = Tail(me.todo) /\ f.request = "starting" /\ f.exit = ""
      /\ f.due = FALSE /\ f.rounds = n
      /\ \A x \in Fields \ {"todo", "request", "exit", "due", "rounds"} : f[x] = me[x]
  BY DEF Did, Changed, WorkerInv, Typed, Fields
<1> HIDE DEF f
<1>2. Typed(c.setup, f)
  BY <1>1 DEF WorkerInv, Typed, Fields
<1>3. ASSUME NEW F \in SUBSET Facts, Needs(c.setup, op, F), Meets(c.setup, me, F)
      PROVE  Fair(f) /\ Meets(c.setup, f, After(c.setup, op, F))
  <2>1. After(c.setup, op, F) = (F \cap {"param", "request"})
                                \cup (IF Calm(c.setup) THEN {"opening"} ELSE {})
    BY DEF After, Ends, Stops, Cancels
  <2>2. Fair(f)
    BY <1>1, <1>3 DEF Fair, Needs, Meets, Fields, WorkerInv, Typed, Here, Awaits, Sends, Stops
  <2>3. Meets(c.setup, f, (F \cap {"param", "request"})
                          \cup (IF Calm(c.setup) THEN {"opening"} ELSE {}))
    BY <1>1, <1>3 DEF Meets, Given, Fields, Needs, WorkerInv, Typed, Uses
  <2> QED
    BY <2>1, <2>2, <2>3
<1>4. op \notin Jumps
  BY DEF Jumps, Stops, Sends, Awaits, Cancels
<1>5. WorkerInv(c, f)
  BY <1>1, <1>2, <1>3, <1>4, DoneKeeps
<1> QED
  BY <1>5 DEF f

LEMMA StartRefusedKeeps ==
  ASSUME NEW c, NEW me, WorkerInv(c, me), NEW op \in {"start"}, Here(me, {op}),
         NEW n \in 0..c.setup.count,
         Occurs(c.setup, "start") \/ me.request \notin {"created", "closed"}
  PROVE  WorkerInv(c, DidNot(me, [due |-> TRUE, rounds |-> n]))
<1> DEFINE f == DidNot(me, [due |-> TRUE, rounds |-> n])
<1>1. /\ DOMAIN f = Fields /\ f.todo = Head(me.todo).else \o Tail(me.todo) /\ f.due = TRUE
      /\ f.rounds = n
      /\ \A x \in Fields \ {"todo", "due", "rounds"} : f[x] = me[x]
  BY DEF DidNot, Changed, WorkerInv, Typed, Fields
<1> HIDE DEF f
<1>2. Typed(c.setup, f)
  BY <1>1 DEF WorkerInv, Typed, Fields
<1>3. ASSUME NEW F \in SUBSET Facts, Needs(c.setup, op, F), Meets(c.setup, me, F)
      PROVE  /\ Fair(f) /\ MayFail(c.setup, op, F)
             /\ Meets(c.setup, f, Otherwise(op, F))
  <2>1. Otherwise(op, F) = F \cup Given
    BY DEF Otherwise, Awaits, Sends, Stops
  <2>2. Fair(f)
    BY <1>1, <1>3 DEF Fair, Needs, Meets, Fields, WorkerInv, Typed, Here, Awaits, Sends, Stops
  <2>3. Meets(c.setup, f, F \cup Given)
    BY <1>1, <1>3 DEF Meets, Given, Fields, Needs, WorkerInv, Typed, Uses
  <2>4. MayFail(c.setup, op, F)
    BY <1>3 DEF MayFail, Awaits, Sends, Stops, Meets
  <2> QED
    BY <2>1, <2>2, <2>3, <2>4
<1>4. op \notin Jumps
  BY DEF Jumps, Stops, Sends, Awaits, Cancels
<1>5. WorkerInv(c, f)
  BY <1>1, <1>2, <1>3, <1>4, FailedKeeps
<1> QED
  BY <1>5 DEF f

LEMMA ExpireKeeps ==
  ASSUME NEW c, NEW me, WorkerInv(c, me), NEW op \in Awaits, Here(me, {op}),
         Occurs(c.setup, "silence")
  PROVE  WorkerInv(c, DidNot(me, [waiting |-> FALSE, due |-> TRUE]))
<1> DEFINE f == DidNot(me, [waiting |-> FALSE, due |-> TRUE])
<1>1. /\ DOMAIN f = Fields /\ f.todo = Head(me.todo).else \o Tail(me.todo)
      /\ f.waiting = FALSE /\ f.due = TRUE
      /\ \A x \in Fields \ {"todo", "waiting", "due"} : f[x] = me[x]
  BY DEF DidNot, Changed, WorkerInv, Typed, Fields
<1> HIDE DEF f
<1>2. Typed(c.setup, f)
  BY <1>1 DEF WorkerInv, Typed, Fields
<1>3. ASSUME NEW F \in SUBSET Facts, Needs(c.setup, op, F), Meets(c.setup, me, F)
      PROVE  /\ Fair(f) /\ MayFail(c.setup, op, F)
             /\ Meets(c.setup, f, Otherwise(op, F))
  <2>1. Otherwise(op, F) = F \cup Given
    BY DEF Otherwise, Awaits, Sends, Stops
  <2>2. Fair(f)
    BY <1>1, <1>3 DEF Fair, Needs, Meets, Fields, WorkerInv, Typed, Here, Awaits, Sends, Stops
  <2>3. Meets(c.setup, f, F \cup Given)
    BY <1>1, <1>3 DEF Meets, Given, Fields, Needs, WorkerInv, Typed, Uses
  <2>4. MayFail(c.setup, op, F)
    BY <1>3 DEF MayFail, Awaits, Sends, Stops, Meets
  <2> QED
    BY <2>1, <2>2, <2>3, <2>4
<1>4. op \notin Jumps
  BY DEF Jumps, Stops, Sends, Awaits, Cancels
<1>5. WorkerInv(c, f)
  BY <1>1, <1>2, <1>3, <1>4, FailedKeeps
<1> QED
  BY <1>5 DEF f

LEMMA SendRefusedKeeps ==
  ASSUME NEW c, NEW me, WorkerInv(c, me), NEW op \in Sends, Here(me, {op}),
         Occurs(c.setup, "refuse") \/ me.request # "started" \/ me.exit # ""
  PROVE  WorkerInv(c, DidNot(me, [due |-> TRUE]))
<1> DEFINE f == DidNot(me, [due |-> TRUE])
<1>1. /\ DOMAIN f = Fields /\ f.todo = Head(me.todo).else \o Tail(me.todo) /\ f.due = TRUE
      /\ \A x \in Fields \ {"todo", "due"} : f[x] = me[x]
  BY DEF DidNot, Changed, WorkerInv, Typed, Fields
<1> HIDE DEF f
<1>2. Typed(c.setup, f)
  BY <1>1 DEF WorkerInv, Typed, Fields
<1>3. ASSUME NEW F \in SUBSET Facts, Needs(c.setup, op, F), Meets(c.setup, me, F)
      PROVE  /\ Fair(f) /\ MayFail(c.setup, op, F)
             /\ Meets(c.setup, f, Otherwise(op, F))
  <2>1. Otherwise(op, F) = F \cup Given
    BY DEF Otherwise, Awaits, Sends, Stops
  <2>2. Fair(f)
    BY <1>1, <1>3 DEF Fair, Needs, Meets, Fields, WorkerInv, Typed, Here, Awaits, Sends, Stops
  <2>3. Meets(c.setup, f, F \cup Given)
    BY <1>1, <1>3 DEF Meets, Given, Fields, Needs, WorkerInv, Typed, Uses
  <2>4. MayFail(c.setup, op, F)
    BY <1>3 DEF MayFail, Awaits, Sends, Stops, Meets
  <2> QED
    BY <2>1, <2>2, <2>3, <2>4
<1>4. op \notin Jumps
  BY DEF Jumps, Stops, Sends, Awaits, Cancels
<1>5. WorkerInv(c, f)
  BY <1>1, <1>2, <1>3, <1>4, FailedKeeps
<1> QED
  BY <1>5 DEF f

LEMMA StopKeeps ==
  ASSUME NEW c, NEW me, WorkerInv(c, me), NEW op \in Stops, Here(me, {op})
  PROVE  WorkerInv(c, Did(me, [exit |-> "stopping"]))
<1> DEFINE f == Did(me, [exit |-> "stopping"])
<1>1. /\ DOMAIN f = Fields /\ f.todo = Tail(me.todo) /\ f.exit = "stopping"
      /\ \A x \in Fields \ {"todo", "exit"} : f[x] = me[x]
  BY DEF Did, Changed, WorkerInv, Typed, Fields
<1> HIDE DEF f
<1>2. Typed(c.setup, f)
  BY <1>1 DEF WorkerInv, Typed, Fields
<1>3. ASSUME NEW F \in SUBSET Facts, Needs(c.setup, op, F), Meets(c.setup, me, F)
      PROVE  Fair(f) /\ Meets(c.setup, f, After(c.setup, op, F))
  <2>1. After(c.setup, op, F) = F \ {"opening", "open"}
    BY DEF After, Ends, Stops, Cancels
  <2>2. Fair(f)
    BY <1>1, <1>3 DEF Fair, Needs, Meets, Fields, WorkerInv, Typed, Here, Awaits, Sends, Stops
  <2>3. Meets(c.setup, f, F \ {"opening", "open"})
    BY <1>1, <1>3 DEF Meets, Given, Fields, Needs, WorkerInv, Typed, Uses
  <2> QED
    BY <2>1, <2>2, <2>3
<1>4. op \notin Jumps
  BY DEF Jumps, Stops, Sends, Awaits, Cancels
<1>5. WorkerInv(c, f)
  BY <1>1, <1>2, <1>3, <1>4, DoneKeeps
<1> QED
  BY <1>5 DEF f

LEMMA StopOverKeeps ==
  ASSUME NEW c, NEW me, WorkerInv(c, me), NEW op \in Stops, Here(me, {op})
  PROVE  WorkerInv(c, Did(me, Unchanged))
<1> DEFINE f == Did(me, Unchanged)
<1>1. /\ DOMAIN f = Fields /\ f.todo = Tail(me.todo)
      /\ \A x \in Fields \ {"todo"} : f[x] = me[x]
  BY NothingChanges DEF Did, Changed, WorkerInv, Typed, Fields
<1> HIDE DEF f
<1>2. Typed(c.setup, f)
  BY <1>1 DEF WorkerInv, Typed, Fields
<1>3. ASSUME NEW F \in SUBSET Facts, Needs(c.setup, op, F), Meets(c.setup, me, F)
      PROVE  Fair(f) /\ Meets(c.setup, f, After(c.setup, op, F))
  <2>1. After(c.setup, op, F) = F \ {"opening", "open"}
    BY DEF After, Ends, Stops, Cancels
  <2>2. Fair(f)
    BY <1>1, <1>3 DEF Fair, Needs, Meets, Fields, WorkerInv, Typed, Here, Awaits, Sends, Stops
  <2>3. Meets(c.setup, f, F \ {"opening", "open"})
    BY <1>1, <1>3 DEF Meets, Given, Fields, Needs, WorkerInv, Typed, Uses
  <2> QED
    BY <2>1, <2>2, <2>3
<1>4. op \notin Jumps
  BY DEF Jumps, Stops, Sends, Awaits, Cancels
<1>5. WorkerInv(c, f)
  BY <1>1, <1>2, <1>3, <1>4, DoneKeeps
<1> QED
  BY <1>5 DEF f

LEMMA StopRefusedKeeps ==
  ASSUME NEW c, NEW me, WorkerInv(c, me), NEW op \in Stops, Here(me, {op})
  PROVE  WorkerInv(c, DidNot(me, [due |-> TRUE]))
<1> DEFINE f == DidNot(me, [due |-> TRUE])
<1>1. /\ DOMAIN f = Fields /\ f.todo = Head(me.todo).else \o Tail(me.todo) /\ f.due = TRUE
      /\ \A x \in Fields \ {"todo", "due"} : f[x] = me[x]
  BY DEF DidNot, Changed, WorkerInv, Typed, Fields
<1> HIDE DEF f
<1>2. Typed(c.setup, f)
  BY <1>1 DEF WorkerInv, Typed, Fields
<1>3. ASSUME NEW F \in SUBSET Facts, Needs(c.setup, op, F), Meets(c.setup, me, F)
      PROVE  /\ Fair(f) /\ MayFail(c.setup, op, F)
             /\ Meets(c.setup, f, Otherwise(op, F))
  <2>1. Otherwise(op, F) = F \cup Given
    BY DEF Otherwise, Awaits, Sends, Stops
  <2>2. Fair(f)
    BY <1>1, <1>3 DEF Fair, Needs, Meets, Fields, WorkerInv, Typed, Here, Awaits, Sends, Stops
  <2>3. Meets(c.setup, f, F \cup Given)
    BY <1>1, <1>3 DEF Meets, Given, Fields, Needs, WorkerInv, Typed, Uses
  <2>4. MayFail(c.setup, op, F)
    BY <1>3 DEF MayFail, Awaits, Sends, Stops, Meets
  <2> QED
    BY <2>1, <2>2, <2>3, <2>4
<1>4. op \notin Jumps
  BY DEF Jumps, Stops, Sends, Awaits, Cancels
<1>5. WorkerInv(c, f)
  BY <1>1, <1>2, <1>3, <1>4, FailedKeeps
<1> QED
  BY <1>5 DEF f

LEMMA CancelKeeps ==
  ASSUME NEW c, NEW me, WorkerInv(c, me), NEW op \in Cancels, Here(me, {op}),
         NEW late \in BOOLEAN
  PROVE  WorkerInv(c, Did(me, [exit |-> "cancelled", due |-> TRUE, late |-> late]))
<1> DEFINE f == Did(me, [exit |-> "cancelled", due |-> TRUE, late |-> late])
<1>1. /\ DOMAIN f = Fields /\ f.todo = Tail(me.todo) /\ f.exit = "cancelled" /\ f.due = TRUE
      /\ f.late = late
      /\ \A x \in Fields \ {"todo", "exit", "due", "late"} : f[x] = me[x]
  BY DEF Did, Changed, WorkerInv, Typed, Fields
<1> HIDE DEF f
<1>2. Typed(c.setup, f)
  BY <1>1 DEF WorkerInv, Typed, Fields
<1>3. ASSUME NEW F \in SUBSET Facts, Needs(c.setup, op, F), Meets(c.setup, me, F)
      PROVE  Fair(f) /\ Meets(c.setup, f, After(c.setup, op, F))
  <2>1. After(c.setup, op, F) = (F \ {"opening", "open"})
                                \cup (IF op = "cancel" THEN Given ELSE {})
    BY DEF After, Ends, Stops, Cancels
  <2>2. Fair(f)
    BY <1>1, <1>3 DEF Fair, Needs, Meets, Fields, WorkerInv, Typed, Here, Awaits, Cancels
  <2>3. Meets(c.setup, f, (F \ {"opening", "open"}) \cup (IF op = "cancel" THEN Given ELSE {}))
    BY <1>1, <1>3 DEF Meets, Given, Fields, Needs, WorkerInv, Typed, Uses, Cancels
  <2> QED
    BY <2>1, <2>2, <2>3
<1>4. op \notin Jumps
  BY DEF Jumps, Stops, Sends, Awaits, Cancels
<1>5. WorkerInv(c, f)
  BY <1>1, <1>2, <1>3, <1>4, DoneKeeps
<1> QED
  BY <1>5 DEF f

LEMMA ChoiceKeeps ==
  ASSUME NEW c, NEW me, WorkerInv(c, me),
         NEW op \in {"stop or cancel or nothing", "stop nothing or cancel or nothing"},
         Here(me, {op})
  PROVE  WorkerInv(c, Did(me, Unchanged))
<1> DEFINE f == Did(me, Unchanged)
<1>1. /\ DOMAIN f = Fields /\ f.todo = Tail(me.todo)
      /\ \A x \in Fields \ {"todo"} : f[x] = me[x]
  BY NothingChanges DEF Did, Changed, WorkerInv, Typed, Fields
<1> HIDE DEF f
<1>2. Typed(c.setup, f)
  BY <1>1 DEF WorkerInv, Typed, Fields
<1>3. ASSUME NEW F \in SUBSET Facts, Needs(c.setup, op, F), Meets(c.setup, me, F)
      PROVE  Fair(f) /\ Meets(c.setup, f, After(c.setup, op, F))
  <2>1. After(c.setup, op, F) = F \ {"opening", "open"}
    BY DEF After, Ends, Stops, Cancels
  <2>2. Fair(f)
    BY <1>1, <1>3 DEF Fair, Needs, Meets, Fields, WorkerInv, Typed, Here, Awaits, Sends, Stops
  <2>3. Meets(c.setup, f, F \ {"opening", "open"})
    BY <1>1, <1>3 DEF Meets, Given, Fields, Needs, WorkerInv, Typed, Uses
  <2> QED
    BY <2>1, <2>2, <2>3
<1>4. op \notin Jumps
  BY DEF Jumps, Stops, Sends, Awaits, Cancels
<1>5. WorkerInv(c, f)
  BY <1>1, <1>2, <1>3, <1>4, DoneKeeps
<1> QED
  BY <1>5 DEF f

LEMMA ReleaseKeeps ==
  ASSUME NEW c, NEW me, WorkerInv(c, me), NEW op \in {"release"}, Here(me, {op}),
         me.telling = "none"
  PROVE  WorkerInv(c, Did(me, [request |-> "none", exit |-> "", late |-> FALSE, due |-> FALSE]))
<1> DEFINE f == Did(me, [request |-> "none", exit |-> "", late |-> FALSE, due |-> FALSE])
<1>1. /\ DOMAIN f = Fields /\ f.todo = Tail(me.todo) /\ f.request = "none" /\ f.exit = ""
      /\ f.late = FALSE /\ f.due = FALSE
      /\ \A x \in Fields \ {"todo", "request", "exit", "late", "due"} : f[x] = me[x]
  BY DEF Did, Changed, WorkerInv, Typed, Fields
<1> HIDE DEF f
<1>2. Typed(c.setup, f)
  BY <1>1 DEF WorkerInv, Typed, Fields
<1>3. ASSUME NEW F \in SUBSET Facts, Needs(c.setup, op, F), Meets(c.setup, me, F)
      PROVE  Fair(f) /\ Meets(c.setup, f, After(c.setup, op, F))
  <2>1. After(c.setup, op, F) = (F \cap {"param"}) \cup {"none"}
    BY DEF After, Ends, Stops, Cancels
  <2>2. Fair(f)
    BY <1>1, <1>3 DEF Fair, Needs, Meets, Fields, WorkerInv, Typed, Here, Awaits, Sends, Stops
  <2>3. Meets(c.setup, f, (F \cap {"param"}) \cup {"none"})
    BY <1>1, <1>3 DEF Meets, Given, Fields, Needs, WorkerInv, Typed, Uses
  <2> QED
    BY <2>1, <2>2, <2>3
<1>4. op \notin Jumps
  BY DEF Jumps, Stops, Sends, Awaits, Cancels
<1>5. WorkerInv(c, f)
  BY <1>1, <1>2, <1>3, <1>4, DoneKeeps
<1> QED
  BY <1>5 DEF f

\* A change that leaves the program where it is keeps what is known.
LEMMA KnownStays ==
  ASSUME NEW c, NEW me, NEW f, Known(c, me), f.todo = me.todo,
         \A F \in SUBSET Facts : Meets(c.setup, me, F) => Meets(c.setup, f, F)
  PROVE  Known(c, f)
BY DEF Known

LEMMA AwaitKeeps ==
  ASSUME NEW c, NEW me, WorkerInv(c, me), Here(me, Awaits)
  PROVE  WorkerInv(c, [me EXCEPT !.waiting = TRUE])
<1> DEFINE f == [me EXCEPT !.waiting = TRUE]
<1>1. DOMAIN f = Fields /\ f.waiting = TRUE /\ \A x \in Fields \ {"waiting"} : f[x] = me[x]
  BY DEF WorkerInv, Typed, Fields
<1> HIDE DEF f
<1>2. Typed(c.setup, f)
  BY <1>1 DEF WorkerInv, Typed, Fields
<1>3. Fair(f)
  BY <1>1 DEF WorkerInv, Fair, Fields, Here
<1>4. ASSUME NEW F \in SUBSET Facts, Meets(c.setup, me, F)
      PROVE  Meets(c.setup, f, F)
  BY <1>1, <1>4 DEF Meets, Fields
<1>5. Known(c, me) /\ f.todo = me.todo
  BY <1>1 DEF WorkerInv, Fields
<1>6. Known(c, f)
  BY <1>4, <1>5, KnownStays
<1> QED
  BY <1>2, <1>3, <1>6 DEF WorkerInv, f

LEMMA JumpKeeps ==
  ASSUME NEW c, c.loop \in SUBSET Facts, c.tail \in SUBSET Facts, Verified(c),
         NEW me, WorkerInv(c, me), NEW op \in Jumps, Here(me, {op}), NEW q,
         \/ op \in {"enter", "next", "continue"} /\ q = Form(c.setup).body
         \/ op \in {"next", "continue", "break"} /\ q = Form(c.setup).tail
         \/ op = "return" /\ q = <<>>
         \/ op = "skip" /\ q = Tail(Tail(me.todo))
  PROVE  WorkerInv(c, [me EXCEPT !.todo = q])
<1> DEFINE f == [me EXCEPT !.todo = q]
<1>1. DOMAIN f = Fields /\ f.todo = q /\ \A x \in Fields \ {"todo"} : f[x] = me[x]
  BY DEF WorkerInv, Typed, Fields
<1> HIDE DEF f
<1>2. Typed(c.setup, f)
  BY <1>1 DEF WorkerInv, Typed, Fields
<1>3. Fair(f)
  BY <1>1 DEF WorkerInv, Fair, Fields, Here, Awaits, Jumps
<1>4. PICK F \in SUBSET Facts : FitsNext(c, me.todo, F) /\ Meets(c.setup, me, F)
  BY KnownNext DEF WorkerInv
<1>5. \A G \in SUBSET F : Meets(c.setup, f, G)
  <2>1. Meets(c.setup, f, F)
    BY <1>1, <1>4 DEF Meets, Fields
  <2> QED
    BY <2>1 DEF Meets
<1>6. Known(c, f)
  <2>1. CASE op \in {"enter", "next", "continue"} /\ q = Form(c.setup).body
    <3>1. c.loop \in SUBSET F
      BY <1>4, <2>1 DEF FitsNext, Here
    <3> QED
      BY <2>1, <3>1, <1>1, <1>5 DEF Known, Verified
  <2>2. CASE op \in {"next", "continue", "break"} /\ q = Form(c.setup).tail
    <3>1. c.tail \in SUBSET F
      BY <1>4, <2>2 DEF FitsNext, Here
    <3> QED
      BY <2>2, <3>1, <1>1, <1>5 DEF Known, Verified
  <2>3. CASE op = "return" /\ q = <<>>
    <3>1. "none" \in F
      BY <1>4, <2>3 DEF FitsNext, Here
    <3>2. FitsNext(c, q, F)
      BY <2>3, <3>1 DEF FitsNext
    <3>3. q \in Seq(Instruction)
      BY <2>3
    <3>4. Fits(c, q, F)
      BY <3>2, <3>3, FitsIntro
    <3> QED
      BY <3>4, <1>1, <1>5 DEF Known
  <2>4. CASE op = "skip" /\ q = Tail(Tail(me.todo))
    <3>1. Fits(c, q, F)
      BY <1>4, <2>4 DEF FitsNext, Here
    <3> QED
      BY <3>1, <1>1, <1>5 DEF Known
  <2> QED
    BY <2>1, <2>2, <2>3, <2>4
<1> QED
  BY <1>2, <1>3, <1>6 DEF WorkerInv, f

(***************************************************************************)
(* Callbacks.                                                              *)
(***************************************************************************)
Back(me) == [me EXCEPT !.telling = "none",
                        !.request = IF me.telling = "Closed" THEN "closed" ELSE me.request]

LEMMA ToldKeeps ==
  ASSUME NEW c, NEW me, WorkerInv(c, me), me.telling # "none"
  PROVE  WorkerInv(c, Back(me))
<1> DEFINE f == Back(me)
<1>1. /\ DOMAIN f = Fields /\ f.telling = "none"
      /\ f.request = IF me.telling = "Closed" THEN "closed" ELSE me.request
      /\ \A x \in Fields \ {"telling", "request"} : f[x] = me[x]
  BY DEF Back, WorkerInv, Typed, Fields
<1> HIDE DEF f
<1>2. Typed(c.setup, f)
  BY <1>1 DEF WorkerInv, Typed, Fields
<1>3. Fair(f)
  BY <1>1 DEF WorkerInv, Typed, Fair, Fields
<1>4. ASSUME NEW F \in SUBSET Facts, Meets(c.setup, me, F)
      PROVE  Meets(c.setup, f, F)
  BY <1>1, <1>4 DEF Meets, Fields, WorkerInv, Fair
<1>5. Known(c, me) /\ f.todo = me.todo
  BY <1>1 DEF WorkerInv, Fields
<1>6. Known(c, f)
  BY <1>4, <1>5, KnownStays
<1> QED
  BY <1>2, <1>3, <1>6 DEF WorkerInv, f

Callable(s, me, cb) ==
  /\ me.telling = "none"
  /\ cb = "Started" => me.request = "starting"
  /\ cb = "Failed" => me.request \in {"starting", "started"} /\ Occurs(s, "failure")
  /\ cb = "Completed" => me.request = "started" /\ (me.exit = "stopping" \/ Occurs(s, "early"))
  /\ cb = "Result" => me.request = "started"
  /\ cb = "Closed" => me.request = "over"

LEMMA HearsKeeps ==
  ASSUME NEW c, NEW me, WorkerInv(c, me), NEW cb \in Cbs, Callable(c.setup, me, cb)
  PROVE  WorkerInv(c, Hears(me, cb, FALSE))
<1> DEFINE f == Hears(me, cb, FALSE)
<1>1. /\ DOMAIN f = Fields /\ f.telling = cb /\ f.late = FALSE /\ f.request = Reached(me, cb)
      /\ (f.waiting => me.waiting) /\ f.due = me.due
      /\ \A x \in {"todo", "rounds", "param", "exit"} : f[x] = me[x]
  BY DEF Hears, WorkerInv, Typed, Fields
<1> HIDE DEF f
<1>2. Typed(c.setup, f)
  BY <1>1 DEF WorkerInv, Typed, Fields, Reached
<1>3. Fair(f)
  BY <1>1 DEF WorkerInv, Typed, Fair, Fields, Reached, Callable, Cbs
<1>4. ASSUME NEW F \in SUBSET Facts, Meets(c.setup, me, F)
      PROVE  Meets(c.setup, f, F)
  BY <1>1, <1>4 DEF Meets, Fields, Callable, Reached, Calm, Cbs
<1>5. Known(c, me) /\ f.todo = me.todo
  BY <1>1 DEF WorkerInv, Fields
<1>6. Known(c, f)
  BY <1>4, <1>5, KnownStays
<1> QED
  BY <1>2, <1>3, <1>6 DEF WorkerInv, f

LEMMA WakesKeeps ==
  ASSUME NEW c, NEW me, WorkerInv(c, me), NEW cb \in Cbs, Callable(c.setup, me, cb),
         Wakers(c.setup), me.waiting, "signal" \in Listens(c.setup, cb)
  PROVE  WorkerInv(c, Hears(me, cb, TRUE))
<1> DEFINE f == Hears(me, cb, TRUE)
<1> DEFINE op == Head(me.todo).do
<1>1. /\ DOMAIN f = Fields /\ f.telling = cb /\ f.late = FALSE /\ f.request = Reached(me, cb)
      /\ ~f.waiting /\ f.todo = Tail(me.todo) /\ f.due = (me.due \/ cb = "Closed")
      /\ \A x \in {"rounds", "param", "exit"} : f[x] = me[x]
  BY DEF Hears, WorkerInv, Typed, Fields
<1> HIDE DEF f
<1>2. Typed(c.setup, f)
  BY <1>1 DEF WorkerInv, Typed, Fields, Reached
<1>3. Fair(f)
  BY <1>1 DEF WorkerInv, Typed, Fair, Fields, Reached, Callable, Cbs
<1>4. op \in Awaits /\ Here(me, {op}) /\ cb \in {"Started", "Closed"}
  BY DEF WorkerInv, Fair, Here, Wakers
<1>5. ASSUME NEW F \in SUBSET Facts, Needs(c.setup, op, F), Meets(c.setup, me, F)
      PROVE  Meets(c.setup, f, After(c.setup, op, F))
  <2> HIDE DEF op
  <2>1. CASE op = "await Started"
    <3>1. After(c.setup, op, F) = F \cup {"answered"}
                                  \cup (IF "opening" \in F THEN {"open"} ELSE {})
      BY <2>1 DEF After, Ends, Stops
    <3>2. Meets(c.setup, f, F \cup {"answered"} \cup (IF "opening" \in F THEN {"open"} ELSE {}))
      BY <1>1, <1>4, <1>5 DEF Meets, Callable, Reached
    <3> QED
      BY <3>1, <3>2
  <2>2. CASE op = "await Closed"
    <3> DEFINE more == IF "answered" \in F \/ "signal" \notin Listens(c.setup, "Started")
                       THEN Given ELSE {}
    <3>1. After(c.setup, op, F) = F \cup more
      BY <2>2 DEF After, Ends, Stops
    <3>2. "answered" \in F \/ "signal" \notin Listens(c.setup, "Started")
          => me.due \/ cb = "Closed"
      BY <1>4, <1>5 DEF Meets, Callable
    <3>3. Meets(c.setup, f, F \cup more)
      BY <1>1, <1>4, <1>5, <3>2 DEF Meets, Callable, Reached, Given
    <3> QED
      BY <3>1, <3>3
  <2> QED
    BY <1>4, <2>1, <2>2 DEF Awaits
<1>6. op \notin Jumps
  BY <1>4 DEF Awaits, Jumps
<1> HIDE DEF op
<1>7. WorkerInv(c, f)
  BY <1>1, <1>2, <1>3, <1>4, <1>5, <1>6, DoneKeeps
<1> QED
  BY <1>7 DEF f

(***************************************************************************)
(* The steps of a worker and of its callbacks.                             *)
(***************************************************************************)
Contexts(s) == {c \in {Context(s, L, T) : L \in SUBSET Facts, T \in SUBSET Facts} : Verified(c)}

Situation(c, w) ==
  /\ setup \in Setups /\ Wakers(setup) /\ c \in Contexts(setup)
  /\ w \in Workers /\ DOMAIN worker = Workers /\ WorkerInv(c, worker[w])

Moves(c, w) == \E f : WorkerInv(c, f) /\ worker' = [worker EXCEPT ![w] = f]

LEMMA ContextIs ==
  ASSUME NEW s, NEW c \in Contexts(s)
  PROVE  c.setup = s /\ c.loop \in SUBSET Facts /\ c.tail \in SUBSET Facts /\ Verified(c)
BY DEF Contexts, Context

LEMMA SetupTyped ==
  ASSUME NEW s \in Setups
  PROVE  s \in Setup /\ s.count \in Nat
BY DemosAssumption DEF Setup

LEMMA MayIs ==
  ASSUME NEW trouble
  PROVE  May(trouble) = Occurs(setup, trouble)
BY DEF May, Occurs

LEMMA OnIs ==
  ASSUME NEW cb
  PROVE  On(cb) = Listens(setup, cb)
BY DEF On, Listens

LEMMA AtIs ==
  ASSUME NEW w, NEW op
  PROVE  At(w, op) = Here(worker[w], {op})
BY DEF At, Here

LEMMA DoneMoves ==
  ASSUME NEW c, NEW w, NEW ch, WorkerInv(c, Did(worker[w], ch)), Done(w, ch)
  PROVE  Moves(c, w)
<1>1. worker' = [worker EXCEPT ![w] = Did(worker[w], ch)]
  BY DEF Done
<1> QED
  BY <1>1 DEF Moves

LEMMA FailsMoves ==
  ASSUME NEW c, NEW w, NEW ch, WorkerInv(c, DidNot(worker[w], ch)), Fails(w, ch)
  PROVE  Moves(c, w)
<1>1. worker' = [worker EXCEPT ![w] = DidNot(worker[w], ch)]
  BY DEF Fails
<1> QED
  BY <1>1 DEF Moves

LEMMA StartMoves ==
  ASSUME NEW c, NEW w, Situation(c, w), Start(w)
  PROVE  Moves(c, w)
<1> DEFINE me == worker[w]
<1> DEFINE n == IF me.rounds < setup.count THEN me.rounds + 1 ELSE me.rounds
<1>1. c.setup = setup /\ WorkerInv(c, me) /\ Here(me, {"start"})
  BY ContextIs, AtIs DEF Situation, Start
<1>2. n \in 0..c.setup.count
  <2>1. setup.count \in Nat /\ me.rounds \in 0..setup.count
    BY <1>1, SetupTyped DEF WorkerInv, Typed, Situation
  <2> QED
    BY <1>1, <2>1
<1>3. CASE /\ me.request \in {"created", "closed"}
           /\ Done(w, [request |-> "starting", exit |-> "", due |-> FALSE, rounds |-> n])
  BY <1>1, <1>2, <1>3, StartKeeps, DoneMoves
<1>4. CASE /\ May("start") \/ me.request \notin {"created", "closed"}
           /\ Fails(w, [due |-> TRUE, rounds |-> n])
  BY <1>1, <1>2, <1>4, StartRefusedKeeps, FailsMoves, MayIs
<1> QED
  BY <1>3, <1>4 DEF Start

LEMMA JumpMoves ==
  ASSUME NEW c, NEW w, Situation(c, w), Jump(w)
  PROVE  Moves(c, w)
<1> DEFINE me == worker[w]
<1>1. /\ c.setup = setup /\ WorkerInv(c, me) /\ Verified(c)
      /\ c.loop \in SUBSET Facts /\ c.tail \in SUBSET Facts
  BY ContextIs DEF Situation
<1>2. Code = Form(setup)
  BY DEF Code, Form
<1>3. ASSUME NEW op \in Jumps, At(w, op), NEW q,
             \/ op \in {"enter", "next", "continue"} /\ q = Code.body
             \/ op \in {"next", "continue", "break"} /\ q = Code.tail
             \/ op = "return" /\ q = <<>>
             \/ op = "skip" /\ q = Tail(Tail(me.todo)),
             worker' = [worker EXCEPT ![w].todo = q]
      PROVE  Moves(c, w)
  <2>1. WorkerInv(c, [me EXCEPT !.todo = q])
    BY <1>1, <1>2, <1>3, AtIs, JumpKeeps
  <2>2. worker' = [worker EXCEPT ![w] = [me EXCEPT !.todo = q]]
    BY <1>3
  <2> QED
    BY <2>1, <2>2 DEF Moves
<1>4. CASE At(w, "enter") /\ worker' = [worker EXCEPT ![w].todo = Code.body]
  BY <1>3, <1>4 DEF Jumps
<1>5. ASSUME NEW op \in {"next", "continue"}, At(w, op),
             worker' = [worker EXCEPT ![w].todo = IF run THEN Code.body ELSE Code.tail]
      PROVE  Moves(c, w)
  <2>1. op \in Jumps
    BY DEF Jumps
  <2>2. CASE run
    <3>1. worker' = [worker EXCEPT ![w].todo = Code.body]
      BY <1>5, <2>2
    <3> QED
      BY <1>3, <1>5, <2>1, <3>1
  <2>3. CASE ~run
    <3>1. worker' = [worker EXCEPT ![w].todo = Code.tail]
      BY <1>5, <2>3
    <3> QED
      BY <1>3, <1>5, <2>1, <3>1
  <2> QED
    BY <2>2, <2>3
<1>6. CASE At(w, "break") /\ worker' = [worker EXCEPT ![w].todo = Code.tail]
  BY <1>3, <1>6 DEF Jumps
<1>7. CASE At(w, "return") /\ worker' = [worker EXCEPT ![w].todo = <<>>]
  BY <1>3, <1>7 DEF Jumps
<1>8. CASE At(w, "skip") /\ worker' = [worker EXCEPT ![w].todo = Tail(Tail(@))]
  <2>1. worker' = [worker EXCEPT ![w].todo = Tail(Tail(me.todo))]
    BY <1>8
  <2> QED
    BY <1>3, <1>8, <2>1 DEF Jumps
<1> QED
  BY <1>4, <1>5, <1>6, <1>7, <1>8 DEF Jump

LEMMA WorkMoves ==
  ASSUME NEW c, NEW w, Situation(c, w), Work(w)
  PROVE  Moves(c, w)
<1> DEFINE me == worker[w]
<1>1. c.setup = setup /\ WorkerInv(c, me)
  BY ContextIs DEF Situation
<1>2. CASE Open(w)
  <2>1. Here(me, {"open"})
    BY <1>2, AtIs DEF Open
  <2>2. CASE Done(w, Unchanged)
    BY <1>1, <2>1, <2>2, IdleKeeps, DoneMoves
  <2>3. CASE May("open") /\ Fails(w, Unchanged)
    <3>1. WorkerInv(c, DidNot(me, Unchanged))
      BY <1>1, <2>1, <2>3, SpoiltKeeps, MayIs
    <3> QED
      BY <2>3, <3>1, FailsMoves
  <2> QED
    BY <1>2, <2>2, <2>3 DEF Open
<1>3. CASE NewParam(w)
  BY <1>1, <1>3, AtIs, NewParamKeeps, DoneMoves DEF NewParam
<1>4. CASE Forget(w)
  BY <1>1, <1>4, AtIs, ForgetKeeps, DoneMoves DEF Forget
<1>5. CASE Create(w)
  <2>1. Here(me, {"create"})
    BY <1>5, AtIs DEF Create
  <2>2. CASE Done(w, [request |-> "created", exit |-> "", late |-> FALSE])
    BY <1>1, <2>1, <2>2, CreateKeeps, DoneMoves
  <2>3. CASE May("create") /\ Fails(w, Unchanged)
    <3>1. WorkerInv(c, DidNot(me, Unchanged))
      BY <1>1, <2>1, <2>3, SpoiltKeeps, MayIs
    <3> QED
      BY <2>3, <3>1, FailsMoves
  <2> QED
    BY <1>5, <2>2, <2>3 DEF Create
<1>6. CASE Configure(w)
  <2>1. CASE At(w, "vip") /\ Done(w, Unchanged)
    BY <1>1, <2>1, AtIs, IdleKeeps, DoneMoves
  <2>2. CASE At(w, "vip") /\ May("vip") /\ Fails(w, Unchanged)
    <3>1. WorkerInv(c, DidNot(me, Unchanged))
      BY <1>1, <2>2, AtIs, SpoiltKeeps, MayIs
    <3> QED
      BY <2>2, <3>1, FailsMoves
  <2>3. CASE At(w, "single") /\ Done(w, Unchanged)
    BY <1>1, <2>3, AtIs, IdleKeeps, DoneMoves
  <2> QED
    BY <1>6, <2>1, <2>2, <2>3 DEF Configure
<1>7. CASE Monkey(w)
  <2>1. ASSUME NEW op \in {"lucky", "unless special"}, At(w, op), Done(w, Unchanged)
        PROVE  Moves(c, w)
    BY <1>1, <2>1, AtIs, IdleKeeps, DoneMoves
  <2>2. ASSUME NEW op \in {"lucky", "unless special"}, At(w, op), Fails(w, Unchanged)
        PROVE  Moves(c, w)
    <3>1. WorkerInv(c, DidNot(me, Unchanged))
      BY <1>1, <2>2, AtIs, SpoiltKeeps
    <3> QED
      BY <2>2, <3>1, FailsMoves
  <2> QED
    BY <1>7, <2>1, <2>2 DEF Monkey
<1>8. CASE Await(w)
  <2>1. Here(me, Awaits)
    BY <1>8, AtIs DEF Await, Here, Awaits
  <2>2. WorkerInv(c, [me EXCEPT !.waiting = TRUE])
    BY <1>1, <2>1, AwaitKeeps
  <2>3. worker' = [worker EXCEPT ![w] = [me EXCEPT !.waiting = TRUE]]
    BY <1>8 DEF Await
  <2> QED
    BY <2>2, <2>3 DEF Moves
<1>9. CASE Poll(w)
  BY <1>1, <1>9, AtIs, IdleKeeps, DoneMoves DEF Poll
<1>10. CASE Send(w)
  <2>1. PICK op \in Sends : Here(me, {op})
    BY <1>10, AtIs DEF Send, Sends
  <2>2. CASE Done(w, Unchanged)
    BY <1>1, <2>1, <2>2, IdleKeeps, DoneMoves DEF Sends
  <2>3. CASE ~(me.request = "started" /\ me.exit = "") /\ Fails(w, [due |-> TRUE])
    <3>1. WorkerInv(c, DidNot(me, [due |-> TRUE]))
      BY <1>1, <2>1, <2>3, SendRefusedKeeps
    <3> QED
      BY <2>3, <3>1, FailsMoves
  <2> QED
    BY <1>10, <2>2, <2>3 DEF Send
<1>11. CASE Stop(w)
  <2>1. PICK op \in Stops : Here(me, {op})
    BY <1>11, AtIs DEF Stop, Stops
  <2>2. CASE Done(w, Unchanged)
    BY <1>1, <2>1, <2>2, StopOverKeeps, DoneMoves
  <2>3. CASE Done(w, [exit |-> "stopping"])
    BY <1>1, <2>1, <2>3, StopKeeps, DoneMoves
  <2>4. CASE Fails(w, [due |-> TRUE])
    BY <1>1, <2>1, <2>4, StopRefusedKeeps, FailsMoves
  <2> QED
    BY <1>11, <2>2, <2>3, <2>4 DEF Stop
<1>12. CASE Cancel(w)
  <2>1. PICK op \in Cancels : Here(me, {op})
    BY <1>12, AtIs DEF Cancel, Cancels
  <2> DEFINE late == me.request \in {"starting", "started", "over"}
  <2>2. late \in BOOLEAN
    OBVIOUS
  <2>3. Done(w, [exit |-> "cancelled", due |-> TRUE, late |-> late])
    BY <1>12 DEF Cancel
  <2> HIDE DEF late
  <2> QED
    BY <1>1, <2>1, <2>2, <2>3, CancelKeeps, DoneMoves
<1>13. CASE Idle(w)
  <2>1. CASE At(w, "stop nothing")
    <3>1. WorkerInv(c, Did(me, Unchanged))
      BY <1>1, <2>1, AtIs, IdleKeeps
    <3> QED
      BY <1>13, <3>1, DoneMoves DEF Idle
  <2>2. ASSUME NEW op \in {"stop or cancel or nothing", "stop nothing or cancel or nothing"},
               At(w, op)
        PROVE  Moves(c, w)
    <3>1. WorkerInv(c, Did(me, Unchanged))
      BY <1>1, <2>2, AtIs, ChoiceKeeps
    <3> QED
      BY <1>13, <3>1, DoneMoves DEF Idle
  <2> QED
    BY <1>13, <2>1, <2>2 DEF Idle
<1>14. CASE Release(w)
  BY <1>1, <1>14, AtIs, ReleaseKeeps, DoneMoves DEF Release
<1>15. CASE UnlessFailed(w)
  <2>1. Here(me, {"unless failed"})
    BY <1>15, AtIs DEF UnlessFailed
  <2>2. CASE Done(w, Unchanged)
    BY <1>1, <2>1, <2>2, IdleKeeps, DoneMoves
  <2>3. CASE May("failure") /\ Fails(w, Unchanged)
    <3>1. WorkerInv(c, DidNot(me, Unchanged))
      BY <1>1, <2>1, <2>3, SpoiltKeeps, MayIs
    <3> QED
      BY <2>3, <3>1, FailsMoves
  <2> QED
    BY <1>15, <2>2, <2>3 DEF UnlessFailed
<1>16. CASE Count(w)
  BY <1>1, <1>16, AtIs, IdleKeeps, DoneMoves DEF Count
<1> QED
  BY <1>2, <1>3, <1>4, <1>5, <1>6, <1>7, <1>8, <1>9, <1>10, <1>11, <1>12, <1>13, <1>14,
     <1>15, <1>16, JumpMoves, StartMoves DEF Work

LEMMA RefuseMoves ==
  ASSUME NEW c, NEW w, Situation(c, w), Refuse(w)
  PROVE  Moves(c, w)
<1>1. c.setup = setup /\ WorkerInv(c, worker[w])
  BY ContextIs DEF Situation
<1>2. PICK op \in Sends : Here(worker[w], {op})
  BY AtIs DEF Refuse, Sends
<1>3. WorkerInv(c, DidNot(worker[w], [due |-> TRUE]))
  BY <1>1, <1>2, SendRefusedKeeps, MayIs DEF Refuse
<1> QED
  BY <1>3, FailsMoves DEF Refuse

LEMMA ExpireMoves ==
  ASSUME NEW c, NEW w, Situation(c, w), Expire(w)
  PROVE  Moves(c, w)
<1>1. c.setup = setup /\ WorkerInv(c, worker[w])
  BY ContextIs DEF Situation
<1>2. PICK op \in Awaits : Here(worker[w], {op})
  BY <1>1 DEF Expire, WorkerInv, Fair, Here
<1>3. WorkerInv(c, DidNot(worker[w], [waiting |-> FALSE, due |-> TRUE]))
  BY <1>1, <1>2, ExpireKeeps, MayIs DEF Expire
<1> QED
  BY <1>3, FailsMoves DEF Expire

LEMMA EventMoves ==
  ASSUME NEW c, NEW w, Situation(c, w), Event(w)
  PROVE  Moves(c, w)
<1> DEFINE me == worker[w]
<1>1. c.setup = setup /\ WorkerInv(c, me) /\ Wakers(c.setup) /\ DOMAIN me = Fields
  BY ContextIs DEF Situation, WorkerInv, Typed
<1>2. CASE Told(w)
  <2>1. me.telling # "none" /\ worker' = [worker EXCEPT ![w] = Back(me)]
    BY <1>1, <1>2 DEF Told, Back, Situation, Fields
  <2> QED
    BY <1>1, <2>1, ToldKeeps DEF Moves
<1>3. ASSUME NEW cb \in DOMAIN Demos[setup.demo].on \ {"Message"}, Tell(w, cb)
      PROVE  Moves(c, w)
  <2>1. cb \in Cbs
    BY <1>1 DEF Wakers
  <2>2. Callable(c.setup, me, cb)
    <3>1. Possible(w, cb)
      BY <1>3 DEF Tell
    <3> QED
      BY <1>1, <2>1, <3>1, MayIs DEF Possible, Callable, Cbs
  <2> DEFINE wakes == "signal" \in On(cb) /\ me.waiting
  <2>5. worker' = [worker EXCEPT ![w] = Hears(me, cb, wakes)]
    BY <1>3 DEF Tell
  <2>6. wakes \in BOOLEAN
    OBVIOUS
  <2> HIDE DEF wakes
  <2>3. CASE wakes
    <3>1. worker' = [worker EXCEPT ![w] = Hears(me, cb, TRUE)]
      BY <2>5, <2>6, <2>3
    <3>2. WorkerInv(c, Hears(me, cb, TRUE))
      BY <1>1, <2>1, <2>2, <2>3, OnIs, WakesKeeps DEF wakes
    <3> QED
      BY <3>1, <3>2 DEF Moves
  <2>4. CASE ~wakes
    <3>1. worker' = [worker EXCEPT ![w] = Hears(me, cb, FALSE)]
      BY <2>5, <2>6, <2>4
    <3>2. WorkerInv(c, Hears(me, cb, FALSE))
      BY <1>1, <2>1, <2>2, HearsKeeps
    <3> QED
      BY <3>1, <3>2 DEF Moves
  <2> QED
    BY <2>3, <2>4
<1> QED
  BY <1>2, <1>3 DEF Event

(***************************************************************************)
(* The invariant of a run.                                                 *)
(***************************************************************************)
AllWorkers(c) == \A w \in Workers : WorkerInv(c, worker[w])

DemosInv ==
  /\ setup \in Setups /\ run \in BOOLEAN /\ main \in {"launching", "joining", "joined"}
  /\ DOMAIN worker = Workers
  /\ \E c \in Contexts(setup) : AllWorkers(c)

AllSound == \A s \in Setups : Sound(s)

LEMMA FreshKeeps ==
  ASSUME NEW s \in Setups, NEW c \in Contexts(s)
  PROVE  /\ WorkerInv(c, Fresh)
         /\ WorkerInv(c, [Fresh EXCEPT !.todo = Form(s).head])
<1>1. c.setup = s /\ Verified(c)
  BY ContextIs
<1>2. ASSUME NEW q, NEW f, f = [Fresh EXCEPT !.todo = q] \/ (f = Fresh /\ q = <<>>),
             Fits(c, q, {"none"})
      PROVE  WorkerInv(c, f)
  <2>1. Typed(s, f) /\ Fair(f) /\ f.todo = q /\ Meets(s, f, {"none"})
    BY <1>2, FreshTyped
  <2>2. {"none"} \in SUBSET Facts
    BY DEF Facts
  <2>3. Known(c, f)
    BY <1>1, <1>2, <2>1, <2>2 DEF Known
  <2> QED
    BY <1>1, <2>1, <2>3 DEF WorkerInv
<1>3. Fits(c, <<>>, {"none"})
  <2>1. FitsNext(c, <<>>, {"none"})
    BY DEF FitsNext
  <2>2. {"none"} \in SUBSET Facts /\ <<>> \in Seq(Instruction)
    BY DEF Facts
  <2> QED
    BY <2>1, <2>2, FitsIntro
<1>4. WorkerInv(c, Fresh)
  BY <1>2, <1>3
<1>5. Fits(c, Form(s).head, {"none"})
  BY <1>1 DEF Verified
<1> QED
  BY <1>2, <1>4, <1>5

LEMMA DemosInit ==
  ASSUME AllSound, Init
  PROVE  DemosInv
<1>1. PICK c \in Contexts(setup) : TRUE
  <2>1. setup \in Setups
    BY DEF Init
  <2> QED
    BY <2>1 DEF AllSound, Sound, Contexts
<1>2. WorkerInv(c, Fresh)
  BY <1>1, FreshKeeps DEF Init
<1> QED
  BY <1>1, <1>2 DEF Init, DemosInv, AllWorkers

LEMMA MoveKeeps ==
  ASSUME NEW c, NEW w \in Workers, DOMAIN worker = Workers, AllWorkers(c), Moves(c, w)
  PROVE  DOMAIN worker' = Workers /\ AllWorkers(c)'
<1>1. PICK f : WorkerInv(c, f) /\ worker' = [worker EXCEPT ![w] = f]
  BY DEF Moves
<1>2. DOMAIN worker' = Workers
  BY <1>1
<1>3. ASSUME NEW v \in Workers
      PROVE  WorkerInv(c, worker'[v])
  <2>1. CASE v = w
    <3>1. worker'[v] = f
      BY <1>1, <2>1
    <3> QED
      BY <1>1, <3>1
  <2>2. CASE v # w
    <3>1. worker'[v] = worker[v]
      BY <1>1, <2>2
    <3> QED
      BY <3>1 DEF AllWorkers
  <2> QED
    BY <2>1, <2>2
<1> QED
  BY <1>2, <1>3 DEF AllWorkers

LEMMA DemosStep ==
  ASSUME AllSound, DemosInv, [Next]_vars
  PROVE  DemosInv'
<1>1. PICK c \in Contexts(setup) : AllWorkers(c)
  BY DEF DemosInv
<1>2. /\ setup \in Setups /\ run \in BOOLEAN /\ main \in {"launching", "joining", "joined"}
      /\ DOMAIN worker = Workers
  BY DEF DemosInv
<1>3. CASE UNCHANGED vars
  <2>1. AllWorkers(c)'
    BY <1>1, <1>3 DEF AllWorkers, vars
  <2> QED
    BY <1>1, <1>2, <1>3, <2>1 DEF DemosInv, vars
<1>4. CASE Launch
  <2>1. WorkerInv(c, Fresh) /\ WorkerInv(c, [Fresh EXCEPT !.todo = Code.head])
    BY <1>1, <1>2, FreshKeeps DEF Code, Form
  <2>2. AllWorkers(c)'
    BY <1>4, <2>1 DEF Launch, AllWorkers
  <2> QED
    BY <1>1, <1>2, <1>4, <2>2 DEF Launch, DemosInv
<1>5. CASE Join \/ AutoClose \/ Interrupt
  <2>1. /\ setup' = setup /\ worker' = worker /\ run' \in BOOLEAN
        /\ main' \in {"launching", "joining", "joined"}
    BY <1>2, <1>5 DEF Join, AutoClose, Interrupt
  <2>2. AllWorkers(c)'
    BY <1>1, <2>1 DEF AllWorkers
  <2> QED
    BY <1>1, <1>2, <2>1, <2>2 DEF DemosInv
<1>6. ASSUME NEW w \in Workers, Work(w) \/ Refuse(w) \/ Expire(w) \/ Event(w)
      PROVE  DemosInv'
  <2>1. Situation(c, w)
    <3>1. Wakers(setup)
      BY <1>2 DEF AllSound, Sound
    <3> QED
      BY <1>1, <1>2, <3>1 DEF Situation, AllWorkers
  <2>2. Moves(c, w)
    BY <1>6, <2>1, WorkMoves, RefuseMoves, ExpireMoves, EventMoves
  <2>3. DOMAIN worker' = Workers /\ AllWorkers(c)'
    BY <1>1, <1>2, <2>2, MoveKeeps
  <2>4. setup' = setup /\ main' = main /\ run' \in BOOLEAN
    BY <1>2, <1>6 DEF Work, Refuse, Expire, Event, Jump, Open, NewParam, Forget, Create,
         Configure,
          Monkey, Start, Await, Poll, Send, Stop, Cancel, Idle, Release, UnlessFailed, Count,
          Told, Tell, Same
  <2> QED
    BY <1>1, <1>2, <2>3, <2>4 DEF DemosInv
<1> QED
  BY <1>3, <1>4, <1>5, <1>6 DEF Next

\* What the invariant says of a worker.
LEMMA WorkerIsFine ==
  ASSUME NEW c, NEW me, WorkerInv(c, me)
  PROVE  /\ me.todo \in Seq(Instruction)
         /\ me.todo # <<>> /\ Head(me.todo).do \in Uses => me.request # "none"
         /\ me.request # "none" => me.todo # <<>> /\ Head(me.todo).do # "create"
         /\ Waits(c.setup) /\ Here(me, {"release"})
            => me.request \in {"created", "closed"} \/ me.due
<1>1. me.todo \in Seq(Instruction)
  BY FitsTyped DEF WorkerInv, Known
<1>2. PICK F \in SUBSET Facts : FitsNext(c, me.todo, F) /\ Meets(c.setup, me, F)
  BY KnownNext DEF WorkerInv
<1>3. me.todo = <<>> => "none" \in F
  BY <1>2 DEF FitsNext
<1>4. me.todo # <<>> => Needs(c.setup, Head(me.todo).do, F)
  BY <1>2 DEF FitsNext
<1> QED
  BY <1>1, <1>2, <1>3, <1>4 DEF Needs, Meets, Here, Uses

LEMMA DemosAreFine ==
  ASSUME DemosInv
  PROVE  DemosTypeOK /\ ParamIsAlive /\ ReleasedOnce /\ ReleasesAreDue
<1>1. PICK c \in Contexts(setup) : AllWorkers(c)
  BY DEF DemosInv
<1>2. c.setup = setup
  BY <1>1, ContextIs
<1>3. ASSUME NEW w \in Workers
      PROVE  /\ worker[w].todo \in Seq(Instruction)
             /\ worker[w].todo # <<>> /\ Head(worker[w].todo).do \in Uses
                => worker[w].request # "none"
             /\ worker[w].request # "none"
                => worker[w].todo # <<>> /\ Head(worker[w].todo).do # "create"
             /\ Waits(setup) /\ At(w, "release")
                => worker[w].request \in {"created", "closed"} \/ worker[w].due
             /\ Typed(setup, worker[w]) /\ Fair(worker[w])
  <2>1. WorkerInv(c, worker[w])
    BY <1>1 DEF AllWorkers
  <2> QED
    BY <1>2, <2>1, WorkerIsFine, AtIs DEF WorkerInv
<1>4. DemosTypeOK
  <2>1. ASSUME NEW w \in Workers
        PROVE  worker[w].waiting => At(w, "await Started") \/ At(w, "await Closed")
    BY <1>3 DEF Fair, At, Awaits
  <2> QED
    BY <1>3, <2>1 DEF DemosInv, DemosTypeOK, Typed, Cbs, Instruction, Simple
<1>5. ParamIsAlive
  BY <1>3 DEF ParamIsAlive, Fair
<1>6. ReleasedOnce
  BY <1>3 DEF ReleasedOnce
<1>7. ReleasesAreDue
  BY <1>3 DEF ReleasesAreDue, Patient, Waits
<1> QED
  BY <1>4, <1>5, <1>6, <1>7

(***************************************************************************)
(* The rules as triples: from the facts F the instructions q bring the     *)
(* facts G.                                                                *)
(***************************************************************************)
Brings(c, F, q, G) ==
  /\ q \in Seq(Instruction)
  /\ \A r \in Seq(Instruction) : Fits(c, r, G) => Fits(c, q \o r, F)

LEMMA SimpleIs == Simple \subseteq Instruction
<1>1. <<>> \in Seq(Simple)
  OBVIOUS
<1> QED
  BY <1>1 DEF Simple, Instruction

LEMMA BringsNothing ==
  ASSUME NEW c, NEW F, NEW G, G \subseteq F
  PROVE  Brings(c, F, <<>>, G)
<1>1. \A r \in Seq(Instruction) : <<>> \o r = r
  BY ConcatEmptySeq
<1> QED
  BY <1>1, FitsMore DEF Brings

LEMMA BringsThen ==
  ASSUME NEW c, NEW F, NEW G, NEW H, NEW p, NEW q, Brings(c, F, p, G), Brings(c, G, q, H)
  PROVE  Brings(c, F, p \o q, H)
<1>1. p \in Seq(Instruction) /\ q \in Seq(Instruction)
  BY DEF Brings
<1>2. ASSUME NEW r \in Seq(Instruction), Fits(c, r, H)
      PROVE  Fits(c, (p \o q) \o r, F)
  <2>1. (p \o q) \o r = p \o (q \o r) /\ q \o r \in Seq(Instruction)
    BY <1>1, ConcatAssociative
  <2> QED
    BY <1>2, <2>1 DEF Brings
<1>3. p \o q \in Seq(Instruction)
  BY <1>1
<1> QED
  BY <1>2, <1>3 DEF Brings

LEMMA BringsLess ==
  ASSUME NEW c, NEW F, NEW G, NEW E, NEW H, NEW q, Brings(c, F, q, G),
         F \subseteq E, H \subseteq G
  PROVE  Brings(c, E, q, H)
BY FitsMore DEF Brings

LEMMA Pair ==
  ASSUME NEW S, NEW x \in S, NEW y \in S
  PROVE  <<x, y>> = <<x>> \o <<y>>
<1>1. <<x, y>> \in Seq(S) /\ <<x>> \in Seq(S) /\ <<y>> \in Seq(S)
  OBVIOUS
<1>2. <<x>> \o <<y>> \in Seq(S) /\ Len(<<x>> \o <<y>>) = 2
  BY <1>1
<1>3. \A i \in 1..2 : <<x, y>>[i] = (<<x>> \o <<y>>)[i]
  BY <1>1
<1> QED
  BY <1>1, <1>2, <1>3, SeqEqual

LEMMA Triple ==
  ASSUME NEW S, NEW x \in S, NEW y \in S, NEW z \in S
  PROVE  <<x, y, z>> = <<x>> \o <<y, z>>
<1>1. <<x, y, z>> \in Seq(S) /\ <<x>> \in Seq(S) /\ <<y, z>> \in Seq(S)
  OBVIOUS
<1>2. <<x>> \o <<y, z>> \in Seq(S) /\ Len(<<x>> \o <<y, z>>) = 3
  BY <1>1
<1>3. \A i \in 1..3 : <<x, y, z>>[i] = (<<x>> \o <<y, z>>)[i]
  BY <1>1
<1> QED
  BY <1>1, <1>2, <1>3, SeqEqual

LEMMA Quadruple ==
  ASSUME NEW S, NEW x \in S, NEW y \in S, NEW z \in S, NEW u \in S
  PROVE  <<x, y, z, u>> = <<x>> \o <<y, z, u>>
<1>1. <<x, y, z, u>> \in Seq(S) /\ <<x>> \in Seq(S) /\ <<y, z, u>> \in Seq(S)
  OBVIOUS
<1>2. <<x>> \o <<y, z, u>> \in Seq(S) /\ Len(<<x>> \o <<y, z, u>>) = 4
  BY <1>1
<1>3. \A i \in 1..4 : <<x, y, z, u>>[i] = (<<x>> \o <<y, z, u>>)[i]
  BY <1>1
<1> QED
  BY <1>1, <1>2, <1>3, SeqEqual

LEMMA SingleIs ==
  ASSUME NEW x, <<x>> \in Seq(Instruction)
  PROVE  x \in Instruction
<1>1. <<x>>[1] \in Instruction
  BY ElementOfSeq
<1> QED
  BY <1>1

LEMMA BringsTwo ==
  ASSUME NEW c, NEW F1, NEW F2, NEW F3, NEW x, NEW y,
         Brings(c, F1, <<x>>, F2), Brings(c, F2, <<y>>, F3)
  PROVE  Brings(c, F1, <<x, y>>, F3)
<1>1. x \in Instruction /\ y \in Instruction
  BY SingleIs DEF Brings
<1>2. <<x, y>> = <<x>> \o <<y>>
  BY <1>1, Pair
<1> QED
  BY <1>2, BringsThen

LEMMA BringsThree ==
  ASSUME NEW c, NEW F1, NEW F2, NEW F3, NEW F4, NEW x, NEW y, NEW z,
         Brings(c, F1, <<x>>, F2), Brings(c, F2, <<y>>, F3), Brings(c, F3, <<z>>, F4)
  PROVE  Brings(c, F1, <<x, y, z>>, F4)
<1>1. x \in Instruction /\ y \in Instruction /\ z \in Instruction
  BY SingleIs DEF Brings
<1>2. <<x, y, z>> = <<x>> \o <<y, z>>
  BY <1>1, Triple
<1>3. Brings(c, F2, <<y, z>>, F4)
  BY BringsTwo
<1> QED
  BY <1>2, <1>3, BringsThen

LEMMA BringsFour ==
  ASSUME NEW c, NEW F1, NEW F2, NEW F3, NEW F4, NEW F5, NEW x, NEW y, NEW z, NEW u,
         Brings(c, F1, <<x>>, F2), Brings(c, F2, <<y>>, F3), Brings(c, F3, <<z>>, F4),
         Brings(c, F4, <<u>>, F5)
  PROVE  Brings(c, F1, <<x, y, z, u>>, F5)
<1>1. x \in Instruction /\ y \in Instruction /\ z \in Instruction /\ u \in Instruction
  BY SingleIs DEF Brings
<1>2. <<x, y, z, u>> = <<x>> \o <<y, z, u>>
  BY <1>1, Quadruple
<1>3. Brings(c, F2, <<y, z, u>>, F5)
  BY BringsThree
<1> QED
  BY <1>2, <1>3, BringsThen

LEMMA Prefixed ==
  ASSUME NEW i \in Instruction, NEW r \in Seq(Instruction)
  PROVE  /\ Head(<<i>> \o r) = i /\ Tail(<<i>> \o r) = r
         /\ <<i>> \o r # <<>> /\ <<i>> \o r \in Seq(Instruction)
OBVIOUS

\* An instruction brings what comes after it, and what its failure leads to must bring that, too.
LEMMA BringsOne ==
  ASSUME NEW c, NEW i \in Instruction, i.do \notin Jumps, NEW F \in SUBSET Facts, NEW G,
         Needs(c.setup, i.do, F), G \subseteq After(c.setup, i.do, F),
         MayFail(c.setup, i.do, F) => Brings(c, Otherwise(i.do, F), i.else, G)
  PROVE  Brings(c, F, <<i>>, G)
<1>1. ASSUME NEW r \in Seq(Instruction), Fits(c, r, G)
      PROVE  Fits(c, <<i>> \o r, F)
  <2> DEFINE q == <<i>> \o r
  <2>1. Head(q) = i /\ Tail(q) = r /\ q # <<>> /\ q \in Seq(Instruction)
    BY Prefixed
  <2> HIDE DEF q
  <2>2. Fits(c, r, After(c.setup, i.do, F))
    BY <1>1, FitsMore
  <2>3. MayFail(c.setup, i.do, F) => Fits(c, i.else \o r, Otherwise(i.do, F))
    BY <1>1 DEF Brings
  <2>4. FitsNext(c, q, F)
    BY <2>1, <2>2, <2>3 DEF FitsNext, Jumps
  <2>5. Fits(c, q, F)
    BY <2>1, <2>4, FitsIntro
  <2> QED
    BY <2>5 DEF q
<1>2. <<i>> \in Seq(Instruction)
  OBVIOUS
<1> QED
  BY <1>1, <1>2 DEF Brings

\* A jump brings anything.
LEMMA BringsJump ==
  ASSUME NEW c, NEW i \in Instruction, i.do \in Jumps \ {"skip"}, NEW F \in SUBSET Facts, NEW G,
         i.do \in {"enter", "next", "continue"} => c.loop \subseteq F,
         i.do \in {"next", "continue", "break"} => c.tail \subseteq F,
         i.do = "return" => "none" \in F
  PROVE  Brings(c, F, <<i>>, G)
<1>1. ASSUME NEW r \in Seq(Instruction)
      PROVE  Fits(c, <<i>> \o r, F)
  <2> DEFINE q == <<i>> \o r
  <2>1. Head(q) = i /\ Tail(q) = r /\ q # <<>> /\ q \in Seq(Instruction)
    BY Prefixed
  <2> HIDE DEF q
  <2>2. Needs(c.setup, i.do, F)
    BY DEF Needs, Jumps, Uses
  <2>3. FitsNext(c, q, F)
    BY <2>1, <2>2 DEF FitsNext, Jumps
  <2>4. Fits(c, q, F)
    BY <2>1, <2>3, FitsIntro
  <2> QED
    BY <2>4 DEF q
<1>2. <<i>> \in Seq(Instruction)
  OBVIOUS
<1> QED
  BY <1>1, <1>2 DEF Brings

\* Stop, and a wait that is skipped when stop is refused.
LEMMA BringsSkip ==
  ASSUME NEW c, NEW i \in Instruction, NEW j \in Instruction, NEW k \in Instruction,
         i.else = <<k>>, k.do = "skip", i.do \notin Jumps,
         NEW F \in SUBSET Facts, NEW G \in SUBSET Facts, NEW H \in SUBSET Facts,
         Needs(c.setup, i.do, F), G \subseteq After(c.setup, i.do, F),
         Brings(c, G, <<j>>, H), H \subseteq Otherwise(i.do, F)
  PROVE  Brings(c, F, <<i, j>>, H)
<1>1. ASSUME NEW r \in Seq(Instruction), Fits(c, r, H)
      PROVE  Fits(c, <<i, j>> \o r, F)
  <2> DEFINE jr == <<j>> \o r
  <2> DEFINE q == <<i>> \o jr
  <2> DEFINE kr == <<k>> \o jr
  <2>1. jr \in Seq(Instruction) /\ Tail(jr) = r /\ jr # <<>>
    BY Prefixed
  <2>2. Fits(c, jr, G)
    BY <1>1 DEF Brings
  <2> HIDE DEF jr
  <2>3. Head(q) = i /\ Tail(q) = jr /\ q # <<>> /\ q \in Seq(Instruction)
    BY <2>1, Prefixed
  <2>4. Head(kr) = k /\ Tail(kr) = jr /\ kr # <<>> /\ kr \in Seq(Instruction)
    BY <2>1, Prefixed
  <2>5. i.else \o jr = kr
    OBVIOUS
  <2> HIDE DEF q, kr
  <2> DEFINE E == Otherwise(i.do, F)
  <2>6. E \in SUBSET Facts
    BY AfterTyped
  <2>7. Fits(c, kr, E)
    <3> HIDE DEF E
    <3>1. Fits(c, r, E)
      BY <1>1, FitsMore DEF E
    <3>2. Needs(c.setup, k.do, E)
      BY DEF Needs, Uses
    <3>3. FitsNext(c, kr, E)
      BY <2>1, <2>4, <3>1, <3>2 DEF FitsNext, Jumps
    <3> QED
      BY <2>4, <2>6, <3>3, FitsIntro
  <2>8. Fits(c, jr, After(c.setup, i.do, F))
    BY <2>2, FitsMore
  <2>9. FitsNext(c, q, F)
    BY <2>3, <2>5, <2>7, <2>8 DEF FitsNext, Jumps
  <2>10. Fits(c, q, F)
    BY <2>3, <2>9, FitsIntro
  <2>11. <<i, j>> \o r = q
    <3>1. <<i, j>> = <<i>> \o <<j>>
      BY Pair
    <3>2. (<<i>> \o <<j>>) \o r = <<i>> \o (<<j>> \o r)
      BY ConcatAssociative
    <3> QED
      BY <3>1, <3>2 DEF q, jr
  <2> QED
    BY <2>10, <2>11
<1>2. <<i, j>> \in Seq(Instruction)
  OBVIOUS
<1> QED
  BY <1>1, <1>2 DEF Brings

(***************************************************************************)
(* The rules of the operations.                                            *)
(***************************************************************************)
Bare == {"param", "none"}
Asked == {"param", "request"}
Begun == Asked \cup {"answered"}
Ended == Asked \cup Given
Made == Ended \cup {"fresh"}
Opened == Asked \cup {"opening"}
Streaming == Begun \cup {"opening", "open"}

Plain == {"open", "vip", "single", "lucky", "unless special", "poll", "unless failed", "count",
          "stop nothing"}

LEMMA FactsAre ==
  /\ {"none"} \in SUBSET Facts /\ Bare \in SUBSET Facts /\ Asked \in SUBSET Facts
  /\ Begun \in SUBSET Facts /\ Ended \in SUBSET Facts /\ Made \in SUBSET Facts
  /\ Opened \in SUBSET Facts /\ Streaming \in SUBSET Facts
BY DEF Facts, Bare, Asked, Begun, Ended, Made, Opened, Streaming, Given

LEMMA PlainRule ==
  ASSUME NEW c, NEW i \in Instruction, i.do \in Plain, NEW F \in SUBSET Facts,
         MayFail(c.setup, i.do, F) => Brings(c, F, i.else, F)
  PROVE  Brings(c, F, <<i>>, F)
<1>1. After(c.setup, i.do, F) = F
  BY DEF After, Plain, Ends, Stops
<1>2. Otherwise(i.do, F) = F
  BY DEF Otherwise, Plain, Awaits, Sends, Stops
<1>3. Needs(c.setup, i.do, F) /\ i.do \notin Jumps
  BY DEF Needs, Plain, Uses, Jumps
<1> QED
  BY <1>1, <1>2, <1>3, BringsOne

LEMMA ParamRule ==
  ASSUME NEW c, NEW i \in Instruction, i.do = "param"
  PROVE  Brings(c, {"none"}, <<i>>, Bare)
<1>1. After(c.setup, i.do, {"none"}) = Bare
  BY DEF After, Bare, Ends, Stops
<1>2. ~MayFail(c.setup, i.do, {"none"}) /\ Needs(c.setup, i.do, {"none"}) /\ i.do \notin Jumps
  BY DEF MayFail, Awaits, Sends, Stops, Needs, Uses, Jumps
<1> QED
  BY <1>1, <1>2, FactsAre, BringsOne

LEMMA ForgetRule ==
  ASSUME NEW c, NEW i \in Instruction, i.do = "forget"
  PROVE  Brings(c, Bare, <<i>>, {"none"})
<1>1. After(c.setup, i.do, Bare) = {"none"}
  BY DEF After, Bare, Ends, Stops
<1>2. ~MayFail(c.setup, i.do, Bare) /\ Needs(c.setup, i.do, Bare) /\ i.do \notin Jumps
  BY DEF MayFail, Awaits, Sends, Stops, Needs, Uses, Jumps, Bare
<1> QED
  BY <1>1, <1>2, FactsAre, BringsOne

LEMMA CreateRule ==
  ASSUME NEW c, NEW i \in Instruction, i.do = "create", Brings(c, Bare, i.else, Made)
  PROVE  Brings(c, Bare, <<i>>, Made)
<1>1. After(c.setup, i.do, Bare) = Made
  BY DEF After, Bare, Made, Asked, Ended, Given, Ends, Stops
<1>2. Otherwise(i.do, Bare) = Bare
  BY DEF Otherwise, Awaits, Sends, Stops
<1>3. Needs(c.setup, i.do, Bare) /\ i.do \notin Jumps
  BY DEF Needs, Uses, Jumps, Bare
<1> QED
  BY <1>1, <1>2, <1>3, FactsAre, BringsOne

LEMMA StartRule ==
  ASSUME NEW c, NEW i \in Instruction, i.do = "start", NEW F \in {Made, Ended},
         F = Ended \/ Occurs(c.setup, "start") => Brings(c, Ended, i.else, Asked)
  PROVE  Brings(c, F, <<i>>, Asked)
<1>1. Asked \subseteq After(c.setup, i.do, F)
  BY DEF After, Made, Asked, Ended, Given
<1>2. Ended \subseteq Otherwise(i.do, F)
  BY DEF Otherwise, Made, Asked, Ended
<1>3. Needs(c.setup, i.do, F) /\ i.do \notin Jumps
  BY DEF Needs, Uses, Jumps, Made, Asked, Ended
<1>4. MayFail(c.setup, i.do, F) => F = Ended \/ Occurs(c.setup, "start")
  BY DEF MayFail, Awaits, Sends, Stops, Made
<1>5. MayFail(c.setup, i.do, F) => Brings(c, Otherwise(i.do, F), i.else, Asked)
  BY <1>2, <1>4, BringsLess
<1> QED
  BY <1>1, <1>3, <1>5, FactsAre, BringsOne

LEMMA StartCalm ==
  ASSUME NEW c, Calm(c.setup), NEW i \in Instruction, i.do = "start", NEW F \in {Made, Ended},
         Brings(c, Ended, i.else, Opened)
  PROVE  Brings(c, F, <<i>>, Opened)
<1>1. Opened \subseteq After(c.setup, i.do, F)
  <2>1. After(c.setup, i.do, F) = (F \cap {"param", "request"}) \cup {"opening"}
    BY DEF After, Ends, Stops
  <2> QED
    BY <2>1 DEF Made, Asked, Ended, Opened
<1>2. Ended \subseteq Otherwise(i.do, F)
  BY DEF Otherwise, Made, Asked, Ended
<1>3. Needs(c.setup, i.do, F) /\ i.do \notin Jumps
  BY DEF Needs, Uses, Jumps, Made, Asked, Ended
<1>4. Brings(c, Otherwise(i.do, F), i.else, Opened)
  BY <1>2, BringsLess
<1> QED
  BY <1>1, <1>3, <1>4, FactsAre, BringsOne

LEMMA AwaitStartedRule ==
  ASSUME NEW c, NEW i \in Instruction, i.do = "await Started",
         Occurs(c.setup, "silence") => Brings(c, Ended, i.else, Begun)
  PROVE  Brings(c, Asked, <<i>>, Begun)
<1>1. Begun \subseteq After(c.setup, i.do, Asked)
  <2>1. {"answered"} \cup Asked \subseteq After(c.setup, i.do, Asked)
    BY DEF After, Ends, Stops
  <2> QED
    BY <2>1 DEF Begun
<1>2. Otherwise(i.do, Asked) = Ended
  BY DEF Otherwise, Ended, Awaits
<1>3. Needs(c.setup, i.do, Asked) /\ i.do \notin Jumps
  BY DEF Needs, Uses, Jumps, Asked
<1>4. MayFail(c.setup, i.do, Asked) => Occurs(c.setup, "silence")
  BY DEF MayFail, Awaits, Sends, Stops
<1> QED
  BY <1>1, <1>2, <1>3, <1>4, FactsAre, BringsOne

LEMMA AwaitStartedCalm ==
  ASSUME NEW c, NEW i \in Instruction, i.do = "await Started",
         Brings(c, Ended, i.else, Streaming)
  PROVE  Brings(c, Opened, <<i>>, Streaming)
<1>1. Streaming \subseteq After(c.setup, i.do, Opened)
  <2>1. "opening" \in Opened
    BY DEF Opened
  <2>2. After(c.setup, i.do, Opened) = Opened \cup {"answered"} \cup {"open"}
    BY <2>1 DEF After, Ends, Stops
  <2> QED
    BY <2>2 DEF Opened, Begun, Streaming
<1>2. Ended \subseteq Otherwise(i.do, Opened)
  BY DEF Otherwise, Ended, Awaits, Opened
<1>3. Needs(c.setup, i.do, Opened) /\ i.do \notin Jumps
  BY DEF Needs, Uses, Jumps, Asked, Opened
<1>4. Brings(c, Otherwise(i.do, Opened), i.else, Streaming)
  BY <1>2, BringsLess
<1> QED
  BY <1>1, <1>3, <1>4, FactsAre, BringsOne

LEMMA AwaitClosedRule ==
  ASSUME NEW c, NEW i \in Instruction, i.do = "await Closed", NEW F \in {Asked, Begun},
         F = Begun \/ "signal" \notin Listens(c.setup, "Started"),
         Occurs(c.setup, "silence") => Brings(c, Ended, i.else, Ended)
  PROVE  Brings(c, F, <<i>>, Ended)
<1>1. Ended \subseteq After(c.setup, i.do, F)
  BY DEF After, Asked, Begun, Ended, Ends, Stops
<1>2. Ended \subseteq Otherwise(i.do, F)
  BY DEF Otherwise, Ended, Asked, Begun, Awaits
<1>3. Needs(c.setup, i.do, F) /\ i.do \notin Jumps
  BY DEF Needs, Uses, Jumps, Asked, Begun
<1>4. MayFail(c.setup, i.do, F) => Occurs(c.setup, "silence")
  BY DEF MayFail, Awaits, Sends, Stops
<1>5. MayFail(c.setup, i.do, F) => Brings(c, Otherwise(i.do, F), i.else, Ended)
  BY <1>2, <1>4, BringsLess
<1> QED
  BY <1>1, <1>3, <1>5, FactsAre, BringsOne

LEMMA SendRule ==
  ASSUME NEW c, NEW i \in Instruction, i.do \in Sends, NEW F \in {Asked, Begun},
         Brings(c, Ended, i.else, F)
  PROVE  Brings(c, F, <<i>>, F)
<1>1. After(c.setup, i.do, F) = F
  BY DEF After, Sends, Ends, Stops
<1>2. Ended \subseteq Otherwise(i.do, F)
  BY DEF Otherwise, Ended, Asked, Begun, Sends
<1>3. Needs(c.setup, i.do, F) /\ i.do \notin Jumps
  BY DEF Needs, Uses, Jumps, Asked, Begun, Sends
<1>4. Brings(c, Otherwise(i.do, F), i.else, F)
  BY <1>2, BringsLess
<1> QED
  BY <1>1, <1>3, <1>4, FactsAre, BringsOne

LEMMA SendCalm ==
  ASSUME NEW c, ~Occurs(c.setup, "refuse"), NEW i \in Instruction, i.do \in Sends
  PROVE  Brings(c, Streaming, <<i>>, Streaming)
<1>1. After(c.setup, i.do, Streaming) = Streaming
  BY DEF After, Sends, Ends, Stops
<1>2. Needs(c.setup, i.do, Streaming) /\ i.do \notin Jumps
  BY DEF Needs, Uses, Jumps, Asked, Begun, Streaming, Sends
<1>3. ~MayFail(c.setup, i.do, Streaming)
  BY DEF MayFail, Awaits, Sends, Stops, Streaming
<1> QED
  BY <1>1, <1>2, <1>3, FactsAre, BringsOne

LEMMA EndRule ==
  ASSUME NEW c, NEW i \in Instruction, i.do \in Ends, i.else = <<>>
  PROVE  Brings(c, Asked, <<i>>, Asked)
<1>1. After(c.setup, i.do, Asked) = Asked
  BY DEF After, Asked, Ends, Stops
<1>2. Asked \subseteq Otherwise(i.do, Asked)
  BY DEF Otherwise
<1>3. Needs(c.setup, i.do, Asked) /\ i.do \notin Jumps
  BY DEF Needs, Uses, Jumps, Asked, Ends, Stops
<1>4. Brings(c, Otherwise(i.do, Asked), i.else, Asked)
  BY <1>2, BringsNothing
<1> QED
  BY <1>1, <1>3, <1>4, FactsAre, BringsOne

LEMMA CancelRule ==
  ASSUME NEW c, NEW i \in Instruction, i.do = "cancel", NEW F \in {Asked, Ended}
  PROVE  Brings(c, F, <<i>>, Ended)
<1>1. Ended \subseteq After(c.setup, i.do, F)
  BY DEF After, Asked, Ended, Given, Ends, Stops
<1>2. Needs(c.setup, i.do, F) /\ i.do \notin Jumps
  BY DEF Needs, Uses, Jumps, Asked, Ended
<1>3. ~MayFail(c.setup, i.do, F)
  BY DEF MayFail, Awaits, Sends, Stops
<1> QED
  BY <1>1, <1>2, <1>3, FactsAre, BringsOne

LEMMA ReleaseRule ==
  ASSUME NEW c, NEW i \in Instruction, i.do = "release", NEW F \in {Asked, Ended},
         F = Ended \/ ~Waits(c.setup)
  PROVE  Brings(c, F, <<i>>, Bare)
<1>1. After(c.setup, i.do, F) = Bare
  BY DEF After, Asked, Ended, Given, Bare, Ends, Stops
<1>2. Needs(c.setup, i.do, F) /\ i.do \notin Jumps
  BY DEF Needs, Uses, Jumps, Asked, Ended, Given
<1>3. ~MayFail(c.setup, i.do, F)
  BY DEF MayFail, Awaits, Sends, Stops
<1> QED
  BY <1>1, <1>2, <1>3, FactsAre, BringsOne

LEMMA StopAndWaitRule ==
  ASSUME NEW c, NEW i \in Instruction, i.do = "stop", NEW k \in Instruction, i.else = <<k>>,
         k.do = "skip", NEW j \in Instruction, j.do = "await Closed",
         NEW F \in {Asked, Begun, Streaming},
         F # Asked \/ "signal" \notin Listens(c.setup, "Started"),
         Occurs(c.setup, "silence") => Brings(c, Ended, j.else, Ended)
  PROVE  Brings(c, F, <<i, j>>, Ended)
<1> DEFINE G == IF F = Asked THEN Asked ELSE Begun
<1>1. G \subseteq After(c.setup, i.do, F)
  BY DEF After, Asked, Begun, Streaming, Ends, Stops
<1>2. Ended \subseteq Otherwise(i.do, F)
  BY DEF Otherwise, Ended, Asked, Begun, Streaming, Stops
<1>3. Needs(c.setup, i.do, F) /\ i.do \notin Jumps
  BY DEF Needs, Uses, Jumps, Asked, Begun, Streaming
<1>4. Brings(c, G, <<j>>, Ended)
  BY AwaitClosedRule
<1>5. G \in SUBSET Facts /\ F \in SUBSET Facts
  BY FactsAre
<1> HIDE DEF G
<1> QED
  BY <1>1, <1>2, <1>3, <1>4, <1>5, FactsAre, BringsSkip

(***************************************************************************)
(* What the programs are made of.                                          *)
(***************************************************************************)
LEMMA StepIs ==
  ASSUME NEW a \in Operations
  PROVE  Step(a) \in Instruction /\ Step(a) \in Simple /\ Step(a).do = a /\ Step(a).else = <<>>
<1>1. Step(a) \in Simple /\ Step(a).do = a /\ Step(a).else = <<>>
  BY DEF Step, Simple
<1> QED
  BY <1>1, SimpleIs

LEMMA OrIs ==
  ASSUME NEW a \in Operations, NEW e \in Seq(Operations)
  PROVE  Or(a, e) \in Instruction /\ Or(a, e).do = a /\ Or(a, e).else = Steps(e)
<1>1. DOMAIN e = 1..Len(e) /\ Len(e) \in Nat /\ \A i \in DOMAIN e : Step(e[i]) \in Simple
  BY StepIs
<1>2. Steps(e) \in Seq(Simple)
  BY <1>1 DEF Steps
<1> QED
  BY <1>2 DEF Or, Instruction

LEMMA StepsNothing == Steps(<<>>) = <<>>
BY DEF Steps

LEMMA StepsOne ==
  ASSUME NEW a
  PROVE  Steps(<<a>>) = <<Step(a)>>
BY DEF Steps

LEMMA StepsTwo ==
  ASSUME NEW c, NEW F1, NEW F2, NEW F3, NEW a, NEW b,
         Brings(c, F1, <<Step(a)>>, F2), Brings(c, F2, <<Step(b)>>, F3)
  PROVE  Brings(c, F1, Steps(<<a, b>>), F3)
<1>1. Steps(<<a, b>>) = <<Step(a), Step(b)>>
  BY DEF Steps
<1>2. Brings(c, F1, <<Step(a), Step(b)>>, F3)
  BY BringsTwo
<1> QED
  BY <1>1, <1>2

LEMMA StepsThree ==
  ASSUME NEW c, NEW F1, NEW F2, NEW F3, NEW F4, NEW a, NEW b, NEW d,
         Brings(c, F1, <<Step(a)>>, F2), Brings(c, F2, <<Step(b)>>, F3),
         Brings(c, F3, <<Step(d)>>, F4)
  PROVE  Brings(c, F1, Steps(<<a, b, d>>), F4)
<1>1. Steps(<<a, b, d>>) = <<Step(a), Step(b), Step(d)>>
  BY DEF Steps
<1>2. Brings(c, F1, <<Step(a), Step(b), Step(d)>>, F4)
  BY BringsThree
<1> QED
  BY <1>1, <1>2

LEMMA StepsFour ==
  ASSUME NEW c, NEW F1, NEW F2, NEW F3, NEW F4, NEW F5, NEW a, NEW b, NEW d, NEW e,
         Brings(c, F1, <<Step(a)>>, F2), Brings(c, F2, <<Step(b)>>, F3),
         Brings(c, F3, <<Step(d)>>, F4), Brings(c, F4, <<Step(e)>>, F5)
  PROVE  Brings(c, F1, Steps(<<a, b, d, e>>), F5)
<1>1. Steps(<<a, b, d, e>>) = <<Step(a), Step(b), Step(d), Step(e)>>
  BY DEF Steps
<1>2. Brings(c, F1, <<Step(a), Step(b), Step(d), Step(e)>>, F5)
  BY BringsFour
<1> QED
  BY <1>1, <1>2

\* the context of a program that makes a request in each round, and of one that keeps it
Short(c) == c.loop = Bare /\ c.tail = Bare
Long(c) == c.loop = Ended /\ c.tail = Ended

LEMMA ShortJump ==
  ASSUME NEW c, Short(c), NEW a \in {"enter", "next", "continue", "break", "return"}, NEW G
  PROVE  Brings(c, Bare, <<Step(a)>>, G)
<1>1. Step(a) \in Instruction /\ Step(a).do = a
  BY StepIs DEF Operations
<1>2. a \in Jumps \ {"skip"} /\ "none" \in Bare
  BY DEF Jumps, Bare
<1> QED
  BY <1>1, <1>2, FactsAre, BringsJump DEF Short

LEMMA LongJump ==
  ASSUME NEW c, Long(c), NEW a \in {"enter", "next", "continue", "break"}, NEW G,
         NEW F \in {Ended, Made}
  PROVE  Brings(c, F, <<Step(a)>>, G)
<1>1. Step(a) \in Instruction /\ Step(a).do = a
  BY StepIs DEF Operations
<1>2. a \in Jumps \ {"skip"} /\ Ended \subseteq F
  BY DEF Jumps, Made
<1> QED
  BY <1>1, <1>2, FactsAre, BringsJump DEF Long

LEMMA ReturnJump ==
  ASSUME NEW c, NEW G
  PROVE  Brings(c, {"none"}, <<Step("return")>>, G)
<1>1. Step("return") \in Instruction /\ Step("return").do = "return"
  BY StepIs DEF Operations
<1> QED
  BY <1>1, FactsAre, BringsJump DEF Jumps

LEMMA CountStep ==
  ASSUME NEW c, NEW F \in SUBSET Facts
  PROVE  Brings(c, F, <<Step("count")>>, F)
<1>1. Step("count") \in Instruction /\ Step("count").do = "count"
  BY StepIs DEF Operations
<1>2. ~MayFail(c.setup, "count", F)
  BY DEF MayFail, Awaits, Sends, Stops
<1> QED
  BY <1>1, <1>2, PlainRule DEF Plain

LEMMA ForgetStep ==
  ASSUME NEW c
  PROVE  Brings(c, Bare, <<Step("forget")>>, {"none"})
BY StepIs, ForgetRule DEF Operations

LEMMA ParamStep ==
  ASSUME NEW c
  PROVE  Brings(c, {"none"}, <<Step("param")>>, Bare)
BY StepIs, ParamRule DEF Operations

LEMMA ReleaseStep ==
  ASSUME NEW c, NEW F \in {Asked, Ended}, F = Ended \/ ~Waits(c.setup)
  PROVE  Brings(c, F, <<Step("release")>>, Bare)
<1>1. Step("release") \in Instruction /\ Step("release").do = "release"
  BY StepIs DEF Operations
<1> QED
  BY <1>1, ReleaseRule

LEMMA CancelStep ==
  ASSUME NEW c, NEW F \in {Asked, Ended}
  PROVE  Brings(c, F, <<Step("cancel")>>, Ended)
<1>1. Step("cancel") \in Instruction /\ Step("cancel").do = "cancel"
  BY StepIs DEF Operations
<1> QED
  BY <1>1, CancelRule

LEMMA EnoughKnown ==
  ASSUME NEW c, NEW q, NEW G, Brings(c, Ended, q, G)
  PROVE  Brings(c, Made, q, G)
<1>1. Ended \subseteq Made
  BY DEF Made
<1> QED
  BY <1>1, BringsLess

(***************************************************************************)
(* Their ends: what a failure leads to, and how a round ends.              *)
(***************************************************************************)
LEMMA ShortEnds ==
  ASSUME NEW c, Short(c), NEW G
  PROVE  /\ Brings(c, Ended, Steps(Leave), G)
         /\ Brings(c, Ended, Steps(<<"release", "continue">>), G)
         /\ Brings(c, Ended, Steps(GiveUp), G)
         /\ Brings(c, Ended, NextRound, G)
         /\ Brings(c, Bare, Steps(<<"break">>), G)
         /\ Brings(c, Bare, Steps(<<"return">>), G)
         /\ Brings(c, Bare, Steps(<<"forget", "return">>), G)
         /\ Brings(c, {"none"}, Steps(<<"return">>), G)
<1>1. Brings(c, Ended, <<Step("release")>>, Bare)
  BY ReleaseStep
<1>2. /\ Brings(c, Bare, <<Step("break")>>, G) /\ Brings(c, Bare, <<Step("continue")>>, G)
      /\ Brings(c, Bare, <<Step("next")>>, G) /\ Brings(c, Bare, <<Step("return")>>, G)
  BY ShortJump
<1>3. Brings(c, Ended, <<Step("cancel")>>, Ended)
  BY CancelStep
<1>4. Brings(c, Bare, <<Step("count")>>, Bare)
  BY CountStep, FactsAre
<1>5. Brings(c, Bare, <<Step("forget")>>, {"none"}) /\ Brings(c, {"none"}, <<Step("return")>>, G)
  BY ForgetStep, ReturnJump
<1>6. Brings(c, Ended, Steps(Leave), G) /\ Brings(c, Ended, Steps(<<"release", "continue">>), G)
  BY <1>1, <1>2, StepsTwo DEF Leave
<1>7. Brings(c, Ended, Steps(GiveUp), G)
  BY <1>1, <1>2, <1>3, StepsThree DEF GiveUp
<1>8. Brings(c, Ended, NextRound, G)
  BY <1>1, <1>2, <1>4, StepsThree DEF NextRound
<1>9. Brings(c, Bare, Steps(<<"forget", "return">>), G)
  BY <1>5, StepsTwo
<1> QED
  BY <1>2, <1>5, <1>6, <1>7, <1>8, <1>9, StepsOne

LEMMA LongEnds ==
  ASSUME NEW c, Long(c), NEW G
  PROVE  /\ Brings(c, Ended, Steps(<<"break">>), G)
         /\ Brings(c, Ended, Steps(<<"cancel", "break">>), G)
         /\ Brings(c, Ended, Steps(<<"count", "next">>), G)
         /\ Brings(c, Bare, Steps(<<"forget", "return">>), G)
         /\ Brings(c, Ended, Steps(<<"release", "forget">>), {"none"})
<1>1. Brings(c, Ended, <<Step("break")>>, G) /\ Brings(c, Ended, <<Step("next")>>, G)
  BY LongJump
<1>2. Brings(c, Ended, <<Step("cancel")>>, Ended)
  BY CancelStep
<1>3. Brings(c, Ended, <<Step("count")>>, Ended)
  BY CountStep, FactsAre
<1>4. Brings(c, Bare, <<Step("forget")>>, {"none"}) /\ Brings(c, {"none"}, <<Step("return")>>, G)
  BY ForgetStep, ReturnJump
<1>5. Brings(c, Ended, <<Step("release")>>, Bare)
  BY ReleaseStep
<1>6. Brings(c, Ended, Steps(<<"cancel", "break">>), G)
  BY <1>1, <1>2, StepsTwo
<1>7. Brings(c, Ended, Steps(<<"count", "next">>), G)
  BY <1>1, <1>3, StepsTwo
<1>8. Brings(c, Bare, Steps(<<"forget", "return">>), G)
  BY <1>4, StepsTwo
<1>9. Brings(c, Ended, Steps(<<"release", "forget">>), {"none"})
  BY <1>4, <1>5, StepsTwo
<1> QED
  BY <1>1, <1>6, <1>7, <1>8, <1>9, StepsOne

(***************************************************************************)
(* Their other parts.                                                      *)
(***************************************************************************)
LEMMA BringsThreeParts ==
  ASSUME NEW c, NEW F1, NEW F2, NEW F3, NEW F4, NEW p, NEW q, NEW r,
         Brings(c, F1, p, F2), Brings(c, F2, q, F3), Brings(c, F3, r, F4)
  PROVE  Brings(c, F1, p \o q \o r, F4)
<1>1. Brings(c, F1, p \o q, F3)
  BY BringsThen
<1> QED
  BY <1>1, BringsThen

LEMMA BringsFourParts ==
  ASSUME NEW c, NEW F1, NEW F2, NEW F3, NEW F4, NEW F5, NEW p, NEW q, NEW r, NEW t,
         Brings(c, F1, p, F2), Brings(c, F2, q, F3), Brings(c, F3, r, F4), Brings(c, F4, t, F5)
  PROVE  Brings(c, F1, p \o q \o r \o t, F5)
<1>1. Brings(c, F1, p \o q \o r, F4)
  BY BringsThreeParts
<1> QED
  BY <1>1, BringsThen

LEMMA OpenHead ==
  ASSUME NEW c, Short(c), NEW a \in {"enter", "next"}
  PROVE  Brings(c, {"none"}, <<Or("open", <<"return">>), Step("param"), Step(a)>>, {"none"})
<1>1. "open" \in Operations /\ <<"return">> \in Seq(Operations)
  BY DEF Operations
<1>2. Brings(c, {"none"}, Steps(<<"return">>), {"none"})
  BY ShortEnds
<1>3. Brings(c, {"none"}, <<Or("open", <<"return">>)>>, {"none"})
  <2>1. /\ Or("open", <<"return">>) \in Instruction /\ Or("open", <<"return">>).do = "open"
        /\ Or("open", <<"return">>).else = Steps(<<"return">>)
    BY <1>1, OrIs
  <2> QED
    BY <1>2, <2>1, FactsAre, PlainRule DEF Plain
<1>4. Brings(c, {"none"}, <<Step("param")>>, Bare)
  BY ParamStep
<1>5. Brings(c, Bare, <<Step(a)>>, {"none"})
  BY ShortJump
<1> QED
  BY <1>3, <1>4, <1>5, BringsThree

LEMMA ParamHead ==
  ASSUME NEW c, Short(c)
  PROVE  Brings(c, {"none"}, Steps(<<"param", "next">>), {"none"})
<1>1. Brings(c, {"none"}, <<Step("param")>>, Bare)
  BY ParamStep
<1>2. Brings(c, Bare, <<Step("next")>>, {"none"})
  BY ShortJump
<1> QED
  BY <1>1, <1>2, StepsTwo

LEMMA CreateOr ==
  ASSUME NEW c, NEW e \in Seq(Operations), Brings(c, Bare, Steps(e), Made)
  PROVE  Brings(c, Bare, <<Or("create", e)>>, Made)
<1>1. "create" \in Operations
  BY DEF Operations
<1> QED
  BY <1>1, OrIs, CreateRule

LEMMA KeepHead ==
  ASSUME NEW c, Long(c), NEW a \in {"enter", "next"}
  PROVE  Brings(c, {"none"}, <<Step("param"), Or("create", <<"forget", "return">>), Step(a)>>,
                {"none"})
<1>1. Brings(c, {"none"}, <<Step("param")>>, Bare)
  BY ParamStep
<1>2. Brings(c, Bare, <<Or("create", <<"forget", "return">>)>>, Made)
  <2>1. <<"forget", "return">> \in Seq(Operations)
    BY DEF Operations
  <2>2. Brings(c, Bare, Steps(<<"forget", "return">>), Made)
    BY LongEnds
  <2> QED
    BY <2>1, <2>2, CreateOr
<1>3. Brings(c, Made, <<Step(a)>>, {"none"})
  BY LongJump
<1> QED
  BY <1>1, <1>2, <1>3, BringsThree

LEMMA VipOr ==
  ASSUME NEW c, ~Occurs(c.setup, "vip")
  PROVE  Brings(c, Made, <<Or("vip", <<"break">>)>>, Made)
<1>1. "vip" \in Operations /\ <<"break">> \in Seq(Operations)
  BY DEF Operations
<1>2. Or("vip", <<"break">>) \in Instruction /\ Or("vip", <<"break">>).do = "vip"
  BY <1>1, OrIs
<1>3. ~MayFail(c.setup, "vip", Made)
  BY DEF MayFail, Awaits, Sends, Stops
<1> QED
  BY <1>2, <1>3, FactsAre, PlainRule DEF Plain

LEMMA SingleOr ==
  ASSUME NEW c
  PROVE  Brings(c, Made, <<Or("single", Leave)>>, Made)
<1>1. "single" \in Operations /\ Leave \in Seq(Operations)
  BY DEF Operations, Leave
<1>2. Or("single", Leave) \in Instruction /\ Or("single", Leave).do = "single"
  BY <1>1, OrIs
<1>3. ~MayFail(c.setup, "single", Made)
  BY DEF MayFail, Awaits, Sends, Stops
<1> QED
  BY <1>2, <1>3, FactsAre, PlainRule DEF Plain

LEMMA StartOr ==
  ASSUME NEW c, NEW e \in Seq(Operations), NEW F \in {Made, Ended},
         F = Ended \/ Occurs(c.setup, "start") => Brings(c, Ended, Steps(e), Asked)
  PROVE  Brings(c, F, <<Or("start", e)>>, Asked)
<1>1. "start" \in Operations
  BY DEF Operations
<1> QED
  BY <1>1, OrIs, StartRule

LEMMA StartWait ==
  ASSUME NEW c, NEW e \in Seq(Operations), NEW d \in Seq(Operations), NEW F \in {Made, Ended},
         Brings(c, Ended, Steps(e), Asked),
         Occurs(c.setup, "silence") => Brings(c, Ended, Steps(d), Begun)
  PROVE  Brings(c, F, StartAndWait(e, d), Begun)
<1>1. Brings(c, F, <<Or("start", e)>>, Asked)
  BY StartOr
<1>2. "await Started" \in Operations
  BY DEF Operations
<1>3. Brings(c, Asked, <<Or("await Started", d)>>, Begun)
  BY <1>2, OrIs, AwaitStartedRule
<1> QED
  BY <1>1, <1>3, BringsTwo DEF StartAndWait

LEMMA StartWaitCalm ==
  ASSUME NEW c, Calm(c.setup), NEW e \in Seq(Operations), NEW d \in Seq(Operations),
         NEW F \in {Made, Ended},
         Brings(c, Ended, Steps(e), Opened), Brings(c, Ended, Steps(d), Streaming)
  PROVE  Brings(c, F, StartAndWait(e, d), Streaming)
<1>1. "start" \in Operations /\ "await Started" \in Operations
  BY DEF Operations
<1>2. Brings(c, F, <<Or("start", e)>>, Opened)
  BY <1>1, OrIs, StartCalm
<1>3. Brings(c, Opened, <<Or("await Started", d)>>, Streaming)
  BY <1>1, OrIs, AwaitStartedCalm
<1> QED
  BY <1>2, <1>3, BringsTwo DEF StartAndWait

LEMMA EndsTyped ==
  /\ <<>> \in Seq(Operations) /\ <<"skip">> \in Seq(Operations)
  /\ <<"break">> \in Seq(Operations) /\ <<"return">> \in Seq(Operations)
  /\ <<"forget", "return">> \in Seq(Operations) /\ <<"release", "continue">> \in Seq(Operations)
  /\ <<"cancel", "break">> \in Seq(Operations)
  /\ Leave \in Seq(Operations) /\ GiveUp \in Seq(Operations)
<1>1. /\ "break" \in Operations /\ "return" \in Operations /\ "forget" \in Operations
      /\ "release" \in Operations /\ "skip" \in Operations /\ "continue" \in Operations
      /\ "cancel" \in Operations
  BY DEF Operations
<1> QED
  BY <1>1 DEF Leave, GiveUp

LEMMA StopWait ==
  ASSUME NEW c, NEW e \in Seq(Operations), NEW F \in {Asked, Begun, Streaming},
         F # Asked \/ "signal" \notin Listens(c.setup, "Started"),
         Occurs(c.setup, "silence") => Brings(c, Ended, Steps(e), Ended)
  PROVE  Brings(c, F, StopAndWait(e), Ended)
<1>1. <<"skip">> \in Seq(Operations) /\ "stop" \in Operations
  BY EndsTyped DEF Operations
<1>2. Or("stop", <<"skip">>) \in Instruction /\ Or("stop", <<"skip">>).do = "stop"
  BY <1>1, OrIs
<1>3. Or("stop", <<"skip">>).else = <<Step("skip")>>
  BY <1>1, OrIs, StepsOne
<1>4. Step("skip") \in Instruction /\ Step("skip").do = "skip"
  BY StepIs DEF Operations
<1>5. /\ Or("await Closed", e) \in Instruction /\ Or("await Closed", e).do = "await Closed"
      /\ Or("await Closed", e).else = Steps(e)
  BY OrIs DEF Operations
<1>6. Brings(c, F, <<Or("stop", <<"skip">>), Or("await Closed", e)>>, Ended)
  BY <1>2, <1>3, <1>4, <1>5, StopAndWaitRule
<1> QED
  BY <1>6 DEF StopAndWait

LEMMA SendSteps ==
  ASSUME NEW c, NEW a \in Sends, NEW F \in {Asked, Begun}
  PROVE  Brings(c, F, Steps(<<a>>), F)
<1>1. Step(a) \in Instruction /\ Step(a).do = a /\ Step(a).else = <<>>
  BY StepIs DEF Sends, Operations
<1>2. Brings(c, Ended, <<>>, F)
  BY BringsNothing DEF Ended, Begun, Given
<1>3. Brings(c, F, <<Step(a)>>, F)
  BY <1>1, <1>2, SendRule
<1> QED
  BY <1>3, StepsOne

LEMMA SendOr ==
  ASSUME NEW c, NEW e \in Seq(Operations), NEW F \in {Asked, Begun},
         Brings(c, Ended, Steps(e), F)
  PROVE  Brings(c, F, <<Or("send while running", e)>>, F)
<1>1. "send while running" \in Operations /\ "send while running" \in Sends
  BY DEF Operations, Sends
<1> QED
  BY <1>1, OrIs, SendRule

LEMMA SendOrCalm ==
  ASSUME NEW c, ~Occurs(c.setup, "refuse"), NEW e \in Seq(Operations)
  PROVE  Brings(c, Streaming, <<Or("send while running", e)>>, Streaming)
<1>1. "send while running" \in Operations /\ "send while running" \in Sends
  BY DEF Operations, Sends
<1> QED
  BY <1>1, OrIs, SendCalm

LEMMA PlainStep ==
  ASSUME NEW c, NEW a \in {"poll", "stop nothing"}, NEW F \in SUBSET Facts
  PROVE  Brings(c, F, <<Step(a)>>, F)
<1>1. Step(a) \in Instruction /\ Step(a).do = a
  BY StepIs DEF Operations
<1>2. ~MayFail(c.setup, a, F)
  BY DEF MayFail, Awaits, Sends, Stops
<1> QED
  BY <1>1, <1>2, PlainRule DEF Plain

\* A wait for Closed whose end nobody looks at, where Started wakes nobody.
LEMMA AwaitStep ==
  ASSUME NEW c, "signal" \notin Listens(c.setup, "Started")
  PROVE  Brings(c, Asked, <<Step("await Closed")>>, Ended)
<1>1. /\ Step("await Closed") \in Instruction /\ Step("await Closed").do = "await Closed"
      /\ Step("await Closed").else = <<>>
  BY StepIs DEF Operations
<1>2. Brings(c, Ended, <<>>, Ended)
  BY BringsNothing
<1> QED
  BY <1>1, <1>2, AwaitClosedRule

LEMMA StepIsOr ==
  ASSUME NEW a
  PROVE  Step(a) = Or(a, <<>>)
BY StepsNothing DEF Step, Or

LEMMA ForgetTail ==
  ASSUME NEW c
  PROVE  Brings(c, Bare, Steps(<<"forget">>), {"none"})
BY ForgetStep, StepsOne

(***************************************************************************)
(* A program whose three parts bring no request follows the rules.         *)
(***************************************************************************)
LEMMA BringsFits ==
  ASSUME NEW c, NEW q, NEW F, Brings(c, F, q, {"none"})
  PROVE  Fits(c, q, F)
<1>1. Fits(c, <<>>, {"none"})
  <2>1. FitsNext(c, <<>>, {"none"}) /\ <<>> \in Seq(Instruction)
    BY DEF FitsNext
  <2> QED
    BY <2>1, FactsAre, FitsIntro
<1>2. q \in Seq(Instruction) /\ q \o <<>> = q
  BY ConcatEmptySeq DEF Brings
<1>3. <<>> \in Seq(Instruction)
  OBVIOUS
<1> QED
  BY <1>1, <1>2, <1>3 DEF Brings

LEMMA SoundIf ==
  ASSUME NEW s, Wakers(s), NEW L \in SUBSET Facts, NEW h, NEW b, NEW t,
         Form(s) = Program(h, b, t),
         Brings(Context(s, L, L), {"none"}, h, {"none"}),
         Brings(Context(s, L, L), L, b, {"none"}), Brings(Context(s, L, L), L, t, {"none"})
  PROVE  Sound(s)
<1> DEFINE c == Context(s, L, L)
<1>1. c.setup = s /\ c.loop = L /\ c.tail = L
  BY DEF Context
<1>2. Form(s).head = h /\ Form(s).body = b /\ Form(s).tail = t
  BY DEF Program
<1>3. Fits(c, h, {"none"}) /\ Fits(c, b, L) /\ Fits(c, t, L)
  <2> HIDE DEF c
  <2> QED
    BY BringsFits DEF c
<1> HIDE DEF c
<1>4. Verified(c)
  BY <1>1, <1>2, <1>3 DEF Verified
<1> QED
  BY <1>4 DEF Sound, c

LEMMA ShortContext ==
  ASSUME NEW s
  PROVE  Context(s, Bare, Bare).setup = s /\ Short(Context(s, Bare, Bare))
BY DEF Context, Short

LEMMA LongContext ==
  ASSUME NEW s
  PROVE  Context(s, Ended, Ended).setup = s /\ Long(Context(s, Ended, Ended))
BY DEF Context, Long

(***************************************************************************)
(* The callbacks of the demos: only Started and Closed wake a worker, and  *)
(* in some Started does not.                                               *)
(***************************************************************************)
LEMMA WakersIf ==
  ASSUME NEW s, NEW a, NEW b, NEW d, NEW e, NEW m, NEW z,
         Demos[s.demo].on = Callbacks(a, b, d, e, m, z),
         "signal" \notin b, "signal" \notin d, "signal" \notin e, "signal" \notin m
  PROVE  Wakers(s) /\ ("signal" \notin a => "signal" \notin Listens(s, "Started"))
<1> DEFINE on == Callbacks(a, b, d, e, m, z)
<1>1. DOMAIN on \ {"Message"} = Cbs
  BY DEF Callbacks, Cbs
<1>2. /\ on["Started"] = a /\ on["Result"] = b /\ on["Completed"] = d /\ on["Failed"] = e
      /\ on["Message"] = m
  BY DEF Callbacks
<1> HIDE DEF on
<1>3. \A cb \in Cbs : Listens(s, cb) = on[IF s.message THEN "Message" ELSE cb]
  BY DEF Listens, on
<1>4. Listens(s, "Started") \in {a, m}
  BY <1>2, <1>3 DEF Cbs
<1>5. \A cb \in Cbs : "signal" \in Listens(s, cb) => cb \in {"Started", "Closed"}
  BY <1>2, <1>3 DEF Cbs
<1> QED
  BY <1>1, <1>4, <1>5 DEF Wakers, on

LEMMA DemoIs ==
  ASSUME NEW s
  PROVE  /\ s.demo = "st" => Demos[s.demo] = st
         /\ s.demo = "funasr" => Demos[s.demo] = funasr
         /\ s.demo = "paraformer" => Demos[s.demo] = paraformer
         /\ s.demo = "sr" => Demos[s.demo] = sr
         /\ s.demo = "sy" => Demos[s.demo] = sy
         /\ s.demo = "fss" => Demos[s.demo] = fss
         /\ s.demo = "cosy" => Demos[s.demo] = cosy
         /\ s.demo = "da" => Demos[s.demo] = da
         /\ s.demo = "winDa" => Demos[s.demo] = winDa
         /\ s.demo = "androidDa" => Demos[s.demo] = androidDa
         /\ s.demo = "winSt" => Demos[s.demo] = winSt
         /\ s.demo = "winSr" => Demos[s.demo] = winSr
         /\ s.demo = "winSy" => Demos[s.demo] = winSy
         /\ s.demo = "androidSt" => Demos[s.demo] = androidSt
         /\ s.demo = "androidSr" => Demos[s.demo] = androidSr
         /\ s.demo = "androidSy" => Demos[s.demo] = androidSy
         /\ s.demo = "stMonkey" => Demos[s.demo] = stMonkey
         /\ s.demo = "srMonkey" => Demos[s.demo] = srMonkey
         /\ s.demo = "syMonkey" => Demos[s.demo] = syMonkey
         /\ s.demo = "fssMonkey" => Demos[s.demo] = fssMonkey
BY DEF Demos

\* the demos in which Started does not wake
Unwoken == {"sy", "da", "winDa", "androidDa", "winSy", "androidSy"}

LEMMA DemosWake ==
  ASSUME NEW s, s.demo \in DOMAIN Demos
  PROVE  Wakers(s) /\ (s.demo \in Unwoken => "signal" \notin Listens(s, "Started"))
<1>1. CASE s.demo \in {"st", "funasr", "paraformer", "sr", "fss", "cosy"}
  <2>1. Demos[s.demo].on = Callbacks(Signal, Param, Param, Param, Nothing, Signal)
    BY <1>1, DemoIs DEF st, funasr, paraformer, sr, fss, cosy, stCallbacks, funasrCallbacks,
         paraformerCallbacks, srCallbacks, fssCallbacks, cosyCallbacks, stOnStarted, stOnResult,
         stOnCompleted, stOnFailed, stOnMessage, stOnClosed, funasrOnStarted, funasrOnResult,
         funasrOnCompleted, funasrOnFailed, funasrOnMessage, funasrOnClosed, paraformerOnStarted,
         paraformerOnResult, paraformerOnCompleted, paraformerOnFailed, paraformerOnMessage,
         paraformerOnClosed, srOnStarted, srOnResult, srOnCompleted, srOnFailed, srOnClosed,
         fssOnStarted, fssOnResult, fssOnCompleted, fssOnFailed, fssOnClosed, cosyOnStarted,
         cosyOnResult, cosyOnCompleted, cosyOnFailed, cosyOnClosed
  <2>2. "signal" \notin Param /\ "signal" \notin Nothing
    BY DEF Param, Nothing
  <2>3. s.demo \notin Unwoken
    BY <1>1 DEF Unwoken
  <2> QED
    BY <2>1, <2>2, <2>3, WakersIf
<1>2. CASE s.demo \in {"winSt", "winSr", "androidSt", "androidSr"}
  <2>1. Demos[s.demo].on = Callbacks(Signal, Param, Param, Param, Nothing, Signal)
    BY <1>2, DemoIs DEF winSt, winSr, androidSt, androidSr, winStOnStarted, winStOnResult,
         winStOnCompleted, winStOnFailed, winStOnClosed, winSrOnStarted, winSrOnResult,
         winSrOnCompleted, winSrOnFailed, winSrOnClosed, androidStOnStarted, androidStOnResult,
         androidStOnCompleted, androidStOnFailed, androidStOnClosed, androidSrOnStarted,
         androidSrOnResult, androidSrOnCompleted, androidSrOnFailed, androidSrOnClosed
  <2>2. "signal" \notin Param /\ "signal" \notin Nothing
    BY DEF Param, Nothing
  <2>3. s.demo \notin Unwoken
    BY <1>2 DEF Unwoken
  <2> QED
    BY <2>1, <2>2, <2>3, WakersIf
<1>3. CASE s.demo \in {"sy"}
  <2>1. Demos[s.demo].on = Callbacks(Nothing, Param, Param, Param, Nothing, Signal)
    BY <1>3, DemoIs DEF sy, syCallbacks, syOnResult, syOnCompleted, syOnFailed, syOnClosed
  <2>2. "signal" \notin Param /\ "signal" \notin Nothing
    BY DEF Param, Nothing
  <2> QED
    BY <2>1, <2>2, WakersIf
<1>4. CASE s.demo \in {"da", "winDa", "androidDa"}
  <2>1. Demos[s.demo].on = Callbacks(Param, Param, Param, Param, Nothing, Signal)
    BY <1>4, DemoIs DEF da, winDa, androidDa, daCallbacks, daOnStarted, daOnResult,
         daOnCompleted, daOnFailed, winDaOnClosed, androidDaOnClosed, daOnClosed
  <2>2. "signal" \notin Param /\ "signal" \notin Nothing
    BY DEF Param, Nothing
  <2> QED
    BY <2>1, <2>2, WakersIf
<1>5. CASE s.demo \in {"winSy", "androidSy"}
  <2>1. Demos[s.demo].on = Callbacks(Nothing, Nothing, Param, Param, Nothing, Signal)
    BY <1>5, DemoIs DEF winSy, androidSy, winSyOnCompleted, winSyOnFailed, winSyOnClosed,
         androidSyOnCompleted, androidSyOnFailed, androidSyOnClosed
  <2>2. "signal" \notin Param /\ "signal" \notin Nothing
    BY DEF Param, Nothing
  <2> QED
    BY <2>1, <2>2, WakersIf
<1>6. CASE s.demo \in {"stMonkey"}
  <2>1. Demos[s.demo].on = Callbacks(Param, Param, Nothing, Param, Nothing, Param)
    BY <1>6, DemoIs DEF stMonkey, stMonkeyOnStarted, stMonkeyOnResult, stMonkeyOnFailed,
         stMonkeyOnClosed
  <2>2. "signal" \notin Param /\ "signal" \notin Nothing
    BY DEF Param, Nothing
  <2> QED
    BY <2>1, <2>2, WakersIf
<1>7. CASE s.demo \in {"srMonkey"}
  <2>1. Demos[s.demo].on = Callbacks(Param, Param, Param, Param, Nothing, Param)
    BY <1>7, DemoIs DEF srMonkey, srMonkeyOnStarted, srMonkeyOnResult, srMonkeyOnCompleted,
         srMonkeyOnFailed, srMonkeyOnClosed
  <2>2. "signal" \notin Param /\ "signal" \notin Nothing
    BY DEF Param, Nothing
  <2> QED
    BY <2>1, <2>2, WakersIf
<1>8. CASE s.demo \in {"syMonkey", "fssMonkey"}
  <2>1. Demos[s.demo].on = Callbacks(Nothing, Param, Nothing, Param, Nothing, Param)
    BY <1>8, DemoIs DEF syMonkey, fssMonkey, syMonkeyOnResult, syMonkeyOnFailed,
         syMonkeyOnClosed, fssMonkeyOnResult, fssMonkeyOnFailed, fssMonkeyOnClosed
  <2>2. "signal" \notin Param /\ "signal" \notin Nothing
    BY DEF Param, Nothing
  <2> QED
    BY <2>1, <2>2, WakersIf
<1> QED
  BY <1>1, <1>2, <1>3, <1>4, <1>5, <1>6, <1>7, <1>8 DEF Demos

(***************************************************************************)
(* The programs. First the parts they share.                               *)
(***************************************************************************)
LEMMA ShortCreate ==
  ASSUME NEW c, Short(c)
  PROVE  /\ Brings(c, Bare, <<Or("create", <<"break">>)>>, Made)
         /\ Brings(c, Bare, <<Or("create", <<"return">>)>>, Made)
         /\ Brings(c, Bare, <<Or("create", <<"forget", "return">>)>>, Made)
BY EndsTyped, ShortEnds, CreateOr

\* start, sends and stop of a round that makes and releases its request
LEMMA ShortRound ==
  ASSUME NEW c, Short(c), NEW q, Brings(c, Bare, q, Made), NEW a \in Sends
  PROVE  Brings(c, Bare, q \o StartAndWait(Leave, GiveUp) \o Steps(<<a>>)
                           \o (StopAndWait(<<"release", "continue">>) \o NextRound), {"none"})
<1>1. Brings(c, Made, StartAndWait(Leave, GiveUp), Begun)
  BY EndsTyped, ShortEnds, StartWait
<1>2. Brings(c, Begun, Steps(<<a>>), Begun)
  BY SendSteps
<1>3. Brings(c, Begun, StopAndWait(<<"release", "continue">>), Ended)
  <2>1. Begun # Asked
    BY DEF Begun, Asked
  <2> QED
    BY <2>1, EndsTyped, ShortEnds, StopWait
<1>4. Brings(c, Ended, NextRound, {"none"})
  BY ShortEnds
<1>5. Brings(c, Begun, StopAndWait(<<"release", "continue">>) \o NextRound, {"none"})
  BY <1>3, <1>4, BringsThen
<1> QED
  BY <1>1, <1>2, <1>5, BringsFourParts

\* a round, and the tail, of a program that keeps its request
LEMMA LongRound ==
  ASSUME NEW c, Long(c), NEW a \in Sends
  PROVE  /\ Brings(c, Ended, (<<Or("open", <<"break">>)>>
                              \o StartAndWait(<<"break">>, <<"cancel", "break">>))
                             \o Steps(<<a>>)
                             \o (StopAndWait(<<"break">>) \o Steps(<<"count", "next">>)),
                   {"none"})
         /\ Brings(c, Ended, Steps(<<"release", "forget">>), {"none"})
<1>1. Brings(c, Ended, <<Or("open", <<"break">>)>>, Ended)
  <2>1. /\ Or("open", <<"break">>) \in Instruction /\ Or("open", <<"break">>).do = "open"
        /\ Or("open", <<"break">>).else = Steps(<<"break">>)
    BY EndsTyped, OrIs DEF Operations
  <2> QED
    BY <2>1, LongEnds, FactsAre, PlainRule DEF Plain
<1>2. Brings(c, Ended, StartAndWait(<<"break">>, <<"cancel", "break">>), Begun)
  BY EndsTyped, LongEnds, StartWait
<1>3. Brings(c, Begun, Steps(<<a>>), Begun)
  BY SendSteps
<1>4. Brings(c, Begun, StopAndWait(<<"break">>), Ended)
  <2>1. Begun # Asked
    BY DEF Begun, Asked
  <2> QED
    BY <2>1, EndsTyped, LongEnds, StopWait
<1>5. Brings(c, Ended, Steps(<<"count", "next">>), {"none"})
  BY LongEnds
<1>6. Brings(c, Ended, <<Or("open", <<"break">>)>>
                       \o StartAndWait(<<"break">>, <<"cancel", "break">>), Begun)
  BY <1>1, <1>2, BringsThen
<1>7. Brings(c, Begun, StopAndWait(<<"break">>) \o Steps(<<"count", "next">>), {"none"})
  BY <1>4, <1>5, BringsThen
<1>8. Brings(c, Ended, (<<Or("open", <<"break">>)>>
                        \o StartAndWait(<<"break">>, <<"cancel", "break">>))
                       \o Steps(<<a>>)
                       \o (StopAndWait(<<"break">>) \o Steps(<<"count", "next">>)),
                {"none"})
  BY <1>3, <1>6, <1>7, BringsThreeParts
<1> QED
  BY <1>8, LongEnds

\* A setup of a program that makes its request in each round, and of one that keeps it.
LEMMA ShortSound ==
  ASSUME NEW s, s.demo \in DOMAIN Demos, NEW h, NEW b, NEW t, Form(s) = Program(h, b, t),
         \A c : Short(c) /\ c.setup = s => /\ Brings(c, {"none"}, h, {"none"})
                                           /\ Brings(c, Bare, b, {"none"})
                                           /\ Brings(c, Bare, t, {"none"})
  PROVE  Sound(s)
BY DemosWake, ShortContext, FactsAre, SoundIf

LEMMA LongSound ==
  ASSUME NEW s, s.demo \in DOMAIN Demos, NEW h, NEW b, NEW t, Form(s) = Program(h, b, t),
         \A c : Long(c) /\ c.setup = s => /\ Brings(c, {"none"}, h, {"none"})
                                          /\ Brings(c, Ended, b, {"none"})
                                          /\ Brings(c, Ended, t, {"none"})
  PROVE  Sound(s)
BY DemosWake, LongContext, FactsAre, SoundIf

(***************************************************************************)
(* The transcribers and the recognizer.                                    *)
(***************************************************************************)
LEMMA TranscriberShort ==
  ASSUME NEW s, s.demo \in {"st", "funasr", "paraformer"}, s.form = "short",
         s.demo = "st" => ~Occurs(s, "vip")
  PROVE  Sound(s)
<1> DEFINE create == IF s.demo = "st" THEN stCreate ELSE funasrCreate
<1>1. Form(s) = Program(stHead, create \o stStart \o stSend \o stStop, stTail)
  BY DemoIs DEF Form, st, funasr, paraformer, stForms, funasrForms, paraformerForms,
       funasrHead, funasrCreate, funasrStart, funasrSend, funasrStop, funasrTail,
       paraformerHead, paraformerCreate, paraformerStart, paraformerSend, paraformerStop,
       paraformerTail
<1>2. ASSUME NEW c, Short(c), c.setup = s
      PROVE  /\ Brings(c, {"none"}, stHead, {"none"})
             /\ Brings(c, Bare, create \o stStart \o stSend \o stStop, {"none"})
             /\ Brings(c, Bare, stTail, {"none"})
  <2>1. Brings(c, Bare, <<Or("create", <<"forget", "return">>)>>, Made)
    BY <1>2, ShortCreate
  <2>2. s.demo = "st" => Brings(c, Made, <<Or("vip", <<"break">>)>>, Made)
    BY <1>2, VipOr
  <2>3. Brings(c, Bare, create, Made)
    BY <2>1, <2>2, BringsTwo DEF stCreate, funasrCreate
  <2>4. Brings(c, Bare, create \o stStart \o stSend \o stStop, {"none"})
    <3> HIDE DEF create
    <3> QED
      BY <1>2, <2>3, ShortRound DEF stStart, stSend, stStop, Sends
  <2> QED
    BY <1>2, <2>4, OpenHead, ForgetTail DEF stHead, stTail
<1>3. s.demo \in DOMAIN Demos
  BY DEF Demos
<1> HIDE DEF create
<1> QED
  BY <1>1, <1>2, <1>3, ShortSound

LEMMA TranscriberLong ==
  ASSUME NEW s, s.demo \in {"st", "funasr", "paraformer"}, s.form = "long"
  PROVE  Sound(s)
<1>1. Form(s) = Program(stLongHead, stLongStart \o stLongSend \o stLongStop, stLongTail)
  BY DemoIs DEF Form, st, funasr, paraformer, stForms, funasrForms, paraformerForms,
       funasrLongHead, funasrLongStart, funasrLongSend, funasrLongStop, funasrLongTail,
       paraformerLongHead, paraformerLongStart, paraformerLongSend, paraformerLongStop,
       paraformerLongTail
<1>2. ASSUME NEW c, Long(c), c.setup = s
      PROVE  /\ Brings(c, {"none"}, stLongHead, {"none"})
             /\ Brings(c, Ended, stLongStart \o stLongSend \o stLongStop, {"none"})
             /\ Brings(c, Ended, stLongTail, {"none"})
  BY <1>2, KeepHead, LongRound DEF stLongHead, stLongStart, stLongSend, stLongStop, stLongTail,
       Sends
<1>3. s.demo \in DOMAIN Demos
  BY DEF Demos
<1> QED
  BY <1>1, <1>2, <1>3, LongSound

LEMMA RecognizerShort ==
  ASSUME NEW s, s.demo = "sr", s.form = "short", ~Occurs(s, "vip")
  PROVE  Sound(s)
<1>1. Form(s) = Program(srHead, srCreate \o srStart \o srSend \o srStop, srTail)
  BY DemoIs DEF Form, sr, srForms
<1>2. ASSUME NEW c, Short(c), c.setup = s
      PROVE  /\ Brings(c, {"none"}, srHead, {"none"})
             /\ Brings(c, Bare, srCreate \o srStart \o srSend \o srStop, {"none"})
             /\ Brings(c, Bare, srTail, {"none"})
  <2>1. Brings(c, Bare, <<Or("create", <<"break">>)>>, Made)
    BY <1>2, ShortCreate
  <2>2. Brings(c, Made, <<Or("vip", <<"break">>)>>, Made)
    BY <1>2, VipOr
  <2>3. Brings(c, Bare, srCreate, Made)
    BY <2>1, <2>2, BringsTwo DEF srCreate
  <2>4. Brings(c, Bare, srCreate \o srStart \o srSend \o srStop, {"none"})
    BY <1>2, <2>3, ShortRound DEF srStart, srSend, srStop, Sends
  <2> QED
    BY <1>2, <2>4, OpenHead, ForgetTail DEF srHead, srTail
<1>3. s.demo \in DOMAIN Demos
  BY DEF Demos
<1> QED
  BY <1>1, <1>2, <1>3, ShortSound

LEMMA RecognizerLong ==
  ASSUME NEW s, s.demo = "sr", s.form = "long"
  PROVE  Sound(s)
<1>1. Form(s) = Program(srLongHead, srLongStart \o srLongSend \o srLongStop, srLongTail)
  BY DemoIs DEF Form, sr, srForms
<1>2. ASSUME NEW c, Long(c), c.setup = s
      PROVE  /\ Brings(c, {"none"}, srLongHead, {"none"})
             /\ Brings(c, Ended, srLongStart \o srLongSend \o srLongStop, {"none"})
             /\ Brings(c, Ended, srLongTail, {"none"})
  BY <1>2, KeepHead, LongRound DEF srLongHead, srLongStart, srLongSend, srLongStop, srLongTail,
       Sends
<1>3. s.demo \in DOMAIN Demos
  BY DEF Demos
<1> QED
  BY <1>1, <1>2, <1>3, LongSound

(***************************************************************************)
(* The synthesizers.                                                       *)
(***************************************************************************)
LEMMA SynthesizerShort ==
  ASSUME NEW s, s.demo = "sy", s.form = "short", ~Occurs(s, "vip")
  PROVE  Sound(s)
<1>1. Form(s) = Program(syHead, syCreate \o syStart \o syStop \o syNext, syTail)
  BY DemoIs DEF Form, sy, syForms
<1>2. s.demo \in DOMAIN Demos /\ "signal" \notin Listens(s, "Started")
  BY DemosWake DEF Demos, Unwoken
<1>3. ASSUME NEW c, Short(c), c.setup = s
      PROVE  /\ Brings(c, {"none"}, syHead, {"none"})
             /\ Brings(c, Bare, syCreate \o syStart \o syStop \o syNext, {"none"})
             /\ Brings(c, Bare, syTail, {"none"})
  <2>1. Brings(c, Bare, syCreate, Made)
    BY <1>3, ShortCreate, VipOr, BringsTwo DEF syCreate
  <2>2. Brings(c, Made, syStart, Asked)
    BY <1>3, EndsTyped, ShortEnds, StartOr DEF syStart
  <2>3. Brings(c, Asked, syStop, Ended)
    BY <1>2, <1>3, PlainStep, FactsAre, AwaitStep, StepsTwo DEF syStop
  <2>4. Brings(c, Ended, syNext, {"none"})
    BY <1>3, ShortEnds DEF syNext
  <2>5. Brings(c, Bare, syCreate \o syStart \o syStop \o syNext, {"none"})
    BY <2>1, <2>2, <2>3, <2>4, BringsFourParts
  <2> QED
    BY <1>3, <2>5, ParamHead, ForgetTail DEF syHead, syTail
<1> QED
  BY <1>1, <1>2, <1>3, ShortSound

LEMMA SynthesizerLong ==
  ASSUME NEW s, s.demo = "sy", s.form = "long"
  PROVE  Sound(s)
<1>1. Form(s) = Program(syLongHead, syLongStart \o syLongStop, syLongTail)
  BY DemoIs DEF Form, sy, syForms
<1>2. s.demo \in DOMAIN Demos /\ "signal" \notin Listens(s, "Started")
  BY DemosWake DEF Demos, Unwoken
<1>3. ASSUME NEW c, Long(c), c.setup = s
      PROVE  /\ Brings(c, {"none"}, syLongHead, {"none"})
             /\ Brings(c, Ended, syLongStart \o syLongStop, {"none"})
             /\ Brings(c, Ended, syLongTail, {"none"})
  <2>1. Brings(c, Ended, syLongStart, Asked)
    BY <1>3, EndsTyped, LongEnds, StartOr DEF syLongStart
  <2>2. Brings(c, Asked, <<Step("stop nothing")>>, Asked)
    BY PlainStep, FactsAre
  <2>3. Brings(c, Asked, <<Step("await Closed")>>, Ended)
    BY <1>2, <1>3, AwaitStep
  <2>4. Brings(c, Ended, <<Step("count")>>, Ended)
    BY CountStep, FactsAre
  <2>5. Brings(c, Ended, <<Step("next")>>, {"none"})
    BY <1>3, LongJump
  <2>6. Brings(c, Asked, syLongStop, {"none"})
    BY <2>2, <2>3, <2>4, <2>5, StepsFour DEF syLongStop
  <2>7. Brings(c, Ended, syLongStart \o syLongStop, {"none"})
    BY <2>1, <2>6, BringsThen
  <2> QED
    BY <1>3, <2>7, KeepHead, LongEnds DEF syLongHead, syLongTail
<1> QED
  BY <1>1, <1>2, <1>3, LongSound

\* the flowing synthesizers, whose waits leave the loop without a release
LEMMA FlowingCreate ==
  ASSUME NEW c, Short(c), c.setup.demo = "fss" => ~Occurs(c.setup, "vip")
  PROVE  Brings(c, Bare, IF c.setup.demo = "fss" THEN fssCreate ELSE cosyCreate, Made)
BY ShortCreate, VipOr, BringsTwo DEF fssCreate, cosyCreate

LEMMA FlowingRound ==
  ASSUME NEW c, Short(c), ~Occurs(c.setup, "silence")
  PROVE  /\ Brings(c, Made, fssStart, Begun) /\ Brings(c, Begun, fssSend, Begun)
         /\ Brings(c, Begun, fssStop, Ended) /\ Brings(c, Ended, fssNext, {"none"})
<1>1. Brings(c, Made, fssStart, Begun)
  BY EndsTyped, ShortEnds, StartWait DEF fssStart
<1>2. Brings(c, Begun, fssSend, Begun)
  BY EndsTyped, ShortEnds, SendOr DEF fssSend
<1>3. Brings(c, Begun, fssStop, Ended)
  <2>1. Begun # Asked
    BY DEF Begun, Asked
  <2> QED
    BY <2>1, EndsTyped, StopWait DEF fssStop
<1> QED
  BY <1>1, <1>2, <1>3, ShortEnds DEF fssNext

LEMMA FlowingShort ==
  ASSUME NEW s, s.demo \in {"fss", "cosy"}, s.form = "short", ~Occurs(s, "silence"),
         s.demo = "fss" => ~Occurs(s, "vip")
  PROVE  Sound(s)
<1> DEFINE create == IF s.demo = "fss" THEN fssCreate ELSE cosyCreate
<1>1. Form(s) = Program(fssHead, create \o fssStart \o fssSend \o fssStop \o fssNext, fssTail)
  BY DemoIs DEF Form, fss, cosy, fssForms, cosyForms, cosyHead, cosyStart, cosySend,
       cosyStop, cosyNext, cosyTail
<1>2. ASSUME NEW c, Short(c), c.setup = s
      PROVE  /\ Brings(c, {"none"}, fssHead, {"none"})
             /\ Brings(c, Bare, create \o fssStart \o fssSend \o fssStop \o fssNext, {"none"})
             /\ Brings(c, Bare, fssTail, {"none"})
  <2>1. Brings(c, Bare, create, Made)
    BY <1>2, FlowingCreate
  <2> HIDE DEF create
  <2>2. /\ Brings(c, Made, fssStart, Begun) /\ Brings(c, Begun, fssSend, Begun)
        /\ Brings(c, Begun, fssStop, Ended) /\ Brings(c, Ended, fssNext, {"none"})
    BY <1>2, FlowingRound
  <2>3. Brings(c, Bare, create \o fssStart \o fssSend \o fssStop, Ended)
    BY <2>1, <2>2, BringsFourParts
  <2>4. Brings(c, Bare, create \o fssStart \o fssSend \o fssStop \o fssNext, {"none"})
    BY <2>2, <2>3, BringsThen
  <2> QED
    BY <1>2, <2>4, ParamHead, ForgetTail DEF fssHead, fssTail
<1>3. s.demo \in DOMAIN Demos
  BY DEF Demos
<1> HIDE DEF create
<1> QED
  BY <1>1, <1>2, <1>3, ShortSound

LEMMA FlowingSingle ==
  ASSUME NEW s, s.demo \in {"fss", "cosy"}, s.form = "single", ~Occurs(s, "silence"),
         s.demo = "fss" => ~Occurs(s, "vip")
  PROVE  Sound(s)
<1> DEFINE create == IF s.demo = "fss" THEN fssCreate ELSE cosyCreate
<1> DEFINE single == create \o <<Or("single", Leave)>>
<1>1. Form(s) = Program(fssHead, single \o fssStart \o fssStop \o fssNext, fssTail)
  BY DemoIs DEF Form, fss, cosy, fssForms, cosyForms, fssSingleHead, fssSingleCreate,
       fssSingleStart, fssSingleStop, fssSingleNext, fssSingleTail, cosySingleHead,
       cosySingleCreate, cosySingleStart, cosySingleStop, cosySingleNext, cosySingleTail
<1>2. ASSUME NEW c, Short(c), c.setup = s
      PROVE  /\ Brings(c, {"none"}, fssHead, {"none"})
             /\ Brings(c, Bare, single \o fssStart \o fssStop \o fssNext, {"none"})
             /\ Brings(c, Bare, fssTail, {"none"})
  <2>1. Brings(c, Bare, create, Made)
    BY <1>2, FlowingCreate
  <2> HIDE DEF create
  <2>2. Brings(c, Bare, single, Made)
    BY <2>1, SingleOr, BringsThen
  <2> HIDE DEF single
  <2>3. /\ Brings(c, Made, fssStart, Begun)
        /\ Brings(c, Begun, fssStop, Ended) /\ Brings(c, Ended, fssNext, {"none"})
    BY <1>2, FlowingRound
  <2>4. Brings(c, Bare, single \o fssStart \o fssStop \o fssNext, {"none"})
    BY <2>2, <2>3, BringsFourParts
  <2> QED
    BY <1>2, <2>4, ParamHead, ForgetTail DEF fssHead, fssTail
<1>3. s.demo \in DOMAIN Demos
  BY DEF Demos
<1> HIDE DEF single
<1> QED
  BY <1>1, <1>2, <1>3, ShortSound

LEMMA FlowingLong ==
  ASSUME NEW s, s.demo \in {"fss", "cosy"}, s.form = "long", Calm(s), ~Occurs(s, "refuse")
  PROVE  Sound(s)
<1>1. Form(s) = Program(fssLongHead, fssLongStart \o fssLongSend \o fssLongStop, fssLongTail)
  BY DemoIs DEF Form, fss, cosy, fssForms, cosyForms, cosyLongHead, cosyLongStart,
       cosyLongSend, cosyLongStop, cosyLongTail
<1>2. ASSUME NEW c, Long(c), c.setup = s
      PROVE  /\ Brings(c, {"none"}, fssLongHead, {"none"})
             /\ Brings(c, Ended, fssLongStart \o fssLongSend \o fssLongStop, {"none"})
             /\ Brings(c, Ended, fssLongTail, {"none"})
  <2>1. Brings(c, Ended, fssLongStart, Streaming)
    BY <1>2, EndsTyped, LongEnds, StartWaitCalm DEF fssLongStart
  <2>2. Brings(c, Streaming, fssLongSend, Streaming)
    BY <1>2, EndsTyped, SendOrCalm DEF fssLongSend
  <2>3. Brings(c, Streaming, StopAndWait(<<"break">>), Ended)
    <3>1. Streaming # Asked
      BY DEF Streaming, Begun, Asked
    <3> QED
      BY <1>2, <3>1, EndsTyped, LongEnds, StopWait
  <2>4. Brings(c, Streaming, fssLongStop, {"none"})
    BY <1>2, <2>3, LongEnds, BringsThen DEF fssLongStop
  <2>5. Brings(c, Ended, fssLongStart \o fssLongSend \o fssLongStop, {"none"})
    BY <2>1, <2>2, <2>4, BringsThreeParts
  <2> QED
    BY <1>2, <2>5, KeepHead, LongEnds DEF fssLongHead, fssLongTail
<1>3. s.demo \in DOMAIN Demos
  BY DEF Demos
<1> QED
  BY <1>1, <1>2, <1>3, LongSound

(***************************************************************************)
(* The dialog assistants, and the older demos.                             *)
(***************************************************************************)
LEMMA StopThen ==
  ASSUME NEW c, NEW F \in {Asked, Begun},
         F # Asked \/ "signal" \notin Listens(c.setup, "Started"),
         Short(c), NEW q, Brings(c, Bare, q, {"none"})
  PROVE  Brings(c, F, StopAndWait(<<>>) \o (<<Step("release")>> \o q), {"none"})
<1>1. Brings(c, Ended, Steps(<<>>), Ended)
  BY StepsNothing, BringsNothing
<1>2. <<>> \in Seq(Operations)
  OBVIOUS
<1>3. Brings(c, F, StopAndWait(<<>>), Ended)
  BY <1>1, <1>2, StopWait
<1>4. Brings(c, Ended, <<Step("release")>>, Bare)
  BY ReleaseStep
<1> QED
  BY <1>3, <1>4, BringsThen

\* the pieces of the last part of a round
LEMMA Stopped ==
  ASSUME NEW x \in Instruction, NEW y \in Instruction
  PROVE  /\ <<Or("stop", <<"skip">>), Step("await Closed"), Step("release"), x>>
              = StopAndWait(<<>>) \o (<<Step("release")>> \o <<x>>)
         /\ <<Or("stop", <<"skip">>), Step("await Closed"), Step("release"), x, y>>
              = StopAndWait(<<>>) \o (<<Step("release")>> \o <<x, y>>)
<1>1. /\ Or("stop", <<"skip">>) \in Instruction /\ Or("await Closed", <<>>) \in Instruction
      /\ Step("release") \in Instruction
  <2>1. "stop" \in Operations /\ "await Closed" \in Operations /\ "release" \in Operations
    BY DEF Operations
  <2> QED
    BY <2>1, EndsTyped, OrIs, StepIs
<1> DEFINE i == Or("stop", <<"skip">>)
<1> DEFINE j == Or("await Closed", <<>>)
<1> DEFINE r == Step("release")
<1>2. Step("await Closed") = j /\ StopAndWait(<<>>) = <<i, j>>
  BY StepIsOr DEF StopAndWait
<1>3. i \in Instruction /\ j \in Instruction /\ r \in Instruction
  BY <1>1
<1> HIDE DEF i, j, r
<1>4. <<r>> \o <<x>> = <<r, x>> /\ <<r>> \o <<x, y>> = <<r, x, y>>
  BY <1>3, Pair, Triple
<1>5. <<i, j, r, x>> = <<i, j>> \o <<r, x>>
  <2>1. <<i, j>> \in Seq(Instruction) /\ <<r, x>> \in Seq(Instruction)
        /\ <<i, j, r, x>> \in Seq(Instruction)
    BY <1>3
  <2>2. <<i, j>> \o <<r, x>> \in Seq(Instruction) /\ Len(<<i, j>> \o <<r, x>>) = 4
    BY <2>1
  <2>3. \A n \in 1..4 : <<i, j, r, x>>[n] = (<<i, j>> \o <<r, x>>)[n]
    BY <2>1
  <2> QED
    BY <2>1, <2>2, <2>3, SeqEqual
<1>6. <<i, j, r, x, y>> = <<i, j>> \o <<r, x, y>>
  <2>1. <<i, j>> \in Seq(Instruction) /\ <<r, x, y>> \in Seq(Instruction)
        /\ <<i, j, r, x, y>> \in Seq(Instruction)
    BY <1>3
  <2>2. <<i, j>> \o <<r, x, y>> \in Seq(Instruction) /\ Len(<<i, j>> \o <<r, x, y>>) = 5
    BY <2>1
  <2>3. \A n \in 1..5 : <<i, j, r, x, y>>[n] = (<<i, j>> \o <<r, x, y>>)[n]
    BY <2>1
  <2> QED
    BY <2>1, <2>2, <2>3, SeqEqual
<1> QED
  BY <1>2, <1>4, <1>5, <1>6 DEF i, r

LEMMA OlderStop ==
  ASSUME NEW c, Short(c), NEW F \in {Asked, Begun},
         F # Asked \/ "signal" \notin Listens(c.setup, "Started")
  PROVE  Brings(c, F, <<Or("stop", <<"skip">>), Step("await Closed"), Step("release"),
                        Step("next")>>, {"none"})
<1>1. Brings(c, Bare, <<Step("next")>>, {"none"})
  BY ShortJump
<1>2. Step("next") \in Instruction
  BY StepIs DEF Operations
<1>3. Brings(c, F, StopAndWait(<<>>) \o (<<Step("release")>> \o <<Step("next")>>), {"none"})
  BY <1>1, StopThen
<1> QED
  BY <1>2, <1>3, Stopped

LEMMA AssistantStop ==
  ASSUME NEW c, Short(c), "signal" \notin Listens(c.setup, "Started")
  PROVE  Brings(c, Asked, daStop, {"none"})
<1>1. Brings(c, Bare, <<Step("next")>>, {"none"}) /\ Brings(c, Bare, Steps(<<"break">>), Bare)
  BY ShortJump, ShortEnds
<1>2. /\ Step("next") \in Instruction /\ Or("unless failed", <<"break">>) \in Instruction
      /\ Or("unless failed", <<"break">>).do = "unless failed"
      /\ Or("unless failed", <<"break">>).else = Steps(<<"break">>)
  <2>1. "next" \in Operations /\ "unless failed" \in Operations
    BY DEF Operations
  <2> QED
    BY <2>1, EndsTyped, OrIs, StepIs
<1>3. Brings(c, Bare, <<Or("unless failed", <<"break">>)>>, Bare)
  BY <1>1, <1>2, FactsAre, PlainRule DEF Plain
<1>4. Brings(c, Bare, <<Or("unless failed", <<"break">>), Step("next")>>, {"none"})
  BY <1>1, <1>3, BringsTwo
<1>5. Brings(c, Asked, StopAndWait(<<>>) \o (<<Step("release")>>
                         \o <<Or("unless failed", <<"break">>), Step("next")>>), {"none"})
  BY <1>4, StopThen
<1> QED
  BY <1>2, <1>5, Stopped DEF daStop

LEMMA AssistantShort ==
  ASSUME NEW s, s.demo \in {"da", "winDa", "androidDa"}, s.form = "short", ~Occurs(s, "start")
  PROVE  Sound(s)
<1>1. Form(s) = Program(daHead, daCreate \o daStart \o daSend \o daStop, daTail)
  BY DemoIs DEF Form, da, winDa, androidDa, daForms, winDaForms, androidDaForms, winDaHead,
       winDaCreate, winDaStart, winDaSend, winDaStop, winDaTail, androidDaHead,
       androidDaCreate, androidDaStart, androidDaSend, androidDaStop, androidDaTail
<1>2. s.demo \in DOMAIN Demos /\ "signal" \notin Listens(s, "Started")
  BY DemosWake DEF Demos, Unwoken
<1>3. ASSUME NEW c, Short(c), c.setup = s
      PROVE  /\ Brings(c, {"none"}, daHead, {"none"})
             /\ Brings(c, Bare, daCreate \o daStart \o daSend \o daStop, {"none"})
             /\ Brings(c, Bare, daTail, {"none"})
  <2>1. Brings(c, Bare, daCreate, Made)
    BY <1>3, ShortCreate DEF daCreate
  <2>2. Brings(c, Made, <<Or("start", <<"break">>)>>, Asked)
    <3>1. Made # Ended
      BY DEF Made, Ended, Asked, Given
    <3> QED
      BY <1>3, <3>1, EndsTyped, StartOr
  <2>3. Brings(c, Made, daStart, Asked)
    BY <2>2, PlainStep, FactsAre, BringsTwo DEF daStart
  <2>4. Brings(c, Asked, daSend, Asked)
    BY SendSteps DEF daSend, Sends
  <2>5. Brings(c, Asked, daStop, {"none"})
    BY <1>2, <1>3, AssistantStop
  <2>6. Brings(c, Bare, daCreate \o daStart \o daSend \o daStop, {"none"})
    BY <2>1, <2>3, <2>4, <2>5, BringsFourParts
  <2> QED
    BY <1>3, <2>6, OpenHead, ForgetTail DEF daHead, daTail
<1> QED
  BY <1>1, <1>2, <1>3, ShortSound

LEMMA OlderShort ==
  ASSUME NEW s, s.demo \in {"winSt", "androidSt", "winSr", "androidSr"}, s.form = "short"
  PROVE  Sound(s)
<1> DEFINE head == IF s.demo \in {"winSt", "androidSt"} THEN winStHead ELSE winSrHead
<1> DEFINE create == IF s.demo \in {"winSt", "androidSt"} THEN winStCreate ELSE winSrCreate
<1>1. Form(s) = Program(head, create \o winStStart \o winStSend \o winStStop, winStTail)
  BY DemoIs DEF Form, winSt, androidSt, winSr, androidSr, winStForms, androidStForms,
       winSrForms, androidSrForms, androidStHead, androidStCreate, androidStStart,
       androidStSend, androidStStop, androidStTail, winSrStart, winSrSend, winSrStop, winSrTail,
       androidSrHead, androidSrCreate, androidSrStart, androidSrSend, androidSrStop,
       androidSrTail
<1>2. ASSUME NEW c, Short(c), c.setup = s
      PROVE  /\ Brings(c, {"none"}, head, {"none"})
             /\ Brings(c, Bare, create \o winStStart \o winStSend \o winStStop, {"none"})
             /\ Brings(c, Bare, winStTail, {"none"})
  <2>1. Brings(c, {"none"}, head, {"none"})
    BY <1>2, OpenHead DEF winStHead, winSrHead
  <2>2. Brings(c, Bare, create, Made)
    BY <1>2, ShortCreate DEF winStCreate, winSrCreate
  <2> HIDE DEF head, create
  <2>3. Brings(c, Made, winStStart, Begun)
    <3>1. Brings(c, Ended, Steps(<<>>), Begun)
      BY StepsNothing, BringsNothing DEF Ended, Begun, Given
    <3>2. Brings(c, Ended, Steps(Leave), Asked)
      BY <1>2, ShortEnds
    <3>3. Brings(c, Made, StartAndWait(Leave, <<>>), Begun)
      BY <3>1, <3>2, EndsTyped, StartWait
    <3> QED
      BY <3>3, StepIsOr DEF winStStart, StartAndWait
  <2>4. Brings(c, Begun, winStSend, Begun)
    BY SendSteps DEF winStSend, Sends
  <2>5. Brings(c, Begun, winStStop, {"none"})
    <3>1. Begun # Asked
      BY DEF Begun, Asked
    <3> QED
      BY <1>2, <3>1, OlderStop DEF winStStop
  <2>6. Brings(c, Bare, create \o winStStart \o winStSend \o winStStop, {"none"})
    BY <2>2, <2>3, <2>4, <2>5, BringsFourParts
  <2> QED
    BY <2>1, <2>6, ForgetTail DEF winStTail
<1>3. s.demo \in DOMAIN Demos
  BY DEF Demos
<1> HIDE DEF head, create
<1> QED
  BY <1>1, <1>2, <1>3, ShortSound

LEMMA OlderSynthesizerShort ==
  ASSUME NEW s, s.demo \in {"winSy", "androidSy"}, s.form = "short"
  PROVE  Sound(s)
<1>1. Form(s) = Program(winSyHead, winSyCreate \o winSyStart \o winSyStop, winSyTail)
  BY DemoIs DEF Form, winSy, androidSy, winSyForms, androidSyForms, androidSyHead,
       androidSyCreate, androidSyStart, androidSyStop, androidSyTail
<1>2. s.demo \in DOMAIN Demos /\ "signal" \notin Listens(s, "Started")
  BY DemosWake DEF Demos, Unwoken
<1>3. ASSUME NEW c, Short(c), c.setup = s
      PROVE  /\ Brings(c, {"none"}, winSyHead, {"none"})
             /\ Brings(c, Bare, winSyCreate \o winSyStart \o winSyStop, {"none"})
             /\ Brings(c, Bare, winSyTail, {"none"})
  <2>1. Brings(c, Bare, winSyCreate, Made)
    BY <1>3, ShortCreate DEF winSyCreate
  <2>2. Brings(c, Made, winSyStart, Asked)
    BY <1>3, EndsTyped, ShortEnds, StartOr DEF winSyStart
  <2>3. Brings(c, Asked, <<Step("stop nothing")>>, Asked)
    BY PlainStep, FactsAre
  <2>4. Brings(c, Asked, <<Step("await Closed")>>, Ended)
    BY <1>2, <1>3, AwaitStep
  <2>5. /\ Brings(c, Ended, <<Step("release")>>, Bare)
        /\ Brings(c, Bare, <<Step("next")>>, {"none"})
    BY <1>3, ReleaseStep, ShortJump
  <2>6. Brings(c, Asked, winSyStop, {"none"})
    BY <2>3, <2>4, <2>5, StepsFour DEF winSyStop
  <2>7. Brings(c, Bare, winSyCreate \o winSyStart \o winSyStop, {"none"})
    BY <2>1, <2>2, <2>6, BringsThreeParts
  <2> QED
    BY <1>3, <2>7, ParamHead, ForgetTail DEF winSyHead, winSyTail
<1> QED
  BY <1>1, <1>2, <1>3, ShortSound

(***************************************************************************)
(* The monkey tests, which release a request whatever becomes of it.       *)
(***************************************************************************)
MonkeyTests == {"stMonkey", "srMonkey", "syMonkey", "fssMonkey"}

LEMMA MonkeyTyped ==
  /\ <<"release", "count", "continue">> \in Seq(Operations)
  /\ <<"cancel", "release", "count", "continue">> \in Seq(Operations)
<1>1. "release" \in Operations /\ "count" \in Operations /\ "continue" \in Operations
      /\ "cancel" \in Operations
  BY DEF Operations
<1> QED
  BY <1>1

LEMMA MonkeyEnds ==
  ASSUME NEW c, Short(c), ~Waits(c.setup), NEW G
  PROVE  /\ Brings(c, Asked, NextRound, G)
         /\ Brings(c, Ended, Steps(<<"release", "count", "continue">>), G)
         /\ Brings(c, Asked, Steps(<<"cancel", "release", "count", "continue">>), G)
<1>1. Brings(c, Asked, <<Step("release")>>, Bare) /\ Brings(c, Ended, <<Step("release")>>, Bare)
  BY ReleaseStep
<1>2. Brings(c, Bare, <<Step("count")>>, Bare)
  BY CountStep, FactsAre
<1>3. Brings(c, Bare, <<Step("next")>>, G) /\ Brings(c, Bare, <<Step("continue")>>, G)
  BY ShortJump
<1>4. Brings(c, Asked, <<Step("cancel")>>, Ended)
  BY CancelStep
<1>5. Brings(c, Asked, NextRound, G)
  BY <1>1, <1>2, <1>3, StepsThree DEF NextRound
<1>6. Brings(c, Ended, Steps(<<"release", "count", "continue">>), G)
  BY <1>1, <1>2, <1>3, StepsThree
<1>7. Brings(c, Asked, Steps(<<"cancel", "release", "count", "continue">>), G)
  BY <1>1, <1>2, <1>3, <1>4, StepsFour
<1> QED
  BY <1>5, <1>6, <1>7

LEMMA AbandonedOr ==
  ASSUME NEW c, Short(c)
  PROVE  Brings(c, Made, Abandoned, Made)
<1>1. "lucky" \in Operations
  BY DEF Operations
<1>2. /\ Or("lucky", <<"release", "continue">>) \in Instruction
      /\ Or("lucky", <<"release", "continue">>).do = "lucky"
      /\ Or("lucky", <<"release", "continue">>).else = Steps(<<"release", "continue">>)
  BY <1>1, EndsTyped, OrIs
<1>3. Brings(c, Made, Steps(<<"release", "continue">>), Made)
  BY ShortEnds, EnoughKnown
<1> QED
  BY <1>2, <1>3, FactsAre, PlainRule DEF Plain, Abandoned

LEMMA MonkeyStart ==
  ASSUME NEW c, Short(c)
  PROVE  Brings(c, Made, <<Or("start", <<"release", "continue">>)>>, Asked)
BY EndsTyped, ShortEnds, StartOr

LEMMA SpecialOr ==
  ASSUME NEW c, Short(c), ~Waits(c.setup)
  PROVE  Brings(c, Asked, Special, Asked)
<1> DEFINE e == <<"cancel", "release", "count", "continue">>
<1>1. "unless special" \in Operations
  BY DEF Operations
<1>2. /\ Or("unless special", e) \in Instruction
      /\ Or("unless special", e).do = "unless special"
      /\ Or("unless special", e).else = Steps(e)
  BY <1>1, MonkeyTyped, OrIs
<1>3. Brings(c, Asked, Steps(e), Asked)
  BY MonkeyEnds
<1> HIDE DEF e
<1>4. Brings(c, Asked, <<Or("unless special", e)>>, Asked)
  BY <1>2, <1>3, FactsAre, PlainRule DEF Plain
<1> QED
  BY <1>4 DEF Special, e

LEMMA MonkeyStop ==
  ASSUME NEW c, Short(c), ~Waits(c.setup), NEW a \in Ends
  PROVE  Brings(c, Asked, Steps(<<a>>) \o NextRound, {"none"})
<1>1. Step(a) \in Instruction /\ Step(a).do = a /\ Step(a).else = <<>>
  BY StepIs DEF Ends, Stops, Operations
<1>2. Brings(c, Asked, Steps(<<a>>), Asked)
  BY <1>1, EndRule, StepsOne
<1>3. Brings(c, Asked, NextRound, {"none"})
  BY MonkeyEnds
<1> QED
  BY <1>2, <1>3, BringsThen

LEMMA MonkeyWaits ==
  ASSUME NEW s, s.demo \in MonkeyTests
  PROVE  ~Waits(s) /\ s.demo \in DOMAIN Demos
BY DEF MonkeyTests, Waits, Demos

LEMMA TranscriberMonkey ==
  ASSUME NEW s, s.demo = "stMonkey", s.form = "short"
  PROVE  Sound(s)
<1>1. Form(s) = Program(stMonkeyHead, stMonkeyCreate \o stMonkeyStart \o stMonkeySend
                                      \o stMonkeyStop, stMonkeyTail)
  BY DemoIs DEF Form, stMonkey, stMonkeyForms
<1>2. ~Waits(s) /\ s.demo \in DOMAIN Demos
  BY MonkeyWaits DEF MonkeyTests
<1>3. ASSUME NEW c, Short(c), c.setup = s
      PROVE  /\ Brings(c, {"none"}, stMonkeyHead, {"none"})
             /\ Brings(c, Bare, stMonkeyCreate \o stMonkeyStart \o stMonkeySend
                                \o stMonkeyStop, {"none"})
             /\ Brings(c, Bare, stMonkeyTail, {"none"})
  <2>1. Brings(c, Bare, stMonkeyCreate, Made)
    BY <1>3, ShortCreate, AbandonedOr, BringsThen DEF stMonkeyCreate
  <2>2. Brings(c, Made, stMonkeyStart, Asked)
    BY <1>2, <1>3, MonkeyStart, SpecialOr, BringsThen DEF stMonkeyStart
  <2>3. Brings(c, Asked, stMonkeySend, Asked)
    BY SendSteps DEF stMonkeySend, Sends
  <2>4. Brings(c, Asked, stMonkeyStop, {"none"})
    BY <1>2, <1>3, MonkeyStop DEF stMonkeyStop, Ends, Stops
  <2>5. Brings(c, Bare, stMonkeyCreate \o stMonkeyStart \o stMonkeySend \o stMonkeyStop,
                  {"none"})
    BY <2>1, <2>2, <2>3, <2>4, BringsFourParts
  <2> QED
    BY <1>3, <2>5, OpenHead, ForgetTail DEF stMonkeyHead, stMonkeyTail
<1> QED
  BY <1>1, <1>2, <1>3, ShortSound

LEMMA RecognizerMonkey ==
  ASSUME NEW s, s.demo = "srMonkey", s.form = "short"
  PROVE  Sound(s)
<1>1. Form(s) = Program(srMonkeyHead, srMonkeyCreate \o srMonkeyStart \o srMonkeySend
                                      \o srMonkeyStop, srMonkeyTail)
  BY DemoIs DEF Form, srMonkey, srMonkeyForms
<1>2. ~Waits(s) /\ s.demo \in DOMAIN Demos
  BY MonkeyWaits DEF MonkeyTests
<1>3. ASSUME NEW c, Short(c), c.setup = s
      PROVE  /\ Brings(c, {"none"}, srMonkeyHead, {"none"})
             /\ Brings(c, Bare, srMonkeyCreate \o srMonkeyStart \o srMonkeySend
                                \o srMonkeyStop, {"none"})
             /\ Brings(c, Bare, srMonkeyTail, {"none"})
  <2>1. Brings(c, Bare, srMonkeyCreate, Made)
    BY <1>3, ShortCreate, AbandonedOr, BringsThen DEF srMonkeyCreate
  <2>2. Brings(c, Made, srMonkeyStart, Asked)
    BY <1>3, MonkeyStart DEF srMonkeyStart
  <2>3. Brings(c, Asked, srMonkeySend, Asked)
    BY SendSteps DEF srMonkeySend, Sends
  <2>4. Brings(c, Asked, srMonkeyStop, {"none"})
    BY <1>2, <1>3, MonkeyStop DEF srMonkeyStop, Ends, Stops
  <2>5. Brings(c, Bare, srMonkeyCreate \o srMonkeyStart \o srMonkeySend \o srMonkeyStop,
                  {"none"})
    BY <2>1, <2>2, <2>3, <2>4, BringsFourParts
  <2> QED
    BY <1>3, <2>5, OpenHead, ForgetTail DEF srMonkeyHead, srMonkeyTail
<1> QED
  BY <1>1, <1>2, <1>3, ShortSound

LEMMA SynthesizerMonkey ==
  ASSUME NEW s, s.demo = "syMonkey", s.form = "short"
  PROVE  Sound(s)
<1>1. Form(s) = Program(syMonkeyHead, syMonkeyCreate \o syMonkeyStart \o syMonkeyStop,
                        syMonkeyTail)
  BY DemoIs DEF Form, syMonkey, syMonkeyForms
<1>2. ~Waits(s) /\ s.demo \in DOMAIN Demos
  BY MonkeyWaits DEF MonkeyTests
<1>3. ASSUME NEW c, Short(c), c.setup = s
      PROVE  /\ Brings(c, {"none"}, syMonkeyHead, {"none"})
             /\ Brings(c, Bare, syMonkeyCreate \o syMonkeyStart \o syMonkeyStop, {"none"})
             /\ Brings(c, Bare, syMonkeyTail, {"none"})
  <2>1. Brings(c, Bare, syMonkeyCreate, Made)
    BY <1>3, ShortCreate, AbandonedOr, BringsThen DEF syMonkeyCreate
  <2>2. Brings(c, Made, syMonkeyStart, Asked)
    BY <1>2, <1>3, MonkeyStart, SpecialOr, BringsThen DEF syMonkeyStart
  <2>3. Brings(c, Asked, syMonkeyStop, {"none"})
    BY <1>2, <1>3, MonkeyStop DEF syMonkeyStop, Ends
  <2>4. Brings(c, Bare, syMonkeyCreate \o syMonkeyStart \o syMonkeyStop, {"none"})
    BY <2>1, <2>2, <2>3, BringsThreeParts
  <2> QED
    BY <1>3, <2>4, ParamHead, ForgetTail DEF syMonkeyHead, syMonkeyTail
<1> QED
  BY <1>1, <1>2, <1>3, ShortSound

LEMMA FlowingMonkey ==
  ASSUME NEW s, s.demo = "fssMonkey", s.form = "short"
  PROVE  Sound(s)
<1>1. Form(s) = Program(fssMonkeyHead, fssMonkeyCreate \o fssMonkeyStart \o fssMonkeySend
                                       \o fssMonkeyStop, fssMonkeyTail)
  BY DemoIs DEF Form, fssMonkey, fssMonkeyForms
<1>2. ~Waits(s) /\ s.demo \in DOMAIN Demos
  BY MonkeyWaits DEF MonkeyTests
<1>3. ASSUME NEW c, Short(c), c.setup = s
      PROVE  /\ Brings(c, {"none"}, fssMonkeyHead, {"none"})
             /\ Brings(c, Bare, fssMonkeyCreate \o fssMonkeyStart \o fssMonkeySend
                                \o fssMonkeyStop, {"none"})
             /\ Brings(c, Bare, fssMonkeyTail, {"none"})
  <2>1. Brings(c, Bare, fssMonkeyCreate, Made)
    BY <1>3, ShortCreate, AbandonedOr, BringsThen DEF fssMonkeyCreate
  <2>2. Brings(c, Made, fssMonkeyStart, Asked)
    BY <1>2, <1>3, MonkeyStart, SpecialOr, BringsThen DEF fssMonkeyStart
  <2>3. Brings(c, Asked, fssMonkeySend, Asked)
    BY <1>2, <1>3, MonkeyTyped, MonkeyEnds, SendOr DEF fssMonkeySend
  <2>4. Brings(c, Asked, fssMonkeyStop, {"none"})
    BY <1>2, <1>3, MonkeyStop DEF fssMonkeyStop, Ends, Stops
  <2>5. Brings(c, Bare, fssMonkeyCreate \o fssMonkeyStart \o fssMonkeySend \o fssMonkeyStop,
                  {"none"})
    BY <2>1, <2>2, <2>3, <2>4, BringsFourParts
  <2> QED
    BY <1>3, <2>5, ParamHead, ForgetTail DEF fssMonkeyHead, fssMonkeyTail
<1> QED
  BY <1>1, <1>2, <1>3, ShortSound

(***************************************************************************)
(* Every program, where the troubles that break it do not occur.           *)
(***************************************************************************)
BreaksAreFatal == \A s \in Setups : Breaks(s.demo, s.form) \subseteq Fatal(s.demo, s.form)

LEMMA FormIs ==
  ASSUME NEW s \in Setups
  PROVE  /\ s.demo \in DOMAIN Demos /\ s.form \in {"short", "long", "single"}
         /\ s.form = "long"
            => s.demo \in {"st", "funasr", "paraformer", "sr", "sy", "fss", "cosy"}
         /\ s.form = "single" => s.demo \in {"fss", "cosy"}
<1>1. s \in Setup /\ Option(s) \subseteq Demos[s.demo].options
  BY DemosAssumption
<1>2. s.demo \in DOMAIN Demos /\ s.form \in {"short", "long", "single"}
  BY <1>1 DEF Setup
<1>3. s.form # "short" => s.form \in Demos[s.demo].options
  BY <1>1 DEF Option
<1>4. s.demo \in {"st", "funasr", "paraformer"} => "single" \notin Demos[s.demo].options
  <2>1. st.options = stOptions /\ funasr.options = stOptions /\ paraformer.options = stOptions
    BY DEF st, funasr, paraformer, funasrOptions, paraformerOptions
  <2>2. "single" \notin stOptions
    BY DEF stOptions
  <2>3. Demos[s.demo] \in {st, funasr, paraformer}
        \/ s.demo \notin {"st", "funasr", "paraformer"}
    BY DemoIs
  <2> QED
    BY <2>1, <2>2, <2>3
<1>5. s.demo \in {"sr", "sy"} => "single" \notin Demos[s.demo].options
  BY DemoIs DEF sr, sy, srOptions, syOptions
<1>6. s.demo \in {"da", "winDa", "androidDa", "winSt", "winSr", "winSy", "androidSt",
                  "androidSr", "androidSy"} => Demos[s.demo].options = {}
  BY DemoIs DEF da, winDa, androidDa, winSt, winSr, winSy, androidSt, androidSr, androidSy
<1>7. s.demo \in MonkeyTests => Demos[s.demo].options \subseteq {"count", "special"}
  BY DemoIs DEF MonkeyTests, stMonkey, srMonkey, syMonkey, fssMonkey
<1>8. s.demo \in {"st", "funasr", "paraformer", "sr", "sy", "fss", "cosy", "da", "winDa",
                  "androidDa", "winSt", "winSr", "winSy", "androidSt", "androidSr", "androidSy"}
                 \cup MonkeyTests
  BY <1>2 DEF Demos, MonkeyTests
<1> QED
  BY <1>2, <1>3, <1>4, <1>5, <1>6, <1>7, <1>8

LEMMA FatalIs ==
  ASSUME NEW s \in Setups, BreaksAreFatal
  PROVE  /\ s.demo \in {"st", "sr", "sy", "fss"} /\ s.form # "long" => ~Occurs(s, "vip")
         /\ s.demo \in {"fss", "cosy"} /\ s.form # "long" => ~Occurs(s, "silence")
         /\ s.demo \in {"fss", "cosy"} /\ s.form = "long" => Calm(s) /\ ~Occurs(s, "refuse")
         /\ s.demo \in {"da", "winDa", "androidDa"} => ~Occurs(s, "start")
BY DEF BreaksAreFatal, Breaks, Occurs, Calm

LEMMA AllAreSound ==
  ASSUME BreaksAreFatal
  PROVE  AllSound
<1> SUFFICES ASSUME NEW s \in Setups PROVE Sound(s)
  BY DEF AllSound
<1>1. s.demo \in DOMAIN Demos /\ s.form \in {"short", "long", "single"}
  BY FormIs
<1>2. CASE s.demo \in {"st", "funasr", "paraformer"}
  BY <1>1, <1>2, FormIs, FatalIs, TranscriberShort, TranscriberLong
<1>3. CASE s.demo = "sr"
  BY <1>1, <1>3, FormIs, FatalIs, RecognizerShort, RecognizerLong
<1>4. CASE s.demo = "sy"
  BY <1>1, <1>4, FormIs, FatalIs, SynthesizerShort, SynthesizerLong
<1>5. CASE s.demo \in {"fss", "cosy"}
  BY <1>1, <1>5, FatalIs, FlowingShort, FlowingSingle, FlowingLong
<1>6. CASE s.demo \in {"da", "winDa", "androidDa"}
  BY <1>1, <1>6, FormIs, FatalIs, AssistantShort
<1>7. CASE s.demo \in {"winSt", "androidSt", "winSr", "androidSr"}
  BY <1>1, <1>7, FormIs, OlderShort
<1>8. CASE s.demo \in {"winSy", "androidSy"}
  BY <1>1, <1>8, FormIs, OlderSynthesizerShort
<1>9. CASE s.demo \in MonkeyTests
  BY <1>1, <1>9, FormIs, TranscriberMonkey, RecognizerMonkey, SynthesizerMonkey, FlowingMonkey
     DEF MonkeyTests
<1> QED
  BY <1>1, <1>2, <1>3, <1>4, <1>5, <1>6, <1>7, <1>8, <1>9 DEF Demos, MonkeyTests

(***************************************************************************)
(* What is proved of the demos.                                            *)
(***************************************************************************)
\* Every worker of every demo is where its program allows it to be: from what is known of its
\* request and of cbParam, the rest of the program keeps to the rules of the SDK.
THEOREM DemosInvariant ==
  ASSUME BreaksAreFatal
  PROVE  Spec => []DemosInv
<1>1. Init => DemosInv
  BY AllAreSound, DemosInit
<1>2. DemosInv /\ [Next]_vars => DemosInv'
  BY AllAreSound, DemosStep
<1> QED
  BY <1>1, <1>2, PTL DEF Spec

\* The workers of the demos are of their type: what is left of a program is a sequence of
\* instructions, a wait of pthread_cond_timedwait is at an await, and testCount does not pass
\* the count of the command line.
THEOREM DemosTypesOK ==
  ASSUME BreaksAreFatal
  PROVE  Spec => []DemosTypeOK
<1>1. Spec => []DemosInv
  BY DemosInvariant
<1>2. DemosInv => DemosTypeOK
  BY DemosAreFine
<1> QED
  BY <1>1, <1>2, PTL

\* No demo deletes cbParam, and none leaves the function that has it on its stack, while a
\* callback that looks at it is running.
THEOREM ParamStaysAlive ==
  ASSUME BreaksAreFatal
  PROVE  Spec => []ParamIsAlive
<1>1. Spec => []DemosInv
  BY DemosInvariant
<1>2. DemosInv => ParamIsAlive
  BY DemosAreFine
<1> QED
  BY <1>1, <1>2, PTL

\* In every demo a request is used only between createXxxRequest and releaseXxxRequest, it is
\* released once, and no thread ends with a request it has not released.
THEOREM RequestsAreReleasedOnce ==
  ASSUME BreaksAreFatal
  PROVE  Spec => []ReleasedOnce
<1>1. Spec => []DemosInv
  BY DemosInvariant
<1>2. DemosInv => ReleasedOnce
  BY DemosAreFine
<1> QED
  BY <1>1, <1>2, PTL

\* A demo that waits for its callbacks calls releaseXxxRequest only before start, after Closed,
\* or when it has given the request up.
THEOREM RequestsAreReleasedWhenDue ==
  ASSUME BreaksAreFatal
  PROVE  Spec => []ReleasesAreDue
<1>1. Spec => []DemosInv
  BY DemosInvariant
<1>2. DemosInv => ReleasesAreDue
  BY DemosAreFine
<1> QED
  BY <1>1, <1>2, PTL
===============================================================================
