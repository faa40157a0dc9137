-------------------------------- MODULE Demos --------------------------------
(***************************************************************************)
(* A run of a demo or of a monkey test: main starts the workers and joins  *)
(* them, each worker goes through its program, the event thread of the SDK *)
(* calls its callbacks, and the timer or a signal ends the run.            *)
(*                                                                         *)
(* The SDK is what it promises to a user: a callback that has begun delays *)
(* release, nothing is called after release, and at most one callback that *)
(* is under way is called after cancel.                                    *)
(***************************************************************************)
EXTENDS DemoPorts, Integers

CONSTANTS
  Workers,      \* the threads
  Setups,       \* how the programs are called: a set of records in Setup
  Fatal(_, _),  \* troubles that break a form of a program and do not occur here
  MaxRounds     \* bound: --loop

\* what may go wrong: no file; no request; no address; start or a send is refused; an answer
\* comes late or never; the task fails; the service completes it before it is asked to
Troubles == {"open", "create", "vip", "start", "refuse", "silence", "failure", "early"}

Setup == [demo : DOMAIN Demos, form : {"short", "long", "single"}, count : 0..MaxRounds,
          loop : BOOLEAN, message : BOOLEAN, special : BOOLEAN, workers : SUBSET Workers]

\* an option of the command line
Option(s) == (IF s.count > 0 THEN {"count"} ELSE {})
             \cup (IF s.form = "short" THEN {} ELSE {s.form})
             \cup (IF s.loop THEN {"loop file"} ELSE {})
             \cup (IF s.message THEN {"message"} ELSE {})
             \cup (IF s.special THEN {"special"} ELSE {})

ASSUME DemosAssumption ==
  /\ MaxRounds \in Nat
  /\ Setups \subseteq Setup
  /\ \A s \in Setups : Option(s) \subseteq Demos[s.demo].options

\* the loop leaves a request behind when vipServer has no address, fss and cosy when a wait
\* expires, da when start is refused; the long forms of fss and cosy release a request twice
\* when their text is refused, that is after an early end, too
Breaks(demo, form) ==
  (IF demo \in {"st", "sr", "sy", "fss"} /\ form # "long" THEN {"vip"} ELSE {})
  \cup (IF demo \in {"fss", "cosy"} /\ form # "long" THEN {"silence"} ELSE {})
  \cup (IF demo \in {"fss", "cosy"} /\ form = "long" THEN {"refuse", "failure", "early"} ELSE {})
  \cup (IF demo \in {"da", "winDa", "androidDa"} THEN {"start"} ELSE {})

VARIABLES
  setup,    \* the program, and how it was called
  run,      \* global_run
  main,     \* launching, joining, joined
  worker    \* the threads

vars == <<setup, run, main, worker>>

Code == Demos[setup.demo].forms[setup.form]
On(cb) == Demos[setup.demo].on[IF setup.message THEN "Message" ELSE cb]
May(trouble) == trouble \in Troubles \ Fatal(setup.demo, setup.form)
Patient == setup.demo \notin {"stMonkey", "srMonkey", "syMonkey", "fssMonkey"}

Fresh == [todo |-> <<>>,        \* what is left of the program
          rounds |-> 0,         \* testCount, up to the count of the command line
          param |-> FALSE,      \* cbParam
          request |-> "none",   \* none, created, starting, started, over, closed
          exit |-> "",          \* stopping, cancelled
          late |-> FALSE,       \* a callback is under way that cancel does not stop
          telling |-> "none",   \* the callback that is called
          waiting |-> FALSE,    \* in pthread_cond_timedwait
          due |-> FALSE]        \* nothing is left to wait for

(***************************************************************************)
(* Main: the workers, the timer (only without --loop), SIGINT and SIGQUIT. *)
(***************************************************************************)
Launch ==
  /\ main = "launching"
  /\ main' = "joining" /\ run' = TRUE
  /\ worker' = [w \in Workers |->
                  IF w \in setup.workers THEN [Fresh EXCEPT !.todo = Code.head] ELSE Fresh]
  /\ UNCHANGED setup

Join ==
  /\ main = "joining" /\ \A w \in Workers : worker[w].todo = <<>>
  /\ main' = "joined"
  /\ UNCHANGED <<setup, run, worker>>

AutoClose ==
  /\ main = "joining" /\ run /\ setup.count = 0
  /\ run' = FALSE
  /\ UNCHANGED <<setup, main, worker>>

Interrupt ==
  /\ main = "joining" /\ run
  /\ run' = FALSE
  /\ UNCHANGED <<setup, main, worker>>

(***************************************************************************)
(* The steps of a worker.                                                  *)
(***************************************************************************)
At(w, op) == worker[w].todo # <<>> /\ Head(worker[w].todo).do = op

Changed(me, changes) ==
  [x \in DOMAIN me |-> IF x \in DOMAIN changes THEN changes[x] ELSE me[x]]

\* a worker whose operation is done, with these changes
Did(me, changes) == [Changed(me, changes) EXCEPT !.todo = Tail(me.todo)]
Done(w, changes) == worker' = [worker EXCEPT ![w] = Did(@, changes)]

\* one whose operation failed: what the program does then
DidNot(me, changes) ==
  [Changed(me, changes) EXCEPT !.todo = Head(me.todo).else \o Tail(me.todo)]
Fails(w, changes) == worker' = [worker EXCEPT ![w] = DidNot(@, changes)]

Unchanged == <<>>   \* no change but that of todo
Same == UNCHANGED <<setup, run, main>>

Jump(w) ==
  /\ \/ At(w, "enter") /\ worker' = [worker EXCEPT ![w].todo = Code.body]
     \/ /\ At(w, "next") \/ At(w, "continue")
        /\ worker' = [worker EXCEPT ![w].todo = IF run THEN Code.body ELSE Code.tail]
     \/ At(w, "break") /\ worker' = [worker EXCEPT ![w].todo = Code.tail]
     \/ At(w, "return") /\ worker' = [worker EXCEPT ![w].todo = <<>>]
     \/ At(w, "skip") /\ worker' = [worker EXCEPT ![w].todo = Tail(Tail(@))]
  /\ Same

Open(w) ==
  /\ At(w, "open")
  /\ Done(w, Unchanged) \/ (May("open") /\ Fails(w, Unchanged))
  /\ Same

NewParam(w) == At(w, "param") /\ Done(w, [param |-> TRUE]) /\ Same

Forget(w) == At(w, "forget") /\ Done(w, [param |-> FALSE]) /\ Same

Create(w) ==
  /\ At(w, "create")
  /\ \/ Done(w, [request |-> "created", exit |-> "", late |-> FALSE])
     \/ May("create") /\ Fails(w, Unchanged)
  /\ Same

\* vipServerListGetUrl, setSingleRoundText
Configure(w) ==
  /\ \/ At(w, "vip") /\ (Done(w, Unchanged) \/ (May("vip") /\ Fails(w, Unchanged)))
     \/ At(w, "single") /\ Done(w, Unchanged)
  /\ Same

\* one of a hundred rounds is given up before it starts, the special ones after it
Monkey(w) ==
  /\ \/ At(w, "lucky") /\ (Done(w, Unchanged) \/ Fails(w, Unchanged))
     \/ /\ At(w, "unless special")
        /\ IF setup.special THEN Fails(w, Unchanged) ELSE Done(w, Unchanged)
  /\ Same

Start(w) ==
  LET me == worker[w]
      counted == IF me.rounds < setup.count THEN me.rounds + 1 ELSE me.rounds
  IN
  /\ At(w, "start")
  /\ \/ /\ me.request = "created" \/ (me.request = "closed" /\ setup.form = "long")
        /\ Done(w, [request |-> "starting", exit |-> "", due |-> FALSE, rounds |-> counted])
     \/ /\ May("start") \/ me.request \notin {"created", "closed"}
        /\ Fails(w, [due |-> TRUE, rounds |-> counted])
  /\ Same

\* pthread_cond_timedwait begins; Tell ends it, or Expire
Await(w) ==
  /\ At(w, "await Started") \/ At(w, "await Closed")
  /\ ~worker[w].waiting
  /\ worker' = [worker EXCEPT ![w].waiting = TRUE]
  /\ Same

\* mutant: the wait goes on for the thread that gives it up
ExpireAsleep(w) ==
  /\ worker[w].waiting /\ May("silence")
  /\ Fails(w, [due |-> TRUE])
  /\ Same

Expire(w) ==
  /\ worker[w].waiting /\ May("silence")
  /\ Fails(w, [waiting |-> FALSE, due |-> TRUE])
  /\ Same

Poll(w) == At(w, "poll") /\ Done(w, Unchanged) /\ Same

\* all of the audio or text; with --loopAudioFile there is no end of it
Send(w) ==
  LET me == worker[w]
      open == me.request = "started" /\ me.exit = ""
  IN
  /\ At(w, "send") \/ At(w, "send while running")
  /\ \/ /\ open
        /\ setup.loop => (~run /\ At(w, "send while running"))
        /\ Done(w, Unchanged)
     \/ ~open /\ Fails(w, [due |-> TRUE])
  /\ Same

\* a send that the SDK refuses all the same
Refuse(w) ==
  /\ At(w, "send") \/ At(w, "send while running")
  /\ May("refuse") /\ Fails(w, [due |-> TRUE])
  /\ Same

Stop(w) ==
  LET me == worker[w] IN
  /\ \E op \in {"stop", "stop or cancel", "stop or cancel or nothing"} : At(w, op)
  /\ IF me.exit # ""
     THEN Done(w, Unchanged)
     ELSE IF me.request \in {"starting", "started"}
          THEN Done(w, [exit |-> "stopping"])
          ELSE Fails(w, [due |-> TRUE])
  /\ Same

Cancel(w) ==
  /\ \E op \in {"cancel", "stop or cancel", "stop or cancel or nothing",
                "stop nothing or cancel or nothing"} : At(w, op)
  /\ Done(w, [exit |-> "cancelled", due |-> TRUE,
              late |-> worker[w].request \in {"starting", "started", "over"}])
  /\ Same

\* stop of a synthesizer, and the third of the monkey's choices
Idle(w) ==
  /\ \E op \in {"stop nothing", "stop or cancel or nothing",
                "stop nothing or cancel or nothing"} : At(w, op)
  /\ Done(w, Unchanged)
  /\ Same

Release(w) ==
  /\ At(w, "release") /\ worker[w].telling = "none"
  /\ Done(w, [request |-> "none", exit |-> "", late |-> FALSE, due |-> FALSE])
  /\ Same

\* vectorGetFailed: the flag of a failed task, which no later round resets
UnlessFailed(w) ==
  /\ At(w, "unless failed")
  /\ Done(w, Unchanged) \/ (May("failure") /\ Fails(w, Unchanged))
  /\ Same

Count(w) ==
  /\ At(w, "count")
  /\ run' = (run /\ (setup.count = 0 \/ worker[w].rounds < setup.count))
  /\ Done(w, Unchanged)
  /\ UNCHANGED <<setup, main>>

Work(w) ==
  \/ Jump(w) \/ Open(w) \/ NewParam(w) \/ Forget(w) \/ Create(w) \/ Configure(w) \/ Monkey(w)
  \/ Start(w) \/ Await(w) \/ Poll(w) \/ Send(w) \/ Stop(w) \/ Cancel(w) \/ Idle(w)
  \/ Release(w) \/ UnlessFailed(w) \/ Count(w)

(***************************************************************************)
(* The event thread calls a callback and comes back from it.               *)
(***************************************************************************)
Possible(w, cb) ==
  LET me == worker[w] IN
  /\ me.telling = "none"
  /\ CASE cb = "Started" -> me.request = "starting"
       [] cb = "Failed" -> me.request \in {"starting", "started"} /\ May("failure")
       [] cb = "Completed" -> me.request = "started" /\ (me.exit = "stopping" \/ May("early"))
       [] cb = "Closed" -> me.request = "over"
       [] OTHER -> me.request = "started"
  /\ me.exit = "cancelled" => me.late
  \* of a service and a program that are never late for each other
  /\ "signal" \in On(cb) /\ ~May("silence") => me.waiting

Reached(me, cb) ==
  CASE cb = "Started" -> "started"
    [] cb \in {"Failed", "Completed"} -> "over"
    [] OTHER -> me.request

\* what a callback makes of a worker, which it wakes or not
Hears(me, cb, wakes) ==
  [me EXCEPT !.telling = cb, !.late = FALSE, !.request = Reached(me, cb),
             !.waiting = @ /\ ~wakes, !.due = @ \/ (wakes /\ cb = "Closed"),
             !.todo = IF wakes THEN Tail(@) ELSE @]

Tell(w, cb) ==
  /\ Possible(w, cb)
  /\ worker' = [worker EXCEPT
                  ![w] = Hears(@, cb, "signal" \in On(cb) /\ worker[w].waiting)]
  /\ Same

Told(w) ==
  /\ worker[w].telling # "none"
  /\ worker' = [worker EXCEPT ![w].telling = "none",
                              ![w].request = IF worker[w].telling = "Closed" THEN "closed" ELSE @]
  /\ Same

Event(w) == Told(w) \/ \E cb \in DOMAIN Demos[setup.demo].on \ {"Message"} : Tell(w, cb)

Init ==
  /\ setup \in Setups
  /\ run = FALSE /\ main = "launching"
  /\ worker = [w \in Workers |-> Fresh]

Next ==
  \/ Launch \/ Join \/ AutoClose \/ Interrupt
  \/ \E w \in Workers : Work(w) \/ Refuse(w) \/ Expire(w) \/ Event(w)

(***************************************************************************)
(* Threads run, callbacks come back, waits expire. Where a program cannot  *)
(* do without an answer of the service, the answer comes.                  *)
(***************************************************************************)
Answer(w) == ~May("silence") /\ \E cb \in {"Started", "Completed", "Closed"} : Tell(w, cb)

Fairness ==
  /\ WF_vars(Launch) /\ WF_vars(Join)
  /\ \A w \in Workers : WF_vars(Work(w)) /\ WF_vars(Expire(w)) /\ WF_vars(Told(w))
                        /\ SF_vars(Release(w)) /\ SF_vars(Answer(w))

Spec == Init /\ [][Next]_vars /\ Fairness

Operations ==
  {"enter", "next", "continue", "break", "return", "skip", "open", "param", "forget", "create",
   "vip", "single", "lucky", "unless special", "start", "await Started", "await Closed", "poll",
   "send", "send while running", "stop", "stop or cancel", "stop or cancel or nothing",
   "stop nothing or cancel or nothing", "stop nothing", "cancel", "release", "unless failed",
   "count"}

\* The state is what it is meant to be, a wait is at an await, and a round beyond the count of
\* the command line is not counted.
DemosTypeOK ==
  /\ setup \in Setups /\ run \in BOOLEAN /\ main \in {"launching", "joining", "joined"}
  /\ \A w \in Workers :
       LET me == worker[w] IN
       /\ me.todo \in Seq([do : Operations, else : Seq([do : Operations, else : {<<>>}])])
       /\ me.rounds \in 0..setup.count
       /\ me.request \in {"none", "created", "starting", "started", "over", "closed"}
       /\ me.exit \in {"", "stopping", "cancelled"}
       /\ me.telling \in {"none", "Started", "Result", "Completed", "Failed", "Closed"}
       /\ me.param \in BOOLEAN /\ me.late \in BOOLEAN /\ me.due \in BOOLEAN
       /\ me.waiting => At(w, "await Started") \/ At(w, "await Closed")

\* A callback that looks at its parameter finds it: no program deletes cbParam, and none
\* leaves the function on whose stack it is, while a callback is running or may still come.
ParamIsAlive ==
  \A w \in Workers : worker[w].telling # "none" /\ "param" \in On(worker[w].telling)
                     => worker[w].param

Uses == {"start", "await Started", "await Closed", "send", "send while running", "stop",
         "cancel", "release"}

\* A request is used only between its creation and its release, it is released once, and
\* no thread ends, or makes a new one, with a request it has not released.
ReleasedOnce ==
  \A w \in Workers :
    LET me == worker[w]
        op == Head(me.todo).do
    IN /\ me.todo # <<>> /\ op \in Uses => me.request # "none"
       /\ me.request # "none" => me.todo # <<>> /\ op # "create"

\* A demo releases a request that has not been started, one whose last callback is there, or
\* one it has given up: the wait expired, or start, stop or a send was refused.
ReleasesAreDue ==
  Patient => \A w \in Workers :
    At(w, "release") => worker[w].request \in {"created", "closed"} \/ worker[w].due

\* When the run is to end, every thread comes to its end, whatever it is waiting for.
RunEnds == (main = "joining" /\ ~run) ~> (main = "joined")
===============================================================================
