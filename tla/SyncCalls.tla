------------------------------ MODULE SyncCalls ------------------------------
(***************************************************************************)
(* The calls of NlsEventNetWork in synchronous mode (setSyncCallTimeout,   *)
(* transport/nlsEventNetWork.cpp): the user threads and the callbacks that *)
(* call it, its one mutex _mtxThread, which start and stop hold while they *)
(* wait for an answer, and the condition variable of each node, on which   *)
(* they wait without a predicate. A send that fails is told by the thread  *)
(* that sends, in its call, beside what the event thread has to tell.      *)
(*                                                                         *)
(* What goes on between two answers of the server is in module Session.    *)
(***************************************************************************)
EXTENDS Integers, Sequences

CONSTANTS
  Requests,
  Users,     \* user threads
  Plans,     \* bound: the troubles that are let in together ->
             \*   Users -> set of <<operation, request>> it may call
  MaxCalls,  \* bound: Users -> calls
  MaxInside  \* bound: calls made inside of callbacks

\* What may happen besides. "send": a send of a user's call fails. "callback": and what
\* it calls back calls the client again. "wakeup": pthread_cond_timedwait wakes with no
\* cause. "idle": a long connection fails between two sessions.
ASSUME CallsAssumption ==
  /\ {"event", "nobody"} \intersect Users = {}
  /\ DOMAIN Plans \subseteq SUBSET {"send", "callback", "wakeup", "idle"}
  /\ MaxCalls \in [Users -> Nat] /\ MaxInside \in Nat

\* A thread calls from its own code or inside of a callback; a callback that comes of
\* the latter makes no call (bound).
Callers == (Users \union {"event"}) \X {"own", "inner"}
EventThread == <<"event", "own">>
Inner(c) == <<c[1], "inner">>
Outer(c) == <<c[1], "own">>
Nobody == <<"nobody", "own">>

VARIABLES
  holder,   \* who holds _mtxThread, which is not recursive, or Nobody
  status,   \* Requests -> _workStatus
  exit,     \* Requests -> _exitStatus
  error,    \* Requests -> _nodeErrCode, of which only its origin matters
  launch,   \* Requests -> the launch event is pending
  link,     \* Requests -> its connection: "none", "up", or "down" when a user thread
            \*   has closed the socket and the read event is still pending
  answered, \* Requests -> events that signalled since the last start
  todo,     \* Callers -> what it has yet to do of an event or of a failed send
  call,     \* Callers -> the call it is in
  calls,    \* Users -> calls made
  inside,   \* calls made inside of callbacks
  refused,  \* requests one of whose starts found a wrong status
  long,     \* long connection
  troubles  \* what is let in besides

node == <<status, exit, error, launch, link, answered>>
others == <<calls, inside, refused, long, troubles>>
vars == <<holder, node, todo, call, others>>

Statuses == {"Created", "Invoking", "Invoked", "Starting", "Started", "Failed", "Completed", "Closed"}
Running == {"Invoking", "Invoked", "Starting", "Started"}

Ops == {"start", "stop", "cancel", "send", "audio"}
Places == {"idle", "lock", "admit", "wait", "asleep", "woken", "relock", "report"}
Idle == [op |-> "none", request |-> "none", at |-> "idle"]

At(c, place) == call[c].at = place
Req(c) == call[c].request
Go(c, place) == call' = [call EXCEPT ![c].at = place]
Return(c) == call' = [call EXCEPT ![c] = Idle] /\ holder' = IF holder = c THEN Nobody ELSE holder

\* The steps of an event or a failure.
Do(op, r, event) == [op |-> op, request |-> r, event |-> event]
Frame(r, event) == <<Do("signal", r, event), Do("callback", r, event)>>
Event(r, event) == <<Do("event", r, event)>>
Status(r, s) == <<Do("status", r, s)>>
TaskFailed(r) == Event(r, "TaskFailed") \o Event(r, "Close")

(***************************************************************************)
(* Every call but sendAudio takes the mutex first and gives it back on     *)
(* every path.                                                             *)
(***************************************************************************)
\* A callback may call too, here on its own request.
Begin(c, op, r) ==
  /\ At(c, "idle")
  /\ IF c = Inner(c)
     THEN LET steps == todo[Outer(c)] IN
          /\ steps # <<>> /\ Head(steps).op = "callback" /\ Head(steps).request = r
          /\ inside < MaxInside /\ (c[1] = "event" \/ "callback" \in troubles)
          /\ inside' = inside + 1 /\ UNCHANGED calls
     ELSE /\ c[1] \in Users /\ calls[c[1]] < MaxCalls[c[1]] /\ <<op, r>> \in Plans[troubles][c[1]]
          /\ calls' = [calls EXCEPT ![c[1]] = @ + 1] /\ UNCHANGED inside
  /\ call' = [call EXCEPT ![c] = [op |-> op, request |-> r,
                                  at |-> IF op = "audio" THEN "admit" ELSE "lock"]]
  /\ UNCHANGED <<holder, node, todo, refused, long, troubles>>

\* Between the lock and what the call then finds may lie 500 rounds of 1 ms: start of
\* a long connection waits for the Close of a completed session, what sends waits
\* while the session starts. Either may give up before that has come.
Lock(c) ==
  /\ At(c, "lock") /\ holder = Nobody
  /\ holder' = c
  /\ Go(c, "admit")
  /\ UNCHANGED <<node, todo, others>>

\* initAllStatus where the session before is closed, then Invoking. The error code
\* is not reset.
Reset(r) ==
  /\ status' = [status EXCEPT ![r] = "Invoking"]
  /\ exit' = [exit EXCEPT ![r] = "Invalid"]
  /\ UNCHANGED error

Runs(r) == exit[r] = "Invalid" /\ status[r] \in Running

Startable(r) == \/ status[r] = "Created" /\ exit[r] = "Invalid"
                \/ long /\ status[r] = "Closed"

\* start: launch and wait; nothing for a session that runs; or refused, which
\* leaves the node Created whatever it was
Start(c) ==
  /\ At(c, "admit") /\ call[c].op = "start"
  /\ LET r == Req(c) IN
     \/ /\ Startable(r)
        /\ Reset(r)
        /\ launch' = [launch EXCEPT ![r] = TRUE]
        /\ answered' = [answered EXCEPT ![r] = {}]
        /\ Go(c, "wait")
        /\ UNCHANGED <<holder, refused>>
     \/ /\ Runs(r)
        /\ Return(c)
        /\ UNCHANGED <<status, exit, error, launch, answered, refused>>
     \/ /\ ~Startable(r) /\ ~Runs(r)
        /\ status' = [status EXCEPT ![r] = "Created"]
        /\ exit' = [exit EXCEPT ![r] = IF long /\ status[r] = "Closed" THEN "Invalid" ELSE @]
        /\ refused' = refused \union {r}
        /\ Return(c)
        /\ UNCHANGED <<error, launch, answered>>
  /\ UNCHANGED <<link, todo, calls, inside, long, troubles>>

\* A send fails: disconnectProcess, then handlerTaskFailedEvent in this very call. The
\* events of the node stay with the event thread.
Fails(c) ==
  /\ "send" \in troubles /\ status[Req(c)] = "Started"
  /\ link' = [link EXCEPT ![Req(c)] = IF @ = "up" THEN "down" ELSE @]
  /\ todo' = [todo EXCEPT ![c] = TaskFailed(Req(c))]
  /\ Go(c, "report")
  /\ UNCHANGED holder

\* stop: nothing the second time; refused for a session that does not run. A Stop that
\* did not fit into the socket returns what is left of it, and is not waited for.
Stop(c) ==
  /\ At(c, "admit") /\ call[c].op = "stop"
  /\ LET r == Req(c) IN
     \/ /\ Runs(r)
        /\ exit' = [exit EXCEPT ![r] = "Stopping"]
        /\ \/ Go(c, "wait") /\ UNCHANGED <<holder, link, todo>>
           \/ status[r] = "Started" /\ Return(c) /\ UNCHANGED <<link, todo>>
           \/ Fails(c)
     \/ /\ ~Runs(r)
        /\ Return(c)
        /\ UNCHANGED <<exit, link, todo>>
  /\ UNCHANGED <<status, error, launch, answered, others>>

\* cancel: 100 rounds of 5 ms without the mutex while the node connects
Cancel(c) ==
  /\ At(c, "admit") /\ call[c].op = "cancel"
  /\ LET r == Req(c) IN
     \/ /\ exit[r] # "Cancel" /\ status[r] \in Statuses \ {"Created", "Closed"}
        /\ exit' = [exit EXCEPT ![r] = "Cancel"]
        /\ IF status[r] = "Invoked"
           THEN Go(c, "relock") /\ holder' = Nobody
           ELSE Return(c)
     \/ /\ exit[r] = "Cancel" \/ status[r] \in {"Created", "Closed"}
        /\ Return(c)
        /\ UNCHANGED exit
  /\ UNCHANGED <<status, error, launch, link, answered, todo, others>>

Relock(c) ==
  /\ At(c, "relock") /\ holder = Nobody
  /\ Return(c)
  /\ UNCHANGED <<node, todo, others>>

\* stControl, sendText, sendPing, sendFlush with the mutex, sendAudio without: refused
\* unless Started, sent, or the link is found broken
Send(c) ==
  /\ At(c, "admit") /\ call[c].op \in {"send", "audio"}
  /\ \/ Return(c) /\ UNCHANGED <<link, todo>>
     \/ exit[Req(c)] = "Invalid" /\ Fails(c)
  /\ UNCHANGED <<status, exit, error, launch, answered, others>>

\* The failure is told, and the call returns it. But a stop that failed with the rest of
\* the encoder's audio forgets it, finds nothing to send any more, and waits.
Reported(c) ==
  /\ At(c, "report") /\ todo[c] = <<>>
  /\ \/ Return(c)
     \/ call[c].op = "stop" /\ Go(c, "wait") /\ UNCHANGED holder
  /\ UNCHANGED <<node, todo, others>>

(***************************************************************************)
(* waitInvokeFinish: the time between the call and the wait is not covered *)
(* by the mutex of the condition variable, and its flag is not looked at.  *)
(***************************************************************************)
Sleep(c) ==
  /\ At(c, "wait")
  /\ Go(c, "asleep")
  /\ UNCHANGED <<holder, node, todo, others>>

\* mutant of TimeOut: a wait that ran out is no error
TimeOutSilently(c) ==
  /\ At(c, "asleep")
  /\ Go(c, "woken")
  /\ UNCHANGED <<holder, node, todo, others>>

\* the sync call timeout, before or after the answer
TimeOut(c) ==
  /\ At(c, "asleep")
  /\ error' = [error EXCEPT ![Req(c)] = "InvokeTimeout"]
  /\ Go(c, "woken")
  /\ UNCHANGED <<holder, status, exit, launch, link, answered, todo, others>>

\* a wakeup that is neither an answer nor the timeout sets no error
WakeEarly(c) ==
  /\ "wakeup" \in troubles
  /\ At(c, "asleep")
  /\ Go(c, "woken")
  /\ UNCHANGED <<holder, node, todo, others>>

\* mutant of Finish: a wait that ran out returns and keeps the mutex
FinishLocked(c) ==
  /\ At(c, "woken")
  /\ call' = [call EXCEPT ![c] = Idle]
  /\ holder' = IF error[Req(c)] = "InvokeTimeout" THEN holder ELSE Nobody
  /\ UNCHANGED <<node, todo, others>>

Succeeds(c) == At(c, "woken") /\ error[Req(c)] = "none"

Finish(c) ==
  /\ At(c, "woken")
  /\ Return(c)
  /\ UNCHANGED <<node, todo, others>>

(***************************************************************************)
(* The event thread, and a user thread whose send failed. handlerFrame     *)
(* signals, then calls back; what the status becomes is stored after the   *)
(* callback.                                                               *)
(***************************************************************************)
Busy(c) == todo[c] # <<>>
Now(c, op) == Busy(c) /\ (c = Outer(c) => At(Inner(c), "idle")) /\ Head(todo[c]).op = op
About(c) == Head(todo[c]).request
Run(steps) == ~Busy(EventThread) /\ todo' = [todo EXCEPT ![EventThread] = steps]
Then(c, steps) == todo' = [todo EXCEPT ![c] = steps \o Tail(@)]
Done(c) == todo' = [todo EXCEPT ![c] = Tail(@)]

\* launchEventCallback: not for a request that was stopped or cancelled; a
\* connection that fails is told like any failure
Launch(r) ==
  /\ launch[r]
  /\ launch' = [launch EXCEPT ![r] = FALSE]
  /\ status' = [status EXCEPT ![r] = "Invoked"]
  /\ Run(IF exit[r] # "Invalid" THEN <<>> ELSE <<Do("dial", r, "none")>>)
  /\ UNCHANGED <<holder, exit, error, link, answered, call, others>>

Dial ==
  /\ Now(EventThread, "dial")
  /\ LET r == About(EventThread) IN
     \/ /\ status' = [status EXCEPT ![r] = "Starting"]
        /\ link' = [link EXCEPT ![r] = "up"]
        /\ Done(EventThread)
     \/ /\ link' = [link EXCEPT ![r] = "none"]
        /\ Then(EventThread, TaskFailed(r))
        /\ UNCHANGED status
  /\ UNCHANGED <<holder, exit, error, launch, answered, call, others>>

\* parseFrame of the answers of the server, unless the request was cancelled. A long
\* connection stays, unless the task failed.
Answer(r) ==
  /\ exit[r] # "Cancel" /\ link[r] = "up"
  /\ \/ /\ status[r] = "Starting"
        /\ Run(Frame(r, "Started") \o Status(r, "Started"))
        /\ UNCHANGED link
     \/ /\ status[r] = "Started" /\ exit[r] = "Stopping"
        /\ Run(Frame(r, "Completed") \o Status(r, "Completed") \o Event(r, "Close"))
        /\ link' = [link EXCEPT ![r] = IF long THEN "up" ELSE "none"]
     \/ /\ status[r] \in {"Starting", "Started"}
        /\ Run(Frame(r, "TaskFailed") \o Status(r, "Failed") \o Event(r, "Close"))
        /\ link' = [link EXCEPT ![r] = "none"]
  /\ UNCHANGED <<holder, status, exit, error, launch, answered, call, others>>

\* a connection that breaks or has nothing to read for too long, also one that was kept
\* for the next session; closeConnectNode frees the launch event, too
Break(r) ==
  /\ link[r] # "none"
  /\ \/ status[r] \in {"Starting", "Started"}
     \/ "idle" \in troubles /\ status[r] \in {"Invoking", "Invoked", "Closed"}
  /\ Run(TaskFailed(r))
  /\ link' = [link EXCEPT ![r] = "none"]
  /\ launch' = [launch EXCEPT ![r] = FALSE]
  /\ UNCHANGED <<holder, status, exit, error, answered, call, others>>

\* mutant of HandleEvent: the status says Closed before it is told
CloseFirst(c) ==
  /\ Now(c, "event")
  /\ LET r == About(c)
         event == Head(todo[c]).event IN
     /\ Then(c, IF exit[r] = "Cancel" \/ status[r] = "Closed" THEN <<>> ELSE Frame(r, event))
     /\ status' = [status EXCEPT ![r] = IF event = "Close" THEN "Closed" ELSE @]
     /\ error' = [error EXCEPT ![r] = IF event = "TaskFailed" THEN "TaskFailed" ELSE @]
  /\ UNCHANGED <<holder, exit, launch, link, answered, call, others>>

\* handlerEvent: keeps the code of a failure; silent when cancelled or closed
HandleEvent(c) ==
  /\ Now(c, "event")
  /\ LET r == About(c)
         event == Head(todo[c]).event IN
     \/ /\ exit[r] = "Cancel"
        /\ Done(c)
        /\ UNCHANGED error
     \/ /\ exit[r] # "Cancel"
        /\ error' = [error EXCEPT ![r] = IF event = "TaskFailed" THEN event ELSE @]
        /\ Then(c, IF status[r] = "Closed" THEN <<>>
                   ELSE IF event = "Close" THEN Frame(r, event) \o Status(r, "Closed")
                   ELSE Frame(r, event))
  /\ UNCHANGED <<holder, status, exit, launch, link, answered, call, others>>

\* sendFinishCondSignal: Started and Close wake who waits for this node
Signal(c) ==
  /\ Now(c, "signal")
  /\ LET r == About(c)
         event == Head(todo[c]).event IN
     IF event \in {"Started", "Close"}
     THEN /\ call' = [d \in Callers |-> IF At(d, "asleep") /\ Req(d) = r
                                        THEN [call[d] EXCEPT !.at = "woken"] ELSE call[d]]
          /\ answered' = [answered EXCEPT ![r] = @ \union {event}]
     ELSE UNCHANGED <<call, answered>>
  /\ Done(c)
  /\ UNCHANGED <<holder, status, exit, error, launch, link, others>>

\* the callback returns
CalledBack(c) ==
  /\ Now(c, "callback")
  /\ Done(c)
  /\ UNCHANGED <<holder, node, call, others>>

Store(c) ==
  /\ Now(c, "status")
  /\ status' = [status EXCEPT ![About(c)] = Head(todo[c]).event]
  /\ Done(c)
  /\ UNCHANGED <<holder, exit, error, launch, link, answered, call, others>>

(***************************************************************************)
(* The system.                                                             *)
(***************************************************************************)
Init ==
  /\ holder = Nobody
  /\ status = [r \in Requests |-> "Created"]
  /\ exit = [r \in Requests |-> "Invalid"]
  /\ error = [r \in Requests |-> "none"]
  /\ launch = [r \in Requests |-> FALSE]
  /\ link = [r \in Requests |-> "none"]
  /\ answered = [r \in Requests |-> {}]
  /\ todo = [c \in Callers |-> <<>>]
  /\ call = [c \in Callers |-> Idle]
  /\ calls = [u \in Users |-> 0]
  /\ inside = 0
  /\ refused = {}
  /\ long \in BOOLEAN /\ troubles \in DOMAIN Plans

Inside(c) == \/ Lock(c) \/ Start(c) \/ Stop(c) \/ Cancel(c) \/ Relock(c) \/ Send(c)
             \/ Sleep(c) \/ TimeOut(c) \/ WakeEarly(c) \/ Finish(c) \/ Reported(c)
Tell(c) == HandleEvent(c) \/ Signal(c) \/ CalledBack(c) \/ Store(c)

Next == \/ \E c \in Callers : Inside(c) \/ Tell(c)
        \/ \E c \in Callers, op \in Ops, r \in Requests : Begin(c, op, r)
        \/ Dial
        \/ \E r \in Requests : Launch(r) \/ Answer(r) \/ Break(r)

\* Threads run and a wait runs out; no user must call and no server must answer.
Step(t) == \/ \E c \in Callers : c[1] = t /\ (Inside(c) \/ Tell(c))
           \/ t = "event" /\ Dial
Fairness == \A t \in Users \union {"event"} : WF_vars(Step(t))

Spec == Init /\ [][Next]_vars /\ Fairness

(***************************************************************************)
(* Properties.                                                             *)
(***************************************************************************)
\* Every variable has its type, and the mutex is held by a caller in a call.
CallsTypeOK ==
  /\ holder \in Callers \union {Nobody}
  /\ holder # Nobody => call[holder].at \notin {"idle", "lock", "relock"}
  /\ status \in [Requests -> Statuses]
  /\ exit \in [Requests -> {"Invalid", "Stopping", "Cancel"}]
  /\ error \in [Requests -> {"none", "TaskFailed", "InvokeTimeout"}]
  /\ launch \in [Requests -> BOOLEAN]
  /\ link \in [Requests -> {"none", "up", "down"}]
  /\ answered \in [Requests -> SUBSET {"Started", "Close"}]
  /\ \A c \in Callers : call[c].at \in Places
  /\ refused \subseteq Requests /\ long \in BOOLEAN

Fresh(c) == Req(c) \notin refused

\* A synchronous start that returns Success was woken by a Started or a Close told
\* since it began, not by a wait that ran out.
StartIsAnswered ==
  \A c \in Callers :
    Succeeds(c) /\ Fresh(c) /\ call[c].op = "start" => answered[Req(c)] # {}

\* A synchronous stop that returns Success was woken by the Close of its session,
\* not by a Started that came too late for its start. What keeps it so is that the
\* error code of the start is never reset.
StopIsAnswered ==
  \A c \in Callers :
    Succeeds(c) /\ Fresh(c) /\ call[c].op = "stop" => "Close" \in answered[Req(c)]

\* No synchronous call returns Success that was not answered, if no wait wakes with no
\* cause and no send fails.
CallsAreAnswered ==
  {"send", "wakeup"} \intersect troubles = {} => StartIsAnswered /\ StopIsAnswered

\* A request starts anew only when nobody has anything left to tell of its session
\* before, if no send fails and no connection between two sessions.
RoundsDoNotOverlap ==
  [][{"send", "idle"} \intersect troubles = {} =>
       \A r \in Requests :
         r \notin refused' /\ launch'[r] /\ ~launch[r] =>
           \A c \in Callers : \A i \in DOMAIN todo[c] : todo[c][i].request # r]_vars

\* Calls return, also one that is made in a callback of the event thread while another
\* thread holds the mutex and waits for this very event thread, and one that tells a
\* failed send with the mutex held: sooner or later nobody is in a call. What is called
\* back there must not call the client.
CallsReturn ==
  []<>(\/ {"send", "callback"} \subseteq troubles
       \/ \A c \in Callers : At(c, "idle"))

\* A stop in synchronous mode returns after the callback of Close, not while it is made.
StopReturnsAfterClose ==
  [][\A c \in Callers :
       Succeeds(c) /\ Fresh(c) /\ call[c].op = "stop" /\ call'[c] = Idle =>
         \A d \in Callers : \A i \in DOMAIN todo[d] :
           todo[d][i] # Do("callback", Req(c), "Close")]_vars
===============================================================================
