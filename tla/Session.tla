------------------------------- MODULE Session -------------------------------
(***************************************************************************)
(* One request from start() to its last callback: its ConnectNode          *)
(* (transport/connectNode.cpp), the event thread that runs it              *)
(* (event/workThread.cpp), and the user threads that call start, sendAudio,*)
(* stop and cancel (transport/nlsEventNetWork.cpp), over a connection of   *)
(* its own.                                                                *)
(*                                                                         *)
(* A thread inside a function has a program todo[t]: the steps it has yet  *)
(* to run. The steps of different threads interleave; what a lock (the     *)
(* lock of an evbuffer, _mtxNode, _mtxCloseNode, _mtxThread) makes         *)
(* indivisible is one step.                                                *)
(***************************************************************************)
EXTENDS Integers, Sequences, SequencesExt, FiniteSets

CONSTANTS
  MaxFrames,   \* bound: successful calls of sendAudio
  Frame,       \* size of an audio frame in units of NodeFrameSize bytes
  Limit,       \* _limitSize, in the same units
  MaxConnects, \* RetryConnectCount
  StopBy,      \* the user thread that calls stop
  Cancels,     \* a user thread may call cancel
  Blocks,      \* a send may find the socket buffer full
  RecvTimeout, \* _enableRecvTv
  LinkFails,   \* link states in which the network may fail
  ServerFails  \* server phases in which the server may fail the task

ASSUME SessionAssumption ==
  /\ MaxFrames \in Nat /\ Frame \in Nat \ {0} /\ Limit \in Nat \ {0}
  /\ MaxConnects \in Nat \ {0}
  /\ StopBy \in {"feeder", "control"}
  /\ {Cancels, Blocks, RecvTimeout} \subseteq BOOLEAN
  /\ LinkFails \subseteq {"connecting", "up"}
  /\ ServerFails \subseteq {"idle", "upgraded", "started", "heard"}

Users == {"feeder", "control"}
Threads == Users \union {"worker"}

VARIABLES
  status,  \* _workStatus
  exit,    \* _exitStatus
  isStop,  \* _isStop: the Stop directive was built
  retries, \* _retryConnectCount
  audio,   \* units in _binaryEvBuffer
  cmd,     \* directives in _cmdEvBuffer
  events,  \* which libevent events of the node exist and which are pending
  link,    \* the socket
  inbox,   \* frames the server sent and the node has not read
  wire,    \* what the server received
  server,  \* how far the server is with the task
  todo,    \* Threads -> steps of the function the thread is in
  handler, \* the callback the event thread is in or was in last
  frames,  \* frames sendAudio accepted
  calls    \* the callbacks made to the user

node == <<status, exit, isStop, retries, audio, cmd, events>>
network == <<link, inbox, wire, server>>
vars == <<node, network, todo, handler, frames, calls>>

Statuses == {"Created", "Invoking", "Invoked", "Connecting", "Handshaking",
             "Starting", "Started", "Failed", "Completed", "Closed"}
Directives == {"upgrade", "start", "stop"}
Messages == {"switch", "refuse", "Started", "Result", "Completed", "TaskFailed", "CLOSE"}
Callbacks == {"Started", "Result", "Completed", "TaskFailed", "Close"}

\* a step of a program, and one that is about an event or a message
Do(op) == [op |-> op, about |-> "none"]
On(op, e) == [op |-> op, about |-> e]

(***************************************************************************)
(* Programs that several functions share.                                  *)
(***************************************************************************)
\* handlerTaskFailedEvent: TaskFailed, then Close
TellFailure == <<On("event", "TaskFailed"), On("event", "Close")>>

\* mutant of FailedRead: the failure is not reported
FailedReadSilently == <<Do("close")>>

\* a negative result in nodeResponseProcess
FailedRead == IF status = "Closed" THEN <<>> ELSE <<Do("close")>> \o TellFailure

\* a negative result in nodeRequestProcess
FailedWrite == TellFailure \o <<Do("close")>>

\* a negative result in addAudioDataBuffer or cmdNotify
FailedCall == <<Do("disconnect")>> \o TellFailure

OnError(t) == IF t \in Users THEN FailedCall
              ELSE IF handler = "read" THEN FailedRead ELSE FailedWrite

Idle(t) == todo[t] = <<>>
At(t, op) == todo[t] # <<>> /\ Head(todo[t]).op = op
About(t) == Head(todo[t]).about
Continue(t) == todo' = [todo EXCEPT ![t] = Tail(@)]
Perform(t, steps) == todo' = [todo EXCEPT ![t] = steps \o Tail(@)]
Abandon(t, steps) == todo' = [todo EXCEPT ![t] = steps]

\* No socket event of a node without them: closeConnectNode, and before the
\* first connectProcess.
NoEvents == [launch |-> FALSE, read |-> FALSE, write |-> "none"]

(***************************************************************************)
(* nlsSendFrame: sends at most one unit, and asks for a write event if     *)
(* something is left. Results: 0 "empty", positive "rest", negative        *)
(* "error".                                                                *)
(***************************************************************************)
\* mutant of SendAudio: the write event is not asked for again
SendAudioOnce(result) ==
  \/ /\ audio = 0 /\ result = "empty"
     /\ UNCHANGED <<audio, wire, events>>
  \/ /\ audio > 0 /\ link # "up" /\ result = "error"
     /\ UNCHANGED <<audio, wire, events>>
  \/ /\ audio > 0 /\ link = "up"
     /\ \E n \in IF Blocks THEN {0, 1} ELSE {1} :
          /\ audio' = audio - n
          /\ wire' = IF n = 1 THEN Append(wire, "audio") ELSE wire
          /\ result = IF audio' = 0 THEN "empty" ELSE "rest"
          /\ UNCHANGED events

SendAudio(result) ==
  \/ /\ audio = 0 /\ result = "empty"
     /\ UNCHANGED <<audio, wire, events>>
  \/ /\ audio > 0 /\ link # "up" /\ result = "error"
     /\ UNCHANGED <<audio, wire, events>>
  \/ /\ audio > 0 /\ link = "up"
     /\ \E n \in IF Blocks THEN {0, 1} ELSE {1} :
          /\ audio' = audio - n
          /\ wire' = IF n = 1 THEN Append(wire, "audio") ELSE wire
          /\ \/ /\ audio' = 0 /\ result = "empty" /\ UNCHANGED events
             \/ /\ audio' > 0 /\ events.write # "none" /\ result = "rest"
                /\ events' = [events EXCEPT !.write = "armed"]
             \/ /\ audio' > 0 /\ events.write = "none" /\ result = "error"
                /\ UNCHANGED events

\* the directives, one unit together: all of it or nothing is sent
SendCmd(directives, result) ==
  \/ /\ directives = <<>> /\ result = "empty"
     /\ cmd' = directives
     /\ UNCHANGED <<wire, events>>
  \/ /\ directives # <<>> /\ link # "up" /\ result = "error"
     /\ cmd' = directives
     /\ UNCHANGED <<wire, events>>
  \/ /\ directives # <<>> /\ link = "up" /\ result = "empty"
     /\ cmd' = <<>> /\ wire' = wire \o directives
     /\ UNCHANGED events
  \/ /\ directives # <<>> /\ link = "up" /\ Blocks
     /\ cmd' = directives
     /\ \/ /\ events.write # "none" /\ result = "rest"
           /\ events' = [events EXCEPT !.write = "armed"]
        \/ events.write = "none" /\ result = "error" /\ UNCHANGED events
     /\ UNCHANGED wire

Results == {"empty", "rest", "error"}

(***************************************************************************)
(* The user's calls. start, stop and cancel hold _mtxThread.               *)
(***************************************************************************)
Start ==
  /\ Idle("feeder")
  /\ status = "Created" /\ exit = "Invalid"
  /\ status' = "Invoking"
  /\ events' = [events EXCEPT !.launch = TRUE]
  /\ UNCHANGED <<exit, isStop, retries, audio, cmd, network, todo, handler, frames, calls>>

\* sendAudio: what is checked before addAudioDataBuffer; no lock is held. It
\* waits while the node is Starting, and fails without effect in other states.
BeginSendAudio ==
  /\ Idle("feeder") /\ frames < MaxFrames
  /\ status = "Started" /\ exit = "Invalid"
  /\ frames' = frames + 1
  /\ Abandon("feeder", <<Do("add")>>)
  /\ UNCHANGED <<node, network, handler, calls>>

\* addAudioDataBuffer under the lock of the buffer: a full buffer only starts the
\* write event again.
Add(t) ==
  /\ At(t, "add")
  /\ \/ /\ audio >= Limit
        /\ events' = [events EXCEPT !.write = IF @ = "none" THEN @ ELSE "armed"]
        /\ Continue(t)
        /\ UNCHANGED audio
     \/ /\ audio < Limit
        /\ audio' = audio + Frame
        /\ Perform(t, IF audio = 0 /\ status = "Started"
                      THEN <<Do("flush")>> ELSE <<Do("directive")>>)
        /\ UNCHANGED events
  /\ UNCHANGED <<status, exit, isStop, retries, cmd, network, handler, frames, calls>>

\* stop: refused before start and after the end
Stop ==
  /\ Idle(StopBy)
  /\ exit = "Invalid"
  /\ status \notin {"Created", "Failed", "Completed", "Closed"}
  /\ exit' = "Stopping"
  /\ Abandon(StopBy, <<Do("notify")>>)
  /\ UNCHANGED <<status, isStop, retries, audio, cmd, events, network, handler, frames, calls>>

\* cmdNotify(CmdStop) after it set _exitStatus
Notify(t) ==
  /\ At(t, "notify")
  /\ IF status = "Started" /\ audio = 0
     THEN Perform(t, <<Do("directive")>>) ELSE Continue(t)
  /\ UNCHANGED <<node, network, handler, frames, calls>>

\* cancel: cmdNotify(CmdCancel) only sets the flag, and the wait that follows
\* while the node connects is limited to 500 ms.
Cancel ==
  /\ Cancels
  /\ Idle("control") /\ (StopBy = "feeder" => ~At("feeder", "notify"))
  /\ exit # "Cancel"
  /\ status \notin {"Created", "Closed"}
  /\ exit' = "Cancel"
  /\ UNCHANGED <<status, isStop, retries, audio, cmd, events, network, todo, handler, frames, calls>>

(***************************************************************************)
(* Steps that user threads and the event thread share.                     *)
(***************************************************************************)
\* Send from _binaryEvBuffer, then look for a directive. addAudioDataBuffer does
\* not send once the Stop directive was built; nodeRequestProcess and
\* nodeResponseProcess do not ask.
Flush(t) ==
  /\ At(t, "flush")
  /\ \/ /\ t \in Users /\ isStop
        /\ Perform(t, <<Do("directive")>>)
        /\ UNCHANGED <<audio, wire, events>>
     \/ /\ ~(t \in Users /\ isStop)
        /\ \E result \in Results :
             /\ SendAudio(result)
             /\ \/ result = "empty" /\ Perform(t, <<Do("directive")>>)
                \/ result = "rest" /\ Continue(t)
                \/ result = "error" /\ Abandon(t, OnError(t))
  /\ UNCHANGED <<status, exit, isStop, retries, cmd, link, inbox, server, handler, frames, calls>>

\* mutant of MustStop: no look at _isStop
MustStopAgain == ~(status = "Started" /\ exit = "Invalid") /\ exit = "Stopping"

\* sendControlDirective has to build the Stop directive
MustStop == /\ ~(status = "Started" /\ exit = "Invalid")
            /\ exit = "Stopping" /\ ~isStop

\* sendControlDirective
Directive(t) ==
  /\ At(t, "directive")
  /\ isStop' = (isStop \/ MustStop)
  /\ \/ /\ ~MustStop /\ ~(status = "Started" /\ exit = "Invalid")
        /\ Continue(t)
        /\ UNCHANGED <<cmd, wire, events>>
     \/ /\ MustStop \/ (status = "Started" /\ exit = "Invalid")
        /\ \E result \in Results :
             /\ SendCmd(IF MustStop THEN Append(cmd, "stop") ELSE cmd, result)
             /\ IF result = "error" THEN Abandon(t, OnError(t)) ELSE Continue(t)
  /\ UNCHANGED <<status, exit, retries, audio, link, inbox, server, handler, frames, calls>>

\* handlerEvent up to the callback
Event(t) ==
  /\ At(t, "event")
  /\ IF exit = "Cancel" THEN Continue(t) ELSE Perform(t, <<On("call", About(t))>>)
  /\ UNCHANGED <<node, network, handler, frames, calls>>

\* handlerFrame: the user's callback. handlerEvent sets NodeClosed after Close
\* returned.
Call(t) ==
  /\ At(t, "call")
  /\ calls' = Append(calls, [by |-> t, event |-> About(t), late |-> exit = "Cancel"])
  /\ IF About(t) = "Close"
     THEN Perform(t, <<Do("closed")>>) /\ retries' = 0
     ELSE Continue(t) /\ UNCHANGED retries
  /\ UNCHANGED <<status, exit, isStop, audio, cmd, events, network, handler, frames>>

Closed(t) ==
  /\ At(t, "closed")
  /\ status' = "Closed"
  /\ Continue(t)
  /\ UNCHANGED <<exit, isStop, retries, audio, cmd, events, network, handler, frames, calls>>

\* mutant of CloseNode: the events stay
CloseSocket(t) ==
  /\ At(t, "close")
  /\ link' = "down" /\ inbox' = <<>>
  /\ Continue(t)
  /\ UNCHANGED <<node, wire, server, handler, frames, calls>>

\* closeConnectNode
CloseNode(t) ==
  /\ At(t, "close")
  /\ link' = "down" /\ inbox' = <<>>
  /\ events' = NoEvents
  /\ Continue(t)
  /\ UNCHANGED <<status, exit, isStop, retries, audio, cmd, wire, server, handler, frames, calls>>

\* disconnectProcess: closes the socket and leaves the events
Disconnect(t) ==
  /\ At(t, "disconnect")
  /\ link' = "down" /\ inbox' = <<>>
  /\ Continue(t)
  /\ UNCHANGED <<node, wire, server, handler, frames, calls>>

(***************************************************************************)
(* The event thread: one callback at a time.                               *)
(***************************************************************************)
Worker == Idle("worker")

\* mutant of Attempt: one attempt too many
AttemptMore == retries <= MaxConnects

\* checkConnectCount
Attempt == retries < MaxConnects

\* dnsProcess, unless the request was cancelled: the next attempt to connect, or
\* the end after RetryConnectCount attempts. A cancelled node goes nowhere.
Dial ==
  \/ /\ exit # "Cancel" /\ Attempt
     /\ retries' = retries + 1
     /\ status' = "Connecting" /\ link' = "connecting"
     /\ UNCHANGED todo
  \/ /\ exit # "Cancel" /\ ~Attempt
     /\ retries' = 0
     /\ link' = "down"
     /\ Abandon("worker", TellFailure)
     /\ UNCHANGED status
  \/ /\ exit = "Cancel"
     /\ link' = "down"
     /\ UNCHANGED <<retries, status, todo>>

\* launchEventCallback: a request stopped or cancelled by now is not connected
Launch ==
  /\ Worker /\ events.launch
  /\ events' = [events EXCEPT !.launch = FALSE]
  /\ \/ /\ exit = "Invalid"
        /\ Dial
     \/ /\ exit # "Invalid"
        /\ status' = "Invoked"
        /\ UNCHANGED <<retries, link, todo>>
  /\ UNCHANGED <<exit, isStop, audio, cmd, inbox, wire, server, handler, frames, calls>>

\* connectEventCallback after a failed or late connect or TLS handshake
ConnectFails ==
  /\ Worker /\ link = "connecting" /\ "connecting" \in LinkFails
  /\ Dial
  /\ UNCHANGED <<exit, isStop, audio, cmd, events, inbox, wire, server, handler, frames, calls>>

\* connectEventCallback: sslProcess checks for cancel, then nodeRequestProcess
\* sends the upgrade request.
Connected ==
  /\ Worker /\ link = "connecting"
  /\ \/ /\ exit = "Cancel"
        /\ link' = "down"
        /\ UNCHANGED <<status, cmd, wire, events>>
     \/ /\ exit # "Cancel"
        /\ link' = "up" /\ status' = "Handshaking"
        /\ \/ /\ cmd' = <<>> /\ wire' = wire \o <<"upgrade">>
              /\ events' = [events EXCEPT !.read = TRUE, !.write = "idle"]
           \/ /\ Blocks
              /\ cmd' = <<"upgrade">>
              /\ events' = [events EXCEPT !.read = TRUE, !.write = "armed"]
              /\ UNCHANGED wire
  /\ UNCHANGED <<exit, isStop, retries, audio, inbox, server, todo, handler, frames, calls>>

\* readEventCallBack: every frame that has arrived by now is parsed
Read ==
  /\ Worker /\ events.read
  /\ \/ link = "up" /\ inbox # <<>>
     \/ link = "broken"
  /\ handler' = "read"
  /\ \/ /\ exit = "Cancel"
        /\ Abandon("worker", <<Do("close")>>)
        /\ UNCHANGED <<status, cmd, wire, events, inbox>>
     \/ /\ exit # "Cancel" /\ status = "Handshaking"
        /\ link = "up" /\ Head(inbox) = "switch"
        /\ inbox' = Tail(inbox)
        /\ status' = "Starting"
        /\ cmd' = Append(cmd, "start")
        /\ Abandon("worker", <<Do("command")>>)
        /\ UNCHANGED <<wire, events>>
     \/ /\ exit # "Cancel" /\ status \in {"Starting", "Started"}
        /\ link = "up"
        /\ \E n \in 1 .. Len(inbox) :
             /\ inbox' = SubSeq(inbox, n + 1, Len(inbox))
             /\ Abandon("worker", [i \in 1 .. n |-> On("parse", inbox[i])] \o
                          IF status = "Starting" THEN <<Do("begin")>> ELSE <<>>)
        /\ UNCHANGED <<status, cmd, wire, events>>
     \/ /\ exit # "Cancel"
        /\ \/ link = "broken"
           \/ link = "up" /\ status = "Handshaking" /\ Head(inbox) = "refuse"
           \/ link = "up" /\ status \notin {"Handshaking", "Starting", "Started"}
        /\ Abandon("worker", FailedRead)
        /\ UNCHANGED <<status, cmd, wire, events, inbox>>
  /\ UNCHANGED <<exit, isStop, retries, audio, link, server, frames, calls>>

\* nlsSendFrame(getCmdEvBuffer()) while the node is Handshaking or Starting
Command ==
  /\ At("worker", "command")
  /\ \E result \in Results :
       /\ SendCmd(cmd, result)
       /\ IF result = "error" THEN Abandon("worker", OnError("worker"))
                              ELSE Continue("worker")
  /\ UNCHANGED <<status, exit, isStop, retries, audio, link, inbox, server, handler, frames, calls>>

\* the end of parsing: frames not parsed yet are left, but a node that has come
\* from Starting to Started still sends what waits
GiveUp ==
  IF /\ todo["worker"][Len(todo["worker"])].op = "begin"
     /\ status = "Started"
  THEN <<Do("begin")>> ELSE FailedRead

\* mutant of NormalEnd: every CLOSE frame is a failure
NeverNormal(message) == FALSE

\* a CLOSE frame after the callback Close is the normal end
NormalEnd(message) == message = "CLOSE" /\ status = "Closed"

\* parseFrame up to the callback
Parse ==
  /\ At("worker", "parse")
  /\ LET message == About("worker")
         event == IF message = "CLOSE" THEN "TaskFailed" ELSE message
     IN \/ /\ NormalEnd(message)
           /\ Abandon("worker", <<Do("close")>>)
        \/ /\ ~NormalEnd(message) /\ exit = "Cancel"
           /\ Abandon("worker", GiveUp)
        \/ /\ ~NormalEnd(message) /\ exit # "Cancel"
           /\ Perform("worker", <<On("call", event), On("after", event)>>)
  /\ UNCHANGED <<node, network, handler, frames, calls>>

\* parseFrame after the callback: the new status, and the closeFlag block
After ==
  /\ At("worker", "after")
  /\ LET event == About("worker")
     IN /\ status' = CASE event = "Started" -> "Started"
                       [] event = "Completed" -> "Completed"
                       [] event = "TaskFailed" -> "Failed"
                       [] OTHER -> status
        /\ IF event \in {"Completed", "TaskFailed"}
           THEN Perform("worker", <<Do("close"), On("event", "Close")>>)
           ELSE Continue("worker")
  /\ UNCHANGED <<exit, isStop, retries, audio, cmd, events, network, handler, frames, calls>>

\* mutant of Begin: the node that becomes Started waits for a write event
BeginLater == At("worker", "begin") /\ Continue("worker")
              /\ UNCHANGED <<node, network, handler, frames, calls>>

\* nodeResponseProcess: the node has just become Started
Begin ==
  /\ At("worker", "begin")
  /\ IF status = "Started" THEN Perform("worker", <<Do("flush")>>) ELSE Continue("worker")
  /\ UNCHANGED <<node, network, handler, frames, calls>>

\* writeEventCallBack and nodeRequestProcess
Write ==
  /\ Worker /\ events.write = "armed" /\ link \in {"up", "broken"}
  /\ events' = [events EXCEPT !.write = "idle"]
  /\ handler' = "write"
  /\ Abandon("worker",
       CASE exit = "Cancel" -> <<Do("close")>>
         [] exit # "Cancel" /\ status \in {"Handshaking", "Starting"} -> <<Do("command")>>
         [] exit # "Cancel" /\ status = "Started" -> <<Do("flush")>>
         [] OTHER -> FailedWrite)
  /\ UNCHANGED <<status, exit, isStop, retries, audio, cmd, network, frames, calls>>

\* EV_TIMEOUT of the read event or of the write event. disconnectProcess does not
\* stop these timers.
Timeout ==
  /\ Worker
  /\ \/ events.read /\ RecvTimeout
     \/ events.write = "armed" /\ (Blocks \/ link # "up")
  /\ Abandon("worker", <<Do("close")>> \o IF exit = "Cancel" THEN <<>> ELSE TellFailure)
  /\ UNCHANGED <<node, network, handler, frames, calls>>

(***************************************************************************)
(* The network and the server.                                             *)
(***************************************************************************)
Received(directive) == \E i \in DOMAIN wire : wire[i] = directive

Reply(phase, messages) ==
  /\ link = "up"
  /\ server' = phase
  /\ inbox' = inbox \o messages
  /\ UNCHANGED <<node, link, wire, todo, handler, frames, calls>>

LinkBreaks ==
  /\ link = "up" /\ "up" \in LinkFails
  /\ link' = "broken"
  /\ UNCHANGED <<node, inbox, wire, server, todo, handler, frames, calls>>

ServerUpgrades == server = "idle" /\ Received("upgrade") /\ Reply("upgraded", <<"switch">>)

ServerRefuses ==
  server = "idle" /\ Received("upgrade") /\ server \in ServerFails /\ Reply("done", <<"refuse">>)

ServerStarts == server = "upgraded" /\ Received("start") /\ Reply("started", <<"Started">>)

ServerReports == server = "started" /\ Received("audio") /\ Reply("heard", <<"Result">>)

ServerCompletes ==
  server \in {"started", "heard"} /\ Received("stop") /\ Reply("done", <<"Completed">>)

\* The server fails the task, and may close the connection at once.
ServerFailsTask ==
  /\ server \in ServerFails \ {"idle"} /\ Received("start")
  /\ \/ Reply("done", <<"TaskFailed">>)
     \/ Reply("done", <<"TaskFailed", "CLOSE">>)
     \/ Reply("done", <<"CLOSE">>)

-----------------------------------------------------------------------------
Init ==
  /\ status = "Created" /\ exit = "Invalid" /\ isStop = FALSE /\ retries = 0
  /\ audio = 0 /\ cmd = <<>> /\ events = NoEvents
  /\ link = "down" /\ inbox = <<>> /\ wire = <<>> /\ server = "idle"
  /\ todo = [t \in Threads |-> <<>>] /\ handler = "read"
  /\ frames = 0 /\ calls = <<>>

Running(t) == \/ Add(t) \/ Notify(t) \/ Flush(t) \/ Directive(t) \/ Event(t)
              \/ Call(t) \/ Closed(t) \/ CloseNode(t) \/ Disconnect(t)

EventThread == \/ Launch \/ Connected \/ Read \/ Command \/ Parse \/ After \/ Begin
               \/ Write \/ Running("worker")

User == Start \/ BeginSendAudio \/ Stop \/ Cancel

Server == ServerUpgrades \/ ServerStarts \/ ServerReports \/ ServerCompletes

Fault == ConnectFails \/ Timeout \/ LinkBreaks \/ ServerRefuses \/ ServerFailsTask

Next == EventThread \/ User \/ Server \/ Fault \/ \E t \in Users : Running(t)

\* The event loop runs what is pending, a user's call returns, the server answers.
Fairness == /\ WF_vars(EventThread)
            /\ \A t \in Users : WF_vars(Running(t))
            /\ WF_vars(Server)

Spec == Init /\ [][Next]_vars /\ Fairness

-----------------------------------------------------------------------------
(***************************************************************************)
(* Properties.                                                             *)
(***************************************************************************)
Step == [op: {"add", "notify", "flush", "directive", "event", "call", "closed",
              "close", "disconnect", "command", "parse", "after", "begin"},
         about: Messages \union Callbacks \union {"none"}]

TypeOK ==
  /\ status \in Statuses
  /\ exit \in {"Invalid", "Stopping", "Cancel"}
  /\ isStop \in BOOLEAN
  /\ retries \in 0 .. MaxConnects
  /\ audio \in 0 .. Limit + Frame - 1
  /\ cmd \in Seq(Directives)
  /\ events \in [launch: BOOLEAN, read: BOOLEAN, write: {"none", "idle", "armed"}]
  /\ link \in {"down", "connecting", "up", "broken"}
  /\ inbox \in Seq(Messages)
  /\ wire \in Seq(Directives \union {"audio"})
  /\ server \in {"idle", "upgraded", "started", "heard", "done"}
  /\ todo \in [Threads -> Seq(Step)]
  /\ handler \in {"read", "write"}
  /\ frames \in 0 .. MaxFrames
  /\ calls \in Seq([by: Threads, event: Callbacks, late: BOOLEAN])

Indexes(seq, x) == {i \in DOMAIN seq : seq[i] = x}

\* The Stop directive is sent once, whoever finds the buffer empty first: the
\* caller of stop, sendAudio or the event thread. (sendControlDirective.)
StopIsSentOnce == Cardinality(Indexes(wire, "stop")) <= 1

\* No wakeup is lost: audio that waits in the buffer of a Started node has a
\* write event, or a thread on its way to send it. (addAudioDataBuffer sends only
\* if the buffer was empty, nlsSendFrame arms the write event.)
AudioIsServed ==
  audio > 0 /\ status = "Started" /\ link = "up" =>
    \/ events.write = "armed"
    \/ \E t \in Threads : \E i \in DOMAIN todo[t] :
         todo[t][i].op \in {"flush", "begin", "close", "disconnect"}

\* The text frame of a directive never lies between the parts of an audio frame,
\* and no audio follows Stop. (The comment at nodeRequestProcess: the audio has
\* been sent, see whether a directive waits.)
StopIsLast ==
  \A i \in Indexes(wire, "stop") :
    /\ Cardinality({j \in 1 .. i : wire[j] = "audio"}) % Frame = 0
    /\ \A j \in i + 1 .. Len(wire) : wire[j] # "audio"

Late(t) == {i \in DOMAIN calls : calls[i].by = t /\ calls[i].late}

\* cancel lets at most one callback through per thread: the one whose check of
\* _exitStatus came before cancel set it.
OneLateCallback == \A t \in Threads : Cardinality(Late(t)) <= 1

\* No callback begins once cancel has returned.
SilentAfterCancel == \A t \in Threads : Late(t) = {}

\* What a thread has told its user.
Log(t) == FlattenSeq([i \in DOMAIN calls |-> IF calls[i].by = t THEN <<calls[i].event>>
                                                                ELSE <<>>])

Reports == [i \in DOMAIN calls |-> calls[i].event]

All == INSTANCE TaskEvents WITH log <- Reports
One(t) == INSTANCE TaskEvents WITH log <- Log(t)

\* The callbacks of a request arrive in the order the SDK promises: one start, then
\* results, one end, one Close, and nothing after it.
CallbacksInOrder == All!Spec

\* Each thread that reports a failure keeps to that order.
ThreadCallbacksInOrder ==
  [][\A t \in Threads : One(t)!Next \/ UNCHANGED Log(t)]_calls

Closing == \E i \in DOMAIN calls : calls[i].event = "Close"

\* A request stopped after its launch ends with Close: the Stop directive reaches
\* the server whatever the moment of the call, the server completes the task and
\* Close follows. (cmdNotify, nodeResponseProcess, sendControlDirective.)
StoppedSessionCloses ==
  exit = "Stopping" /\ status \in {"Connecting", "Handshaking", "Starting", "Started"}
    ~> Closing \/ exit = "Cancel"

\* A request that was started and stopped ends with Close.
StopIsAnswered == exit = "Stopping" ~> Closing \/ exit = "Cancel"

\* Audio that sendAudio accepted leaves the buffer, or the session ends.
AudioIsSent == audio > 0 ~> audio = 0 \/ Closing \/ exit = "Cancel"

\* A broken connection is reported: unless cancelled, the session ends with Close.
BrokenLinkIsReported == link = "broken" ~> Closing \/ exit = "Cancel"
=============================================================================
