------------------------------- MODULE Delivery -------------------------------
(***************************************************************************)
(* From a message of the service to the callback of the user: the event a  *)
(* frame is turned into (framework/common/nlsEventInner.cpp), what it does *)
(* to the node (parseFrame and handlerFrame of transport/connectNode.cpp), *)
(* the callback the listener of the feature chooses                        *)
(* (framework/feature/*/*Listener.cpp), and the way through the C# binding *)
(* (nlsCsharpSdkExtern), where all requests of a feature share one event.  *)
(*                                                                         *)
(* A message is its name and, of a result of DashScope, what its sentence  *)
(* says. Connecting is Dialing's, bytes are Frames', cancel and failures   *)
(* of the socket are Session's: here the link fails only when the service  *)
(* says so.                                                                *)
(***************************************************************************)
EXTENDS Integers, Sequences, SequencesExt, FiniteSets

CONSTANTS
  Requests, Threads,
  ThreadOf,      \* the event thread of a request
  Setups,        \* what the requests may be: a set of functions from Requests
  Hasty,         \* start may be called inside of the last callback of a round
  MaxResults,    \* bound: results of a round
  MaxRounds,     \* bound: rounds of a request
  None

Kinds == {"sr", "st", "funasr", "paraformer", "sy", "fss", "cosyvoice", "da"}
DashScope == {"funasr", "paraformer", "cosyvoice"}
Bound == {"sr", "st", "sy"}   \* the features nlsCsharpSdkExtern binds

\* bounds: how often it is started, and results of a round
Setup == [kind : Kinds, long : BOOLEAN, message : BOOLEAN, csharp : BOOLEAN,
          rounds : 0..MaxRounds, results : 1..MaxResults]

ASSUME DeliveryAssumption ==
  /\ ThreadOf \in [Requests -> Threads] /\ Hasty \in BOOLEAN
  /\ \A s \in Setups : /\ s \in [Requests -> Setup]
                       /\ \A r \in Requests :
                            /\ s[r].csharp => s[r].kind \in Bound /\ ~s[r].message /\ ~s[r].long
                            /\ s[r].message => s[r].kind # "da"
  /\ MaxResults \in Nat /\ MaxRounds \in Nat \ {0}
  /\ None \notin Requests

VARIABLES
  setup,    \* the requests
  link,     \* connected: is there a connection
  status,   \* _workStatus
  server,   \* the service: none, asked (has the start directive), working, over
  wire,     \* messages on their way
  sent,     \* messages of this round
  rounds,   \* rounds started
  thread,   \* what an event thread is doing
  shared,   \* srEvent, stEvent, syEvent
  calls     \* callbacks of this round, each with the event the user sees

vars == <<setup, link, status, server, wire, sent, rounds, thread, shared, calls>>

Blank == [owner |-> None, type |-> "TaskFailed", bytes |-> 0]
Idle == [at |-> "idle", req |-> None, type |-> "", then |-> ""]

Kind(r) == setup[r].kind

(***************************************************************************)
(* The services: what each sends, and the callback that is meant by it.    *)
(***************************************************************************)
Opening(k) == CASE k \in {"sr", "da"} -> "RecognitionStarted"
                [] k = "st" -> "TranscriptionStarted"
                [] k = "fss" -> "SynthesisStarted"
                [] k \in DashScope -> "task-started"
                [] k = "sy" -> ""

Results(k) == CASE k = "sr" -> {"RecognitionResultChanged"}
                [] k = "st" -> {"SentenceBegin", "TranscriptionResultChanged", "SentenceEnd",
                                "SentenceSemantics"}
                [] k \in {"funasr", "paraformer"} -> {"sentence_begin", "sentence", "sentence_end"}
                [] k = "sy" -> {"Binary", "MetaInfo"}
                [] k = "fss" -> {"SentenceBegin", "SentenceSynthesis", "SentenceEnd", "Binary"}
                [] k = "cosyvoice" -> {"words", "no words", "Binary"}
                [] k = "da" -> {"RecognitionResultChanged", "RecognitionCompleted"}

Verdict(k) == CASE k = "sr" -> "RecognitionCompleted"
                [] k = "st" -> "TranscriptionCompleted"
                [] k \in {"sy", "fss"} -> "SynthesisCompleted"
                [] k \in DashScope -> "task-finished"
                [] k = "da" -> "DialogResultGenerated"

Failures(k) == {IF k \in DashScope THEN "task-failed" ELSE "TaskFailed", "CLOSE", "not json"}

\* the callback a message is for; "": for none
Meant(k, m) ==
  CASE m \in {"task-failed", "CLOSE", "not json"} -> "TaskFailed"
    [] m = "task-started" -> IF k = "cosyvoice" THEN "SynthesisStarted" ELSE "TranscriptionStarted"
    [] m = "task-finished" -> IF k = "cosyvoice" THEN "SynthesisCompleted"
                                                 ELSE "TranscriptionCompleted"
    [] m = "sentence_begin" -> "SentenceBegin"
    [] m = "sentence_end" -> "SentenceEnd"
    [] m = "sentence" -> "TranscriptionResultChanged"
    [] m = "words" -> "SentenceSynthesis"
    [] m = "no words" -> ""
    [] m = "101" -> IF k = "sy" THEN "SynthesisStarted" ELSE ""
    [] OTHER -> m

Ends(k, m) == m = Verdict(k) \/ m \in Failures(k)

(***************************************************************************)
(* NlsEventInner::parseJsonMsg: the type of the event, "ignored" or        *)
(* "failed".                                                               *)
(***************************************************************************)
parseMsgType(m) ==
  CASE m \in {"TaskFailed", "task-failed"} -> "TaskFailed"
    [] m = "task-started" -> "TaskStarted"
    [] m = "task-finished" -> "TaskFinished"
    [] m \in {"sentence_begin", "sentence", "sentence_end", "words", "no words"} ->
         "ResultGenerated"
    [] OTHER -> m

\* mutant: an end is looked for last
convertFunAsrSentenceFirst(type, m) ==
  CASE type = "TaskStarted" -> "TranscriptionStarted"
    [] type = "TaskFinished" -> "TranscriptionCompleted"
    [] m = "sentence_begin" -> "SentenceBegin"
    [] m \in {"sentence", "sentence_end"} -> "TranscriptionResultChanged"
    [] OTHER -> type

convertFunAsr(type, m) ==
  CASE type = "TaskStarted" -> "TranscriptionStarted"
    [] type = "TaskFinished" -> "TranscriptionCompleted"
    [] m = "sentence_end" -> "SentenceEnd"
    [] m = "sentence_begin" -> "SentenceBegin"
    [] m = "sentence" -> "TranscriptionResultChanged"
    [] OTHER -> type

convertParaformer(type, m) == convertFunAsr(type, m)

\* a result without words and without usage is dropped
convertCosyVoice(type, m) ==
  CASE type = "TaskStarted" -> "SynthesisStarted"
    [] type = "TaskFinished" -> "SynthesisCompleted"
    [] type = "TaskFailed" -> "TaskFailed"
    [] m = "words" -> "SentenceSynthesis"
    [] OTHER -> "ignored"

parseJsonMsg(k, m) ==
  IF m = "not json" THEN "failed"
  ELSE CASE k = "funasr" -> convertFunAsr(parseMsgType(m), m)
         [] k = "paraformer" -> convertParaformer(parseMsgType(m), m)
         [] k = "cosyvoice" -> convertCosyVoice(parseMsgType(m), m)
         [] OTHER -> parseMsgType(m)

\* convertResult: binary frames are not parsed
convertResult(k, m) == IF m = "Binary" THEN "Binary" ELSE parseJsonMsg(k, m)

(***************************************************************************)
(* The listeners: the types each has a callback for. Every other type is   *)
(* given to the callback of TaskFailed.                                    *)
(***************************************************************************)
SpeechRecognizerListener ==
  {"RecognitionStarted", "RecognitionCompleted", "RecognitionResultChanged", "Message", "Close"}
SpeechTranscriberListener ==
  {"TranscriptionStarted", "SentenceBegin", "TranscriptionResultChanged", "SentenceEnd",
   "SentenceSemantics", "TranscriptionCompleted", "Message", "Close"}
DashFunAsrTranscriberListener ==
  {"TranscriptionStarted", "SentenceBegin", "TranscriptionResultChanged", "SentenceEnd",
   "SentenceSemantics", "TranscriptionCompleted", "Message", "Close"}
DashParaformerTranscriberListener ==
  {"TranscriptionStarted", "SentenceBegin", "TranscriptionResultChanged", "SentenceEnd",
   "SentenceSemantics", "TranscriptionCompleted", "Message", "Close"}
SpeechSynthesizerListener ==
  {"SynthesisStarted", "SynthesisCompleted", "Close", "Binary", "MetaInfo", "Message"}
FlowingSynthesizerListener ==
  {"SynthesisStarted", "SynthesisCompleted", "Close", "Binary", "SentenceSynthesis",
   "SentenceBegin", "SentenceEnd", "Message"}
DashCosyVoiceSynthesizerListener ==
  {"SynthesisStarted", "SynthesisCompleted", "Close", "Binary", "SentenceSynthesis",
   "SentenceBegin", "SentenceEnd", "Message"}
DialogAssistantListener ==
  {"RecognitionStarted", "RecognitionCompleted", "RecognitionResultChanged",
   "DialogResultGenerated", "Close", "WakeWordVerificationCompleted"}

Listener(k) == CASE k = "sr" -> SpeechRecognizerListener
                 [] k = "st" -> SpeechTranscriberListener
                 [] k = "funasr" -> DashFunAsrTranscriberListener
                 [] k = "paraformer" -> DashParaformerTranscriberListener
                 [] k = "sy" -> SpeechSynthesizerListener
                 [] k = "fss" -> FlowingSynthesizerListener
                 [] k = "cosyvoice" -> DashCosyVoiceSynthesizerListener
                 [] k = "da" -> DialogAssistantListener

listenerFrame(k, type) == IF type \in Listener(k) THEN type ELSE "TaskFailed"

\* the callbacks the classes of the C# SDK let a user set
OfferedByRecognizer ==
  {"RecognitionStarted", "TaskFailed", "RecognitionResultChanged", "RecognitionCompleted", "Close"}
OfferedByTranscriber ==
  {"TranscriptionStarted", "TaskFailed", "TranscriptionResultChanged", "TranscriptionCompleted",
   "Close", "SentenceBegin", "SentenceEnd", "SentenceSemantics"}
OfferedBySynthesizer == {"TaskFailed", "Binary", "SynthesisCompleted", "Close", "MetaInfo"}

\* those the native side of the binding exports a setter for
ExportedForRecognizer ==
  {"RecognitionStarted", "RecognitionResultChanged", "RecognitionCompleted", "TaskFailed", "Close"}
ExportedForTranscriber ==
  {"TranscriptionStarted", "TranscriptionResultChanged", "TranscriptionCompleted", "TaskFailed",
   "Close", "SentenceBegin", "SentenceEnd"}
ExportedForSynthesizer == {"SynthesisCompleted", "TaskFailed", "Close", "Binary", "MetaInfo"}

\* setting one that is not exported throws and sets nothing
Settable(k) == CASE k = "sr" -> OfferedByRecognizer \cap ExportedForRecognizer
                 [] k = "st" -> OfferedByTranscriber \cap ExportedForTranscriber
                 [] k = "sy" -> OfferedBySynthesizer \cap ExportedForSynthesizer

Registered(r, callback) == setup[r].csharp => callback \in Settable(Kind(r))

(***************************************************************************)
(* The event of a feature in the C# binding.                               *)
(***************************************************************************)
ConvertNlsEvent(event, r, type) ==
  [owner |-> r, type |-> type,
   bytes |-> IF type = "Binary" THEN event.bytes + 1 ELSE event.bytes]

\* mutant: the bytes stay
CleanAllButBytes(event) == [Blank EXCEPT !.bytes = event.bytes]

CleanNlsEvent(event) == Blank

\* the callbacks of the native side: the event is copied, the delegate is called
ToBinding(r, type) == shared' = [shared EXCEPT ![Kind(r)] = ConvertNlsEvent(@, r, type)]

\* a callback of the user
ToUser(r, callback, event) ==
  calls' = [calls EXCEPT ![r] = Append(@, [callback |-> callback, event |-> event])]

(***************************************************************************)
(* The user and the service.                                               *)
(***************************************************************************)
Busy(r) == thread[ThreadOf[r]].req = r

\* start: over a connection that is there, or over a new one, whose gateway
\* answers (Dialing, Frames)
Start(r) ==
  /\ status[r] = "Created" \/ (status[r] = "Closed" /\ setup[r].long)
  /\ rounds[r] < setup[r].rounds /\ (Busy(r) => Hasty)
  /\ rounds' = [rounds EXCEPT ![r] = @ + 1]
  /\ calls' = [calls EXCEPT ![r] = <<>>]
  /\ link' = [link EXCEPT ![r] = TRUE]
  /\ IF link[r]
     THEN /\ status' = [status EXCEPT ![r] = "Starting"]
          /\ sent' = [sent EXCEPT ![r] = wire[r]]
          /\ server' = [server EXCEPT ![r] = IF wire[r] = <<>> THEN "asked" ELSE "over"]
          /\ UNCHANGED wire
     ELSE /\ status' = [status EXCEPT ![r] = "Handshaked"]
          /\ sent' = [sent EXCEPT ![r] = <<"101">>]
          /\ wire' = [wire EXCEPT ![r] = <<"101">>]
          /\ server' = [server EXCEPT ![r] = "none"]
  /\ UNCHANGED <<setup, thread, shared>>

Serve(r, m, state) ==
  /\ link[r]
  /\ wire' = [wire EXCEPT ![r] = Append(@, m)]
  /\ sent' = [sent EXCEPT ![r] = Append(@, m)]
  /\ server' = [server EXCEPT ![r] = state]
  /\ UNCHANGED <<setup, link, status, rounds, thread, shared, calls>>

ServeStarted(r) == server[r] = "asked" /\ Kind(r) # "sy" /\ Serve(r, Opening(Kind(r)), "working")

Working(r) == server[r] = "working" \/ (server[r] = "asked" /\ Kind(r) = "sy")

ServeResult(r) ==
  /\ Working(r)
  /\ Cardinality({i \in DOMAIN sent[r] : sent[r][i] \in Results(Kind(r))}) < setup[r].results
  /\ \E m \in Results(Kind(r)) : Serve(r, m, "working")

ServeVerdict(r) == Working(r) /\ Serve(r, Verdict(Kind(r)), "over")

ServeFailure(r) ==
  /\ server[r] \in {"asked", "working"}
  /\ \E m \in Failures(Kind(r)) : Serve(r, m, "over")

\* the service gives up a connection nobody uses
ServeIdle(r) ==
  /\ server[r] = "over" /\ setup[r].long /\ status[r] = "Closed"
  /\ Last(sent[r]) = Verdict(Kind(r))
  /\ \E m \in Failures(Kind(r)) : Serve(r, m, "over")

(***************************************************************************)
(* The event thread.                                                       *)
(***************************************************************************)
Do(t, at, r, type, then) ==
  thread' = [thread EXCEPT ![t] = [at |-> at, req |-> r, type |-> type, then |-> then]]

Rest(t) == thread' = [thread EXCEPT ![t] = Idle]

\* closeConnectNode
Disconnect(r) ==
  /\ link' = [link EXCEPT ![r] = FALSE]
  /\ wire' = [wire EXCEPT ![r] = <<>>]

Take(t, r) ==
  /\ thread[t].at = "idle" /\ ThreadOf[r] = t /\ wire[r] # <<>>
  /\ wire' = [wire EXCEPT ![r] = Tail(@)]

\* gatewayResponse; sendFakeSynthesisStarted
GatewayAnswers(t, r) ==
  /\ Take(t, r) /\ Head(wire[r]) = "101"
  /\ status' = [status EXCEPT ![r] = "Starting"]
  /\ server' = [server EXCEPT ![r] = "asked"]
  /\ IF Kind(r) = "sy" THEN Do(t, "call", r, "SynthesisStarted", "rest") ELSE UNCHANGED thread
  /\ UNCHANGED <<setup, link, sent, rounds, shared, calls>>

\* parseFrame of a frame that becomes an event, or is ignored
ParseEvent(t, r) ==
  /\ Take(t, r) /\ Head(wire[r]) \notin {"101", "CLOSE"}
  /\ LET type == convertResult(Kind(r), Head(wire[r]))
     IN /\ type # "failed"
        /\ IF type = "ignored" THEN UNCHANGED thread ELSE Do(t, "call", r, type, "switch")
  /\ UNCHANGED <<setup, link, status, server, sent, rounds, shared, calls>>

\* parseFrame of a CLOSE frame: a failure, unless the round is over
ParseClose(t, r) ==
  /\ thread[t].at = "idle" /\ ThreadOf[r] = t /\ wire[r] # <<>> /\ Head(wire[r]) = "CLOSE"
  /\ IF status[r] = "Closed"
     THEN Disconnect(r) /\ UNCHANGED thread
     ELSE /\ Take(t, r) /\ UNCHANGED link
          /\ Do(t, "call", r, "TaskFailed", "switch")
  /\ UNCHANGED <<setup, status, server, sent, rounds, shared, calls>>

\* convertResult of a message that cannot be parsed: handlerEvent of its own
ParseFails(t, r) ==
  /\ thread[t].at = "idle" /\ ThreadOf[r] = t /\ wire[r] # <<>>
  /\ Head(wire[r]) \notin {"101", "CLOSE"}
  /\ convertResult(Kind(r), Head(wire[r])) = "failed"
  /\ IF status[r] = "Closed"
     THEN Disconnect(r) /\ UNCHANGED thread
     ELSE /\ Take(t, r) /\ UNCHANGED link
          /\ Do(t, "call", r, "TaskFailed", "end")
  /\ UNCHANGED <<setup, status, server, sent, rounds, shared, calls>>

\* ignoreCallbackWhenNodeClosedWhenLongConnection
ignoreCallback(r, type) == setup[r].long /\ status[r] = "Closed" /\ type = "TaskFailed"

\* what is given to the listener
Given(r, type) == IF setup[r].message THEN "Message" ELSE type

\* handlerFrame: the listener calls the user, or the binding, which copies the
\* event for the user to fetch
Call(t) ==
  /\ thread[t].at = "call"
  /\ LET r == thread[t].req
         type == thread[t].type
         callback == listenerFrame(Kind(r), Given(r, type))
         called == ~ignoreCallback(r, type) /\ Registered(r, callback)
     IN /\ thread' = [thread EXCEPT ![t].at = IF called /\ setup[r].csharp THEN "fetch"
                                                                           ELSE "settle"]
        /\ IF called /\ setup[r].csharp THEN ToBinding(r, type) ELSE UNCHANGED shared
        /\ IF called /\ ~setup[r].csharp
           THEN ToUser(r, callback, ConvertNlsEvent(Blank, r, Given(r, type)))
           ELSE UNCHANGED calls
  /\ UNCHANGED <<setup, link, status, server, wire, sent, rounds>>

\* the delegate of the C# request: GetNlsEvent, and the callback of the user
GetNlsEvent(t) ==
  /\ thread[t].at = "fetch"
  /\ LET r == thread[t].req
     IN /\ ToUser(r, listenerFrame(Kind(r), thread[t].type), shared[Kind(r)])
        /\ shared' = [shared EXCEPT ![Kind(r)] = CleanNlsEvent(@)]
  /\ thread' = [thread EXCEPT ![t].at = "settle"]
  /\ UNCHANGED <<setup, link, status, server, wire, sent, rounds>>

\* the status a type brings
StatusAfter(r, type) ==
  CASE type \in {"RecognitionStarted", "TranscriptionStarted", "SynthesisStarted", "Binary",
                 "WakeWordVerificationCompleted"} -> "Started"
    [] type \in {"Close", "RecognitionCompleted", "TranscriptionCompleted",
                 "SynthesisCompleted"} -> "Completed"
    [] type = "TaskFailed" /\ ~ignoreCallback(r, type) -> "Failed"
    [] OTHER -> status[r]

\* mutant: a dialog ends with what was recognised
closeFlagOfRecognition(r, type) ==
  type \in {"TaskFailed", "RecognitionCompleted", "TranscriptionCompleted", "SynthesisCompleted"}

closeFlag(r, type) ==
  \/ type \in {"TaskFailed", "TranscriptionCompleted", "SynthesisCompleted",
               "DialogResultGenerated"}
  \/ type \in {"Close", "RecognitionCompleted"} /\ Kind(r) # "da"

\* parseFrame after the callback
Settle(t) ==
  LET r == thread[t].req
      type == thread[t].type
      ignore == ignoreCallback(r, type)
  IN /\ thread[t].at = "settle" /\ thread[t].then = "switch"
     /\ status' = [status EXCEPT ![r] = StatusAfter(r, type)]
     /\ IF ~closeFlag(r, type)
        THEN Rest(t) /\ UNCHANGED <<link, wire>>
        ELSE /\ IF ~setup[r].long \/ status'[r] = "Failed" \/ ignore
                THEN Disconnect(r) ELSE UNCHANGED <<link, wire>>
             /\ IF ignore \/ status'[r] = "Closed"
                THEN Rest(t) ELSE Do(t, "call", r, "Close", "closed")
     /\ UNCHANGED <<setup, server, sent, rounds, shared, calls>>

\* parseFrame after a message that could not be parsed
SettleFailure(t) ==
  LET r == thread[t].req
  IN /\ thread[t].at = "settle" /\ thread[t].then = "end"
     /\ Disconnect(r)
     /\ IF status[r] = "Closed" THEN Rest(t) ELSE Do(t, "call", r, "Close", "closed")
     /\ UNCHANGED <<setup, status, server, sent, rounds, shared, calls>>

\* handlerEvent after the Close callback; the fake SynthesisStarted
SettleCall(t) ==
  LET r == thread[t].req
  IN /\ thread[t].at = "settle" /\ thread[t].then \in {"closed", "rest"}
     /\ status' = [status EXCEPT ![r] = IF thread[t].then = "closed" THEN "Closed" ELSE @]
     /\ Rest(t)
     /\ UNCHANGED <<setup, link, server, wire, sent, rounds, shared, calls>>

(***************************************************************************)
(* Specification.                                                          *)
(***************************************************************************)
Init ==
  /\ setup \in Setups
  /\ link = [r \in Requests |-> FALSE]
  /\ status = [r \in Requests |-> "Created"]
  /\ server = [r \in Requests |-> "none"]
  /\ wire = [r \in Requests |-> <<>>]
  /\ sent = [r \in Requests |-> <<>>]
  /\ rounds = [r \in Requests |-> 0]
  /\ thread = [t \in Threads |-> Idle]
  /\ shared = [k \in Bound |-> Blank]
  /\ calls = [r \in Requests |-> <<>>]

User(r) == Start(r)
Service(r) == ServeStarted(r) \/ ServeResult(r) \/ ServeVerdict(r) \/ ServeFailure(r) \/ ServeIdle(r)
EventThread(t) ==
  \/ \E r \in Requests : \/ GatewayAnswers(t, r) \/ ParseEvent(t, r)
                         \/ ParseClose(t, r) \/ ParseFails(t, r)
  \/ Call(t) \/ GetNlsEvent(t) \/ Settle(t) \/ SettleFailure(t) \/ SettleCall(t)

Next == \/ \E r \in Requests : User(r) \/ Service(r)
        \/ \E t \in Threads : EventThread(t)

\* the event loop calls back for what is on the wire; the service may be silent
Spec == Init /\ [][Next]_vars /\ \A t \in Threads : WF_vars(EventThread(t))

(***************************************************************************)
(* What the user was promised for the messages of the round: the callback  *)
(* of each, and Close after the one that ends it. With setEnableOnMessage  *)
(* all but audio comes as Message.                                         *)
(***************************************************************************)
Heard(r, callback) ==
  IF callback # "" /\ Registered(r, callback) THEN <<callback>> ELSE <<>>

MeantBy(r, m) ==
  IF setup[r].message /\ m # "Binary" /\ Meant(Kind(r), m) # "" THEN "Message"
                                                              ELSE Meant(Kind(r), m)

PromisedFor(r, m) ==
  Heard(r, MeantBy(r, m)) \o
    IF Ends(Kind(r), m) THEN Heard(r, IF setup[r].message THEN "Message" ELSE "Close") ELSE <<>>

\* up to the first message that ends it
Round(r, messages) ==
  LET last == {i \in DOMAIN messages : Ends(Kind(r), messages[i])}
  IN IF last = {} THEN messages
     ELSE SubSeq(messages, 1, CHOOSE i \in last : \A j \in last : i <= j)

PromisedForAll(r, messages) ==
  FlattenSeq([i \in DOMAIN messages |-> PromisedFor(r, messages[i])])

Promised(r) == PromisedForAll(r, Round(r, sent[r]))

Callbacks(r) == [i \in DOMAIN calls[r] |-> calls[r][i].callback]

\* Every piece of state has its type, and the audio gathered in the shared event of
\* a feature stays within its buffer, of one frame here (NLS_EVENT_BINARY_SIZE is not
\* checked when a frame is added).
DeliveryTypeOK ==
  /\ setup \in Setups
  /\ link \in [Requests -> BOOLEAN]
  /\ status \in [Requests -> {"Created", "Handshaked", "Starting", "Started", "Completed",
                              "Failed", "Closed"}]
  /\ server \in [Requests -> {"none", "asked", "working", "over"}]
  /\ rounds \in [Requests -> 0..MaxRounds]
  /\ \A t \in Threads : /\ thread[t].at \in {"idle", "call", "fetch", "settle"}
                        /\ thread[t].then \in {"", "switch", "end", "rest", "closed"}
  /\ \A k \in Bound : shared[k].bytes \in 0..1

\* The callbacks of a round are those its messages are for, each once and in order,
\* and Close after the message that ends it: what parseMsgType, the converters of
\* DashScope and the listeners do together is the table of the services.
CallbacksAreMeant == \A r \in Requests : IsPrefix(Callbacks(r), Promised(r))

\* A callback sees the event it is called for: through the event of the feature that
\* all requests of the C# binding share, too, and with one frame of audio at a time.
EventIsOwn ==
  \A r \in Requests : \A i \in DOMAIN calls[r] :
    LET c == calls[r][i]
    IN /\ c.event.owner = r
       /\ c.event.type = c.callback
       /\ c.event.bytes = IF c.callback = "Binary" THEN 1 ELSE 0

\* A round the service has ended, with a result or a failure, ends for the user with
\* the last of the promised callbacks, Close.
RoundsClose ==
  \A r \in Requests :
    server[r] = "over" ~> (status[r] = "Closed" /\ Callbacks(r) = Promised(r))

\* Audio has its own callback whatever setEnableOnMessage says: the demos say that
\* all callbacks but OnBinaryDataRecved are disabled by it.
AudioHasItsCallback ==
  \A r \in Requests : \A t \in Threads :
    thread[t].at = "settle" /\ thread[t].req = r /\ thread[t].type = "Binary"
      => calls[r] # <<>> /\ Last(calls[r]).callback = "Binary"

===============================================================================
