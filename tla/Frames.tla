-------------------------------- MODULE Frames --------------------------------
(***************************************************************************)
(* What a node receives: bytes come from the socket in pieces that know    *)
(* nothing of frames, are gathered in _readEvBuffer, and are taken apart   *)
(* there into the answer of the gateway and WebSocket frames               *)
(* (transport/webSocketTcp.cpp; gatewayResponse, webSocketResponse and     *)
(* parseFrame of transport/connectNode.cpp).                               *)
(*                                                                         *)
(* A byte is <<connection, item, place>>: it is known by where the gateway *)
(* put it. Item 0 is the HTTP answer, of which only its end and a body     *)
(* matter; the others are frames. A decoder that is at the first byte of a *)
(* frame reads its header; anywhere else it reads any header.              *)
(***************************************************************************)
EXTENDS Integers, Sequences, SequencesExt

CONSTANTS
  Plans,          \* bound: what the gateway may send: sequences of frames
  Codes,          \* the HTTP codes it answers with
  HeadSizes,      \* bound: bytes of a header
  PayloadSizes,   \* bound: bytes of a payload
  MaxTryAgain,    \* maxTryAgain
  MaxConnections  \* bound: connections of the node

Ops == {"continuation", "text", "binary", "close", "ping", "pong"}
Headers == [op : Ops, head : HeadSizes, size : PayloadSizes]

ASSUME FramesAssumption ==
  /\ HeadSizes \subseteq Nat \ {0, 1} /\ PayloadSizes \subseteq Nat
  /\ 2 \in HeadSizes /\ 0 \in PayloadSizes
  /\ \A p \in Plans : p \in Seq(Headers) /\ \A k \in DOMAIN p : p[k].op = "close" => k = Len(p)
  /\ {101} \subseteq Codes /\ MaxTryAgain \in Nat /\ MaxConnections \in Nat \ {0}

VARIABLES
  plan,       \* the frames of every connection
  code,       \* the HTTP code of this connection
  connection, \* number of the connection
  sent,       \* bytes of this connection the gateway has sent
  read,       \* bytes of it that were taken from the socket
  buffer,     \* _readEvBuffer
  rStatus,    \* _rStatus
  wsType,     \* _wsType
  httpCode,   \* _httpCode; 0: none yet
  phase,      \* gateway: Handshaked; frames: Starting, Started; closed
  at,         \* the event thread: idle, or inside of webSocketResponse
  tries,      \* tryAgain
  eLoop,      \* eLoop
  events,     \* frames that became an event, in order
  torn        \* a connection ended between two frames' ends, or was not upgraded

vars == <<plan, code, connection, sent, read, buffer, rStatus, wsType, httpCode, phase, at,
          tries, eLoop, events, torn>>
decoder == <<rStatus, wsType>>
response == <<at, tries, eLoop>>

(***************************************************************************)
(* The stream of a connection.                                             *)
(***************************************************************************)
Item(k, length) == [i \in 1..length |-> <<connection, k, i>>]
Frame(k) == Item(k, plan[k].head + plan[k].size)

\* the end of the head, and a body where the gateway refuses
Answer == Item(0, IF code = 101 THEN 2 ELSE 3)
HeadEnd == 2

Stream == FlattenSeq(<<Answer>> \o [k \in DOMAIN plan |-> Frame(k)])

\* the gateway sends frames to a node that has been upgraded
Sendable == IF code = 101 /\ phase = "frames" THEN Len(Stream) ELSE Len(Answer)

Piece(n) == SubSeq(Stream, read + 1, read + n)

\* nlsReceive of n bytes
Receive(n) ==
  /\ buffer' = buffer \o Piece(n)
  /\ read' = read + n

(***************************************************************************)
(* receiveFullWebSocketFrame: what it may take the buffer for.             *)
(***************************************************************************)
AtFrame == buffer[1][2] > 0 /\ buffer[1][3] = 1
HeadersHere == IF AtFrame /\ buffer[1][1] = connection THEN {plan[buffer[1][2]]} ELSE Headers

\* decodeHeaderSizeWebSocketFrame, or what an earlier call found
Decoded == IF rStatus = "HeadSize"
           THEN IF Len(buffer) < 2 THEN {} ELSE HeadersHere
           ELSE {wsType}

\* decodeHeaderBodyWebSocketFrame: a frame that ends with its header is not enough
HeaderIsThere(h) ==
  rStatus = "ContentBody" \/ h.head < Len(buffer) \/ h.op = "pong"

\* decodeFrameBodyWebSocketFrame: a ping never is
BodyIsThere(h) ==
  h.op = "pong" \/ (h.op # "ping" /\ h.head + h.size <= Len(buffer))

\* mutant of Length: the status of a close frame is not counted
LengthWithoutPayload(h) == IF h.op \in {"pong", "text"} THEN 0 ELSE h.size

\* what is drained besides of the header
Length(h) == IF h.op = "pong" THEN 0 ELSE h.size

\* parseFrame and convertResult: a frame of no use, an event (of a CLOSE frame:
\* TaskFailed), or a failure
Useless(h) == h.op = "pong" \/ (h.op = "binary" /\ h.size = 0)
Useful(h) == h.op = "close" \/ (h.op \in {"text", "binary"} /\ h.size > 0)

(***************************************************************************)
(* The gateway and the network.                                            *)
(***************************************************************************)
Send(n) ==
  /\ phase # "closed" /\ sent + n <= Sendable
  /\ sent' = sent + n
  /\ UNCHANGED <<plan, code, connection, read, buffer, decoder, httpCode, phase, response,
                 events, torn>>

(***************************************************************************)
(* The end of a connection. closeConnectNode leaves the buffer and the     *)
(* decoder as they are.                                                    *)
(***************************************************************************)
Close ==
  /\ phase' = "closed" /\ at' = "idle"
  /\ UNCHANGED <<tries, eLoop>>

\* the socket fails under a read
Break ==
  /\ phase # "closed" /\ at \in {"idle", "again"}
  /\ Close
  /\ torn' = (torn \/ buffer # <<>> \/ rStatus # "HeadSize")
  /\ UNCHANGED <<plan, code, connection, sent, read, buffer, decoder, httpCode, events>>

\* mutant of Connect: a new connection begins in the middle of a header
ConnectDecoding ==
  /\ phase = "closed" /\ at = "idle" /\ connection < MaxConnections
  /\ connection' = connection + 1
  /\ phase' = "gateway" /\ code' \in Codes
  /\ sent' = 0 /\ read' = 0
  /\ rStatus' = "HeadBody"
  /\ UNCHANGED <<plan, buffer, wsType, httpCode, response, events, torn>>

\* a reconnection, or the next start of a long connection: on the thread that reads,
\* when webSocketResponse has returned
Connect ==
  /\ phase = "closed" /\ at = "idle" /\ connection < MaxConnections
  /\ connection' = connection + 1
  /\ phase' = "gateway" /\ code' \in Codes
  /\ sent' = 0 /\ read' = 0
  /\ UNCHANGED <<plan, buffer, decoder, httpCode, response, events, torn>>

(***************************************************************************)
(* readEventCallBack before the upgrade: gatewayResponse. The code of the  *)
(* first answer is kept for good.                                          *)
(***************************************************************************)
\* responsePackage: the code that counts
Judged == IF httpCode = 0 THEN code ELSE httpCode

LeftOver == buffer # <<>> /\ buffer[1][1] # connection

\* the head is not complete, or not found: what another connection left may have a
\* zero byte, where the search in a C string ends
GatewayMore(n) ==
  /\ phase = "gateway" /\ n \in 1..(sent - read)
  /\ read + n < HeadEnd \/ LeftOver
  /\ Receive(n)
  /\ UNCHANGED <<plan, code, connection, sent, decoder, httpCode, phase, response, events, torn>>

GatewayUpgrade(n) ==
  /\ phase = "gateway" /\ n \in 1..(sent - read)
  /\ read + n >= HeadEnd /\ Judged = 101
  /\ httpCode' = 101
  /\ read' = read + n
  /\ buffer' = <<>> /\ phase' = "frames"
  /\ torn' = (torn \/ code # 101)
  /\ UNCHANGED <<plan, code, connection, sent, decoder, response, events>>

GatewayRefuse(n) ==
  /\ phase = "gateway" /\ n \in 1..(sent - read)
  /\ read + n >= HeadEnd /\ Judged # 101
  /\ httpCode' = Judged
  /\ Receive(n)
  /\ Close
  /\ torn' = TRUE
  /\ UNCHANGED <<plan, code, connection, sent, decoder, events>>

(***************************************************************************)
(* readEventCallBack after it: webSocketResponse.                          *)
(***************************************************************************)
\* the first nlsReceive
ReadEvent(n) ==
  /\ phase = "frames" /\ at = "idle" /\ n \in 1..(sent - read)
  /\ Receive(n)
  /\ at' = "parse" /\ tries' = MaxTryAgain /\ eLoop' = FALSE
  /\ UNCHANGED <<plan, code, connection, sent, decoder, httpCode, phase, events, torn>>

\* not enough for a header: once more, a limited number of times
Short ==
  /\ at = "parse"
  /\ \/ /\ rStatus = "HeadSize" /\ Decoded = {}
        /\ UNCHANGED decoder
     \/ \E h \in Decoded : /\ ~HeaderIsThere(h)
                           /\ rStatus' = "HeadBody" /\ wsType' = h
  /\ IF tries > 0 THEN at' = "again" /\ tries' = tries - 1
                  ELSE at' = "idle" /\ UNCHANGED tries
  /\ UNCHANGED <<plan, code, connection, sent, read, buffer, httpCode, phase, eLoop, events, torn>>

\* 5 ms later. The continue jumps to the condition of the loop: nothing is decoded
\* unless a frame came before in this call.
Again(n) ==
  /\ at = "again" /\ n \in 0..(sent - read)
  /\ Receive(n)
  /\ at' = IF eLoop THEN "parse" ELSE "idle"
  /\ UNCHANGED <<plan, code, connection, sent, decoder, httpCode, phase, tries, eLoop, events, torn>>

\* the header and a part of the body: the rest is for a later call
More ==
  /\ at = "parse"
  /\ \E h \in Decoded : /\ HeaderIsThere(h) /\ ~BodyIsThere(h)
                        /\ rStatus' = "ContentBody" /\ wsType' = h
  /\ at' = "idle" /\ eLoop' = FALSE
  /\ UNCHANGED <<plan, code, connection, sent, read, buffer, httpCode, phase, tries, events, torn>>

Drained(h) == SubSeq(buffer, h.head + Length(h) + 1, Len(buffer))

\* mutant of Whole: one frame for each read
WholeOnce ==
  /\ at = "parse"
  /\ \E h \in Decoded :
       /\ HeaderIsThere(h) /\ BodyIsThere(h)
       /\ Useless(h) \/ Useful(h)
       /\ wsType' = h
       /\ events' = IF Useful(h) THEN Append(events, buffer[1]) ELSE events
       /\ buffer' = Drained(h)
       /\ eLoop' = FALSE /\ at' = "idle"
  /\ rStatus' = "HeadSize" /\ tries' = MaxTryAgain
  /\ UNCHANGED <<plan, code, connection, sent, read, httpCode, phase, torn>>

\* a frame for parseFrame; while anything is left it goes on with that
Whole ==
  /\ at = "parse"
  /\ \E h \in Decoded :
       /\ HeaderIsThere(h) /\ BodyIsThere(h)
       /\ Useless(h) \/ Useful(h)
       /\ wsType' = h
       /\ events' = IF Useful(h) THEN Append(events, buffer[1]) ELSE events
       /\ buffer' = Drained(h)
       /\ eLoop' = (buffer' # <<>>)
       /\ at' = IF buffer' # <<>> THEN "parse" ELSE "idle"
       /\ phase' = IF h.op = "close" THEN "closed" ELSE phase
  /\ rStatus' = "HeadSize" /\ tries' = MaxTryAgain
  /\ UNCHANGED <<plan, code, connection, sent, read, httpCode, torn>>

\* CONTINUATION and a text without text: TaskFailed, and the frame stays
Fails ==
  /\ at = "parse"
  /\ \E h \in Decoded : /\ HeaderIsThere(h) /\ BodyIsThere(h)
                        /\ ~Useless(h) /\ ~Useful(h)
                        /\ wsType' = h
  /\ rStatus' = "HeadSize"
  /\ Close
  /\ torn' = TRUE
  /\ UNCHANGED <<plan, code, connection, sent, read, buffer, httpCode, events>>

(***************************************************************************)
(* The system.                                                             *)
(***************************************************************************)
Init ==
  /\ plan \in Plans /\ code \in Codes
  /\ connection = 1 /\ sent = 0 /\ read = 0 /\ buffer = <<>>
  /\ rStatus = "HeadSize" /\ wsType = [op |-> "continuation", head |-> 2, size |-> 0]
  /\ httpCode = 0 /\ phase = "gateway"
  /\ at = "idle" /\ tries = MaxTryAgain /\ eLoop = FALSE
  /\ events = <<>> /\ torn = FALSE

Gateway == \E n \in 1..(sent - read) : GatewayMore(n) \/ GatewayUpgrade(n) \/ GatewayRefuse(n)
Reading == \E n \in 1..(sent - read) : ReadEvent(n)
Retrying == \E n \in 0..(sent - read) : Again(n)
Parsing == Short \/ More \/ Whole \/ Fails

Next == \/ \E n \in 1..(Sendable - sent) : Send(n)
        \/ Gateway \/ Reading \/ Retrying \/ Parsing \/ Break \/ Connect

\* the event loop calls back while the socket has something to read
Fairness == WF_vars(Gateway) /\ WF_vars(Reading) /\ WF_vars(Retrying) /\ WF_vars(Parsing)

Spec == Init /\ [][Next]_vars /\ Fairness

(***************************************************************************)
(* Properties.                                                             *)
(***************************************************************************)
\* Every variable has its type, and as long as no connection was torn the decoder is
\* where a frame begins and has no other frame's header in mind.
FramesTypeOK ==
  /\ sent \in 0..Len(Stream) /\ read \in 0..sent
  /\ rStatus \in {"HeadSize", "HeadBody", "ContentBody"} /\ wsType \in Headers
  /\ phase \in {"gateway", "frames", "closed"} /\ at \in {"idle", "parse", "again"}
  /\ tries \in 0..MaxTryAgain /\ eLoop \in BOOLEAN
  /\ ~torn /\ phase = "frames" /\ buffer # <<>> =>
       AtFrame /\ (rStatus # "HeadSize" => wsType = plan[buffer[1][2]])
  /\ ~torn /\ phase = "frames" /\ buffer = <<>> => rStatus = "HeadSize"

\* However the bytes were cut: the user gets the frames with content, each once, in
\* their order, and no other; pongs and empty frames between them cost none.
FramesInOrder ==
  ~torn => \A i \in DOMAIN events : events[i][1] = connection =>
    LET k == events[i][2] IN
    /\ k \in DOMAIN plan /\ Useful(plan[k]) /\ events[i] = <<connection, k, 1>>
    /\ \A j \in 1..(k - 1) : Useful(plan[j]) => \E m \in 1..(i - 1) : events[m] = <<connection, j, 1>>
    /\ \A m \in 1..(i - 1) : events[m][1] = connection => events[m][2] < k

Delivered(k) == <<connection, k, 1>> \in ToSet(events)

\* the frame that is next is in the buffer, with what follows it up to its end
Complete(k) == /\ phase = "frames" /\ ~torn
               /\ ToSet(Frame(k)) \subseteq ToSet(buffer)

\* A frame that is complete in the buffer is an event after the next read. (Not at
\* once: see FramesArrive.)
NextReadDelivers ==
  \A k \in 1..3 :
    k \in DOMAIN plan /\ Useful(plan[k]) /\ Complete(k) /\ at = "idle" /\ read < sent
      ~> Delivered(k) \/ phase # "frames"

\* What connectNode.cpp:1975 says of a frame that is not complete: "the WS data is
\* insufficient, and continues to be received". A frame that has been sent and is read
\* becomes an event, or the connection ends.
FramesArrive ==
  \A k \in 1..3 :
    k \in DOMAIN plan /\ Useful(plan[k]) /\ Complete(k) ~> Delivered(k) \/ phase # "frames"
===============================================================================
