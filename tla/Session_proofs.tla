---------------------------- MODULE Session_proofs ----------------------------
(***************************************************************************)
(* Proofs about Session, for any sizes and limits: the Stop directive is   *)
(* sent once, whichever of the threads that find the buffer empty comes    *)
(* first and whatever fails; the state stays within its types; on a link   *)
(* that holds, the callbacks come in the order of TaskEvents; cancel lets  *)
(* a thread make at most one callback more; and whatever fails, every      *)
(* thread that reports keeps to that order.                                *)
(***************************************************************************)
EXTENDS Session, FiniteSetTheorems, SequenceTheorems, WellFoundedInduction, TLAPS

Stops(seq, i) == i \in DOMAIN seq /\ seq[i] = "stop"

AtMostOne(seq) == \A i, j : Stops(seq, i) /\ Stops(seq, j) => i = j
Without(seq) == \A i : ~Stops(seq, i)

Sequences == cmd \in Seq(Directives) /\ wire \in Seq(Directives \union {"audio"})

\* Stop is built once, so that it is in the buffer or on the wire, not in both.
StopInv ==
  /\ Sequences
  /\ ~isStop => Without(cmd) /\ Without(wire)
  /\ AtMostOne(cmd) /\ AtMostOne(wire)
  /\ Without(cmd) \/ Without(wire)

\* What appending does to the stops of a sequence.
LEMMA AppendStops ==
  ASSUME NEW S, NEW seq \in Seq(S), NEW x \in S
  PROVE  /\ Append(seq, x) \in Seq(S)
         /\ x # "stop" /\ Without(seq) => Without(Append(seq, x))
         /\ x # "stop" /\ AtMostOne(seq) => AtMostOne(Append(seq, x))
         /\ Without(seq) => AtMostOne(Append(seq, x))
<1>1. /\ Append(seq, x) \in Seq(S)
      /\ DOMAIN Append(seq, x) = 1..Len(seq) + 1 /\ DOMAIN seq = 1..Len(seq)
      /\ \A i \in 1..Len(seq) : Append(seq, x)[i] = seq[i]
      /\ Append(seq, x)[Len(seq) + 1] = x
      /\ Len(seq) \in Nat
  OBVIOUS
<1>2. ASSUME NEW i, Stops(Append(seq, x), i)
      PROVE  Stops(seq, i) \/ (i = Len(seq) + 1 /\ x = "stop")
  BY <1>1, <1>2 DEF Stops
<1> QED
  BY <1>1, <1>2 DEF Without, AtMostOne, Stops

\* And concatenation.
LEMMA ConcatStops ==
  ASSUME NEW S, NEW s \in Seq(S), NEW t \in Seq(S),
         AtMostOne(s), AtMostOne(t), Without(s) \/ Without(t)
  PROVE  /\ s \o t \in Seq(S)
         /\ AtMostOne(s \o t)
         /\ Without(s) /\ Without(t) => Without(s \o t)
<1>1. /\ s \o t \in Seq(S)
      /\ DOMAIN (s \o t) = 1..Len(s) + Len(t)
      /\ DOMAIN s = 1..Len(s) /\ DOMAIN t = 1..Len(t)
      /\ \A i \in 1..Len(s) : (s \o t)[i] = s[i]
      /\ \A i \in Len(s) + 1 .. Len(s) + Len(t) : (s \o t)[i] = t[i - Len(s)]
      /\ Len(s) \in Nat /\ Len(t) \in Nat
  OBVIOUS
<1>2. ASSUME NEW i, Stops(s \o t, i)
      PROVE  i \in Int /\ (Stops(s, i) \/ Stops(t, i - Len(s)))
  BY <1>1, <1>2 DEF Stops
<1>3. Without(s) /\ Without(t) => Without(s \o t)
  BY <1>2 DEF Without
<1>4. ASSUME NEW i, NEW j, Stops(s \o t, i), Stops(s \o t, j)
      PROVE  i = j
  <2>1. CASE Without(s)
    <3>1. Stops(t, i - Len(s)) /\ Stops(t, j - Len(s))
      BY <1>2, <1>4, <2>1 DEF Without
    <3>2. i - Len(s) = j - Len(s)
      BY <3>1 DEF AtMostOne
    <3> QED
      BY <1>1, <1>2, <1>4, <3>2
  <2>2. CASE Without(t)
    <3>1. Stops(s, i) /\ Stops(s, j)
      BY <1>2, <1>4, <2>2 DEF Without
    <3> QED
      BY <3>1 DEF AtMostOne
  <2> QED
    BY <2>1, <2>2
<1> QED
  BY <1>1, <1>3, <1>4 DEF AtMostOne

\* The buffer of directives goes out as a whole or stays.
LEMMA SendCmdKeeps ==
  ASSUME Sequences, NEW directives \in Seq(Directives), NEW result,
         SendCmd(directives, result),
         AtMostOne(directives), AtMostOne(wire), Without(directives) \/ Without(wire)
  PROVE  /\ Sequences' /\ AtMostOne(cmd') /\ AtMostOne(wire')
         /\ Without(cmd') \/ Without(wire')
         /\ Without(directives) /\ Without(wire) => Without(cmd') /\ Without(wire')
<1>1. CASE cmd' = directives /\ wire' = wire
  BY <1>1 DEF Sequences
<1>2. CASE cmd' = <<>> /\ wire' = wire \o directives
  <2>1. /\ wire \in Seq(Directives \union {"audio"})
        /\ directives \in Seq(Directives \union {"audio"})
    BY DEF Sequences
  <2>2. /\ wire' \in Seq(Directives \union {"audio"}) /\ AtMostOne(wire')
        /\ Without(directives) /\ Without(wire) => Without(wire')
    BY <1>2, <2>1, ConcatStops
  <2>3. cmd' \in Seq(Directives) /\ Without(cmd') /\ AtMostOne(cmd')
    BY <1>2 DEF Without, AtMostOne, Stops
  <2> QED
    BY <2>2, <2>3 DEF Sequences
<1> QED
  BY <1>1, <1>2 DEF SendCmd

LEMMA CommandKeeps == ASSUME StopInv, Command PROVE StopInv'
<1>1. PICK result \in Results : SendCmd(cmd, result)
  BY DEF Command
<1>2. isStop' = isStop
  BY DEF Command
<1> QED
  BY <1>1, <1>2, SendCmdKeeps DEF StopInv, Sequences

\* Stop is built only if it was not.
LEMMA DirectiveKeeps == ASSUME StopInv, NEW t \in Threads, Directive(t) PROVE StopInv'
<1>1. CASE ~MustStop /\ UNCHANGED <<cmd, wire>>
  BY <1>1 DEF Directive, StopInv, Sequences
<1>2. CASE ~MustStop /\ \E result \in Results : SendCmd(cmd, result)
  <2>1. isStop' <=> isStop
    BY <1>2 DEF Directive, MustStop, StopInv
  <2> QED
    BY <1>2, <2>1, SendCmdKeeps DEF StopInv, Sequences
<1>3. CASE MustStop /\ \E result \in Results : SendCmd(Append(cmd, "stop"), result)
  <2>1. isStop' /\ Without(cmd) /\ Without(wire)
    BY <1>3 DEF Directive, MustStop, StopInv
  <2>2. /\ Append(cmd, "stop") \in Seq(Directives)
        /\ AtMostOne(Append(cmd, "stop"))
    BY <2>1, AppendStops DEF StopInv, Sequences, Directives
  <2> QED
    BY <1>3, <2>1, <2>2, SendCmdKeeps DEF StopInv
<1> QED
  BY <1>1, <1>2, <1>3 DEF Directive

\* Audio passes the directives by.
LEMMA FlushKeeps == ASSUME StopInv, NEW t \in Threads, Flush(t) PROVE StopInv'
<1>1. UNCHANGED <<cmd, isStop>>
  BY DEF Flush
<1>2. wire' = wire \/ wire' = Append(wire, "audio")
  BY DEF Flush, SendAudio
<1>3. CASE wire' = wire
  BY <1>1, <1>3 DEF StopInv, Sequences
<1>4. CASE wire' = Append(wire, "audio")
  <2>1. /\ wire' \in Seq(Directives \union {"audio"})
        /\ Without(wire) => Without(wire')
        /\ AtMostOne(wire')
    BY <1>4, AppendStops DEF StopInv, Sequences
  <2> QED
    BY <1>1, <2>1 DEF StopInv, Sequences
<1> QED
  BY <1>2, <1>3, <1>4

\* What the node sends to open the connection, and to start the task.
LEMMA ConnectedKeeps == ASSUME StopInv, Connected PROVE StopInv'
<1>1. CASE UNCHANGED <<cmd, wire>>
  BY <1>1 DEF Connected, StopInv, Sequences
<1>2. CASE cmd' = <<>> /\ wire' = wire \o <<"upgrade">>
  <2>1. wire' = Append(wire, "upgrade") /\ UNCHANGED isStop
    BY <1>2 DEF Connected, StopInv, Sequences
  <2>2. /\ wire' \in Seq(Directives \union {"audio"})
        /\ Without(wire) => Without(wire')
        /\ AtMostOne(wire')
    BY <2>1, AppendStops DEF StopInv, Sequences, Directives
  <2>3. cmd' \in Seq(Directives) /\ Without(cmd') /\ AtMostOne(cmd')
    BY <1>2 DEF Without, AtMostOne, Stops
  <2> QED
    BY <2>1, <2>2, <2>3 DEF StopInv, Sequences
<1>3. CASE cmd' = <<"upgrade">> /\ wire' = wire
  <2>1. cmd' \in Seq(Directives) /\ Without(cmd') /\ AtMostOne(cmd')
    BY <1>3 DEF Without, AtMostOne, Stops, Directives
  <2>2. UNCHANGED isStop
    BY DEF Connected
  <2> QED
    BY <1>3, <2>1, <2>2 DEF StopInv, Sequences
<1> QED
  BY <1>1, <1>2, <1>3 DEF Connected

LEMMA ReadKeeps == ASSUME StopInv, Read PROVE StopInv'
<1>1. UNCHANGED <<wire, isStop>> /\ cmd' \in {cmd, Append(cmd, "start")}
  BY DEF Read
<1>2. /\ Append(cmd, "start") \in Seq(Directives)
      /\ Without(cmd) => Without(Append(cmd, "start"))
      /\ AtMostOne(Append(cmd, "start"))
  BY AppendStops DEF StopInv, Sequences, Directives
<1> QED
  BY <1>1, <1>2 DEF StopInv, Sequences

LEMMA OthersKeep == ASSUME StopInv, UNCHANGED <<cmd, wire, isStop>> PROVE StopInv'
BY DEF StopInv, Sequences

LEMMA RunningKeeps == ASSUME StopInv, NEW t \in Threads, Running(t) PROVE StopInv'
<1>1. CASE Add(t) \/ Notify(t) \/ Event(t) \/ Call(t) \/ Closed(t) \/ CloseNode(t) \/ Disconnect(t)
  BY <1>1, OthersKeep
  DEF Add, Notify, Event, Call, Closed, CloseNode, Disconnect, node, network
<1> QED
  BY <1>1, FlushKeeps, DirectiveKeeps DEF Running

LEMMA NextKeeps == StopInv /\ [Next]_vars => StopInv'
<1> SUFFICES ASSUME StopInv, [Next]_vars PROVE StopInv'
  OBVIOUS
<1>1. CASE EventThread
  <2>1. CASE Launch \/ Parse \/ After \/ Begin \/ Write
    BY <2>1, OthersKeep DEF Launch, Parse, After, Begin, Write, node, network
  <2> QED
    BY <1>1, <2>1, ConnectedKeeps, ReadKeeps, CommandKeeps, RunningKeeps
    DEF EventThread, Threads
<1>2. CASE User
  BY <1>2, OthersKeep DEF User, Start, BeginSendAudio, Stop, Cancel, node, network
<1>3. CASE Server
  BY <1>3, OthersKeep
  DEF Server, ServerUpgrades, ServerStarts, ServerReports, ServerCompletes, Reply, node
<1>4. CASE Fault
  BY <1>4, OthersKeep
  DEF Fault, ConnectFails, Timeout, LinkBreaks, ServerRefuses, ServerFailsTask, Reply,
      node, network
<1>5. ASSUME NEW t \in Users, Running(t)
      PROVE  StopInv'
  BY <1>5, RunningKeeps DEF Threads
<1>6. CASE UNCHANGED vars
  BY <1>6, OthersKeep DEF vars, node, network
<1> QED
  BY <1>1, <1>2, <1>3, <1>4, <1>5, <1>6 DEF Next

\* The server receives the Stop directive of a session at most once.
THEOREM OneStop == Spec => []StopIsSentOnce
<1>1. Init => StopInv
  BY DEF Init, StopInv, Sequences, Without, AtMostOne, Stops
<1>2. StopInv => StopIsSentOnce
  <2> SUFFICES ASSUME StopInv PROVE StopIsSentOnce
    OBVIOUS
  <2>1. CASE Indexes(wire, "stop") = {}
    BY <2>1, FS_EmptySet DEF StopIsSentOnce
  <2>2. CASE Indexes(wire, "stop") # {}
    <3>1. PICK i : i \in Indexes(wire, "stop")
      BY <2>2
    <3>2. Indexes(wire, "stop") = {i}
      BY <3>1 DEF StopInv, AtMostOne, Stops, Indexes
    <3>3. Cardinality({i}) = 1
      BY FS_Singleton
    <3> QED
      BY <3>2, <3>3 DEF StopIsSentOnce
  <2> QED
    BY <2>1, <2>2
<1> QED
  BY <1>1, <1>2, NextKeeps, PTL DEF Spec

(***************************************************************************)
(* Types. What has to be known beyond them: the gateway's answer is read   *)
(* before anything is parsed, so that every message that is parsed has a   *)
(* callback.                                                               *)
(***************************************************************************)
Replies == Messages \ {"switch", "refuse"}

CalmSteps ==
  {Do(op) : op \in {"add", "notify", "flush", "directive", "closed", "close", "disconnect",
                    "command", "begin"}}
    \union {On(op, e) : op \in {"event", "call"}, e \in Callbacks}

ParseSteps == CalmSteps \union {On("parse", m) : m \in Replies}
                        \union {On("after", e) : e \in Callbacks}

Programs ==
  /\ todo \in [Threads -> Seq(ParseSteps)]
  /\ \A t \in Users : todo[t] \in Seq(CalmSteps)

Calm == todo["worker"] \in Seq(CalmSteps)

\* The gateway has answered, and the node has read it.
Upgraded == server # "idle" /\ inbox \in Seq(Replies)

InboxInv ==
  /\ inbox \in Seq(Messages)
  /\ \/ inbox \in Seq(Replies)
     \/ inbox # <<>> /\ Tail(inbox) \in Seq(Replies)
  /\ server = "idle" => inbox = <<>>
  /\ status \in {"Starting", "Started"} \/ ~Calm => Upgraded

Call_ == [by : Threads, event : Callbacks, late : BOOLEAN]

Types ==
  /\ status \in Statuses /\ exit \in {"Invalid", "Stopping", "Cancel"} /\ isStop \in BOOLEAN
  /\ retries \in 0 .. MaxConnects /\ audio \in 0 .. Limit + Frame - 1
  /\ events \in [launch : BOOLEAN, read : BOOLEAN, write : {"none", "idle", "armed"}]
  /\ link \in {"down", "connecting", "up", "broken"}
  /\ server \in {"idle", "upgraded", "started", "heard", "done"}
  /\ handler \in {"read", "write"} /\ frames \in 0 .. MaxFrames
  /\ calls \in Seq(Call_)

TypeInv == StopInv /\ Types /\ Programs /\ InboxInv

\* Programs go on, and are put together.
LEMMA TailIsSeq ==
  ASSUME NEW S, NEW p \in Seq(S), p # <<>>
  PROVE  Head(p) \in S /\ Tail(p) \in Seq(S)
OBVIOUS

LEMMA ConcatIsSeq ==
  ASSUME NEW S, NEW p \in Seq(S), NEW q \in Seq(S) PROVE p \o q \in Seq(S)
OBVIOUS

LEMMA StepsAreSteps ==
  /\ \A op \in {"add", "notify", "flush", "directive", "closed", "close", "disconnect",
                "command", "begin"} : Do(op) \in CalmSteps
  /\ \A e \in Callbacks : On("event", e) \in CalmSteps /\ On("call", e) \in CalmSteps
  /\ CalmSteps \subseteq ParseSteps
  /\ \A e \in Callbacks : On("after", e) \in ParseSteps
  /\ \A m \in Replies : On("parse", m) \in ParseSteps
BY DEF CalmSteps, ParseSteps

LEMMA CalmIsProgram == Seq(CalmSteps) \subseteq Seq(ParseSteps)
BY StepsAreSteps

\* The programs that end a session.
LEMMA EndsAreCalm ==
  /\ TellFailure \in Seq(CalmSteps)
  /\ FailedRead \in Seq(CalmSteps) /\ FailedWrite \in Seq(CalmSteps)
  /\ FailedCall \in Seq(CalmSteps)
  /\ <<Do("close")>> \in Seq(CalmSteps)
  /\ \A t : OnError(t) \in Seq(CalmSteps)
<1>1. {On("event", "TaskFailed"), On("event", "Close")} \subseteq CalmSteps
  BY StepsAreSteps DEF Callbacks
<1>2. TellFailure \in Seq(CalmSteps)
  BY <1>1 DEF TellFailure
<1>3. {Do("close"), Do("disconnect")} \subseteq CalmSteps
  BY StepsAreSteps
<1>4. <<Do("close")>> \in Seq(CalmSteps) /\ <<Do("disconnect")>> \in Seq(CalmSteps)
  BY <1>3
<1>5. <<>> \in Seq(CalmSteps)
  OBVIOUS
<1>6. /\ FailedRead \in Seq(CalmSteps) /\ FailedWrite \in Seq(CalmSteps)
      /\ FailedCall \in Seq(CalmSteps)
  BY <1>2, <1>4, <1>5, ConcatIsSeq DEF FailedRead, FailedWrite, FailedCall
<1> QED
  BY <1>2, <1>4, <1>6 DEF OnError

\* What the first step of a program is.
LEMMA HeadIs ==
  ASSUME Programs, NEW t \in Threads, todo[t] # <<>>
  PROVE  /\ Head(todo[t]) \in ParseSteps /\ Tail(todo[t]) \in Seq(ParseSteps)
         /\ todo[t] \in Seq(CalmSteps) =>
              Head(todo[t]) \in CalmSteps /\ Tail(todo[t]) \in Seq(CalmSteps)
         /\ Head(todo[t]).op \in {"event", "call", "after"} => About(t) \in Callbacks
         /\ Head(todo[t]).op = "parse" => About(t) \in Replies
         /\ Head(todo[t]).op \in {"parse", "after"} => Head(todo[t]) \notin CalmSteps
<1>1. todo[t] \in Seq(ParseSteps)
  BY DEF Programs
<1>2. Head(todo[t]) \in ParseSteps /\ Tail(todo[t]) \in Seq(ParseSteps)
  BY <1>1, TailIsSeq
<1>3. todo[t] \in Seq(CalmSteps) =>
        Head(todo[t]) \in CalmSteps /\ Tail(todo[t]) \in Seq(CalmSteps)
  BY TailIsSeq
<1>4. ASSUME NEW s \in ParseSteps
      PROVE  /\ s.op \in {"event", "call", "after"} => s.about \in Callbacks
             /\ s.op = "parse" => s.about \in Replies
             /\ s.op \in {"parse", "after"} => s \notin CalmSteps
  BY <1>4 DEF ParseSteps, CalmSteps, Do, On
<1> QED
  BY <1>2, <1>3, <1>4 DEF About

\* A program is replaced.
LEMMA ProgramsKeep ==
  ASSUME Programs, NEW t \in Threads, NEW p, todo' = [todo EXCEPT ![t] = p],
         p \in Seq(CalmSteps) \/ (t = "worker" /\ p \in Seq(ParseSteps))
  PROVE  Programs' /\ todo'[t] = p
<1>1. p \in Seq(ParseSteps)
  BY CalmIsProgram
<1>2. todo' \in [Threads -> Seq(ParseSteps)] /\ todo'[t] = p
  BY <1>1 DEF Programs
<1>3. ASSUME NEW u \in Users
      PROVE  todo'[u] \in Seq(CalmSteps)
  BY <1>2, <1>3 DEF Programs, Users
<1> QED
  BY <1>2, <1>3 DEF Programs

\* A step of a thread on its way, which does not parse. What is known of the gateway
\* goes on.
LEMMA RunKeeps ==
  ASSUME Programs, NEW t \in Threads, NEW steps \in Seq(CalmSteps),
         \/ todo[t] # <<>> /\ Continue(t)
         \/ todo[t] # <<>> /\ Perform(t, steps)
         \/ Abandon(t, steps)
  PROVE  Programs' /\ (Calm => Calm')
<1> DEFINE Next_(p) == /\ todo' = [todo EXCEPT ![t] = p] /\ p \in Seq(ParseSteps)
                       /\ todo[t] \in Seq(CalmSteps) => p \in Seq(CalmSteps)
<1>1. ASSUME todo[t] # <<>> /\ Continue(t) PROVE \E p : Next_(p)
  <2>1. Next_(Tail(todo[t]))
    BY <1>1, HeadIs DEF Continue
  <2> QED
    BY <2>1
<1>2. ASSUME todo[t] # <<>> /\ Perform(t, steps) PROVE \E p : Next_(p)
  <2>1. steps \in Seq(ParseSteps)
    BY CalmIsProgram
  <2>2. Tail(todo[t]) \in Seq(ParseSteps) /\ steps \o Tail(todo[t]) \in Seq(ParseSteps)
    BY <1>2, <2>1, HeadIs, ConcatIsSeq
  <2>3. todo[t] \in Seq(CalmSteps) => steps \o Tail(todo[t]) \in Seq(CalmSteps)
    BY <1>2, HeadIs, ConcatIsSeq
  <2>4. Next_(steps \o Tail(todo[t]))
    BY <1>2, <2>2, <2>3 DEF Perform
  <2> QED
    BY <2>4
<1>3. ASSUME Abandon(t, steps) PROVE \E p : Next_(p)
  <2>1. Next_(steps)
    BY <1>3, CalmIsProgram DEF Abandon
  <2> QED
    BY <2>1
<1>4. PICK p : Next_(p)
  BY <1>1, <1>2, <1>3
<1>5. t \in Users => todo[t] \in Seq(CalmSteps)
  BY DEF Programs
<1>6. Programs' /\ todo'[t] = p
  BY <1>4, <1>5, ProgramsKeep DEF Threads, Users
<1>7. t # "worker" => todo'["worker"] = todo["worker"]
  BY <1>4 DEF Programs, Threads
<1> QED
  BY <1>4, <1>6, <1>7 DEF Calm

\* A message of the gateway leaves only by the node's reading or closing.
LEMMA InboxKeeps ==
  ASSUME InboxInv, inbox' \in {inbox, <<>>}, server' = server,
         status' \in {"Starting", "Started"} => status \in {"Starting", "Started"} \/ ~Calm,
         ~Calm' => status \in {"Starting", "Started"} \/ ~Calm
  PROVE  InboxInv'
<1>1. CASE inbox' = inbox
  BY <1>1 DEF InboxInv, Upgraded
<1>2. CASE inbox' = <<>>
  <2>1. inbox' \in Seq(Messages) /\ inbox' \in Seq(Replies)
    BY <1>2
  <2> QED
    BY <1>2, <2>1 DEF InboxInv, Upgraded
<1> QED
  BY <1>1, <1>2
\* What a step of a shared function leaves a thread to do.
LEMMA RunningPrograms ==
  ASSUME TypeInv, NEW t \in Threads, Running(t)
  PROVE  Programs' /\ (Calm => Calm')
<1> DEFINE Goes(steps) == \/ todo[t] # <<>> /\ Continue(t)
                          \/ todo[t] # <<>> /\ Perform(t, steps)
                          \/ Abandon(t, steps)
<1>1. SUFFICES \E steps \in Seq(CalmSteps) : Goes(steps)
  <2>1. Programs
    BY DEF TypeInv
  <2> QED
    BY <2>1, RunKeeps
<1>2. /\ <<Do("flush")>> \in Seq(CalmSteps) /\ <<Do("directive")>> \in Seq(CalmSteps)
      /\ <<Do("closed")>> \in Seq(CalmSteps) /\ <<>> \in Seq(CalmSteps)
  <2>1. {Do("flush"), Do("directive"), Do("closed")} \subseteq CalmSteps
    BY StepsAreSteps
  <2> QED
    BY <2>1
<1>3. todo[t] # <<>>
  BY DEF Running, Add, Notify, Flush, Directive, Event, Call, Closed, CloseNode, Disconnect, At
<1>4. CASE \/ Continue(t)
           \/ Perform(t, <<Do("flush")>>)
           \/ Perform(t, <<Do("directive")>>)
           \/ Perform(t, <<Do("closed")>>)
           \/ Abandon(t, OnError(t))
  <2>1. OnError(t) \in Seq(CalmSteps)
    BY EndsAreCalm
  <2>2. CASE Continue(t)
    BY <1>2, <1>3, <2>2
  <2>3. CASE Perform(t, <<Do("flush")>>)
    BY <1>2, <1>3, <2>3
  <2>4. CASE Perform(t, <<Do("directive")>>)
    BY <1>2, <1>3, <2>4
  <2>5. CASE Perform(t, <<Do("closed")>>)
    BY <1>2, <1>3, <2>5
  <2>6. CASE Abandon(t, OnError(t))
    BY <2>1, <2>6
  <2> QED
    BY <1>4, <2>2, <2>3, <2>4, <2>5, <2>6
<1>5. CASE Event(t)
  <2>1. About(t) \in Callbacks
    BY <1>3, <1>5, HeadIs DEF TypeInv, Event, At
  <2>2. On("call", About(t)) \in CalmSteps
    BY <2>1, StepsAreSteps
  <2>3. <<On("call", About(t))>> \in Seq(CalmSteps)
    BY <2>2
  <2>4. Continue(t) \/ Perform(t, <<On("call", About(t))>>)
    BY <1>5 DEF Event
  <2> QED
    BY <1>2, <1>3, <2>3, <2>4
<1>6. CASE Add(t)
  BY <1>4, <1>6 DEF Add
<1>7. CASE Notify(t)
  BY <1>4, <1>7 DEF Notify
<1>8. CASE Flush(t)
  BY <1>4, <1>8 DEF Flush
<1>9. CASE Directive(t)
  BY <1>4, <1>9 DEF Directive
<1>10. CASE Call(t) \/ Closed(t) \/ CloseNode(t) \/ Disconnect(t)
  BY <1>4, <1>10 DEF Call, Closed, CloseNode, Disconnect
<1> QED
  BY <1>5, <1>6, <1>7, <1>8, <1>9, <1>10 DEF Running

\* What sending does to the write event.
LEMMA SendingKeepsEvents ==
  ASSUME Types, NEW directives, NEW result, SendAudio(result) \/ SendCmd(directives, result)
  PROVE  events' \in [launch : BOOLEAN, read : BOOLEAN, write : {"none", "idle", "armed"}]
BY DEF Types, SendAudio, SendCmd

\* A step of a shared function stays within the types.
LEMMA RunningTypes ==
  ASSUME TypeInv, NEW t \in Threads, Running(t) PROVE Types'
<1> USE SessionAssumption
<1>1. Types /\ Programs
  BY DEF TypeInv
<1>2. CASE Add(t)
  BY <1>1, <1>2 DEF Add, Types, network
<1>3. CASE Notify(t) \/ Event(t) \/ Disconnect(t) \/ CloseNode(t) \/ Closed(t)
  <2>1. CASE Notify(t) \/ Event(t)
    BY <1>1, <2>1 DEF Notify, Event, Types, node, network
  <2>2. CASE Disconnect(t)
    BY <1>1, <2>2 DEF Disconnect, Types, node
  <2>3. CASE CloseNode(t)
    <3>1. NoEvents \in [launch : BOOLEAN, read : BOOLEAN, write : {"none", "idle", "armed"}]
      BY DEF NoEvents
    <3> QED
      BY <1>1, <2>3, <3>1 DEF CloseNode, Types
  <2>4. CASE Closed(t)
    BY <1>1, <2>4 DEF Closed, Types, network, Statuses
  <2> QED
    BY <1>3, <2>1, <2>2, <2>3, <2>4
<1>4. CASE Flush(t)
  <2>1. \E result : SendAudio(result) \/ UNCHANGED <<audio, events>>
    BY <1>4 DEF Flush
  <2>2. events' \in [launch : BOOLEAN, read : BOOLEAN, write : {"none", "idle", "armed"}]
    BY <1>1, <2>1, SendingKeepsEvents DEF Types
  <2>3. audio' \in 0 .. Limit + Frame - 1
    BY <1>1, <2>1 DEF Types, SendAudio
  <2> QED
    BY <1>1, <1>4, <2>2, <2>3 DEF Flush, Types
<1>5. CASE Directive(t)
  <2>1. \E result, directives : SendCmd(directives, result) \/ UNCHANGED events
    BY <1>5 DEF Directive
  <2>2. events' \in [launch : BOOLEAN, read : BOOLEAN, write : {"none", "idle", "armed"}]
    BY <1>1, <2>1, SendingKeepsEvents DEF Types
  <2>3. isStop' \in BOOLEAN
    BY <1>1, <1>5 DEF Directive, Types, MustStop
  <2> QED
    BY <1>1, <1>5, <2>2, <2>3 DEF Directive, Types
<1>6. CASE Call(t)
  <2>1. About(t) \in Callbacks
    BY <1>1, <1>6, HeadIs DEF Call, At
  <2>2. [by |-> t, event |-> About(t), late |-> exit = "Cancel"] \in Call_
    BY <2>1 DEF Call_
  <2>3. calls' \in Seq(Call_)
    BY <1>1, <1>6, <2>2 DEF Call, Types
  <2>4. retries' \in 0 .. MaxConnects
    BY <1>1, <1>6 DEF Call, Types
  <2> QED
    BY <1>1, <1>6, <2>3, <2>4 DEF Call, Types, network
<1> QED
  BY <1>2, <1>3, <1>4, <1>5, <1>6 DEF Running

LEMMA RunningIsTyped ==
  ASSUME TypeInv, NEW t \in Threads, Running(t) PROVE TypeInv'
<1>1. StopInv'
  BY RunningKeeps DEF TypeInv
<1>2. Programs' /\ (Calm => Calm')
  BY RunningPrograms
<1>3. inbox' \in {inbox, <<>>} /\ server' = server /\ status' \in {status, "Closed"}
  BY DEF Running, Add, Notify, Flush, Directive, Event, Call, Closed, CloseNode, Disconnect,
         node, network
<1>4. InboxInv'
  BY <1>2, <1>3, InboxKeeps DEF TypeInv
<1> QED
  BY <1>1, <1>2, <1>4, RunningTypes DEF TypeInv
\* The event thread between two callbacks of libevent has nothing to do.
LEMMA WorkerIsCalm == ASSUME Worker PROVE Calm
BY DEF Worker, Idle, Calm

\* The next attempt to connect.
LEMMA DialIsTyped ==
  ASSUME TypeInv, Dial, Worker
  PROVE  /\ retries' \in 0 .. MaxConnects /\ status' \in Statuses
         /\ link' \in {"down", "connecting", "up", "broken"}
         /\ status' \in {"Starting", "Started"} => status' = status
         /\ Programs' /\ Calm'
<1> USE SessionAssumption
<1>1. Types /\ Programs
  BY DEF TypeInv
<1>2. retries' \in 0 .. MaxConnects
  BY <1>1 DEF Types, Dial, Attempt
<1>3. /\ status' \in Statuses /\ link' \in {"down", "connecting", "up", "broken"}
      /\ status' \in {"Starting", "Started"} => status' = status
  BY <1>1 DEF Types, Dial, Statuses
<1>4. CASE todo' = todo
  BY <1>1, <1>2, <1>3, <1>4, WorkerIsCalm DEF Programs, Calm
<1>5. CASE Abandon("worker", TellFailure)
  <2>1. Programs' /\ (Calm => Calm')
    BY <1>1, <1>5, EndsAreCalm, RunKeeps DEF Threads
  <2> QED
    BY <1>2, <1>3, <2>1, WorkerIsCalm
<1> QED
  BY <1>4, <1>5 DEF Dial

LEMMA LaunchIsTyped == ASSUME TypeInv, Launch PROVE TypeInv'
<1>1. Types /\ Programs /\ InboxInv /\ StopInv /\ Worker /\ Calm
  BY WorkerIsCalm DEF TypeInv, Launch
<1>2. StopInv'
  BY <1>1, OthersKeep DEF Launch
<1>3. CASE Dial
  <2>1. Types'
    BY <1>1, <1>3, DialIsTyped DEF Launch, Types
  <2> QED
    BY <1>1, <1>2, <1>3, <2>1, DialIsTyped, InboxKeeps DEF Launch, TypeInv
<1>4. CASE status' = "Invoked" /\ UNCHANGED <<retries, link, todo>>
  <2>1. Types'
    BY <1>1, <1>4 DEF Launch, Types, Statuses
  <2>2. Programs' /\ Calm'
    BY <1>1, <1>4 DEF Programs, Calm
  <2> QED
    BY <1>1, <1>2, <1>4, <2>1, <2>2, InboxKeeps DEF Launch, TypeInv
<1> QED
  BY <1>3, <1>4 DEF Launch

LEMMA ConnectFailsIsTyped == ASSUME TypeInv, ConnectFails PROVE TypeInv'
<1>1. Types /\ Programs /\ InboxInv /\ StopInv /\ Worker /\ Calm
  BY WorkerIsCalm DEF TypeInv, ConnectFails
<1>2. StopInv'
  BY <1>1, OthersKeep DEF ConnectFails
<1>3. Dial
  BY DEF ConnectFails
<1>4. Types'
  BY <1>1, <1>3, DialIsTyped DEF ConnectFails, Types
<1> QED
  BY <1>1, <1>2, <1>3, <1>4, DialIsTyped, InboxKeeps DEF ConnectFails, TypeInv

LEMMA ConnectedIsTyped == ASSUME TypeInv, Connected PROVE TypeInv'
<1>1. Types /\ Programs /\ InboxInv /\ StopInv /\ Worker /\ Calm
  BY WorkerIsCalm DEF TypeInv, Connected
<1>2. StopInv'
  BY <1>1, ConnectedKeeps
<1>3. /\ status' \in {status, "Handshaking"} /\ link' \in {"down", "up"}
      /\ events' \in [launch : BOOLEAN, read : BOOLEAN, write : {"none", "idle", "armed"}]
  BY <1>1 DEF Connected, Types
<1>4. Types'
  BY <1>1, <1>3 DEF Connected, Types, Statuses
<1>5. Programs' /\ Calm'
  BY <1>1 DEF Connected, Programs, Calm
<1> QED
  BY <1>1, <1>2, <1>3, <1>4, <1>5, InboxKeeps DEF Connected, TypeInv

\* A step of the event thread that changes what it has to do, and leaves the
\* gateway's messages alone.
LEMMA StepIsTyped ==
  ASSUME TypeInv, StopInv', Programs', UNCHANGED <<inbox, server>>,
         ~Calm' => status \in {"Starting", "Started"} \/ ~Calm,
         status' \in {"Starting", "Started"} => status \in {"Starting", "Started"} \/ ~Calm,
         Types'
  PROVE  TypeInv'
<1>1. InboxInv'
  BY InboxKeeps DEF TypeInv
<1> QED
  BY <1>1 DEF TypeInv
LEMMA CommandIsTyped == ASSUME TypeInv, Command PROVE TypeInv'
<1>1. Types /\ Programs /\ InboxInv /\ StopInv
  BY DEF TypeInv
<1>2. StopInv'
  BY <1>1, CommandKeeps
<1>3. \E result : SendCmd(cmd, result)
  BY DEF Command
<1>4. Types'
  BY <1>1, <1>3, SendingKeepsEvents DEF Command, Types
<1>5. todo["worker"] # <<>> /\ (Continue("worker") \/ Abandon("worker", OnError("worker")))
  BY DEF Command, At
<1>6. OnError("worker") \in Seq(CalmSteps)
  BY EndsAreCalm
<1>7. Programs' /\ (Calm => Calm')
  BY <1>1, <1>5, <1>6, RunKeeps DEF Threads
<1> QED
  BY <1>1, <1>2, <1>4, <1>7, StepIsTyped DEF Command

\* A message that is parsed has its callback.
LEMMA ParseIsTyped == ASSUME TypeInv, Parse PROVE TypeInv'
<1>1. Types /\ Programs /\ InboxInv /\ StopInv
  BY DEF TypeInv
<1>2. StopInv' /\ Types'
  BY <1>1, OthersKeep DEF Parse, node, network, Types
<1>3. todo["worker"] # <<>> /\ Head(todo["worker"]).op = "parse" /\ "worker" \in Threads
  BY DEF Parse, At, Threads
<1>4. About("worker") \in Replies /\ ~Calm
  BY <1>1, <1>3, HeadIs DEF Calm
<1> DEFINE event == IF About("worker") = "CLOSE" THEN "TaskFailed" ELSE About("worker")
<1>5. event \in Callbacks
  BY <1>4 DEF Replies, Messages, Callbacks
<1>6. <<On("call", event), On("after", event)>> \in Seq(ParseSteps)
  <2>1. {On("call", event), On("after", event)} \subseteq ParseSteps
    BY <1>5, StepsAreSteps
  <2> HIDE DEF event
  <2> QED
    BY <2>1
<1>7. GiveUp \in Seq(CalmSteps) /\ <<Do("close")>> \in Seq(CalmSteps)
  <2>1. {Do("begin")} \subseteq CalmSteps
    BY StepsAreSteps
  <2>2. <<Do("begin")>> \in Seq(CalmSteps)
    BY <2>1
  <2> QED
    BY <2>2, EndsAreCalm DEF GiveUp
<1>8. \/ Abandon("worker", <<Do("close")>>)
      \/ Abandon("worker", GiveUp)
      \/ Perform("worker", <<On("call", event), On("after", event)>>)
  BY DEF Parse
<1>9. CASE Perform("worker", <<On("call", event), On("after", event)>>)
  <2>1. Tail(todo["worker"]) \in Seq(ParseSteps)
    BY <1>1, <1>3, HeadIs
  <2> HIDE DEF event
  <2>2. <<On("call", event), On("after", event)>> \o Tail(todo["worker"]) \in Seq(ParseSteps)
    BY <1>6, <2>1, ConcatIsSeq
  <2>3. Programs'
    BY <1>1, <1>3, <1>9, <2>2, ProgramsKeep DEF Perform
  <2> QED
    BY <1>1, <1>2, <1>4, <2>3, StepIsTyped DEF Parse, node, network
<1>10. CASE Abandon("worker", <<Do("close")>>) \/ Abandon("worker", GiveUp)
  <2>1. Programs' /\ (Calm => Calm')
    BY <1>1, <1>3, <1>7, <1>10, RunKeeps
  <2> QED
    BY <1>1, <1>2, <1>4, <2>1, StepIsTyped DEF Parse, node, network
<1> QED
  BY <1>8, <1>9, <1>10

LEMMA AfterIsTyped == ASSUME TypeInv, After PROVE TypeInv'
<1>1. Types /\ Programs /\ InboxInv /\ StopInv
  BY DEF TypeInv
<1>2. todo["worker"] # <<>> /\ Head(todo["worker"]).op = "after" /\ "worker" \in Threads
  BY DEF After, At, Threads
<1>3. About("worker") \in Callbacks /\ ~Calm
  BY <1>1, <1>2, HeadIs DEF Calm
<1>4. status' \in Statuses
  BY <1>1 DEF After, Types, Statuses
<1>5. StopInv' /\ Types'
  BY <1>1, <1>4, OthersKeep DEF After, network, Types
<1>6. {Do("close"), On("event", "Close")} \subseteq CalmSteps
  BY StepsAreSteps DEF Callbacks
<1>7. <<Do("close"), On("event", "Close")>> \in Seq(CalmSteps)
  BY <1>6
<1>8. Programs'
  BY <1>1, <1>2, <1>7, RunKeeps DEF After
<1> QED
  BY <1>1, <1>3, <1>5, <1>8, StepIsTyped DEF After, network

LEMMA BeginIsTyped == ASSUME TypeInv, Begin PROVE TypeInv'
<1>1. Types /\ Programs /\ InboxInv /\ StopInv
  BY DEF TypeInv
<1>2. StopInv' /\ Types'
  BY <1>1, OthersKeep DEF Begin, node, network, Types
<1>3. {Do("flush")} \subseteq CalmSteps
  BY StepsAreSteps
<1>4. <<Do("flush")>> \in Seq(CalmSteps)
  BY <1>3
<1>5. Programs' /\ (Calm => Calm')
  BY <1>1, <1>4, RunKeeps DEF Begin, At, Threads
<1> QED
  BY <1>1, <1>2, <1>5, StepIsTyped DEF Begin, node, network

LEMMA WriteIsTyped == ASSUME TypeInv, Write PROVE TypeInv'
<1>1. Types /\ Programs /\ InboxInv /\ StopInv
  BY DEF TypeInv
<1>2. StopInv' /\ Types'
  BY <1>1, OthersKeep DEF Write, network, Types
<1>3. {Do("flush"), Do("command"), Do("close")} \subseteq CalmSteps
  BY StepsAreSteps
<1>4. /\ <<Do("flush")>> \in Seq(CalmSteps) /\ <<Do("command")>> \in Seq(CalmSteps)
      /\ <<Do("close")>> \in Seq(CalmSteps) /\ FailedWrite \in Seq(CalmSteps)
  BY <1>3, EndsAreCalm
<1>5. \E steps \in Seq(CalmSteps) : Abandon("worker", steps)
  BY <1>4 DEF Write
<1>6. Programs' /\ (Calm => Calm')
  BY <1>1, <1>5, RunKeeps DEF Threads
<1> QED
  BY <1>1, <1>2, <1>6, StepIsTyped DEF Write, network

LEMMA TimeoutIsTyped == ASSUME TypeInv, Timeout PROVE TypeInv'
<1>1. Types /\ Programs /\ InboxInv /\ StopInv
  BY DEF TypeInv
<1>2. StopInv' /\ Types'
  BY <1>1, OthersKeep DEF Timeout, node, network, Types
<1>3. <<>> \in Seq(CalmSteps)
  OBVIOUS
<1>4. /\ <<Do("close")>> \o <<>> \in Seq(CalmSteps)
      /\ <<Do("close")>> \o TellFailure \in Seq(CalmSteps)
  BY <1>3, EndsAreCalm, ConcatIsSeq
<1>5. \E steps \in Seq(CalmSteps) : Abandon("worker", steps)
  BY <1>4 DEF Timeout
<1>6. Programs' /\ (Calm => Calm')
  BY <1>1, <1>5, RunKeeps DEF Threads
<1> QED
  BY <1>1, <1>2, <1>6, StepIsTyped DEF Timeout, node, network
LEMMA ReadIsTyped == ASSUME TypeInv, Read PROVE TypeInv'
<1>1. Types /\ Programs /\ InboxInv /\ StopInv /\ Worker /\ Calm /\ "worker" \in Threads
  BY WorkerIsCalm DEF TypeInv, Read, Threads
<1>2. StopInv'
  BY <1>1, ReadKeeps
<1>3. Types'
  BY <1>1 DEF Read, Types, Statuses
<1>4. CASE exit = "Cancel"
  <2>1. Abandon("worker", <<Do("close")>>) /\ UNCHANGED <<status, inbox, server>>
    BY <1>4 DEF Read
  <2>2. Programs' /\ (Calm => Calm')
    BY <1>1, <2>1, EndsAreCalm, RunKeeps
  <2> QED
    BY <1>1, <1>2, <1>3, <2>1, <2>2, StepIsTyped
<1>5. CASE exit # "Cancel" /\ Abandon("worker", FailedRead) /\ UNCHANGED <<status, inbox>>
  <2>1. Programs' /\ (Calm => Calm')
    BY <1>1, <1>5, EndsAreCalm, RunKeeps
  <2>2. UNCHANGED <<status, inbox, server>>
    BY <1>5 DEF Read
  <2> QED
    BY <1>1, <1>2, <1>3, <2>1, <2>2, StepIsTyped
<1>6. CASE /\ status = "Handshaking" /\ link = "up" /\ Head(inbox) = "switch"
           /\ inbox # <<>> /\ inbox' = Tail(inbox) /\ server' = server
           /\ Abandon("worker", <<Do("command")>>)
  <2>1. inbox \notin Seq(Replies)
    BY <1>6, TailIsSeq DEF Replies
  <2>2. inbox' \in Seq(Replies) /\ server' # "idle"
    BY <1>1, <1>6, <2>1 DEF InboxInv
  <2>3. inbox' \in Seq(Messages)
    BY <1>1, <1>6, TailIsSeq DEF InboxInv
  <2>4. Upgraded'
    BY <2>2 DEF Upgraded
  <2>5. InboxInv'
    BY <2>2, <2>3, <2>4 DEF InboxInv
  <2>6. {Do("command")} \subseteq CalmSteps
    BY StepsAreSteps
  <2>7. <<Do("command")>> \in Seq(CalmSteps)
    BY <2>6
  <2>8. Programs'
    BY <1>1, <1>6, <2>7, RunKeeps
  <2> QED
    BY <1>2, <1>3, <2>5, <2>8 DEF TypeInv
<1>7. ASSUME status \in {"Starting", "Started"}, server' = server, status' = status,
             NEW n \in 1 .. Len(inbox),
             inbox' = SubSeq(inbox, n + 1, Len(inbox)),
             Abandon("worker", [i \in 1 .. n |-> On("parse", inbox[i])] \o
                       IF status = "Starting" THEN <<Do("begin")>> ELSE <<>>)
      PROVE TypeInv'
  <2>1. Upgraded
    BY <1>1, <1>7 DEF InboxInv
  <2>2. Len(inbox) \in Nat /\ n \in 1 .. Len(inbox) /\ \A i \in 1 .. Len(inbox) : inbox[i] \in Replies
    BY <1>7, <2>1 DEF Upgraded
  <2>3. inbox' \in Seq(Replies)
    BY <1>7, <2>1, <2>2 DEF Upgraded
  <2>4. inbox' \in Seq(Messages)
    BY <2>3 DEF Replies
  <2>5. Upgraded' /\ server' # "idle"
    BY <1>7, <2>1, <2>3 DEF Upgraded
  <2>6. InboxInv'
    BY <2>3, <2>4, <2>5 DEF InboxInv
  <2>7. \A i \in 1 .. n : On("parse", inbox[i]) \in ParseSteps
    BY <2>2, StepsAreSteps
  <2>8. [i \in 1 .. n |-> On("parse", inbox[i])] \in Seq(ParseSteps)
    <3> DEFINE step(i) == On("parse", inbox[i])
    <3>1. \A i \in 1 .. n : step(i) \in ParseSteps
      BY <2>7
    <3>2. n \in Nat
      BY <2>2
    <3> HIDE DEF step
    <3>3. [i \in 1 .. n |-> step(i)] \in Seq(ParseSteps)
      BY <3>1, <3>2
    <3> QED
      BY <3>3 DEF step
  <2>9. {Do("begin")} \subseteq ParseSteps
    BY StepsAreSteps
  <2>10. <<Do("begin")>> \in Seq(ParseSteps) /\ <<>> \in Seq(ParseSteps)
    BY <2>9
  <2>11. PICK p \in Seq(ParseSteps) : Abandon("worker", p)
    BY <1>7, <2>8, <2>10, ConcatIsSeq
  <2>12. Programs'
    BY <1>1, <2>11, ProgramsKeep DEF Abandon
  <2> QED
    BY <1>2, <1>3, <2>6, <2>12 DEF TypeInv
<1>8. server' = server
  BY DEF Read
<1> QED
  BY <1>4, <1>5, <1>6, <1>7, <1>8 DEF Read

\* The user's calls.
LEMMA UserIsTyped == ASSUME TypeInv, User PROVE TypeInv'
<1> USE SessionAssumption
<1>1. Types /\ Programs /\ InboxInv /\ StopInv
  BY DEF TypeInv
<1>2. StopInv'
  BY <1>1, OthersKeep DEF User, Start, BeginSendAudio, Stop, Cancel, node, network
<1>3. {Do("add"), Do("notify")} \subseteq CalmSteps
  BY StepsAreSteps
<1>4. <<Do("add")>> \in Seq(CalmSteps) /\ <<Do("notify")>> \in Seq(CalmSteps)
  BY <1>3
<1>5. CASE Start
  <2>1. Types'
    BY <1>1, <1>5 DEF Start, Types, Statuses, network
  <2>2. Programs' /\ (Calm => Calm')
    BY <1>1, <1>5 DEF Start, Programs, Calm
  <2> QED
    BY <1>1, <1>2, <1>5, <2>1, <2>2, StepIsTyped DEF Start, network
<1>6. CASE BeginSendAudio
  <2>1. Types'
    BY <1>1, <1>6 DEF BeginSendAudio, Types, node, network
  <2>2. Programs' /\ (Calm => Calm')
    BY <1>1, <1>4, <1>6, RunKeeps DEF BeginSendAudio, Threads, Users
  <2> QED
    BY <1>1, <1>2, <1>6, <2>1, <2>2, StepIsTyped DEF BeginSendAudio, node, network
<1>7. CASE Stop
  <2>1. Types'
    BY <1>1, <1>7 DEF Stop, Types, network
  <2>2. Programs' /\ (Calm => Calm')
    BY <1>1, <1>4, <1>7, RunKeeps DEF Stop, Threads, Users
  <2> QED
    BY <1>1, <1>2, <1>7, <2>1, <2>2, StepIsTyped DEF Stop, network
<1>8. CASE Cancel
  <2>1. Types'
    BY <1>1, <1>8 DEF Cancel, Types, network
  <2>2. Programs' /\ (Calm => Calm')
    BY <1>1, <1>8 DEF Cancel, Programs, Calm
  <2> QED
    BY <1>1, <1>2, <1>8, <2>1, <2>2, StepIsTyped DEF Cancel, network
<1> QED
  BY <1>5, <1>6, <1>7, <1>8 DEF User

\* The gateway answers the upgrade first, and once.
LEMMA ReplyIsTyped ==
  ASSUME TypeInv, NEW phase \in {"upgraded", "started", "heard", "done"}, NEW messages,
         Reply(phase, messages),
         \/ server = "idle" /\ messages \in {<<"switch">>, <<"refuse">>}
         \/ server # "idle" /\ messages \in Seq(Replies)
  PROVE  TypeInv'
<1>1. Types /\ Programs /\ InboxInv /\ StopInv
  BY DEF TypeInv
<1>2. StopInv' /\ Types'
  BY <1>1, OthersKeep DEF Reply, node, Types
<1>3. Programs' /\ (Calm <=> Calm')
  BY <1>1 DEF Reply, Programs, Calm
<1>4. CASE server = "idle" /\ messages \in {<<"switch">>, <<"refuse">>}
  <2>1. inbox = <<>> /\ Calm /\ status \notin {"Starting", "Started"}
    BY <1>1, <1>4 DEF InboxInv, Upgraded
  <2>2. inbox' = messages
    BY <1>4, <2>1 DEF Reply
  <2>3. inbox' \in Seq(Messages) /\ inbox' # <<>> /\ Tail(inbox') = <<>>
    <3>1. ASSUME NEW m \in Messages
          PROVE  <<m>> \in Seq(Messages) /\ <<m>> # <<>> /\ Tail(<<m>>) = <<>>
      OBVIOUS
    <3>2. "switch" \in Messages /\ "refuse" \in Messages
      BY DEF Messages
    <3> QED
      BY <1>4, <2>2, <3>1, <3>2
  <2>4. <<>> \in Seq(Replies)
    OBVIOUS
  <2>5. InboxInv'
    BY <1>3, <2>1, <2>3, <2>4 DEF InboxInv, Reply, node
  <2> QED
    BY <1>2, <1>3, <2>5 DEF TypeInv
<1>5. CASE server # "idle" /\ messages \in Seq(Replies)
  <2>1. inbox' = inbox \o messages /\ server' # "idle"
    BY DEF Reply
  <2>2. messages \in Seq(Messages)
    BY <1>5 DEF Replies
  <2>3. inbox' \in Seq(Messages)
    BY <1>1, <2>1, <2>2, ConcatIsSeq DEF InboxInv
  <2>4. inbox \in Seq(Replies) => inbox' \in Seq(Replies)
    BY <1>5, <2>1, ConcatIsSeq
  <2>5. ASSUME inbox # <<>>, Tail(inbox) \in Seq(Replies)
        PROVE  inbox' # <<>> /\ Tail(inbox') \in Seq(Replies)
    <3>1. inbox' # <<>> /\ Tail(inbox') = Tail(inbox) \o messages
      BY <1>1, <2>1, <2>2, <2>5 DEF InboxInv
    <3> QED
      BY <1>5, <2>5, <3>1, ConcatIsSeq
  <2>6. InboxInv'
    BY <1>1, <1>3, <2>1, <2>3, <2>4, <2>5 DEF InboxInv, Upgraded, Reply, node
  <2> QED
    BY <1>2, <1>3, <2>6 DEF TypeInv
<1> QED
  BY <1>4, <1>5

LEMMA ServerIsTyped == ASSUME TypeInv, Server \/ ServerRefuses \/ ServerFailsTask PROVE TypeInv'
<1>1. {"Started", "Result", "Completed", "TaskFailed", "CLOSE"} \subseteq Replies
  BY DEF Replies, Messages
<1>2. /\ <<"Started">> \in Seq(Replies) /\ <<"Result">> \in Seq(Replies)
      /\ <<"Completed">> \in Seq(Replies) /\ <<"TaskFailed">> \in Seq(Replies)
      /\ <<"TaskFailed", "CLOSE">> \in Seq(Replies) /\ <<"CLOSE">> \in Seq(Replies)
  BY <1>1
<1>3. CASE ServerUpgrades \/ ServerRefuses
  BY <1>3, ReplyIsTyped DEF ServerUpgrades, ServerRefuses
<1>4. CASE ServerStarts \/ ServerReports \/ ServerCompletes
  BY <1>2, <1>4, ReplyIsTyped DEF ServerStarts, ServerReports, ServerCompletes
<1>5. CASE ServerFailsTask
  BY <1>2, <1>5, ReplyIsTyped DEF ServerFailsTask
<1> QED
  BY <1>3, <1>4, <1>5 DEF Server

LEMMA LinkBreaksIsTyped == ASSUME TypeInv, LinkBreaks PROVE TypeInv'
<1>1. Types /\ Programs /\ InboxInv /\ StopInv
  BY DEF TypeInv
<1>2. StopInv' /\ Types'
  BY <1>1, OthersKeep DEF LinkBreaks, node, Types
<1>3. Programs' /\ (Calm => Calm')
  BY <1>1 DEF LinkBreaks, Programs, Calm
<1> QED
  BY <1>1, <1>2, <1>3, StepIsTyped DEF LinkBreaks, node

LEMMA StutterIsTyped == ASSUME TypeInv, UNCHANGED vars PROVE TypeInv'
<1>1. Types /\ Programs /\ InboxInv /\ StopInv
  BY DEF TypeInv
<1>2. StopInv' /\ Types'
  BY <1>1, OthersKeep DEF vars, node, network, Types
<1>3. Programs' /\ (Calm => Calm')
  BY <1>1 DEF vars, Programs, Calm
<1> QED
  BY <1>1, <1>2, <1>3, StepIsTyped DEF vars, node, network

LEMMA TypeInvInit == Init => TypeInv
<1> SUFFICES ASSUME Init PROVE TypeInv
  OBVIOUS
<1> USE SessionAssumption
<1>1. StopInv
  BY DEF Init, StopInv, Sequences, Without, AtMostOne, Stops
<1>2. Types
  <2>1. /\ NoEvents \in [launch : BOOLEAN, read : BOOLEAN, write : {"none", "idle", "armed"}]
        /\ <<>> \in Seq(Call_)
    BY DEF NoEvents
  <2>2. retries \in 0 .. MaxConnects /\ audio \in 0 .. Limit + Frame - 1 /\ frames \in 0 .. MaxFrames
    BY DEF Init
  <2> QED
    BY <2>1, <2>2 DEF Init, Types, Statuses
<1>3. Programs /\ Calm
  <2>1. <<>> \in Seq(CalmSteps) /\ <<>> \in Seq(ParseSteps)
    OBVIOUS
  <2> QED
    BY <2>1 DEF Init, Programs, Calm, Threads
<1>4. InboxInv
  <2>1. inbox \in Seq(Messages) /\ inbox \in Seq(Replies)
    BY DEF Init
  <2> QED
    BY <1>3, <2>1 DEF Init, InboxInv
<1> QED
  BY <1>1, <1>2, <1>3, <1>4 DEF TypeInv

LEMMA TypeInvKeeps == TypeInv /\ [Next]_vars => TypeInv'
<1> SUFFICES ASSUME TypeInv, [Next]_vars PROVE TypeInv'
  OBVIOUS
<1>1. CASE EventThread
  BY <1>1, LaunchIsTyped, ConnectedIsTyped, ReadIsTyped, CommandIsTyped, ParseIsTyped,
     AfterIsTyped, BeginIsTyped, WriteIsTyped, RunningIsTyped
  DEF EventThread, Threads
<1>2. CASE User
  BY <1>2, UserIsTyped
<1>3. CASE Server
  BY <1>3, ServerIsTyped
<1>4. CASE Fault
  BY <1>4, ConnectFailsIsTyped, TimeoutIsTyped, LinkBreaksIsTyped, ServerIsTyped DEF Fault
<1>5. ASSUME NEW t \in Users, Running(t)
      PROVE  TypeInv'
  BY <1>5, RunningIsTyped DEF Threads
<1>6. CASE UNCHANGED vars
  BY <1>6, StutterIsTyped
<1> QED
  BY <1>1, <1>2, <1>3, <1>4, <1>5, <1>6 DEF Next

\* The state of a session stays within its types: in particular the retries within
\* their number, the audio within the buffer's limit and one frame more, and every
\* message that the node parses is one that has a callback (readEventCallBack reads the
\* answer to the upgrade before anything is parsed).
THEOREM SessionIsTyped == Spec => []TypeOK
<1>1. TypeInv => TypeOK
  <2> SUFFICES ASSUME TypeInv PROVE TypeOK
    OBVIOUS
  <2>1. ParseSteps \subseteq Step
    BY DEF ParseSteps, CalmSteps, Step, Do, On, Replies
  <2>2. todo \in [Threads -> Seq(Step)]
    <3>1. \A t \in Threads : todo[t] \in Seq(Step)
      BY <2>1 DEF TypeInv, Programs
    <3> QED
      BY <3>1 DEF TypeInv, Programs
  <2> QED
    BY <2>2 DEF TypeInv, StopInv, Sequences, Types, InboxInv, Call_, TypeOK
<1> QED
  BY <1>1, TypeInvInit, TypeInvKeeps, PTL DEF Spec

(***************************************************************************)
(* The order of the callbacks. On a link that holds once it is up, to a    *)
(* server that fails a task only before it is started, and as long as      *)
(* nothing is cancelled, only the event thread reports: a user's call finds*)
(* the link up or Stop built. What the event thread still has to report is *)
(* known from how far the server is and what was reported before.          *)
(***************************************************************************)
LinkHolds == ~Blocks /\ ~RecvTimeout /\ "up" \notin LinkFails
ServerKeepsOn == ServerFails \subseteq {"idle", "upgraded"}

Made(e) == \E i \in DOMAIN calls : calls[i].event = e

\* How far the session is, as far as its user was told.
Known == IF Made("Close") THEN "closed"
         ELSE IF Made("Completed") \/ Made("TaskFailed") THEN "ended"
         ELSE IF Made("Started") THEN "started" ELSE "new"

\* The callbacks that may come next, and what is known then.
Turns == {<<"new", "Started", "started">>, <<"started", "Result", "started">>,
          <<"started", "Completed", "ended">>, <<"new", "TaskFailed", "ended">>,
          <<"ended", "Close", "closed">>}

\* Messages that were read and are not parsed yet.
Batches == {<<>>, <<"Started">>, <<"Started", "Result">>, <<"Started", "Completed">>,
            <<"Started", "Result", "Completed">>, <<"Result">>, <<"Result", "Completed">>,
            <<"Completed">>, <<"TaskFailed">>, <<"TaskFailed", "CLOSE">>, <<"CLOSE">>}

\* What lies ahead, of a user who knows k, when the server is in phase s.
Path(k, stream, s) ==
  \/ s = "upgraded" /\ k = "new" /\ stream = <<>>
  \/ s = "started" /\ k = "new" /\ stream = <<"Started">>
  \/ s = "started" /\ k = "started" /\ stream = <<>>
  \/ s = "heard" /\ k = "new" /\ stream = <<"Started", "Result">>
  \/ s = "heard" /\ k = "started" /\ stream \in {<<"Result">>, <<>>}
  \/ /\ s = "done" /\ isStop /\ k = "new"
     /\ stream \in {<<"Started", "Completed">>, <<"Started", "Result", "Completed">>}
  \/ s = "done" /\ isStop /\ k = "started" /\ stream \in {<<"Result", "Completed">>, <<"Completed">>}
  \/ s = "done" /\ k = "new" /\ stream \in {<<"TaskFailed">>, <<"TaskFailed", "CLOSE">>, <<"CLOSE">>}
  \/ s = "done" /\ k = "ended" /\ stream \in {<<>>, <<"CLOSE">>}

Parses(ms) == [i \in DOMAIN ms |-> On("parse", ms[i])]
Rests == {<<>>, <<Do("begin")>>}

work == todo["worker"]

\* The event thread has steps before the messages it read, and perhaps Begin after them.
Ahead(pre, ms, rest) == work = pre \o (Parses(ms) \o rest)

\* Start was not sent yet.
NotAsked == /\ \A i \in DOMAIN wire : wire[i] # "start"
            /\ \A i \in DOMAIN cmd : cmd[i] # "start"

\* Up to the connection.
Before == /\ work = <<>> /\ Known = "new" /\ NotAsked
          /\ server = "idle" /\ inbox = <<>> /\ link \in {"down", "connecting"}
          /\ events.launch => status # "Created" /\ link = "down"
          /\ link = "connecting" => status # "Created"

Later == status # "Created" /\ ~events.launch

\* Up to the answer to the upgrade.
Shaking == /\ Known = "new" /\ NotAsked
           /\ status = "Handshaking" /\ link = "up"
           /\ \/ server = "idle" /\ inbox = <<>>
              \/ server = "upgraded" /\ inbox = <<"switch">>
              \/ server = "done" /\ inbox = <<"refuse">>

\* The task goes on: what is known now, and what will be once e was called.
Ongoing(ms) == /\ Known \in {"new", "started"} /\ Path(Known, ms \o inbox, server)
                /\ link = "up"
                /\ status = IF Known = "new" THEN "Starting" ELSE "Started"

Telling(e, ms) == /\ Known \in {"new", "started"} /\ link = "up"
                  /\ status = IF Known = "new" THEN "Starting" ELSE "Started"
                  /\ \E k \in {"started", "ended"} : <<Known, e, k>> \in Turns /\ Path(k, ms \o inbox, server)

Reacting(e, ms) == /\ Known \in {"started", "ended"} /\ Path(Known, ms \o inbox, server)
                   /\ link = "up"
                   /\ Known = "ended" <=> e \in {"Completed", "TaskFailed"}
                   /\ e = "Result" => status = "Started"

\* The connection is gone for good.
Gone == server \in {"idle", "done"} /\ link = "down" /\ inbox = <<>>

\* What the event thread is about to do before it parses more, by name.
Lead(tag, e) ==
  CASE tag \in {"idle", "over"} -> <<>>
    [] tag \in {"command", "flush", "directive", "closed"} -> <<Do(tag)>>
    [] tag = "call" -> <<On("call", e), On("after", e)>>
    [] tag = "after" -> <<On("after", e)>>
    [] tag = "end" -> <<Do("close"), On("event", "Close")>>
    [] tag = "end event" -> <<On("event", "Close")>>
    [] tag = "end call" -> <<On("call", "Close")>>
    [] tag = "fail" -> <<Do("close"), On("event", "TaskFailed"), On("event", "Close")>>
    [] tag = "fail event" -> <<On("event", "TaskFailed"), On("event", "Close")>>
    [] tag = "fail call" -> <<On("call", "TaskFailed"), On("event", "Close")>>
    [] tag = "over close" -> <<Do("close")>>

Tags == {"idle", "over", "command", "flush", "directive", "closed", "call", "after", "end",
         "end event", "end call", "fail", "fail event", "fail call", "over close"}

\* And what holds then.
Table(tag, e, ms) ==
  \/ tag \in {"idle", "command"} /\ ms = <<>> /\ Shaking
  \/ tag \in {"idle", "command"} /\ Ongoing(ms)
  \/ tag \in {"flush", "directive"} /\ Ongoing(ms) /\ Known = "started"
  \/ tag = "call" /\ e # "Close" /\ Telling(e, ms)
  \/ tag = "after" /\ e # "Close" /\ Reacting(e, ms)
  \/ /\ tag = "end" /\ Known = "ended" /\ ms \in {<<>>, <<"CLOSE">>}
     /\ server = "done" /\ link = "up"
  \/ /\ tag \in {"end event", "end call"} /\ Known = "ended" /\ ms \in {<<>>, <<"CLOSE">>}
     /\ Gone
  \/ /\ tag = "fail" /\ Known = "new" /\ ms = <<>>
     /\ server = "done" /\ link = "up"
  \/ tag \in {"fail event", "fail call"} /\ Known = "new" /\ ms = <<>> /\ Gone
  \/ tag = "closed" /\ Known = "closed" /\ ms \in {<<>>, <<"CLOSE">>} /\ Gone
  \/ /\ tag \in {"over", "over close"} /\ status = "Closed"
     /\ Known = "closed" /\ ms \in {<<>>, <<"CLOSE">>} /\ Gone

Position(tag, e, ms, rest) == Ahead(Lead(tag, e), ms, rest) /\ Table(tag, e, ms)

Stage == \/ Before
         \/ Later /\ \E tag \in Tags, e \in Callbacks, ms \in Batches, rest \in Rests :
                        Position(tag, e, ms, rest)

\* A user's call finds the link up, or Stop built.
Reached == server \in {"started", "heard"} \/ isStop

Calling(t) == \/ todo[t] \in {<<>>, <<Do("notify")>>}
              \/ todo[t] \in {<<Do("add")>>, <<Do("flush")>>, <<Do("directive")>>} /\ Reached

Orderly ==
  /\ Stage
  /\ \A t \in Users : Calling(t)
  /\ status = "Started" => Reached
  /\ isStop => exit # "Invalid"
  /\ link = "up" <=> events.write # "none"

\* What is left of a session that was cancelled.
SilentSteps == {s \in ParseSteps : s.op # "call"}

Fitting == \/ work \in Seq(SilentSteps)
           \/ /\ work # <<>> /\ Head(work).op = "call"
              /\ \E k \in {"started", "ended", "closed"} : <<Known, Head(work).about, k>> \in Turns
              /\ Tail(work) \in Seq(SilentSteps)

Silenced == Fitting /\ \A t \in Users : todo[t] \in Seq(SilentSteps)

OrderInv == IF exit = "Cancel" THEN Silenced ELSE Orderly

\* What the callbacks made so far tell: one more callback.
LEMMA OneMore ==
  ASSUME calls \in Seq(Call_), NEW c \in Call_, calls' = Append(calls, c)
  PROVE  /\ \A e : Made(e)' <=> Made(e) \/ e = c.event
         /\ Reports' = Append(Reports, c.event)
<1>1. /\ DOMAIN calls' = 1 .. Len(calls) + 1 /\ DOMAIN calls = 1 .. Len(calls)
      /\ \A i \in 1 .. Len(calls) : calls'[i] = calls[i]
      /\ calls'[Len(calls) + 1] = c
      /\ Len(calls) \in Nat
  OBVIOUS
<1>2. \A e : Made(e)' <=> Made(e) \/ e = c.event
  BY <1>1 DEF Made
<1>3. Reports \in Seq(Callbacks) /\ Len(Reports) = Len(calls)
  <2> DEFINE about(i) == calls[i].event
  <2>1. \A i \in 1 .. Len(calls) : about(i) \in Callbacks
    <3>1. \A d \in Call_ : d.event \in Callbacks
      BY DEF Call_
    <3>2. \A i \in 1 .. Len(calls) : calls[i] \in Call_
      OBVIOUS
    <3> QED
      BY <3>1, <3>2
  <2>2. Reports = [i \in 1 .. Len(calls) |-> about(i)]
    BY <1>1 DEF Reports
  <2> HIDE DEF about
  <2> QED
    BY <1>1, <2>1, <2>2
<1>4. Append(Reports, c.event) = [i \in 1 .. Len(calls) + 1 |->
                                    IF i <= Len(calls) THEN Reports[i] ELSE c.event]
  BY <1>3
<1>5. Reports' = [i \in 1 .. Len(calls) + 1 |-> calls'[i].event]
  BY <1>1 DEF Reports
<1>6. \A i \in 1 .. Len(calls) + 1 :
         calls'[i].event = IF i <= Len(calls) THEN Reports[i] ELSE c.event
  BY <1>1 DEF Reports
<1> QED
  BY <1>2, <1>4, <1>5, <1>6

LEMMA MadeIsTold == \A e : All!Told(e) <=> Made(e)
BY DEF All!Told, Made, Reports

\* A callback that may come is one of TaskEvents.
LEMMA CallTurns ==
  ASSUME calls \in Seq(Call_), NEW c \in Call_, calls' = Append(calls, c),
         NEW k, <<Known, c.event, k>> \in Turns
  PROVE  Known' = k /\ All!Next
<1>1. \A e : Made(e)' <=> Made(e) \/ e = c.event
  BY OneMore
<1>2. Known' = k
  BY <1>1 DEF Turns, Known
<1>3. Reports' = Append(Reports, c.event)
  BY OneMore
<1>4. All!Next
  BY <1>3, MadeIsTold DEF Turns, Known, All!Next, All!Started, All!Result, All!Completed,
       All!TaskFailed, All!Close, All!Ended
<1> QED
  BY <1>2, <1>4

\* Sequences of steps and of messages.
LEMMA SameSteps ==
  ASSUME NEW S, NEW p \in Seq(S), NEW q \in Seq(S), Len(p) = Len(q), \A i \in 1 .. Len(p) : p[i] = q[i]
  PROVE  p = q
OBVIOUS

LEMMA OneStep ==
  ASSUME NEW S, NEW a \in S PROVE <<a>> \in Seq(S) /\ <<a>> # <<>> /\ Head(<<a>>) = a /\ Tail(<<a>>) = <<>>
OBVIOUS

LEMMA TwoSteps ==
  ASSUME NEW S, NEW a \in S, NEW b \in S
  PROVE  /\ <<a, b>> \in Seq(S) /\ <<a, b>> # <<>> /\ Head(<<a, b>>) = a /\ Tail(<<a, b>>) = <<b>>
         /\ <<a>> \o <<b>> = <<a, b>>
<1>1. /\ <<a>> \o <<b>> \in Seq(S) /\ Len(<<a>> \o <<b>>) = 2
      /\ (<<a>> \o <<b>>)[1] = a /\ (<<a>> \o <<b>>)[2] = b
  OBVIOUS
<1>2. <<a, b>> \in Seq(S) /\ Len(<<a, b>>) = 2 /\ <<a, b>>[1] = a /\ <<a, b>>[2] = b
  OBVIOUS
<1>3. \A i \in 1 .. 2 : (<<a>> \o <<b>>)[i] = <<a, b>>[i]
  BY <1>1, <1>2
<1>4. <<a>> \o <<b>> = <<a, b>>
  BY <1>1, <1>2, <1>3, SameSteps
<1> QED
  BY <1>2, <1>4

LEMMA ThreeSteps ==
  ASSUME NEW S, NEW a \in S, NEW b \in S, NEW c \in S
  PROVE  /\ <<a, b, c>> \in Seq(S) /\ <<a, b, c>> # <<>>
         /\ Head(<<a, b, c>>) = a /\ Tail(<<a, b, c>>) = <<b, c>>
         /\ <<a>> \o <<b, c>> = <<a, b, c>> /\ <<a, b>> \o <<c>> = <<a, b, c>>
<1>1. /\ <<a>> \o <<b, c>> \in Seq(S) /\ Len(<<a>> \o <<b, c>>) = 3
      /\ (<<a>> \o <<b, c>>)[1] = a /\ (<<a>> \o <<b, c>>)[2] = b /\ (<<a>> \o <<b, c>>)[3] = c
  OBVIOUS
<1>2. /\ <<a, b, c>> \in Seq(S) /\ Len(<<a, b, c>>) = 3
      /\ <<a, b, c>>[1] = a /\ <<a, b, c>>[2] = b /\ <<a, b, c>>[3] = c
  OBVIOUS
<1>3. \A i \in 1 .. 3 : (<<a>> \o <<b, c>>)[i] = <<a, b, c>>[i]
  BY <1>1, <1>2
<1>4. <<a>> \o <<b, c>> = <<a, b, c>>
  BY <1>1, <1>2, <1>3, SameSteps
<1>5. /\ <<a, b>> \o <<c>> \in Seq(S) /\ Len(<<a, b>> \o <<c>>) = 3
      /\ (<<a, b>> \o <<c>>)[1] = a /\ (<<a, b>> \o <<c>>)[2] = b /\ (<<a, b>> \o <<c>>)[3] = c
  OBVIOUS
<1>6. \A i \in 1 .. 3 : (<<a, b>> \o <<c>>)[i] = <<a, b, c>>[i]
  BY <1>2, <1>5
<1>7. <<a, b>> \o <<c>> = <<a, b, c>>
  BY <1>2, <1>5, <1>6, SameSteps
<1> QED
  BY <1>2, <1>4, <1>7

LEMMA NoStep == ASSUME NEW S, NEW r \in Seq(S) PROVE <<>> \o r = r /\ r \o <<>> = r /\ <<>> \in Seq(S)
OBVIOUS

LEMMA HeadOfConcat ==
  ASSUME NEW S, NEW p \in Seq(S), NEW q \in Seq(S), p # <<>>
  PROVE  p \o q # <<>> /\ Head(p \o q) = Head(p) /\ Tail(p \o q) = Tail(p) \o q
OBVIOUS

LEMMA PutTogether ==
  ASSUME NEW S, NEW R, NEW p \in Seq(S), p # <<>>, Head(p) \in R, Tail(p) \in Seq(R)
  PROVE  p \in Seq(R)
<1>1. Len(p) \in Nat /\ Len(p) > 0 /\ Len(Tail(p)) = Len(p) - 1
  OBVIOUS
<1>2. \A i \in 1 .. Len(p) : p[i] \in R
  <2>1. p[1] \in R
    OBVIOUS
  <2>2. ASSUME NEW i \in 2 .. Len(p) PROVE p[i] \in R
    <3>1. i - 1 \in 1 .. Len(Tail(p)) /\ Tail(p)[i - 1] = p[i]
      BY <1>1
    <3> QED
      BY <3>1
  <2> QED
    BY <1>1, <2>1, <2>2
<1>3. p = [i \in 1 .. Len(p) |-> p[i]]
  OBVIOUS
<1> QED
  BY <1>1, <1>2, <1>3

LEMMA ConcatParts ==
  ASSUME NEW S, NEW p \in Seq(S), NEW q \in Seq(S), NEW r \in Seq(S)
  PROVE  /\ (p \o q) \o r = p \o (q \o r)
         /\ p # <<>> => /\ p \o q # <<>> /\ Head(p \o q) = Head(p)
                        /\ Tail(p \o q) = Tail(p) \o q
OBVIOUS

LEMMA Associative ==
  ASSUME NEW S PROVE \A p, q, r \in Seq(S) : (p \o q) \o r = p \o (q \o r)
  OBVIOUS

\* The messages that wait to be parsed.
LEMMA ParsesAre ==
  ASSUME NEW ms \in Seq(Replies)
  PROVE  /\ Parses(ms) \in Seq(ParseSteps)
         /\ ms = <<>> => Parses(ms) = <<>>
         /\ ms # <<>> => /\ Parses(ms) # <<>> /\ Head(Parses(ms)) = On("parse", Head(ms))
                         /\ Tail(Parses(ms)) = Parses(Tail(ms))
<1> DEFINE step(m) == On("parse", m)
<1>1. \A m \in Replies : step(m) \in ParseSteps
  BY StepsAreSteps
<1>2. Parses(ms) = [i \in 1 .. Len(ms) |-> step(ms[i])]
  BY DEF Parses
<1>3. \A i \in 1 .. Len(ms) : ms[i] \in Replies
  OBVIOUS
<1>4. ms # <<>> => Parses(Tail(ms)) = [i \in 1 .. Len(ms) - 1 |-> step(ms[i + 1])]
  BY DEF Parses
<1>5. Head(ms) = ms[1]
  OBVIOUS
<1> HIDE DEF step
<1>6. Parses(ms) \in Seq(ParseSteps) /\ Len(Parses(ms)) = Len(ms)
  BY <1>1, <1>2, <1>3
<1>7. ASSUME ms # <<>>
      PROVE  /\ Parses(ms) # <<>> /\ Head(Parses(ms)) = step(Head(ms))
             /\ Tail(Parses(ms)) = Parses(Tail(ms))
  BY <1>2, <1>4, <1>5, <1>6, <1>7
<1> QED
  BY <1>6, <1>7 DEF step

\* The sequences of messages that occur.
LEMMA Tuples ==
  /\ <<"Started">> \in Seq(Replies) /\ <<"Started">> # <<>> /\ Head(<<"Started">>) = "Started"
  /\ Tail(<<"Started">>) = <<>>
  /\ <<"Result">> \in Seq(Replies) /\ <<"Result">> # <<>> /\ Head(<<"Result">>) = "Result"
  /\ Tail(<<"Result">>) = <<>>
  /\ <<"Completed">> \in Seq(Replies) /\ <<"Completed">> # <<>> /\ Head(<<"Completed">>) = "Completed"
  /\ Tail(<<"Completed">>) = <<>>
  /\ <<"TaskFailed">> \in Seq(Replies) /\ <<"TaskFailed">> # <<>> /\ Head(<<"TaskFailed">>) = "TaskFailed"
  /\ Tail(<<"TaskFailed">>) = <<>>
  /\ <<"CLOSE">> \in Seq(Replies) /\ <<"CLOSE">> # <<>> /\ Head(<<"CLOSE">>) = "CLOSE"
  /\ Tail(<<"CLOSE">>) = <<>>
  /\ <<"Started", "Result">> \in Seq(Replies) /\ <<"Started", "Result">> # <<>> /\ Head(<<"Started", "Result">>) = "Started"
  /\ Tail(<<"Started", "Result">>) = <<"Result">> /\ <<"Started">> \o <<"Result">> = <<"Started", "Result">>
  /\ <<"Started", "Completed">> \in Seq(Replies) /\ <<"Started", "Completed">> # <<>> /\ Head(<<"Started", "Completed">>) = "Started"
  /\ Tail(<<"Started", "Completed">>) = <<"Completed">> /\ <<"Started">> \o <<"Completed">> = <<"Started", "Completed">>
  /\ <<"Result", "Completed">> \in Seq(Replies) /\ <<"Result", "Completed">> # <<>> /\ Head(<<"Result", "Completed">>) = "Result"
  /\ Tail(<<"Result", "Completed">>) = <<"Completed">> /\ <<"Result">> \o <<"Completed">> = <<"Result", "Completed">>
  /\ <<"TaskFailed", "CLOSE">> \in Seq(Replies) /\ <<"TaskFailed", "CLOSE">> # <<>> /\ Head(<<"TaskFailed", "CLOSE">>) = "TaskFailed"
  /\ Tail(<<"TaskFailed", "CLOSE">>) = <<"CLOSE">> /\ <<"TaskFailed">> \o <<"CLOSE">> = <<"TaskFailed", "CLOSE">>
  /\ <<"Started", "Result", "Completed">> \in Seq(Replies) /\ <<"Started", "Result", "Completed">> # <<>> /\ Head(<<"Started", "Result", "Completed">>) = "Started"
  /\ Tail(<<"Started", "Result", "Completed">>) = <<"Result", "Completed">> /\ <<"Started", "Result">> \o <<"Completed">> = <<"Started", "Result", "Completed">>
<1>1. {"Started", "Result", "Completed", "TaskFailed", "CLOSE"} \subseteq Replies
  BY DEF Replies, Messages
<1>2. /\ <<"Started">> \in Seq(Replies) /\ <<"Started">> # <<>> /\ Head(<<"Started">>) = "Started"
      /\ Tail(<<"Started">>) = <<>>
  BY <1>1, OneStep
<1>3. /\ <<"Result">> \in Seq(Replies) /\ <<"Result">> # <<>> /\ Head(<<"Result">>) = "Result"
      /\ Tail(<<"Result">>) = <<>>
  BY <1>1, OneStep
<1>4. /\ <<"Completed">> \in Seq(Replies) /\ <<"Completed">> # <<>> /\ Head(<<"Completed">>) = "Completed"
      /\ Tail(<<"Completed">>) = <<>>
  BY <1>1, OneStep
<1>5. /\ <<"TaskFailed">> \in Seq(Replies) /\ <<"TaskFailed">> # <<>> /\ Head(<<"TaskFailed">>) = "TaskFailed"
      /\ Tail(<<"TaskFailed">>) = <<>>
  BY <1>1, OneStep
<1>6. /\ <<"CLOSE">> \in Seq(Replies) /\ <<"CLOSE">> # <<>> /\ Head(<<"CLOSE">>) = "CLOSE"
      /\ Tail(<<"CLOSE">>) = <<>>
  BY <1>1, OneStep
<1>7. /\ <<"Started", "Result">> \in Seq(Replies) /\ <<"Started", "Result">> # <<>> /\ Head(<<"Started", "Result">>) = "Started"
      /\ Tail(<<"Started", "Result">>) = <<"Result">> /\ <<"Started">> \o <<"Result">> = <<"Started", "Result">>
  BY <1>1, TwoSteps
<1>8. /\ <<"Started", "Completed">> \in Seq(Replies) /\ <<"Started", "Completed">> # <<>> /\ Head(<<"Started", "Completed">>) = "Started"
      /\ Tail(<<"Started", "Completed">>) = <<"Completed">> /\ <<"Started">> \o <<"Completed">> = <<"Started", "Completed">>
  BY <1>1, TwoSteps
<1>9. /\ <<"Result", "Completed">> \in Seq(Replies) /\ <<"Result", "Completed">> # <<>> /\ Head(<<"Result", "Completed">>) = "Result"
      /\ Tail(<<"Result", "Completed">>) = <<"Completed">> /\ <<"Result">> \o <<"Completed">> = <<"Result", "Completed">>
  BY <1>1, TwoSteps
<1>10. /\ <<"TaskFailed", "CLOSE">> \in Seq(Replies) /\ <<"TaskFailed", "CLOSE">> # <<>> /\ Head(<<"TaskFailed", "CLOSE">>) = "TaskFailed"
      /\ Tail(<<"TaskFailed", "CLOSE">>) = <<"CLOSE">> /\ <<"TaskFailed">> \o <<"CLOSE">> = <<"TaskFailed", "CLOSE">>
  BY <1>1, TwoSteps
<1>11. /\ <<"Started", "Result", "Completed">> \in Seq(Replies) /\ <<"Started", "Result", "Completed">> # <<>> /\ Head(<<"Started", "Result", "Completed">>) = "Started"
      /\ Tail(<<"Started", "Result", "Completed">>) = <<"Result", "Completed">> /\ <<"Started", "Result">> \o <<"Completed">> = <<"Started", "Result", "Completed">>
  <2>1. "Started" \in Replies /\ "Result" \in Replies /\ "Completed" \in Replies
    BY <1>1
  <2>2. /\ <<"Started", "Result", "Completed">> \in Seq(Replies)
        /\ <<"Started", "Result", "Completed">> # <<>>
        /\ Head(<<"Started", "Result", "Completed">>) = "Started"
    BY <2>1
  <2>3. Tail(<<"Started", "Result", "Completed">>) = <<"Result", "Completed">>
    BY <2>1, ThreeSteps
  <2>4. <<"Started", "Result">> \o <<"Completed">> = <<"Started", "Result", "Completed">>
    BY <2>1, ThreeSteps
  <2> QED
    BY <2>2, <2>3, <2>4
<1> QED
  BY <1>2, <1>3, <1>4, <1>5, <1>6, <1>7, <1>8, <1>9, <1>10, <1>11

LEMMA BatchesAre ==
  ASSUME NEW ms \in Batches
  PROVE  /\ ms \in Seq(Replies)
         /\ ms # <<>> => Head(ms) \in Replies /\ Tail(ms) \in Batches
<1>1. {"Started", "Result", "Completed", "TaskFailed", "CLOSE"} \subseteq Replies
  BY DEF Replies, Messages
<1>2. ms \in Seq(Replies)
  BY Tuples, NoStep DEF Batches
<1>3. ms # <<>> => Tail(ms) \in Batches
  BY Tuples DEF Batches
<1> QED
  BY <1>2, <1>3

LEMMA RestsAre == ASSUME NEW rest \in Rests PROVE rest \in Seq(ParseSteps)
<1>1. {Do("begin")} \subseteq ParseSteps
  BY StepsAreSteps
<1> QED
  BY <1>1, NoStep, OneStep DEF Rests

\* The steps that come before the messages.
LEMMA LeadsAre ==
  ASSUME NEW tag \in Tags, NEW e \in Callbacks
  PROVE  /\ Lead(tag, e) \in Seq(ParseSteps)
         /\ tag \in {"idle", "over"} => Lead(tag, e) = <<>>
         /\ tag \notin {"idle", "over"} => Lead(tag, e) # <<>>
         /\ tag \in {"command", "flush", "directive", "closed"} =>
              Head(Lead(tag, e)) = Do(tag) /\ Tail(Lead(tag, e)) = <<>>
         /\ tag = "call" =>
              Head(Lead(tag, e)) = On("call", e) /\ Tail(Lead(tag, e)) = <<On("after", e)>>
         /\ tag = "after" => Head(Lead(tag, e)) = On("after", e) /\ Tail(Lead(tag, e)) = <<>>
         /\ tag = "end" =>
              Head(Lead(tag, e)) = Do("close") /\ Tail(Lead(tag, e)) = <<On("event", "Close")>>
         /\ tag = "end event" =>
              Head(Lead(tag, e)) = On("event", "Close") /\ Tail(Lead(tag, e)) = <<>>
         /\ tag = "end call" =>
              Head(Lead(tag, e)) = On("call", "Close") /\ Tail(Lead(tag, e)) = <<>>
         /\ tag = "fail" =>
              /\ Head(Lead(tag, e)) = Do("close")
              /\ Tail(Lead(tag, e)) = <<On("event", "TaskFailed"), On("event", "Close")>>
         /\ tag = "fail event" =>
              /\ Head(Lead(tag, e)) = On("event", "TaskFailed")
              /\ Tail(Lead(tag, e)) = <<On("event", "Close")>>
         /\ tag = "fail call" =>
              /\ Head(Lead(tag, e)) = On("call", "TaskFailed")
              /\ Tail(Lead(tag, e)) = <<On("event", "Close")>>
         /\ tag = "over close" => Head(Lead(tag, e)) = Do("close") /\ Tail(Lead(tag, e)) = <<>>
<1>1. /\ \A op \in {"command", "flush", "directive", "closed", "close"} : Do(op) \in ParseSteps
      /\ On("event", "Close") \in ParseSteps /\ On("call", "Close") \in ParseSteps
      /\ On("event", "TaskFailed") \in ParseSteps /\ On("call", "TaskFailed") \in ParseSteps
      /\ On("call", e) \in ParseSteps /\ On("after", e) \in ParseSteps
  BY StepsAreSteps DEF Callbacks
<1>2. CASE tag \in {"idle", "over"}
  <2>1. Lead(tag, e) = <<>>
    BY <1>2 DEF Lead
  <2>2. <<>> \in Seq(ParseSteps)
    OBVIOUS
  <2> QED
    BY <1>2, <2>1, <2>2
<1>3. CASE tag \in {"command", "flush", "directive", "closed"}
  <2>1. Lead(tag, e) = <<Do(tag)>> /\ Do(tag) \in ParseSteps
    BY <1>1, <1>3 DEF Lead
  <2> QED
    BY <1>3, <2>1, OneStep
<1>4. CASE tag = "call"
  <2>1. Lead(tag, e) = <<On("call", e), On("after", e)>>
    BY <1>4 DEF Lead
  <2>2. /\ <<On("call", e), On("after", e)>> \in Seq(ParseSteps) /\ <<On("call", e), On("after", e)>> # <<>>
        /\ Head(<<On("call", e), On("after", e)>>) = On("call", e) /\ Tail(<<On("call", e), On("after", e)>>) = <<On("after", e)>>
    BY <1>1, TwoSteps
  <2> QED
    BY <1>4, <2>1, <2>2
<1>5. CASE tag \in {"after", "end event", "end call", "over close"}
  <2>1. \E s \in ParseSteps : /\ Lead(tag, e) = <<s>>
                              /\ tag = "after" => s = On("after", e)
                              /\ tag = "end event" => s = On("event", "Close")
                              /\ tag = "end call" => s = On("call", "Close")
                              /\ tag = "over close" => s = Do("close")
    BY <1>1, <1>5 DEF Lead
  <2> QED
    BY <1>5, <2>1, OneStep
<1>6. CASE tag = "end"
  <2>1. Lead(tag, e) = <<Do("close"), On("event", "Close")>>
    BY <1>6 DEF Lead
  <2>2. /\ <<Do("close"), On("event", "Close")>> \in Seq(ParseSteps) /\ <<Do("close"), On("event", "Close")>> # <<>>
        /\ Head(<<Do("close"), On("event", "Close")>>) = Do("close") /\ Tail(<<Do("close"), On("event", "Close")>>) = <<On("event", "Close")>>
    BY <1>1, TwoSteps
  <2> QED
    BY <1>6, <2>1, <2>2
<1>7. CASE tag = "fail"
  <2>1. Lead(tag, e) = <<Do("close"), On("event", "TaskFailed"), On("event", "Close")>>
    BY <1>7 DEF Lead
  <2>2. <<Do("close"), On("event", "TaskFailed"), On("event", "Close")>> \in Seq(ParseSteps)
    BY <1>1
  <2>3. /\ <<Do("close"), On("event", "TaskFailed"), On("event", "Close")>> # <<>>
        /\ Head(<<Do("close"), On("event", "TaskFailed"), On("event", "Close")>>) = Do("close")
    BY <1>1, ThreeSteps
  <2>4. Tail(<<Do("close"), On("event", "TaskFailed"), On("event", "Close")>>)
          = <<On("event", "TaskFailed"), On("event", "Close")>>
    BY <1>1, ThreeSteps
  <2> QED
    BY <1>7, <2>1, <2>2, <2>3, <2>4
<1>8. CASE tag \in {"fail event", "fail call"}
  <2>1. \E s \in ParseSteps : /\ Lead(tag, e) = <<s, On("event", "Close")>>
                              /\ tag = "fail event" => s = On("event", "TaskFailed")
                              /\ tag = "fail call" => s = On("call", "TaskFailed")
    BY <1>1, <1>8 DEF Lead
  <2>2. ASSUME NEW s \in ParseSteps
        PROVE  /\ <<s, On("event", "Close")>> \in Seq(ParseSteps) /\ <<s, On("event", "Close")>> # <<>>
               /\ Head(<<s, On("event", "Close")>>) = s
               /\ Tail(<<s, On("event", "Close")>>) = <<On("event", "Close")>>
    BY <1>1, TwoSteps
  <2> QED
    BY <1>8, <2>1, <2>2
<1> QED
  BY <1>2, <1>3, <1>4, <1>5, <1>6, <1>7, <1>8 DEF Tags

\* A step of the event thread takes the head of what is ahead.
LEMMA AheadGoes ==
  ASSUME Programs, NEW pre \in Seq(ParseSteps), NEW ms \in Batches, NEW rest \in Rests,
         Ahead(pre, ms, rest), pre # <<>>
  PROVE  /\ work # <<>> /\ Head(work) = Head(pre)
         /\ Continue("worker") => Ahead(Tail(pre), ms, rest)'
         /\ \A steps \in Seq(ParseSteps) :
              Perform("worker", steps) => Ahead(steps \o Tail(pre), ms, rest)'
<1> DEFINE more == Parses(ms) \o rest
<1>1. more \in Seq(ParseSteps)
  BY BatchesAre, RestsAre, ParsesAre, ConcatIsSeq
<1>2. work = pre \o more
  BY DEF Ahead
<1> HIDE DEF more
<1>3. work # <<>> /\ Head(work) = Head(pre) /\ Tail(work) = Tail(pre) \o more
  BY <1>1, <1>2, ConcatParts
<1>4. Tail(pre) \in Seq(ParseSteps)
  OBVIOUS
<1>5. "worker" \in Threads /\ todo \in [Threads -> Seq(ParseSteps)]
  BY DEF Threads, Programs
<1>6. Continue("worker") => work' = Tail(pre) \o more
  BY <1>3, <1>5 DEF Continue, work
<1>7. ASSUME NEW steps \in Seq(ParseSteps), Perform("worker", steps)
      PROVE  work' = (steps \o Tail(pre)) \o more
  <2>1. work' = steps \o Tail(work)
    BY <1>5, <1>7 DEF Perform, work
  <2>2. steps \o (Tail(pre) \o more) = (steps \o Tail(pre)) \o more
    BY <1>1, <1>4, ConcatParts
  <2> QED
    BY <1>3, <2>1, <2>2
<1> QED
  BY <1>3, <1>6, <1>7 DEF Ahead, more

\* It parses the next message.
LEMMA AheadParses ==
  ASSUME Programs, NEW ms \in Batches, NEW rest \in Rests, Ahead(<<>>, ms, rest), ms # <<>>
  PROVE  /\ work # <<>> /\ Head(work) = On("parse", Head(ms))
         /\ \A steps \in Seq(ParseSteps) :
              Perform("worker", steps) => Ahead(steps, Tail(ms), rest)'
<1>1. /\ Parses(ms) \in Seq(ParseSteps) /\ rest \in Seq(ParseSteps)
      /\ Parses(ms) # <<>> /\ Head(Parses(ms)) = On("parse", Head(ms))
      /\ Tail(Parses(ms)) = Parses(Tail(ms))
      /\ Parses(ms) \o rest \in Seq(ParseSteps)
  BY BatchesAre, RestsAre, ParsesAre, ConcatIsSeq
<1>2. work = Parses(ms) \o rest
  BY <1>1, NoStep DEF Ahead
<1>3. /\ work # <<>> /\ Head(work) = On("parse", Head(ms))
      /\ Tail(work) = Parses(Tail(ms)) \o rest
  <2> DEFINE p == Parses(ms)
  <2>1. p \in Seq(ParseSteps) /\ p # <<>> /\ rest \in Seq(ParseSteps)
    BY <1>1
  <2> HIDE DEF p
  <2>2. p \o rest # <<>> /\ Head(p \o rest) = Head(p) /\ Tail(p \o rest) = Tail(p) \o rest
    BY <2>1, HeadOfConcat
  <2> QED
    BY <1>1, <1>2, <2>2 DEF p
<1>4. "worker" \in Threads /\ todo \in [Threads -> Seq(ParseSteps)]
  BY DEF Threads, Programs
<1> QED
  BY <1>3, <1>4 DEF Perform, work, Ahead

\* Or has nothing left to parse.
LEMMA AheadRests ==
  ASSUME NEW rest \in Rests, Ahead(<<>>, <<>>, rest) PROVE work = rest
<1>1. Parses(<<>>) = <<>>
  BY DEF Parses
<1> QED
  BY <1>1, RestsAre, NoStep DEF Ahead

\* A new program.
LEMMA AheadAnew ==
  ASSUME Programs, NEW steps \in Seq(ParseSteps), Abandon("worker", steps)
  PROVE  Ahead(steps, <<>>, <<>>)'
<1>1. Parses(<<>>) = <<>>
  BY DEF Parses
<1>2. steps \o (<<>> \o <<>>) = steps
  OBVIOUS
<1>3. work' = steps
  BY DEF Abandon, work, Programs, Threads
<1> QED
  BY <1>1, <1>2, <1>3 DEF Ahead

LEMMA AheadNow ==
  ASSUME NEW steps \in Seq(ParseSteps), work' = steps
  PROVE  Ahead(steps, <<>>, <<>>)'
<1>1. Parses(<<>>) = <<>>
  BY DEF Parses
<1>2. steps \o (<<>> \o <<>>) = steps
  OBVIOUS
<1> QED
  BY <1>1, <1>2 DEF Ahead

\* A callback or a message moves a session along its path.
LEMMA PathGoes ==
  ASSUME NEW k \in {"new", "started"}, NEW stream, NEW s, Path(k, stream, s), stream # <<>>
  PROVE  LET m == Head(stream)
             e == IF m = "CLOSE" THEN "TaskFailed" ELSE m
         IN  \E j \in {"started", "ended"} : <<k, e, j>> \in Turns /\ Path(j, Tail(stream), s)
<1> DEFINE Goes(e, j) == <<k, e, j>> \in Turns /\ Path(j, Tail(stream), s)
<1>1. {"Started", "Result", "Completed", "TaskFailed", "CLOSE"} \subseteq Messages
  BY DEF Messages
<1>2. stream \in {<<"Started">>, <<"Started", "Result">>, <<"Started", "Completed">>,
                  <<"Started", "Result", "Completed">>}
        => Goes("Started", "started") /\ Head(stream) = "Started"
  BY Tuples DEF Path, Turns
<1>3. stream \in {<<"Result">>, <<"Result", "Completed">>}
        => Goes("Result", "started") /\ Head(stream) = "Result"
  BY Tuples DEF Path, Turns
<1>4. stream = <<"Completed">> => Goes("Completed", "ended") /\ Head(stream) = "Completed"
  BY Tuples DEF Path, Turns
<1>5. stream \in {<<"TaskFailed">>, <<"TaskFailed", "CLOSE">>}
        => Goes("TaskFailed", "ended") /\ Head(stream) = "TaskFailed"
  BY Tuples DEF Path, Turns
<1>6. stream = <<"CLOSE">> => Goes("TaskFailed", "ended") /\ Head(stream) = "CLOSE"
  BY Tuples DEF Path, Turns
<1>7. stream \in Batches
  BY DEF Path, Batches
<1> QED
  BY <1>2, <1>3, <1>4, <1>5, <1>6, <1>7 DEF Batches

\* The server sends its next message.
LEMMA PathGrows ==
  ASSUME NEW k, NEW stream, NEW s, Path(k, stream, s), isStop => isStop'
  PROVE  /\ Path(k, stream, s)'
         /\ s = "upgraded" =>
              /\ Path(k, stream \o <<"Started">>, "started")'
              /\ \A m \in {<<"TaskFailed">>, <<"TaskFailed", "CLOSE">>, <<"CLOSE">>} :
                   Path(k, stream \o m, "done")'
         /\ s = "started" => Path(k, stream \o <<"Result">>, "heard")'
         /\ s \in {"started", "heard"} /\ isStop' => Path(k, stream \o <<"Completed">>, "done")'
<1>1. /\ {"Started", "Result", "Completed", "TaskFailed", "CLOSE"} \subseteq Messages
      /\ {<<"Started">>, <<"Result">>, <<"Completed">>, <<"TaskFailed">>, <<"CLOSE">>,
          <<"TaskFailed", "CLOSE">>} \subseteq Seq(Messages)
  <2>1. {"Started", "Result", "Completed", "TaskFailed", "CLOSE"} \subseteq Messages
    BY DEF Messages
  <2> QED
    BY <2>1, OneStep, TwoSteps
<1>2. Path(k, stream, s)'
  BY DEF Path
<1>3. ASSUME s = "upgraded"
      PROVE  /\ Path(k, stream \o <<"Started">>, "started")'
             /\ \A m \in {<<"TaskFailed">>, <<"TaskFailed", "CLOSE">>, <<"CLOSE">>} :
                  Path(k, stream \o m, "done")'
  <2>1. stream = <<>> /\ k = "new"
    BY <1>3 DEF Path
  <2>2. \A m \in Seq(Messages) : stream \o m = m
    BY <2>1, NoStep
  <2> QED
    BY <1>1, <1>3, <2>1, <2>2 DEF Path
<1>4. ASSUME s = "started" PROVE Path(k, stream \o <<"Result">>, "heard")'
  <2>1. CASE k = "new" /\ stream = <<"Started">>
    BY Tuples, <2>1 DEF Path
  <2>2. CASE k = "started" /\ stream = <<>>
    BY <1>1, <2>2, NoStep DEF Path
  <2> QED
    BY <1>4, <2>1, <2>2 DEF Path
<1>5. ASSUME s \in {"started", "heard"}, isStop'
      PROVE  Path(k, stream \o <<"Completed">>, "done")'
  <2>1. CASE k = "new" /\ stream = <<"Started">>
    BY Tuples, <1>5, <2>1 DEF Path
  <2>2. CASE k = "started" /\ stream = <<>>
    BY <1>1, <1>5, <2>2, NoStep DEF Path
  <2>3. CASE k = "new" /\ stream = <<"Started", "Result">>
    BY Tuples, <1>5, <2>3 DEF Path
  <2>4. CASE k = "started" /\ stream = <<"Result">>
    BY Tuples, <1>5, <2>4 DEF Path
  <2> QED
    BY <1>5, <2>1, <2>2, <2>3, <2>4 DEF Path
<1> QED
  BY <1>2, <1>3, <1>4, <1>5

LEMMA StreamParts ==
  ASSUME NEW ms \in Seq(Replies), NEW more \in Seq(Messages), ms # <<>>
  PROVE  ms \o more # <<>> /\ Head(ms \o more) = Head(ms) /\ Tail(ms \o more) = Tail(ms) \o more
<1>1. ms \in Seq(Messages)
  BY DEF Replies
<1> QED
  BY <1>1, ConcatParts

\* Where the event thread stands, from the step it takes next.
Standing(tag, e, ms, rest) ==
  \/ tag \in {"command", "flush", "directive", "closed"} /\ Head(work).op = tag
  \/ tag \in {"end", "fail", "over close"} /\ Head(work).op = "close"
  \/ tag \in {"call", "after"} /\ Head(work).op = tag /\ Head(work).about = e
  \/ tag = "end event" /\ Head(work).op = "event" /\ Head(work).about = "Close"
  \/ tag = "end call" /\ Head(work).op = "call" /\ Head(work).about = "Close"
  \/ tag = "fail event" /\ Head(work).op = "event" /\ Head(work).about = "TaskFailed"
  \/ tag = "fail call" /\ Head(work).op = "call" /\ Head(work).about = "TaskFailed"
  \/ /\ tag \in {"idle", "over"} /\ ms # <<>>
     /\ Head(work).op = "parse" /\ Head(work).about = Head(ms)
  \/ tag \in {"idle", "over"} /\ ms = <<>> /\ rest = <<Do("begin")>> /\ Head(work).op = "begin"

LEMMA Positions ==
  ASSUME Programs, NEW tag \in Tags, NEW e \in Callbacks, NEW ms \in Batches, NEW rest \in Rests,
         Ahead(Lead(tag, e), ms, rest)
  PROVE  /\ work = <<>> => tag \in {"idle", "over"} /\ ms = <<>> /\ rest = <<>>
         /\ work # <<>> => Standing(tag, e, ms, rest)
<1>1. Lead(tag, e) \in Seq(ParseSteps)
  BY LeadsAre
<1>2. \A o : Do(o).op = o
  BY DEF Do
<1>3. CASE tag \notin {"idle", "over"}
  <2>1. work # <<>> /\ Head(work) = Head(Lead(tag, e))
    BY <1>1, <1>3, AheadGoes, LeadsAre
  <2>2. CASE tag \in {"command", "flush", "directive", "closed"}
    <3>1. Head(work) = Do(tag)
      BY <2>1, <2>2, LeadsAre
    <3> QED
      BY <1>2, <2>1, <2>2, <3>1 DEF Standing
  <2>3. CASE tag \in {"end", "fail", "over close"}
    <3>1. Head(work) = Do("close")
      BY <2>1, <2>3, LeadsAre
    <3> QED
      BY <1>2, <2>1, <2>3, <3>1 DEF Standing
  <2>4. CASE tag = "call" \/ tag = "after"
    <3>1. Head(work) = On(tag, e)
      BY <2>1, <2>4, LeadsAre
    <3>2. Head(work).op = tag /\ Head(work).about = e
      BY <3>1 DEF On
    <3> QED
      BY <2>1, <2>4, <3>2 DEF Standing
  <2>5. CASE tag = "end event"
    <3>1. Head(work) = On("event", "Close")
      BY <2>1, <2>5, LeadsAre
    <3>2. Head(work).op = "event" /\ Head(work).about = "Close"
      BY <3>1 DEF On
    <3> QED
      BY <2>1, <2>5, <3>2 DEF Standing
  <2>6. CASE tag = "end call"
    <3>1. Head(work) = On("call", "Close")
      BY <2>1, <2>6, LeadsAre
    <3>2. Head(work).op = "call" /\ Head(work).about = "Close"
      BY <3>1 DEF On
    <3> QED
      BY <2>1, <2>6, <3>2 DEF Standing
  <2>7. CASE tag = "fail event"
    <3>1. Head(work) = On("event", "TaskFailed")
      BY <2>1, <2>7, LeadsAre
    <3>2. Head(work).op = "event" /\ Head(work).about = "TaskFailed"
      BY <3>1 DEF On
    <3> QED
      BY <2>1, <2>7, <3>2 DEF Standing
  <2>8. CASE tag = "fail call"
    <3>1. Head(work) = On("call", "TaskFailed")
      BY <2>1, <2>8, LeadsAre
    <3>2. Head(work).op = "call" /\ Head(work).about = "TaskFailed"
      BY <3>1 DEF On
    <3> QED
      BY <2>1, <2>8, <3>2 DEF Standing
  <2> QED
    BY <1>3, <2>2, <2>3, <2>4, <2>5, <2>6, <2>7, <2>8 DEF Tags
<1>4. CASE tag \in {"idle", "over"} /\ ms # <<>>
  <2>1. Lead(tag, e) = <<>>
    BY <1>4, LeadsAre
  <2>2. work # <<>> /\ Head(work) = On("parse", Head(ms))
    BY <1>4, <2>1, AheadParses
  <2>3. Head(work).op = "parse" /\ Head(work).about = Head(ms)
    BY <2>2 DEF On
  <2> QED
    BY <1>4, <2>2, <2>3 DEF Standing
<1>5. CASE tag \in {"idle", "over"} /\ ms = <<>>
  <2>1. Lead(tag, e) = <<>>
    BY <1>5, LeadsAre
  <2>2. work = rest
    BY <1>5, <2>1, AheadRests
  <2>3. CASE rest = <<>>
    BY <1>5, <2>2, <2>3
  <2>4. CASE rest = <<Do("begin")>>
    <3>1. <<Do("begin")>> # <<>> /\ Head(<<Do("begin")>>) = Do("begin")
      BY StepsAreSteps, OneStep
    <3> QED
      BY <1>2, <1>5, <2>2, <2>4, <3>1 DEF Standing
  <2> QED
    BY <2>3, <2>4 DEF Rests
<1> QED
  BY <1>3, <1>4, <1>5

\* How what comes before the messages goes on.
LEMMA LeadsGo ==
  ASSUME NEW tag \in Tags, NEW e \in Callbacks
  PROVE  /\ tag \in {"command", "flush", "directive", "after"} => Tail(Lead(tag, e)) = Lead("idle", e)
         /\ tag \in {"closed", "over close"} => Tail(Lead(tag, e)) = Lead("over", e)
         /\ tag = "call" => Tail(Lead(tag, e)) = Lead("after", e)
         /\ tag \in {"end", "fail call"} => Tail(Lead(tag, e)) = Lead("end event", e)
         /\ tag = "fail" => Tail(Lead(tag, e)) = Lead("fail event", e)
         /\ tag = "flush" => <<Do("directive")>> \o Tail(Lead(tag, e)) = Lead("directive", e)
         /\ tag = "end event" => <<On("call", "Close")>> \o Tail(Lead(tag, e)) = Lead("end call", e)
         /\ tag = "fail event" =>
              <<On("call", "TaskFailed")>> \o Tail(Lead(tag, e)) = Lead("fail call", e)
         /\ tag = "end call" => <<Do("closed")>> \o Tail(Lead(tag, e)) = Lead("closed", e)
         /\ tag = "after" => <<Do("close"), On("event", "Close")>> \o Tail(Lead(tag, e)) = Lead("end", e)
<1>1. /\ Lead("idle", e) = <<>> /\ Lead("over", e) = <<>>
      /\ Lead("after", e) = <<On("after", e)>>
      /\ Lead("end event", e) = <<On("event", "Close")>>
      /\ Lead("fail event", e) = <<On("event", "TaskFailed"), On("event", "Close")>>
      /\ Lead("directive", e) = <<Do("directive")>>
      /\ Lead("end call", e) = <<On("call", "Close")>>
      /\ Lead("fail call", e) = <<On("call", "TaskFailed"), On("event", "Close")>>
      /\ Lead("closed", e) = <<Do("closed")>>
      /\ Lead("end", e) = <<Do("close"), On("event", "Close")>>
  BY DEF Lead
<1>2. /\ tag \in {"command", "flush", "directive", "after", "closed", "over close"} => Tail(Lead(tag, e)) = <<>>
      /\ tag \in {"end event", "end call"} => Tail(Lead(tag, e)) = <<>>
  BY LeadsAre
<1>3. /\ tag = "call" => Tail(Lead(tag, e)) = <<On("after", e)>>
      /\ tag \in {"end", "fail call", "fail event"} => Tail(Lead(tag, e)) = <<On("event", "Close")>>
      /\ tag = "fail" => Tail(Lead(tag, e)) = <<On("event", "TaskFailed"), On("event", "Close")>>
  BY LeadsAre
<1>4. /\ <<Do("directive")>> \o <<>> = <<Do("directive")>>
      /\ <<On("call", "Close")>> \o <<>> = <<On("call", "Close")>>
      /\ <<Do("closed")>> \o <<>> = <<Do("closed")>>
      /\ <<Do("close"), On("event", "Close")>> \o <<>> = <<Do("close"), On("event", "Close")>>
  <2>1. /\ Lead("directive", e) \in Seq(ParseSteps) /\ Lead("end call", e) \in Seq(ParseSteps)
        /\ Lead("closed", e) \in Seq(ParseSteps) /\ Lead("end", e) \in Seq(ParseSteps)
    BY LeadsAre DEF Tags
  <2> QED
    BY <1>1, <2>1, NoStep
<1>5. <<On("call", "TaskFailed")>> \o <<On("event", "Close")>>
        = <<On("call", "TaskFailed"), On("event", "Close")>>
  BY StepsAreSteps, TwoSteps DEF Callbacks
<1> QED
  BY <1>1, <1>2, <1>3, <1>4, <1>5

LEMMA LeadOn ==
  ASSUME Programs, NEW tag \in Tags, NEW e \in Callbacks, NEW ms \in Batches, NEW rest \in Rests,
         Ahead(Lead(tag, e), ms, rest), tag \notin {"idle", "over"}, NEW next \in Tags
  PROVE  /\ Continue("worker") /\ Tail(Lead(tag, e)) = Lead(next, e) => Ahead(Lead(next, e), ms, rest)'
         /\ \A steps \in Seq(ParseSteps) :
              Perform("worker", steps) /\ steps \o Tail(Lead(tag, e)) = Lead(next, e)
                => Ahead(Lead(next, e), ms, rest)'
<1>1. Lead(tag, e) \in Seq(ParseSteps) /\ Lead(tag, e) # <<>>
  BY LeadsAre
<1>2. /\ Continue("worker") => Ahead(Tail(Lead(tag, e)), ms, rest)'
      /\ \A steps \in Seq(ParseSteps) :
           Perform("worker", steps) => Ahead(steps \o Tail(Lead(tag, e)), ms, rest)'
  BY <1>1, AheadGoes
<1> QED
  BY <1>2

LEMMA KnownStays == ASSUME UNCHANGED calls PROVE Known' = Known
BY DEF Known, Made

\* What holds at a position does not depend on the rest.
LEMMA TableStays ==
  ASSUME NEW tag, NEW e, NEW ms, Table(tag, e, ms),
         UNCHANGED <<calls, inbox, server, link, status>>,
         isStop => isStop', Known = "new" /\ NotAsked => NotAsked'
  PROVE  Table(tag, e, ms)'
<1>1. Known' = Known /\ server' = server /\ link' = link /\ status' = status
  BY KnownStays
<1>2. \A k, stream, s : Path(k, stream, s) => Path(k, stream, s)'
  BY DEF Path
<1>3. /\ Shaking => Shaking'
      /\ Gone => Gone'
      /\ Ongoing(ms) => Ongoing(ms)'
      /\ Telling(e, ms) => Telling(e, ms)'
      /\ Reacting(e, ms) => Reacting(e, ms)'
  BY <1>1, <1>2 DEF Shaking, Gone, Ongoing, Telling, Reacting
<1>4. CASE tag \in {"idle", "command"} /\ ms = <<>> /\ Shaking
  BY <1>1, <1>3, <1>4 DEF Table
<1>5. CASE tag \in {"idle", "command"} /\ Ongoing(ms)
  BY <1>1, <1>3, <1>5 DEF Table
<1>6. CASE tag \in {"flush", "directive"} /\ Ongoing(ms) /\ Known = "started"
  BY <1>1, <1>3, <1>6 DEF Table
<1>7. CASE tag = "call" /\ e # "Close" /\ Telling(e, ms)
  BY <1>1, <1>3, <1>7 DEF Table
<1>8. CASE tag = "after" /\ e # "Close" /\ Reacting(e, ms)
  BY <1>1, <1>3, <1>8 DEF Table
<1>9. CASE tag = "end"
  BY <1>1, <1>3, <1>9 DEF Table
<1>10. CASE tag \in {"end event", "end call"}
  BY <1>1, <1>3, <1>10 DEF Table
<1>11. CASE tag = "fail"
  BY <1>1, <1>3, <1>11 DEF Table
<1>12. CASE tag \in {"fail event", "fail call"}
  BY <1>1, <1>3, <1>12 DEF Table
<1>13. CASE tag = "closed"
  BY <1>1, <1>3, <1>13 DEF Table
<1>14. CASE tag \in {"over", "over close"}
  BY <1>1, <1>3, <1>14 DEF Table
<1> QED
  BY <1>4, <1>5, <1>6, <1>7, <1>8, <1>9, <1>10, <1>11, <1>12, <1>13, <1>14 DEF Table

LEMMA StageAgain ==
  ASSUME NEW tag \in Tags, NEW e \in Callbacks, NEW ms \in Batches, NEW rest \in Rests,
         Later', Ahead(Lead(tag, e), ms, rest)', Table(tag, e, ms)'
  PROVE  Stage'
BY DEF Stage, Position

LEMMA WorkerOnly ==
  ASSUME Programs, NEW p, Continue("worker") \/ Perform("worker", p) \/ Abandon("worker", p)
  PROVE  \A t \in Users : todo'[t] = todo[t]
BY DEF Programs, Continue, Perform, Abandon, Threads, Users

\* A step of the event thread leaves the users' calls as they are.
LEMMA OrderlyAgain ==
  ASSUME Orderly, Stage', \A t \in Users : todo'[t] = todo[t],
         Reached => Reached', status' = "Started" => Reached',
         isStop' => exit' # "Invalid", link' = "up" <=> events'.write # "none"
  PROVE  Orderly'
BY DEF Orderly, Calling

\* What is sent on a link that is up.
LEMMA SendsWell ==
  ASSUME LinkHolds, link = "up", NEW directives \in Seq(Directives), NEW result,
         SendCmd(directives, result), Sequences
  PROVE  /\ result # "error" /\ UNCHANGED events
         /\ NotAsked /\ (\A i \in DOMAIN directives : directives[i] # "start") => NotAsked'
<1>1. cmd' = <<>> /\ result = "empty" /\ UNCHANGED events
  BY DEF SendCmd, LinkHolds
<1>2. wire' = wire \/ wire' = wire \o directives
  BY DEF SendCmd, LinkHolds
<1>3. ASSUME NotAsked, \A i \in DOMAIN directives : directives[i] # "start"
      PROVE  NotAsked'
  <2>1. \A i \in DOMAIN cmd' : cmd'[i] # "start"
    BY <1>1
  <2>2. ASSUME NEW i \in DOMAIN (wire \o directives)
        PROVE  (wire \o directives)[i] # "start"
    BY <1>3, <2>2 DEF NotAsked, Sequences
  <2> QED
    BY <1>2, <1>3, <2>1, <2>2 DEF NotAsked
<1> QED
  BY <1>1, <1>3


LEMMA WhereItStands ==
  ASSUME Programs, Stage, work # <<>>
  PROVE  Later /\ \E tag \in Tags, e \in Callbacks, ms \in Batches, rest \in Rests :
                    Position(tag, e, ms, rest) /\ Standing(tag, e, ms, rest)
<1>1. PICK tag \in Tags, e \in Callbacks, ms \in Batches, rest \in Rests : Position(tag, e, ms, rest)
  BY DEF Stage, Before
<1>2. Later
  BY DEF Stage, Before
<1>3. Standing(tag, e, ms, rest)
  BY <1>1, Positions DEF Position
<1> QED
  BY <1>1, <1>2, <1>3

LEMMA CommandInOrder ==
  ASSUME TypeInv, LinkHolds, Orderly, Command PROVE Orderly' /\ UNCHANGED calls
<1>1. Programs /\ Sequences /\ Stage /\ cmd \in Seq(Directives)
  BY DEF TypeInv, StopInv, Orderly, Sequences
<1>2. work # <<>> /\ Head(work).op = "command"
  BY DEF Command, At, work
<1>3. Later
  BY <1>1, <1>2, WhereItStands
<1>4. PICK tag \in Tags, e \in Callbacks, ms \in Batches, rest \in Rests :
         Position(tag, e, ms, rest) /\ Standing(tag, e, ms, rest)
  BY <1>1, <1>2, WhereItStands
<1>5. tag = "command"
  BY <1>2, <1>4 DEF Standing
<1>6. Table("idle", e, ms) /\ link = "up"
  BY <1>4, <1>5 DEF Position, Table, Shaking, Ongoing
<1>7. PICK result \in Results :
         SendCmd(cmd, result) /\ IF result = "error" THEN Abandon("worker", OnError("worker"))
                                                     ELSE Continue("worker")
  BY DEF Command
<1>8. result # "error" /\ UNCHANGED events /\ (NotAsked => NotAsked')
  BY <1>1, <1>6, <1>7, SendsWell DEF NotAsked
<1>9. Continue("worker") /\ UNCHANGED <<calls, inbox, server, link, status, isStop, exit>>
  BY <1>7, <1>8 DEF Command
<1>10. Ahead(Lead("idle", e), ms, rest)'
  BY <1>1, <1>4, <1>5, <1>9, AheadGoes, LeadsAre, LeadsGo DEF Position
<1>11. Table("idle", e, ms)' /\ Later'
  BY <1>3, <1>6, <1>8, <1>9, TableStays DEF Later
<1>12. Stage'
  BY <1>10, <1>11, StageAgain DEF Tags
<1>13. \A t \in Users : todo'[t] = todo[t]
  BY <1>1, <1>9, WorkerOnly
<1> QED
  BY <1>8, <1>9, <1>12, <1>13, OrderlyAgain DEF Orderly, Reached

\* sendControlDirective in the event thread: only of a Started node.
LEMMA DirectiveInOrder ==
  ASSUME TypeInv, LinkHolds, Orderly, Directive("worker") PROVE Orderly' /\ UNCHANGED calls
<1>1. Programs /\ Sequences /\ Stage /\ cmd \in Seq(Directives)
  BY DEF TypeInv, StopInv, Orderly, Sequences
<1>2. work # <<>> /\ Head(work).op = "directive"
  BY DEF Directive, At, work
<1>3. Later
  BY <1>1, <1>2, WhereItStands
<1>4. PICK tag \in Tags, e \in Callbacks, ms \in Batches, rest \in Rests :
         Position(tag, e, ms, rest) /\ Standing(tag, e, ms, rest)
  BY <1>1, <1>2, WhereItStands
<1>5. tag = "directive"
  BY <1>2, <1>4 DEF Standing
<1>6. Table("idle", e, ms) /\ link = "up" /\ Known = "started"
  BY <1>4, <1>5 DEF Position, Table, Ongoing
<1>7. Continue("worker") /\ events' = events
  <2>1. CASE UNCHANGED <<cmd, wire, events>> /\ Continue("worker")
    BY <2>1
  <2>2. ASSUME NEW result \in Results,
               SendCmd(IF MustStop THEN Append(cmd, "stop") ELSE cmd, result),
               IF result = "error" THEN Abandon("worker", OnError("worker")) ELSE Continue("worker")
        PROVE  Continue("worker") /\ events' = events
    <3>1. (IF MustStop THEN Append(cmd, "stop") ELSE cmd) \in Seq(Directives)
      BY <1>1, AppendStops DEF Directives
    <3>2. result # "error" /\ UNCHANGED events
      BY <1>1, <1>6, <2>2, <3>1, SendsWell
    <3> QED
      BY <2>2, <3>2
  <2> QED
    BY <2>1, <2>2 DEF Directive
<1>8. UNCHANGED <<calls, inbox, server, link, status, exit>> /\ (isStop => isStop')
      /\ (isStop' => isStop \/ exit = "Stopping")
  BY DEF Directive, MustStop
<1>9. Ahead(Lead("idle", e), ms, rest)'
  BY <1>1, <1>4, <1>5, <1>7, AheadGoes, LeadsAre, LeadsGo DEF Position
<1>10. Table("idle", e, ms)' /\ Later'
  BY <1>3, <1>6, <1>7, <1>8, TableStays DEF Later
<1>11. Stage'
  BY <1>9, <1>10, StageAgain DEF Tags
<1>12. \A t \in Users : todo'[t] = todo[t]
  BY <1>1, <1>7, WorkerOnly
<1> QED
  BY <1>7, <1>8, <1>11, <1>12, OrderlyAgain DEF Orderly, Reached

\* On a link that is up, audio is sent, and the rest waits for the write event.
LEMMA AudioGoes ==
  ASSUME LinkHolds, link = "up", events.write # "none", Types, NEW result \in Results, SendAudio(result)
  PROVE  /\ result # "error" /\ events'.write # "none" /\ events'.launch = events.launch
         /\ wire' = wire \/ wire' = Append(wire, "audio")
<1>1. events \in [launch : BOOLEAN, read : BOOLEAN, write : {"none", "idle", "armed"}]
  BY DEF Types
<1>2. wire' = wire \/ wire' = Append(wire, "audio")
  BY DEF SendAudio
<1>3. result # "error" /\ (events' = events \/ events' = [events EXCEPT !.write = "armed"])
  BY DEF SendAudio, LinkHolds
<1> QED
  BY <1>1, <1>2, <1>3

\* nodeRequestProcess and nodeResponseProcess send what waits.
LEMMA FlushInOrder ==
  ASSUME TypeInv, LinkHolds, Orderly, Flush("worker") PROVE Orderly' /\ UNCHANGED calls
<1>1. Programs /\ Sequences /\ Stage /\ Types
  BY DEF TypeInv, StopInv, Orderly
<1>2. work # <<>> /\ Head(work).op = "flush"
  BY DEF Flush, At, work
<1>3. Later
  BY <1>1, <1>2, WhereItStands
<1>4. PICK tag \in Tags, e \in Callbacks, ms \in Batches, rest \in Rests :
         Position(tag, e, ms, rest) /\ Standing(tag, e, ms, rest)
  BY <1>1, <1>2, WhereItStands
<1>5. tag = "flush"
  BY <1>2, <1>4 DEF Standing
<1>6. /\ Table("idle", e, ms) /\ Table("directive", e, ms)
      /\ link = "up" /\ Known = "started" /\ events.write # "none"
  BY <1>4, <1>5 DEF Position, Table, Ongoing, Orderly
<1>7. "worker" \notin Users
  BY DEF Users
<1>8. PICK result \in Results :
         /\ SendAudio(result)
         /\ \/ result = "empty" /\ Perform("worker", <<Do("directive")>>)
            \/ result = "rest" /\ Continue("worker")
            \/ result = "error" /\ Abandon("worker", OnError("worker"))
  BY <1>7 DEF Flush
<1>9. result # "error" /\ events'.write # "none" /\ events'.launch = events.launch
  BY <1>1, <1>6, <1>8, AudioGoes
<1>10. UNCHANGED <<calls, inbox, server, link, status, isStop, exit>>
  BY DEF Flush
<1>11. Later' /\ Table("idle", e, ms)' /\ Table("directive", e, ms)'
  BY <1>3, <1>6, <1>9, <1>10, TableStays DEF Later
<1>12. {Do("directive")} \subseteq ParseSteps
  BY StepsAreSteps
<1>13. <<Do("directive")>> \in Seq(ParseSteps)
  BY <1>12
<1>14. Ahead(Lead("idle", e), ms, rest)' \/ Ahead(Lead("directive", e), ms, rest)'
  <2>1. "idle" \in Tags /\ "directive" \in Tags /\ Ahead(Lead("flush", e), ms, rest)
    BY <1>4, <1>5 DEF Tags, Position
  <2>2. /\ Tail(Lead("flush", e)) = Lead("idle", e)
        /\ <<Do("directive")>> \o Tail(Lead("flush", e)) = Lead("directive", e)
    BY LeadsGo DEF Tags
  <2>3. CASE Continue("worker")
    BY <1>1, <2>1, <2>2, <2>3, LeadOn DEF Tags
  <2>4. CASE Perform("worker", <<Do("directive")>>)
    BY <1>1, <1>13, <2>1, <2>2, <2>4, LeadOn DEF Tags
  <2> QED
    BY <1>8, <1>9, <2>3, <2>4
<1>15. Stage'
  BY <1>11, <1>14, StageAgain DEF Tags
<1>16. \A t \in Users : todo'[t] = todo[t]
  BY <1>1, <1>8, WorkerOnly
<1> QED
  BY <1>6, <1>9, <1>10, <1>15, <1>16, OrderlyAgain DEF Orderly, Reached

\* handlerEvent comes to its callback.
LEMMA EventInOrder ==
  ASSUME TypeInv, Orderly, exit # "Cancel", Event("worker") PROVE Orderly' /\ UNCHANGED calls
<1>1. Programs /\ Stage
  BY DEF TypeInv, Orderly
<1>2. work # <<>> /\ Head(work).op = "event" /\ About("worker") = Head(work).about
  BY DEF Event, At, About, work
<1>3. Later
  BY <1>1, <1>2, WhereItStands
<1>4. PICK tag \in Tags, e \in Callbacks, ms \in Batches, rest \in Rests :
         Position(tag, e, ms, rest) /\ Standing(tag, e, ms, rest)
  BY <1>1, <1>2, WhereItStands
<1>5. Perform("worker", <<On("call", Head(work).about)>>)
  BY <1>2 DEF Event
<1>6. UNCHANGED <<node, network, calls>>
  BY DEF Event
<1>7. UNCHANGED <<calls, inbox, server, link, status, isStop, exit, events, cmd, wire>>
  BY <1>6 DEF node, network
<1>8. {On("call", "Close"), On("call", "TaskFailed")} \subseteq ParseSteps
  BY StepsAreSteps DEF Callbacks
<1>9. <<On("call", "Close")>> \in Seq(ParseSteps) /\ <<On("call", "TaskFailed")>> \in Seq(ParseSteps)
  BY <1>8
<1>10. CASE tag = "end event"
  <2>1. Perform("worker", <<On("call", "Close")>>)
    BY <1>2, <1>4, <1>5, <1>10 DEF Standing
  <2>2. Ahead(Lead("end call", e), ms, rest)'
    <3>1. "end call" \in Tags /\ Ahead(Lead("end event", e), ms, rest)
      BY <1>4, <1>10 DEF Tags, Position
    <3>2. <<On("call", "Close")>> \o Tail(Lead("end event", e)) = Lead("end call", e)
      BY LeadsGo DEF Tags
    <3> QED
      BY <1>1, <1>9, <2>1, <3>1, <3>2, LeadOn DEF Tags
  <2>3. Table("end call", e, ms)
    BY <1>4, <1>10 DEF Position, Table
  <2>4. Table("end call", e, ms)' /\ Later'
    BY <1>3, <1>7, <2>3, TableStays DEF Later, NotAsked
  <2> QED
    BY <2>2, <2>4, StageAgain, <1>1, <1>5, <1>7, WorkerOnly, OrderlyAgain DEF Tags, Orderly, Reached
<1>11. CASE tag = "fail event"
  <2>1. Perform("worker", <<On("call", "TaskFailed")>>)
    BY <1>2, <1>4, <1>5, <1>11 DEF Standing
  <2>2. Ahead(Lead("fail call", e), ms, rest)'
    <3>1. "fail call" \in Tags /\ Ahead(Lead("fail event", e), ms, rest)
      BY <1>4, <1>11 DEF Tags, Position
    <3>2. <<On("call", "TaskFailed")>> \o Tail(Lead("fail event", e)) = Lead("fail call", e)
      BY LeadsGo DEF Tags
    <3> QED
      BY <1>1, <1>9, <2>1, <3>1, <3>2, LeadOn DEF Tags
  <2>3. Table("fail call", e, ms)
    BY <1>4, <1>11 DEF Position, Table
  <2>4. Table("fail call", e, ms)' /\ Later'
    BY <1>3, <1>7, <2>3, TableStays DEF Later, NotAsked
  <2> QED
    BY <2>2, <2>4, StageAgain, <1>1, <1>5, <1>7, WorkerOnly, OrderlyAgain DEF Tags, Orderly, Reached
<1> QED
  BY <1>2, <1>4, <1>7, <1>10, <1>11 DEF Standing

\* handlerEvent after Close returned.
LEMMA ClosedInOrder ==
  ASSUME TypeInv, Orderly, Closed("worker") PROVE Orderly' /\ UNCHANGED calls
<1>1. Programs /\ Stage
  BY DEF TypeInv, Orderly
<1>2. work # <<>> /\ Head(work).op = "closed"
  BY DEF Closed, At, work
<1>3. Later
  BY <1>1, <1>2, WhereItStands
<1>4. PICK tag \in Tags, e \in Callbacks, ms \in Batches, rest \in Rests :
         Position(tag, e, ms, rest) /\ Standing(tag, e, ms, rest)
  BY <1>1, <1>2, WhereItStands
<1>5. tag = "closed"
  BY <1>2, <1>4 DEF Standing
<1>6. Known = "closed" /\ ms \in {<<>>, <<"CLOSE">>} /\ Gone
  BY <1>4, <1>5 DEF Position, Table
<1>7. /\ Continue("worker") /\ status' = "Closed"
      /\ UNCHANGED <<calls, network, isStop, exit, events>>
  BY DEF Closed
<1>8. UNCHANGED <<inbox, server, link>> /\ Known' = Known
  BY <1>7, KnownStays DEF network
<1>9. Ahead(Lead("over", e), ms, rest)'
  BY <1>1, <1>4, <1>5, <1>7, AheadGoes, LeadsAre, LeadsGo DEF Position
<1>10. Gone'
  BY <1>6, <1>8 DEF Gone
<1>11. Table("over", e, ms)' /\ Later'
  BY <1>3, <1>6, <1>7, <1>8, <1>10 DEF Table, Later
<1>12. Stage'
  BY <1>9, <1>11, StageAgain DEF Tags
<1>13. \A t \in Users : todo'[t] = todo[t]
  BY <1>1, <1>7, WorkerOnly
<1> QED
  BY <1>7, <1>8, <1>12, <1>13, OrderlyAgain DEF Orderly, Reached

\* closeConnectNode: at the end of a session, before its last callbacks.
LEMMA CloseNodeInOrder ==
  ASSUME TypeInv, Orderly, CloseNode("worker") PROVE Orderly' /\ UNCHANGED calls
<1>1. Programs /\ Stage
  BY DEF TypeInv, Orderly
<1>2. work # <<>> /\ Head(work).op = "close"
  BY DEF CloseNode, At, work
<1>3. Later
  BY <1>1, <1>2, WhereItStands
<1>4. PICK tag \in Tags, e \in Callbacks, ms \in Batches, rest \in Rests :
         Position(tag, e, ms, rest) /\ Standing(tag, e, ms, rest)
  BY <1>1, <1>2, WhereItStands
<1>5. tag \in {"end", "fail", "over close"}
  BY <1>2, <1>4 DEF Standing
<1>6. /\ Continue("worker") /\ link' = "down" /\ inbox' = <<>>
      /\ events'.write = "none" /\ events'.launch = FALSE
      /\ UNCHANGED <<calls, status, server, isStop, exit>>
  BY DEF CloseNode, NoEvents
<1>7. server \in {"idle", "done"}
  BY <1>4, <1>5 DEF Position, Table, Gone
<1>8. Gone' /\ Known' = Known /\ Later'
  BY <1>3, <1>6, <1>7, KnownStays DEF Gone, Later
<1>9. ASSUME NEW next \in Tags, Ahead(Lead(next, e), ms, rest)', Table(next, e, ms)'
      PROVE  Orderly'
  <2>1. Stage'
    BY <1>8, <1>9, StageAgain
  <2>2. \A t \in Users : todo'[t] = todo[t]
    BY <1>1, <1>6, WorkerOnly
  <2> QED
    BY <1>6, <2>1, <2>2, OrderlyAgain DEF Orderly, Reached
<1>10. CASE tag = "end"
  <2>1. Ahead(Lead("end event", e), ms, rest)'
    <3>1. "end event" \in Tags /\ Ahead(Lead("end", e), ms, rest)
      BY <1>4, <1>10 DEF Tags, Position
    <3>2. Tail(Lead("end", e)) = Lead("end event", e)
      BY LeadsGo DEF Tags
    <3> QED
      BY <1>1, <1>6, <3>1, <3>2, LeadOn DEF Tags
  <2>2. Known = "ended" /\ ms \in {<<>>, <<"CLOSE">>}
    BY <1>4, <1>10 DEF Position, Table
  <2>3. Table("end event", e, ms)'
    BY <1>8, <2>2 DEF Table
  <2> QED
    BY <1>6, <1>9, <2>1, <2>3 DEF Tags
<1>11. CASE tag = "fail"
  <2>1. Ahead(Lead("fail event", e), ms, rest)'
    <3>1. "fail event" \in Tags /\ Ahead(Lead("fail", e), ms, rest)
      BY <1>4, <1>11 DEF Tags, Position
    <3>2. Tail(Lead("fail", e)) = Lead("fail event", e)
      BY LeadsGo DEF Tags
    <3> QED
      BY <1>1, <1>6, <3>1, <3>2, LeadOn DEF Tags
  <2>2. Known = "new" /\ ms = <<>>
    BY <1>4, <1>11 DEF Position, Table
  <2>3. Table("fail event", e, ms)'
    BY <1>8, <2>2 DEF Table
  <2> QED
    BY <1>6, <1>9, <2>1, <2>3 DEF Tags
<1>12. CASE tag = "over close"
  <2>1. Ahead(Lead("over", e), ms, rest)'
    <3>1. "over" \in Tags /\ Ahead(Lead("over close", e), ms, rest)
      BY <1>4, <1>12 DEF Tags, Position
    <3>2. Tail(Lead("over close", e)) = Lead("over", e)
      BY LeadsGo DEF Tags
    <3> QED
      BY <1>1, <1>6, <3>1, <3>2, LeadOn DEF Tags
  <2>2. Known = "closed" /\ ms \in {<<>>, <<"CLOSE">>} /\ status = "Closed"
    BY <1>4, <1>12 DEF Position, Table
  <2>3. Table("over", e, ms)'
    BY <1>6, <1>8, <2>2 DEF Table
  <2> QED
    BY <1>6, <1>9, <2>1, <2>3 DEF Tags
<1> QED
  BY <1>5, <1>10, <1>11, <1>12

\* handlerFrame: the callback that is made is one that may come.
LEMMA CallInOrder ==
  ASSUME TypeInv, Orderly, Call("worker") PROVE Orderly' /\ All!Next
<1>1. Programs /\ Stage /\ calls \in Seq(Call_) /\ exit \in {"Invalid", "Stopping", "Cancel"}
  BY DEF TypeInv, Orderly, Types
<1>2. work # <<>> /\ Head(work).op = "call" /\ About("worker") = Head(work).about
  BY DEF Call, At, About, work
<1>3. Later
  BY <1>1, <1>2, WhereItStands
<1>4. PICK tag \in Tags, e \in Callbacks, ms \in Batches, rest \in Rests :
         Position(tag, e, ms, rest) /\ Standing(tag, e, ms, rest)
  BY <1>1, <1>2, WhereItStands
<1> DEFINE event == Head(work).about
           c == [by |-> "worker", event |-> event, late |-> exit = "Cancel"]
<1>5. calls' = Append(calls, c) /\ c.event = event
  BY <1>2 DEF Call
<1>6. /\ event = "Close" => Perform("worker", <<Do("closed")>>)
      /\ event # "Close" => Continue("worker")
  BY <1>2 DEF Call
<1>7. event \in Callbacks => c \in Call_
  BY DEF Call_, Threads
<1>8. UNCHANGED <<inbox, server, link, status, isStop, exit, events>>
  BY DEF Call, network
<1>9. ASSUME event \in Callbacks, NEW k, <<Known, event, k>> \in Turns
      PROVE  Known' = k /\ All!Next
  <2>1. c \in Call_ /\ <<Known, c.event, k>> \in Turns
    BY <1>5, <1>7, <1>9
  <2> HIDE DEF c, event
  <2> QED
    BY <1>1, <1>5, <2>1, CallTurns
<1> HIDE DEF c, event
<1>10. \A j, stream, s : Path(j, stream, s) => Path(j, stream, s)'
  BY <1>8 DEF Path
<1>11. ASSUME NEW next \in Tags, Ahead(Lead(next, e), ms, rest)', Table(next, e, ms)'
       PROVE  Orderly'
  <2>1. Stage'
    BY <1>3, <1>8, <1>11, StageAgain DEF Later
  <2>2. \A t \in Users : todo'[t] = todo[t]
    BY <1>1, <1>6, WorkerOnly
  <2> QED
    BY <1>8, <2>1, <2>2, OrderlyAgain DEF Orderly, Reached
<1>12. Ahead(Lead(tag, e), ms, rest) /\ Table(tag, e, ms)
  BY <1>4 DEF Position
<1>13. CASE tag = "call"
  <2>1. event = e /\ e # "Close" /\ Telling(e, ms)
    BY <1>4, <1>12, <1>13 DEF Standing, Table, event
  <2>2. PICK k \in {"started", "ended"} : <<Known, e, k>> \in Turns /\ Path(k, ms \o inbox, server)
    BY <2>1 DEF Telling
  <2>3. Known' = k /\ All!Next
    BY <1>9, <2>1, <2>2
  <2>4. /\ k = "ended" <=> e \in {"Completed", "TaskFailed"}
        /\ e = "Result" => Known = "started"
    BY <2>2 DEF Turns
  <2>5. Path(k, ms \o inbox, server)'
    BY <1>8, <2>2 DEF Path
  <2>6. Reacting(e, ms)'
    BY <1>8, <2>1, <2>2, <2>3, <2>4, <2>5 DEF Reacting, Telling
  <2>7. Table("after", e, ms)'
    BY <2>1, <2>6 DEF Table
  <2>8. "after" \in Tags /\ Tail(Lead("call", e)) = Lead("after", e)
    BY LeadsGo DEF Tags
  <2>9. Ahead(Lead("after", e), ms, rest)'
    BY <1>1, <1>6, <1>12, <1>13, <2>1, <2>8, LeadOn
  <2> QED
    BY <1>11, <2>3, <2>7, <2>8, <2>9
<1>14. CASE tag = "end call"
  <2>1. event = "Close" /\ Known = "ended" /\ ms \in {<<>>, <<"CLOSE">>} /\ Gone
    BY <1>4, <1>12, <1>14 DEF Standing, Table, event
  <2>2. Known' = "closed" /\ All!Next
    BY <1>9, <2>1 DEF Turns, Callbacks
  <2>3. Gone'
    BY <1>8, <2>1 DEF Gone
  <2>4. Table("closed", e, ms)'
    BY <2>1, <2>2, <2>3 DEF Table
  <2>5. "closed" \in Tags /\ <<Do("closed")>> \o Tail(Lead("end call", e)) = Lead("closed", e)
    BY LeadsGo DEF Tags
  <2>6. {Do("closed")} \subseteq ParseSteps
    BY StepsAreSteps
  <2>7. <<Do("closed")>> \in Seq(ParseSteps)
    BY <2>6
  <2>8. Ahead(Lead("closed", e), ms, rest)'
    BY <1>1, <1>6, <1>12, <1>14, <2>1, <2>5, <2>7, LeadOn
  <2> QED
    BY <1>11, <2>2, <2>4, <2>5, <2>8
<1>15. CASE tag = "fail call"
  <2>1. event = "TaskFailed" /\ Known = "new" /\ ms = <<>> /\ Gone
    BY <1>4, <1>12, <1>15 DEF Standing, Table, event
  <2>2. Known' = "ended" /\ All!Next
    BY <1>9, <2>1 DEF Turns, Callbacks
  <2>3. Gone'
    BY <1>8, <2>1 DEF Gone
  <2>4. Table("end event", e, ms)'
    BY <2>1, <2>2, <2>3 DEF Table
  <2>5. "end event" \in Tags /\ Tail(Lead("fail call", e)) = Lead("end event", e)
    BY LeadsGo DEF Tags
  <2>6. Ahead(Lead("end event", e), ms, rest)'
    BY <1>1, <1>6, <1>12, <1>15, <2>1, <2>5, LeadOn
  <2> QED
    BY <1>11, <2>2, <2>4, <2>5, <2>6
<1> QED
  BY <1>2, <1>4, <1>13, <1>14, <1>15 DEF Standing

\* parseFrame: the message that is parsed is the next on the session's path.
LEMMA ParseInOrder ==
  ASSUME TypeInv, Orderly, exit # "Cancel", Parse PROVE Orderly' /\ UNCHANGED calls
<1>1. Programs /\ Stage /\ inbox \in Seq(Messages)
  BY DEF TypeInv, Orderly, InboxInv
<1>2. work # <<>> /\ Head(work).op = "parse" /\ About("worker") = Head(work).about
  BY DEF Parse, At, About, work
<1>3. Later
  BY <1>1, <1>2, WhereItStands
<1>4. PICK tag \in Tags, e \in Callbacks, ms \in Batches, rest \in Rests :
         Position(tag, e, ms, rest) /\ Standing(tag, e, ms, rest)
  BY <1>1, <1>2, WhereItStands
<1>5. tag \in {"idle", "over"} /\ ms # <<>> /\ About("worker") = Head(ms)
  BY <1>2, <1>4 DEF Standing
<1>6. Ahead(Lead(tag, e), ms, rest) /\ Table(tag, e, ms)
  BY <1>4 DEF Position
<1>7. Ahead(<<>>, ms, rest)
  BY <1>5, <1>6, LeadsAre
<1>8. UNCHANGED <<calls, node, network>>
  BY DEF Parse
<1>9. UNCHANGED <<inbox, server, link, status, isStop, exit, events>>
  BY <1>8 DEF node, network
<1>10. Known' = Known
  BY <1>8, KnownStays
<1>11. CASE tag = "over"
  <2>1. status = "Closed" /\ Known = "closed" /\ ms = <<"CLOSE">> /\ Gone
    BY <1>5, <1>6, <1>11 DEF Table
  <2>2. Head(ms) = "CLOSE"
    BY <2>1, Tuples
  <2>3. Abandon("worker", <<Do("close")>>)
    BY <1>5, <2>1, <2>2 DEF Parse, NormalEnd
  <2>4. Lead("over close", e) = <<Do("close")>> /\ <<Do("close")>> \in Seq(ParseSteps)
    <3>1. Lead("over close", e) = <<Do("close")>>
      BY DEF Lead
    <3> QED
      BY <3>1, LeadsAre DEF Tags
  <2>5. Ahead(Lead("over close", e), <<>>, <<>>)'
    BY <1>1, <2>3, <2>4, AheadAnew
  <2>6. Gone'
    BY <1>9, <2>1 DEF Gone
  <2>7. Table("over close", e, <<>>)'
    BY <1>9, <1>10, <2>1, <2>6 DEF Table
  <2>8. Stage'
    BY <1>3, <1>9, <2>5, <2>7, StageAgain DEF Tags, Batches, Rests, Later
  <2> QED
    BY <1>1, <1>8, <1>9, <2>3, <2>8, WorkerOnly, OrderlyAgain DEF Orderly, Reached
<1>12. CASE tag = "idle"
  <2> DEFINE m == Head(ms)
             event == IF m = "CLOSE" THEN "TaskFailed" ELSE m
  <2>1. Ongoing(ms)
    BY <1>5, <1>6, <1>12 DEF Table
  <2>2. /\ Known \in {"new", "started"} /\ Path(Known, ms \o inbox, server) /\ link = "up"
        /\ status = IF Known = "new" THEN "Starting" ELSE "Started"
    BY <2>1 DEF Ongoing
  <2>3. /\ ms \o inbox # <<>> /\ Head(ms \o inbox) = m /\ Tail(ms \o inbox) = Tail(ms) \o inbox
        /\ Tail(ms) \in Batches /\ m \in Replies
    BY <1>1, <1>5, BatchesAre, StreamParts
  <2>4. PICK k \in {"started", "ended"} :
           <<Known, event, k>> \in Turns /\ Path(k, Tail(ms) \o inbox, server)
    <3>1. \E j \in {"started", "ended"} :
             <<Known, event, j>> \in Turns /\ Path(j, Tail(ms \o inbox), server)
      BY <2>2, <2>3, PathGoes
    <3> QED
      BY <2>3, <3>1
  <2>5. event \in Callbacks /\ event # "Close"
    BY <2>3 DEF Replies, Messages, Callbacks
  <2>6. Perform("worker", <<On("call", event), On("after", event)>>)
    <3>1. ~NormalEnd(m)
      BY <2>2 DEF NormalEnd
    <3> QED
      BY <1>5, <3>1 DEF Parse
  <2> HIDE DEF event
  <2>7. Telling(event, Tail(ms))
    BY <2>2, <2>4 DEF Telling
  <2>8. Table("call", event, Tail(ms))
    BY <2>5, <2>7 DEF Table
  <2>9. Table("call", event, Tail(ms))'
    BY <1>8, <1>9, <2>8, TableStays DEF NotAsked, node, network
  <2>10. /\ Lead("call", event) = <<On("call", event), On("after", event)>>
         /\ Lead("call", event) \in Seq(ParseSteps)
    <3>1. Lead("call", event) = <<On("call", event), On("after", event)>>
      BY DEF Lead
    <3> QED
      BY <2>5, <3>1, LeadsAre DEF Tags
  <2>11. Ahead(Lead("call", event), Tail(ms), rest)'
    BY <1>1, <1>5, <1>7, <2>6, <2>10, AheadParses
  <2>12. Stage'
    BY <1>3, <1>9, <2>3, <2>5, <2>9, <2>11, StageAgain DEF Tags, Later
  <2>13. \A t \in Users : todo'[t] = todo[t]
    BY <1>1, <2>6, WorkerOnly
  <2> QED
    BY <1>8, <1>9, <2>12, <2>13, OrderlyAgain DEF Orderly, Reached
<1> QED
  BY <1>5, <1>11, <1>12

\* After the end nothing but a CLOSE is left to parse.
LEMMA EndIsNear ==
  ASSUME NEW ms \in Batches, inbox \in Seq(Messages), Path("ended", ms \o inbox, server)
  PROVE  ms \in {<<>>, <<"CLOSE">>} /\ server = "done"
<1>1. server = "done" /\ ms \o inbox \in {<<>>, <<"CLOSE">>}
  BY DEF Path
<1>2. ASSUME ms # <<>> PROVE ms = <<"CLOSE">>
  <2>1. ms \in Seq(Replies)
    BY BatchesAre
  <2>2. ms \o inbox # <<>> /\ Head(ms \o inbox) = Head(ms) /\ Tail(ms \o inbox) = Tail(ms) \o inbox
    BY <1>2, <2>1, StreamParts
  <2>3. ms \o inbox = <<"CLOSE">>
    BY <1>1, <2>2
  <2>4. Head(ms) = "CLOSE"
    BY <2>2, <2>3, Tuples
  <2> QED
    BY <1>2, <2>4, Tuples DEF Batches
<1> QED
  BY <1>1, <1>2

\* parseFrame after the callback.
LEMMA AfterInOrder ==
  ASSUME TypeInv, Orderly, After PROVE Orderly' /\ UNCHANGED calls
<1>1. Programs /\ Stage /\ inbox \in Seq(Messages)
  BY DEF TypeInv, Orderly, InboxInv
<1>2. work # <<>> /\ Head(work).op = "after" /\ About("worker") = Head(work).about
  BY DEF After, At, About, work
<1>3. Later
  BY <1>1, <1>2, WhereItStands
<1>4. PICK tag \in Tags, e \in Callbacks, ms \in Batches, rest \in Rests :
         Position(tag, e, ms, rest) /\ Standing(tag, e, ms, rest)
  BY <1>1, <1>2, WhereItStands
<1>5. tag = "after" /\ About("worker") = e
  BY <1>2, <1>4 DEF Standing
<1>6. Ahead(Lead("after", e), ms, rest) /\ e # "Close" /\ Reacting(e, ms)
  BY <1>4, <1>5 DEF Position, Table
<1>7. /\ status' = CASE e = "Started" -> "Started"
                     [] e = "Completed" -> "Completed"
                     [] e = "TaskFailed" -> "Failed"
                     [] OTHER -> status
      /\ IF e \in {"Completed", "TaskFailed"}
         THEN Perform("worker", <<Do("close"), On("event", "Close")>>)
         ELSE Continue("worker")
  BY <1>5 DEF After
<1>8. UNCHANGED <<calls, network, isStop, exit, events>>
  BY DEF After
<1>9. UNCHANGED <<inbox, server, link>> /\ Known' = Known
  BY <1>8, KnownStays DEF network
<1>10. status' # "Created"
  BY <1>3, <1>7 DEF Later
<1>11. Later'
  BY <1>3, <1>8, <1>10 DEF Later
<1>12. \A t \in Users : todo'[t] = todo[t]
  BY <1>1, <1>7, WorkerOnly
<1>13. Path(Known, ms \o inbox, server)'
  BY <1>6, <1>8, <1>9 DEF Reacting, Path
<1>14. CASE Known = "ended"
  <2>1. e \in {"Completed", "TaskFailed"} /\ link = "up" /\ Path("ended", ms \o inbox, server)
    BY <1>6, <1>14 DEF Reacting
  <2>2. ms \in {<<>>, <<"CLOSE">>} /\ server = "done"
    BY <1>1, <2>1, EndIsNear
  <2>3. Table("end", e, ms)'
    BY <1>9, <1>14, <2>1, <2>2 DEF Table
  <2>4. "end" \in Tags /\ <<Do("close"), On("event", "Close")>> \o Tail(Lead("after", e)) = Lead("end", e)
    BY LeadsGo DEF Tags
  <2>5. {Do("close"), On("event", "Close")} \subseteq ParseSteps
    BY StepsAreSteps DEF Callbacks
  <2>6. <<Do("close"), On("event", "Close")>> \in Seq(ParseSteps)
    BY <2>5
  <2>7. Perform("worker", <<Do("close"), On("event", "Close")>>)
    BY <1>7, <2>1
  <2>8. Ahead(Lead("end", e), ms, rest)'
    BY <1>1, <1>6, <2>4, <2>6, <2>7, LeadOn DEF Tags
  <2>9. Stage'
    BY <1>11, <2>3, <2>4, <2>8, StageAgain
  <2>10. status' # "Started"
    BY <1>7, <2>1
  <2> QED
    BY <1>8, <1>9, <1>12, <2>9, <2>10, OrderlyAgain DEF Orderly, Reached
<1>15. CASE Known = "started"
  <2>1. /\ e \in {"Started", "Result"} /\ link = "up" /\ Path("started", ms \o inbox, server)
        /\ e = "Result" => status = "Started"
    BY <1>6, <1>15 DEF Reacting, Callbacks
  <2>2. status' = "Started" /\ Continue("worker")
    BY <1>7, <2>1
  <2>3. Ongoing(ms)'
    BY <1>9, <1>13, <1>15, <2>1, <2>2 DEF Ongoing
  <2>4. Table("idle", e, ms)'
    BY <2>3 DEF Table
  <2>5. "idle" \in Tags /\ Tail(Lead("after", e)) = Lead("idle", e)
    BY LeadsGo DEF Tags
  <2>6. Ahead(Lead("idle", e), ms, rest)'
    BY <1>1, <1>6, <2>2, <2>5, LeadOn DEF Tags
  <2>7. Stage'
    BY <1>11, <2>4, <2>5, <2>6, StageAgain
  <2>8. Reached'
    BY <1>8, <1>9, <2>1 DEF Path, Reached
  <2> QED
    BY <1>8, <1>9, <1>12, <2>7, <2>8, OrderlyAgain DEF Orderly, Reached
<1> QED
  BY <1>6, <1>14, <1>15 DEF Reacting

\* nodeResponseProcess, after the messages: a node that has become Started sends.
LEMMA BeginInOrder ==
  ASSUME TypeInv, Orderly, Begin PROVE Orderly' /\ UNCHANGED calls
<1>1. Programs /\ Stage
  BY DEF TypeInv, Orderly
<1>2. work # <<>> /\ Head(work).op = "begin"
  BY DEF Begin, At, work
<1>3. Later
  BY <1>1, <1>2, WhereItStands
<1>4. PICK tag \in Tags, e \in Callbacks, ms \in Batches, rest \in Rests :
         Position(tag, e, ms, rest) /\ Standing(tag, e, ms, rest)
  BY <1>1, <1>2, WhereItStands
<1>5. tag \in {"idle", "over"} /\ ms = <<>> /\ rest = <<Do("begin")>>
  BY <1>2, <1>4 DEF Standing
<1>6. Ahead(Lead(tag, e), ms, rest) /\ Table(tag, e, <<>>)
  BY <1>4, <1>5 DEF Position
<1>7. work = <<Do("begin")>>
  BY <1>5, <1>6, LeadsAre, AheadRests
<1>8. UNCHANGED <<calls, node, network>>
  BY DEF Begin
<1>9. UNCHANGED <<inbox, server, link, status, isStop, exit, events>>
  BY <1>8 DEF node, network
<1>10. IF status = "Started" THEN Perform("worker", <<Do("flush")>>) ELSE Continue("worker")
  BY DEF Begin
<1>11. "worker" \in Threads /\ todo \in [Threads -> Seq(ParseSteps)]
  BY <1>1 DEF Threads, Programs
<1>12. Tail(work) = <<>>
  BY <1>7
<1>13. \A t \in Users : todo'[t] = todo[t]
  BY <1>1, <1>10, WorkerOnly
<1>14. ASSUME NEW next \in Tags, work' = Lead(next, e), Table(next, e, <<>>)
       PROVE  Orderly'
  <2>1. Ahead(Lead(next, e), <<>>, <<>>)'
    BY <1>14, LeadsAre, AheadNow
  <2>2. Table(next, e, <<>>)'
    BY <1>8, <1>9, <1>14, TableStays DEF NotAsked, node, network
  <2>3. Stage'
    BY <1>3, <1>9, <2>1, <2>2, StageAgain DEF Later, Batches, Rests
  <2> QED
    BY <1>8, <1>9, <1>13, <2>3, OrderlyAgain DEF Orderly, Reached
<1>15. CASE status = "Started"
  <2>1. Ongoing(<<>>) /\ Known = "started"
    BY <1>5, <1>6, <1>15 DEF Table, Shaking, Ongoing
  <2>2. Table("flush", e, <<>>)
    BY <2>1 DEF Table
  <2>3. <<Do("flush")>> \o <<>> = <<Do("flush")>>
    OBVIOUS
  <2>4. work' = <<Do("flush")>> \o Tail(work)
    BY <1>10, <1>11, <1>15 DEF Perform, work
  <2>5. Lead("flush", e) = <<Do("flush")>>
    BY DEF Lead
  <2> QED
    BY <1>8, <1>12, <1>14, <2>2, <2>3, <2>4, <2>5 DEF Tags
<1>16. CASE status # "Started"
  <2>1. work' = <<>>
    BY <1>10, <1>11, <1>12, <1>16 DEF Continue, work
  <2>2. Lead(tag, e) = <<>>
    BY <1>5, LeadsAre
  <2> QED
    BY <1>6, <1>8, <1>14, <2>1, <2>2
<1> QED
  BY <1>15, <1>16

\* Between two callbacks of libevent the event thread is at rest.
LEMMA AtRest ==
  ASSUME TypeInv, Orderly, Worker, link \notin {"down", "connecting"}
  PROVE  Later /\ link = "up" /\ (Shaking \/ Ongoing(<<>>))
<1>1. Programs /\ Stage /\ work = <<>>
  BY DEF TypeInv, Orderly, Worker, Idle, work
<1>2. Later
  BY <1>1 DEF Stage, Before
<1>3. PICK tag \in Tags, e \in Callbacks, ms \in Batches, rest \in Rests : Position(tag, e, ms, rest)
  BY <1>1 DEF Stage, Before
<1>4. tag \in {"idle", "over"} /\ ms = <<>> /\ rest = <<>>
  BY <1>1, <1>3, Positions DEF Position
<1>5. Table(tag, e, <<>>)
  BY <1>3, <1>4 DEF Position
<1>6. Shaking \/ Ongoing(<<>>)
  BY <1>4, <1>5 DEF Table, Gone
<1> QED
  BY <1>2, <1>6 DEF Shaking, Ongoing

\* What is read together is a batch.
LEMMA BatchesSplit ==
  ASSUME NEW stream \in Batches, NEW n \in 1 .. Len(stream)
  PROVE  /\ SubSeq(stream, 1, n) \in Batches
         /\ SubSeq(stream, 1, n) \o SubSeq(stream, n + 1, Len(stream)) = stream
<1>1. stream \in Seq(Replies)
  BY BatchesAre
<1>2. SubSeq(stream, 1, n) \o SubSeq(stream, n + 1, Len(stream)) = stream
  BY <1>1
<1>3. n = Len(stream) => SubSeq(stream, 1, n) = stream
  BY <1>1
<1>4. {"Started", "Result", "Completed", "TaskFailed", "CLOSE"} \subseteq Replies
  BY DEF Replies, Messages
<1>5. ASSUME n = 1 PROVE SubSeq(stream, 1, n) = <<Head(stream)>> /\ stream # <<>>
  <2>1. SubSeq(stream, 1, 1) \in Seq(Replies) /\ Len(SubSeq(stream, 1, 1)) = 1
    BY <1>1, <1>5
  <2>2. SubSeq(stream, 1, 1)[1] = Head(stream) /\ stream # <<>> /\ Head(stream) \in Replies
    BY <1>1, <1>5
  <2>3. /\ <<Head(stream)>> \in Seq(Replies) /\ Len(<<Head(stream)>>) = 1
        /\ <<Head(stream)>>[1] = Head(stream)
    BY <2>2
  <2>4. \A i \in 1 .. 1 : SubSeq(stream, 1, 1)[i] = <<Head(stream)>>[i]
    BY <2>2, <2>3
  <2> QED
    BY <1>5, <2>1, <2>2, <2>3, <2>4, SameSteps
<1>6. /\ Len(stream) <= 3
      /\ Len(stream) = 3 => stream = <<"Started", "Result", "Completed">>
  <2>1. /\ Len(<<>>) = 0 /\ Len(<<"Started">>) = 1 /\ Len(<<"Result">>) = 1 /\ Len(<<"Completed">>) = 1
        /\ Len(<<"TaskFailed">>) = 1 /\ Len(<<"CLOSE">>) = 1
    OBVIOUS
  <2>2. /\ Len(<<"Started", "Result">>) = 2 /\ Len(<<"Started", "Completed">>) = 2
        /\ Len(<<"Result", "Completed">>) = 2 /\ Len(<<"TaskFailed", "CLOSE">>) = 2
    OBVIOUS
  <2>3. Len(<<"Started", "Result", "Completed">>) = 3
    OBVIOUS
  <2>4. Len(stream) \in {0, 1, 2} \/ stream = <<"Started", "Result", "Completed">>
    BY <2>1, <2>2 DEF Batches
  <2>5. CASE stream = <<"Started", "Result", "Completed">>
    <3>1. Len(stream) = 3
      BY <2>3, <2>5
    <3> QED
      BY <2>5, <3>1
  <2>6. CASE Len(stream) \in {0, 1, 2}
    <3> DEFINE len == Len(stream)
    <3>1. len \in {0, 1, 2}
      BY <2>6
    <3> HIDE DEF len
    <3>2. len <= 3 /\ len # 3
      BY <3>1
    <3> QED
      BY <3>2 DEF len
  <2> QED
    BY <2>4, <2>5, <2>6
<1>7. n = 1 => SubSeq(stream, 1, n) \in Batches
  BY <1>5, Tuples DEF Batches
<1>8. CASE n = 2 /\ Len(stream) = 3
  <2>1. stream = <<"Started", "Result", "Completed">>
    BY <1>6, <1>8
  <2>2. stream[1] = "Started" /\ stream[2] = "Result"
    BY <2>1
  <2>3. SubSeq(stream, 1, 2) \in Seq(Replies) /\ Len(SubSeq(stream, 1, 2)) = 2
    <3>1. SubSeq(stream, 1, n) \in Seq(Replies) /\ Len(SubSeq(stream, 1, n)) = n
      BY <1>1
    <3> QED
      BY <1>8, <3>1
  <2>4. SubSeq(stream, 1, 2)[1] = "Started" /\ SubSeq(stream, 1, 2)[2] = "Result"
    BY <1>1, <1>8, <2>2
  <2>5. /\ <<"Started", "Result">> \in Seq(Replies) /\ Len(<<"Started", "Result">>) = 2
        /\ <<"Started", "Result">>[1] = "Started" /\ <<"Started", "Result">>[2] = "Result"
    BY Tuples
  <2>6. \A i \in 1 .. 2 : SubSeq(stream, 1, 2)[i] = <<"Started", "Result">>[i]
    BY <2>4, <2>5
  <2>7. SubSeq(stream, 1, 2) = <<"Started", "Result">>
    BY <2>3, <2>5, <2>6, SameSteps
  <2> QED
    BY <1>8, <2>7 DEF Batches
<1>9. Len(stream) \in Nat
  BY <1>1
<1>10. n = 1 \/ n = Len(stream) \/ (n = 2 /\ Len(stream) = 3)
  <2> DEFINE len == Len(stream)
  <2>1. len \in Nat /\ len <= 3 /\ n \in 1 .. len
    BY <1>6, <1>9
  <2> HIDE DEF len
  <2>2. n = 1 \/ n = len \/ (n = 2 /\ len = 3)
    BY <2>1
  <2> QED
    BY <2>2 DEF len
<1> QED
  BY <1>2, <1>3, <1>7, <1>8, <1>10

\* Where the event thread goes from rest.
LEMMA Restart ==
  ASSUME TypeInv, Orderly, Later', NEW tag \in Tags, NEW e \in Callbacks,
         Abandon("worker", Lead(tag, e)), Table(tag, e, <<>>)',
         Reached => Reached', status' = "Started" => Reached',
         isStop' => exit' # "Invalid", link' = "up" <=> events'.write # "none"
  PROVE  Orderly'
<1>1. Programs
  BY DEF TypeInv
<1>2. Lead(tag, e) \in Seq(ParseSteps)
  BY LeadsAre
<1>3. Ahead(Lead(tag, e), <<>>, <<>>)'
  BY <1>1, <1>2, AheadAnew
<1>4. <<>> \in Batches /\ <<>> \in Rests
  BY DEF Batches, Rests
<1>5. Stage'
  BY <1>3, <1>4, StageAgain
<1>6. \A t \in Users : todo'[t] = todo[t]
  BY <1>1, WorkerOnly
<1> QED
  BY <1>5, <1>6, OrderlyAgain

\* readEventCallBack: the answer to the upgrade, or what the task has to tell.
LEMMA ReadInOrder ==
  ASSUME TypeInv, Orderly, exit # "Cancel", Read PROVE Orderly' /\ UNCHANGED calls
<1>1. Programs /\ inbox \in Seq(Messages)
  BY DEF TypeInv, InboxInv
<1>2. Worker /\ link \notin {"down", "connecting"}
  BY DEF Read
<1>3. Later /\ link = "up" /\ (Shaking \/ Ongoing(<<>>))
  BY <1>2, AtRest
<1>4. UNCHANGED <<exit, isStop, link, server, calls>> /\ Known' = Known
  BY KnownStays DEF Read
<1>5. "TaskFailed" \in Callbacks
  BY DEF Callbacks
<1>6. CASE /\ status = "Handshaking" /\ Head(inbox) = "switch"
           /\ inbox' = Tail(inbox) /\ status' = "Starting"
           /\ Abandon("worker", <<Do("command")>>)
           /\ UNCHANGED <<wire, events>>
  <2>1. Shaking
    BY <1>3, <1>6 DEF Ongoing
  <2>2. inbox # <<>>
    BY <1>3, <1>6 DEF Read
  <2>3. <<"refuse">> \in Seq(Messages) /\ Head(<<"refuse">>) = "refuse"
    BY OneStep DEF Messages
  <2>4. <<"switch">> \in Seq(Messages) /\ Tail(<<"switch">>) = <<>>
    BY OneStep DEF Messages
  <2>5. server = "upgraded" /\ inbox' = <<>> /\ Known = "new"
    BY <1>6, <2>1, <2>2, <2>3, <2>4 DEF Shaking
  <2>6. <<>> \o inbox' = <<>>
    BY <2>5
  <2>7. Path("new", <<>> \o inbox, server)'
    BY <1>4, <2>5, <2>6 DEF Path
  <2>8. Ongoing(<<>>)'
    BY <1>3, <1>4, <1>6, <2>5, <2>7 DEF Ongoing
  <2>9. Table("command", "TaskFailed", <<>>)'
    BY <2>8 DEF Table
  <2>10. Lead("command", "TaskFailed") = <<Do("command")>>
    BY DEF Lead
  <2>11. Later'
    BY <1>3, <1>6 DEF Later
  <2> QED
    BY <1>4, <1>5, <1>6, <2>9, <2>10, <2>11, Restart DEF Orderly, Tags, Reached
<1>7. ASSUME status \in {"Starting", "Started"}, NEW n \in 1 .. Len(inbox),
             inbox' = SubSeq(inbox, n + 1, Len(inbox)),
             Abandon("worker", [i \in 1 .. n |-> On("parse", inbox[i])] \o
                          IF status = "Starting" THEN <<Do("begin")>> ELSE <<>>),
             UNCHANGED <<status, cmd, wire, events>>
      PROVE  Orderly'
  <2>1. Ongoing(<<>>)
    BY <1>3, <1>7 DEF Shaking
  <2>2. Path(Known, inbox, server) /\ inbox \in Batches
    <3>1. <<>> \o inbox = inbox
      BY <1>1, NoStep
    <3>2. Path(Known, inbox, server)
      BY <2>1, <3>1 DEF Ongoing
    <3> QED
      BY <3>2 DEF Path, Batches
  <2>3. PICK m \in Batches : m = SubSeq(inbox, 1, n) /\ m \o inbox' = inbox
    BY <1>7, <2>2, BatchesSplit
  <2>4. PICK r \in Rests : r = IF status = "Starting" THEN <<Do("begin")>> ELSE <<>>
    BY DEF Rests
  <2>5. Parses(m) = [i \in 1 .. n |-> On("parse", inbox[i])]
    <3>1. DOMAIN m = 1 .. n /\ \A i \in 1 .. n : m[i] = inbox[i]
      BY <1>1, <1>7, <2>3
    <3> QED
      BY <3>1 DEF Parses
  <2>6. Parses(m) \o r \in Seq(ParseSteps)
    BY BatchesAre, RestsAre, ParsesAre, ConcatIsSeq
  <2>7. Abandon("worker", Parses(m) \o r)
    BY <1>7, <2>4, <2>5
  <2>8. work' = Parses(m) \o r
    BY <1>1, <2>7 DEF Abandon, work, Programs, Threads
  <2>9. Lead("idle", "TaskFailed") = <<>>
    BY DEF Lead
  <2>10. Ahead(Lead("idle", "TaskFailed"), m, r)'
    BY <2>6, <2>8, <2>9, NoStep DEF Ahead
  <2>11. Path(Known, m \o inbox, server)'
    BY <1>4, <2>2, <2>3 DEF Path
  <2>12. Ongoing(m)'
    BY <1>4, <1>7, <2>1, <2>11 DEF Ongoing
  <2>13. Table("idle", "TaskFailed", m)'
    BY <2>12 DEF Table
  <2>14. Later'
    BY <1>3, <1>7 DEF Later
  <2>15. Stage'
    BY <1>5, <2>10, <2>13, <2>14, StageAgain DEF Tags
  <2>16. \A t \in Users : todo'[t] = todo[t]
    BY <1>1, <2>7, WorkerOnly
  <2> QED
    BY <1>4, <1>7, <2>15, <2>16, OrderlyAgain DEF Orderly, Reached
<1>8. ASSUME \/ status = "Handshaking" /\ Head(inbox) = "refuse"
             \/ status \notin {"Handshaking", "Starting", "Started"},
             Abandon("worker", FailedRead),
             UNCHANGED <<status, cmd, wire, events, inbox>>
      PROVE  Orderly'
  <2>1. Shaking /\ status = "Handshaking" /\ Head(inbox) = "refuse"
    BY <1>3, <1>8 DEF Ongoing, Shaking
  <2>2. inbox # <<>>
    BY <1>3 DEF Read
  <2>3. <<"switch">> \in Seq(Messages) /\ Head(<<"switch">>) = "switch"
    BY OneStep DEF Messages
  <2>4. server = "done" /\ Known = "new"
    BY <2>1, <2>2, <2>3 DEF Shaking
  <2>5. Table("fail", "TaskFailed", <<>>)'
    BY <1>3, <1>4, <2>4 DEF Table
  <2>6. FailedRead = Lead("fail", "TaskFailed")
    <3>1. {Do("close"), On("event", "TaskFailed"), On("event", "Close")} \subseteq ParseSteps
      BY StepsAreSteps DEF Callbacks
    <3>2. <<Do("close")>> \o <<On("event", "TaskFailed"), On("event", "Close")>>
            = <<Do("close"), On("event", "TaskFailed"), On("event", "Close")>>
      BY <3>1, ThreeSteps
    <3>3. FailedRead = <<Do("close")>> \o <<On("event", "TaskFailed"), On("event", "Close")>>
      BY <2>1 DEF FailedRead, TellFailure
    <3>4. Lead("fail", "TaskFailed")
            = <<Do("close"), On("event", "TaskFailed"), On("event", "Close")>>
      BY DEF Lead
    <3> QED
      BY <3>2, <3>3, <3>4
  <2>7. Later'
    BY <1>3, <1>8 DEF Later
  <2> QED
    BY <1>4, <1>5, <1>8, <2>5, <2>6, <2>7, Restart DEF Orderly, Tags, Reached
<1> QED
  BY <1>3, <1>4, <1>6, <1>7, <1>8 DEF Read

\* writeEventCallBack: what the node's state asks for is sent.
LEMMA WriteInOrder ==
  ASSUME TypeInv, Orderly, exit # "Cancel", Write PROVE Orderly' /\ UNCHANGED calls
<1>1. Worker /\ link \notin {"down", "connecting"}
  BY DEF Write
<1>2. Later /\ link = "up" /\ (Shaking \/ Ongoing(<<>>))
  BY <1>1, AtRest
<1>3. events \in [launch : BOOLEAN, read : BOOLEAN, write : {"none", "idle", "armed"}]
  BY DEF TypeInv, Types
<1>4. UNCHANGED <<calls, inbox, server, link, status, isStop, exit, cmd, wire>>
  BY DEF Write, network
<1>5. events'.launch = events.launch /\ events'.write = "idle"
  BY <1>3 DEF Write
<1>6. Later' /\ "TaskFailed" \in Callbacks
  BY <1>2, <1>4, <1>5 DEF Later, Callbacks
<1>7. ASSUME NEW next \in Tags, Abandon("worker", <<Do(next)>>), Table(next, "TaskFailed", <<>>),
             Lead(next, "TaskFailed") = <<Do(next)>>
      PROVE  Orderly'
  <2>1. Table(next, "TaskFailed", <<>>)'
    BY <1>4, <1>7, TableStays DEF NotAsked
  <2> QED
    BY <1>2, <1>4, <1>5, <1>6, <1>7, <2>1, Restart DEF Orderly, Reached
<1>8. CASE status \in {"Handshaking", "Starting"}
  <2>1. Abandon("worker", <<Do("command")>>)
    BY <1>8 DEF Write
  <2>2. Table("command", "TaskFailed", <<>>)
    BY <1>2 DEF Table
  <2>3. Lead("command", "TaskFailed") = <<Do("command")>>
    BY DEF Lead
  <2> QED
    BY <1>4, <1>7, <2>1, <2>2, <2>3 DEF Tags
<1>9. CASE status = "Started"
  <2>1. Abandon("worker", <<Do("flush")>>)
    BY <1>9 DEF Write
  <2>2. Ongoing(<<>>) /\ Known = "started"
    BY <1>2, <1>9 DEF Shaking, Ongoing
  <2>3. Table("flush", "TaskFailed", <<>>)
    BY <2>2 DEF Table
  <2>4. Lead("flush", "TaskFailed") = <<Do("flush")>>
    BY DEF Lead
  <2> QED
    BY <1>4, <1>7, <2>1, <2>3, <2>4 DEF Tags
<1> QED
  BY <1>2, <1>4, <1>8, <1>9 DEF Shaking, Ongoing

\* The next attempt to connect, or the report that there is none.
LEMMA DialInOrder ==
  ASSUME TypeInv, Orderly, Before, exit # "Cancel", Dial, events'.launch = FALSE,
         events'.write = events.write, status # "Created", link # "up",
         UNCHANGED <<exit, isStop, cmd, inbox, wire, server, calls>>
  PROVE  Orderly'
<1>1. Known' = Known /\ Known = "new" /\ server = "idle" /\ inbox = <<>> /\ NotAsked' /\ work = <<>>
  BY KnownStays DEF Before, NotAsked
<1>2. CASE Attempt
  <2>1. status' = "Connecting" /\ link' = "connecting" /\ todo' = todo
    BY <1>2 DEF Dial
  <2>2. Before'
    BY <1>1, <2>1 DEF Before, work
  <2> QED
    BY <2>1, <2>2, OrderlyAgain DEF Stage, Orderly, Reached
<1>3. CASE ~Attempt
  <2>1. link' = "down" /\ status' = status /\ Abandon("worker", TellFailure)
    BY <1>3 DEF Dial
  <2>2. Gone' /\ Known' = "new" /\ Later'
    BY <1>1, <2>1 DEF Gone, Later
  <2>3. Table("fail event", "TaskFailed", <<>>)'
    BY <2>2 DEF Table
  <2>4. Lead("fail event", "TaskFailed") = TellFailure
    BY DEF Lead, TellFailure
  <2> QED
    BY <2>1, <2>2, <2>3, <2>4, Restart DEF Orderly, Reached, Tags, Callbacks
<1> QED
  BY <1>2, <1>3

LEMMA LaunchInOrder ==
  ASSUME TypeInv, Orderly, exit # "Cancel", Launch PROVE Orderly' /\ UNCHANGED calls
<1>1. Before /\ status # "Created" /\ link = "down"
  BY DEF Launch, Orderly, Stage, Later, Before
<1>2. events \in [launch : BOOLEAN, read : BOOLEAN, write : {"none", "idle", "armed"}]
  BY DEF TypeInv, Types
<1>3. /\ events'.launch = FALSE /\ events'.write = events.write
      /\ UNCHANGED <<exit, isStop, cmd, inbox, wire, server, calls>>
  BY <1>2 DEF Launch
<1>4. CASE Dial
  BY <1>1, <1>3, <1>4, DialInOrder
<1>5. CASE status' = "Invoked" /\ UNCHANGED <<retries, link, todo>>
  <2>1. Before'
    BY <1>1, <1>3, <1>5, KnownStays DEF Before, NotAsked, work
  <2> QED
    BY <1>1, <1>3, <1>5, <2>1, OrderlyAgain DEF Stage, Orderly, Reached
<1> QED
  BY <1>3, <1>4, <1>5 DEF Launch

\* The connection of a session is built before its stages.
LEMMA Unconnected ==
  ASSUME Orderly, link = "connecting"
  PROVE  Before /\ status # "Created" /\ ~events.launch
<1>1. ~Later \/ Before
  <2>1. ASSUME NEW tag, NEW e, NEW ms, Table(tag, e, ms) PROVE FALSE
    BY <2>1 DEF Table, Shaking, Ongoing, Telling, Reacting, Gone
  <2> QED
    BY <2>1 DEF Orderly, Stage, Position
<1> QED
  BY <1>1 DEF Orderly, Stage, Before

LEMMA ConnectFailsInOrder ==
  ASSUME TypeInv, Orderly, exit # "Cancel", ConnectFails PROVE Orderly' /\ UNCHANGED calls
<1>1. Before /\ status # "Created" /\ ~events.launch /\ link = "connecting"
  BY Unconnected DEF ConnectFails
<1>2. events.launch \in BOOLEAN
  BY DEF TypeInv, Types
<1>3. Dial /\ UNCHANGED <<exit, isStop, cmd, events, inbox, wire, server, calls>>
  BY DEF ConnectFails
<1> QED
  BY <1>1, <1>2, <1>3, DialInOrder

\* connectEventCallback: the node asks for the upgrade.
LEMMA ConnectedInOrder ==
  ASSUME TypeInv, LinkHolds, Orderly, exit # "Cancel", Connected PROVE Orderly' /\ UNCHANGED calls
<1>1. Before /\ status # "Created" /\ ~events.launch
  BY Unconnected DEF Connected
<1>2. /\ events \in [launch : BOOLEAN, read : BOOLEAN, write : {"none", "idle", "armed"}]
      /\ wire \in Seq(Directives \union {"audio"})
  BY DEF TypeInv, Types, StopInv, Sequences
<1>3. /\ link' = "up" /\ status' = "Handshaking" /\ cmd' = <<>> /\ wire' = wire \o <<"upgrade">>
      /\ events' = [events EXCEPT !.read = TRUE, !.write = "idle"]
      /\ UNCHANGED <<exit, isStop, inbox, server, todo, calls>>
  BY DEF Connected, LinkHolds
<1>4. events'.launch = events.launch /\ events'.write = "idle"
  BY <1>2, <1>3
<1>5. NotAsked'
  <2>1. NotAsked
    BY <1>1 DEF Before
  <2>2. \A i \in DOMAIN (wire \o <<"upgrade">>) : (wire \o <<"upgrade">>)[i] # "start"
    BY <1>2, <2>1 DEF NotAsked
  <2>3. \A i \in DOMAIN cmd' : cmd'[i] # "start"
    BY <1>3
  <2> QED
    BY <1>3, <2>2, <2>3 DEF NotAsked
<1>6. Shaking'
  BY <1>1, <1>3, <1>5, KnownStays DEF Shaking, Before
<1>7. Table("idle", "TaskFailed", <<>>)'
  BY <1>6 DEF Table
<1>8. work' = <<>> /\ Lead("idle", "TaskFailed") = <<>> /\ <<>> \in Seq(ParseSteps)
  BY <1>1, <1>3 DEF Before, work, Lead
<1>9. Ahead(Lead("idle", "TaskFailed"), <<>>, <<>>)'
  BY <1>8, AheadNow
<1>10. Stage'
  BY <1>1, <1>3, <1>4, <1>7, <1>9, StageAgain DEF Later, Tags, Callbacks, Batches, Rests
<1> QED
  BY <1>3, <1>4, <1>10, OrderlyAgain DEF Orderly, Reached

\* No timer runs out on a link that holds.
LEMMA NoTimeout == ASSUME LinkHolds, Orderly, Timeout PROVE FALSE
BY DEF LinkHolds, Orderly, Timeout

LEMMA NoBreak == ASSUME LinkHolds, LinkBreaks PROVE FALSE
BY DEF LinkHolds, LinkBreaks

\* The server answers the upgrade.
LEMMA AnswerInOrder ==
  ASSUME TypeInv, Orderly, ServerUpgrades \/ ServerRefuses PROVE Orderly' /\ UNCHANGED calls
<1>1. server = "idle" /\ link = "up"
  BY DEF ServerUpgrades, ServerRefuses, Reply
<1>2. /\ \/ server' = "upgraded" /\ inbox' = inbox \o <<"switch">>
         \/ server' = "done" /\ inbox' = inbox \o <<"refuse">>
      /\ UNCHANGED <<node, link, wire, todo, calls>>
  BY DEF ServerUpgrades, ServerRefuses, Reply
<1>3. UNCHANGED <<status, exit, isStop, cmd, events>>
  BY <1>2 DEF node
<1>4. Later
  BY <1>1 DEF Orderly, Stage, Before
<1>5. PICK tag \in Tags, e \in Callbacks, ms \in Batches, rest \in Rests : Position(tag, e, ms, rest)
  BY <1>1 DEF Orderly, Stage, Before
<1>6. tag \in {"idle", "command"} /\ ms = <<>> /\ Shaking
  <2>1. \A k, stream : ~Path(k, stream, "idle")
    BY DEF Path
  <2>2. ~Ongoing(ms) /\ ~Telling(e, ms) /\ ~Reacting(e, ms) /\ ~Gone
    BY <1>1, <2>1 DEF Ongoing, Telling, Reacting, Gone
  <2> QED
    BY <1>1, <1>5, <2>2 DEF Position, Table
<1>7. inbox = <<>>
  BY <1>1, <1>6 DEF Shaking
<1>8. <<>> \o <<"switch">> = <<"switch">> /\ <<>> \o <<"refuse">> = <<"refuse">>
  OBVIOUS
<1>9. \/ server' = "upgraded" /\ inbox' = <<"switch">>
      \/ server' = "done" /\ inbox' = <<"refuse">>
  BY <1>2, <1>7, <1>8
<1>10. Shaking'
  BY <1>2, <1>3, <1>6, <1>9, KnownStays DEF Shaking, NotAsked
<1>11. Table(tag, e, ms)' /\ Later'
  BY <1>3, <1>4, <1>6, <1>10 DEF Table, Later
<1>12. Ahead(Lead(tag, e), ms, rest)'
  BY <1>2, <1>5 DEF Position, Ahead, work
<1>13. Stage'
  BY <1>11, <1>12, StageAgain
<1> QED
  BY <1>1, <1>2, <1>3, <1>13, OrderlyAgain DEF Orderly, Reached

\* It goes on with a task it was asked for.
LEMMA ReplyInOrder ==
  ASSUME TypeInv, Orderly, NEW phase, NEW messages \in Seq(Messages), Reply(phase, messages),
         server \in {"upgraded", "started", "heard"}, server = "upgraded" => ~NotAsked,
         \A k, stream : Path(k, stream, server) => Path(k, stream \o messages, phase)',
         phase \in {"started", "heard"} \/ isStop \/ server = "upgraded"
  PROVE  Orderly' /\ UNCHANGED calls
<1>1. /\ link = "up" /\ server' = phase /\ inbox' = inbox \o messages
      /\ UNCHANGED <<node, link, wire, todo, calls>>
  BY DEF Reply
<1>2. UNCHANGED <<status, exit, isStop, cmd, events>> /\ Known' = Known
  BY <1>1, KnownStays DEF node
<1>3. Later
  BY <1>1 DEF Orderly, Stage, Before
<1>4. PICK tag \in Tags, e \in Callbacks, ms \in Batches, rest \in Rests : Position(tag, e, ms, rest)
  BY <1>1 DEF Orderly, Stage, Before
<1>5. inbox \in Seq(Messages) /\ ms \in Seq(Messages)
  <2>1. ms \in Seq(Replies)
    BY BatchesAre
  <2> QED
    BY <2>1 DEF TypeInv, InboxInv, Replies
<1>6. ms \o inbox' = (ms \o inbox) \o messages
  <2>1. \A p, q, r \in Seq(Messages) : (p \o q) \o r = p \o (q \o r)
    BY Associative
  <2>2. (ms \o inbox) \o messages = ms \o (inbox \o messages)
    BY <1>5, <2>1
  <2> QED
    BY <1>1, <2>2
<1>7. \A k : Path(k, ms \o inbox, server) => Path(k, ms \o inbox, server)'
  BY <1>1, <1>6
<1>8. ~Shaking /\ ~Gone /\ server # "done"
  BY DEF Shaking, Gone
<1>9. /\ Ongoing(ms) => Ongoing(ms)'
      /\ Telling(e, ms) => Telling(e, ms)'
      /\ Reacting(e, ms) => Reacting(e, ms)'
  BY <1>1, <1>2, <1>7 DEF Ongoing, Telling, Reacting
<1>10. Table(tag, e, ms)
  BY <1>4 DEF Position
<1>11. Table(tag, e, ms)' /\ Later'
  BY <1>2, <1>3, <1>8, <1>9, <1>10 DEF Table, Later
<1>12. Ahead(Lead(tag, e), ms, rest)'
  BY <1>1, <1>4 DEF Position, Ahead, work
<1>13. Stage'
  BY <1>11, <1>12, StageAgain
<1>14. Reached => Reached'
  BY <1>1, <1>2 DEF Reached
<1>15. ASSUME status' = "Started" PROVE Reached'
  BY <1>2, <1>14, <1>15 DEF Orderly
<1> QED
  BY <1>1, <1>2, <1>13, <1>14, <1>15, OrderlyAgain DEF Orderly

LEMMA ServerInOrder ==
  ASSUME TypeInv, ServerKeepsOn, Orderly, Server \/ ServerRefuses \/ ServerFailsTask
  PROVE  Orderly' /\ UNCHANGED calls
<1>1. Received("start") => ~NotAsked
  BY DEF Received, NotAsked
<1>2. /\ {<<"Started">>, <<"Result">>, <<"Completed">>, <<"TaskFailed">>, <<"CLOSE">>,
          <<"TaskFailed", "CLOSE">>} \subseteq Seq(Messages)
  <2>1. {"Started", "Result", "Completed", "TaskFailed", "CLOSE"} \subseteq Messages
    BY DEF Messages
  <2> QED
    BY <2>1, OneStep, TwoSteps
<1>3. CASE ServerUpgrades \/ ServerRefuses
  BY <1>3, AnswerInOrder
<1>4. CASE ~(ServerUpgrades \/ ServerRefuses)
  <2>1. UNCHANGED <<node, calls>> /\ isStop' = isStop
    BY <1>4 DEF Server, ServerStarts, ServerReports, ServerCompletes, ServerFailsTask, Reply, node
  <2>2. CASE ServerStarts
    <3>1. /\ server = "upgraded" /\ Reply("started", <<"Started">>) /\ ~NotAsked
      BY <1>1, <2>2 DEF ServerStarts
    <3>2. \A k, stream : Path(k, stream, server) => Path(k, stream \o <<"Started">>, "started")'
      BY <2>1, <3>1, PathGrows
    <3> QED
      BY <1>2, <3>1, <3>2, ReplyInOrder
  <2>3. CASE ServerReports
    <3>1. /\ server = "started" /\ Reply("heard", <<"Result">>)
      BY <2>3 DEF ServerReports
    <3>2. \A k, stream : Path(k, stream, server) => Path(k, stream \o <<"Result">>, "heard")'
      BY <2>1, <3>1, PathGrows
    <3> QED
      BY <1>2, <3>1, <3>2, ReplyInOrder
  <2>4. CASE ServerCompletes
    <3>1. server \in {"started", "heard"} /\ Reply("done", <<"Completed">>) /\ Received("stop")
      BY <2>4 DEF ServerCompletes
    <3>2. isStop
      BY <3>1 DEF Received, TypeInv, StopInv, Without, Stops
    <3>3. \A k, stream : Path(k, stream, server) => Path(k, stream \o <<"Completed">>, "done")'
      BY <2>1, <3>1, <3>2, PathGrows
    <3> QED
      BY <1>2, <3>1, <3>2, <3>3, ReplyInOrder
  <2>5. CASE ServerFailsTask
    <3>1. server = "upgraded" /\ ~NotAsked
      BY <1>1, <2>5 DEF ServerFailsTask, ServerKeepsOn
    <3>2. PICK m \in {<<"TaskFailed">>, <<"TaskFailed", "CLOSE">>, <<"CLOSE">>} : Reply("done", m)
      BY <2>5 DEF ServerFailsTask
    <3>3. \A k, stream : Path(k, stream, server) => Path(k, stream \o m, "done")'
      BY <2>1, <3>1, PathGrows
    <3> QED
      BY <1>2, <3>1, <3>2, <3>3, ReplyInOrder
  <2> QED
    BY <1>4, <2>2, <2>3, <2>4, <2>5 DEF Server
<1> QED
  BY <1>3, <1>4

\* A user's step leaves the event thread where it is.
LEMMA StageKeeps ==
  ASSUME Stage, UNCHANGED <<calls, inbox, server, link, status>>, work' = work,
         events'.launch = events.launch, isStop => isStop', Known = "new" /\ NotAsked => NotAsked'
  PROVE  Stage'
<1>1. CASE Before
  BY <1>1, KnownStays DEF Stage, Before
<1>2. CASE ~Before
  <2>1. Later /\ Later'
    BY <1>2 DEF Stage, Later
  <2>2. PICK tag \in Tags, e \in Callbacks, ms \in Batches, rest \in Rests : Position(tag, e, ms, rest)
    BY <1>2 DEF Stage
  <2>3. Table(tag, e, ms)'
    BY <2>2, TableStays DEF Position
  <2>4. Ahead(Lead(tag, e), ms, rest)'
    BY <2>2 DEF Position, Ahead
  <2> QED
    BY <2>1, <2>3, <2>4, StageAgain
<1> QED
  BY <1>1, <1>2

\* What a user's call changes of what its thread does.
LEMMA UserGoes ==
  ASSUME Programs, NEW t \in Users, NEW steps, NEW p,
         \/ Abandon(t, steps) /\ p = steps
         \/ Perform(t, steps) /\ p = steps \o Tail(todo[t])
         \/ Continue(t) /\ p = Tail(todo[t])
  PROVE  work' = work /\ todo'[t] = p /\ \A u \in Users \ {t} : todo'[u] = todo[u]
<1>1. t \in Threads /\ t # "worker" /\ \A u \in Users : u \in Threads
  BY DEF Users, Threads
<1>2. todo' = [todo EXCEPT ![t] = p]
  BY <1>1 DEF Abandon, Perform, Continue
<1>3. DOMAIN todo = Threads /\ todo = [u \in Threads |-> todo[u]] /\ "worker" \in Threads
  BY DEF Programs, Threads
<1> QED
  BY <1>1, <1>2, <1>3 DEF work

LEMMA UserAgain ==
  ASSUME Programs, Orderly, NEW t \in Users, Stage',
         Calling(t)', \A u \in Users \ {t} : todo'[u] = todo[u],
         Reached => Reached', status' = "Started" => Reached',
         isStop' => exit' # "Invalid", link' = "up" <=> events'.write # "none"
  PROVE  Orderly'
<1>1. \A u \in Users : Calling(u)'
  BY DEF Orderly, Calling
<1> QED
  BY <1>1 DEF Orderly

\* The steps of a user's call.
LEMMA CallSteps ==
  /\ \A op : Do(op).op = op
  /\ \A op : /\ <<Do(op)>> # <<>> /\ Head(<<Do(op)>>) = Do(op) /\ Tail(<<Do(op)>>) = <<>>
             /\ <<Do(op)>> \o <<>> = <<Do(op)>>
<1>1. \A op : Do(op).op = op
  BY DEF Do
<1>2. ASSUME NEW x PROVE <<x>> # <<>> /\ Head(<<x>>) = x /\ Tail(<<x>>) = <<>> /\ <<x>> \o <<>> = <<x>>
  <2>1. <<x>> \in Seq({x})
    OBVIOUS
  <2> QED
    BY <2>1, NoStep
<1> QED
  BY <1>1, <1>2

LEMMA CallingAt ==
  ASSUME NEW t \in Users, Calling(t), todo[t] # <<>>
  PROVE  /\ Head(todo[t]).op \in {"notify", "add", "flush", "directive"}
         /\ todo[t] = <<Do(Head(todo[t]).op)>>
         /\ Head(todo[t]).op # "notify" => Reached
BY CallSteps DEF Calling

LEMMA UserInOrder ==
  ASSUME TypeInv, Orderly, exit # "Cancel", Start \/ BeginSendAudio \/ Stop
  PROVE  Orderly' /\ UNCHANGED calls
<1>1. Programs /\ Stage
  BY DEF TypeInv, Orderly
<1>2. events \in [launch : BOOLEAN, read : BOOLEAN, write : {"none", "idle", "armed"}]
  BY DEF TypeInv, Types
<1>3. CASE Start
  <2>1. /\ status = "Created" /\ status' = "Invoking" /\ events'.launch = TRUE
        /\ events'.write = events.write
        /\ UNCHANGED <<exit, isStop, cmd, inbox, link, server, wire, todo, calls>>
    BY <1>2, <1>3 DEF Start, network
  <2>2. Before /\ link = "down"
    BY <1>1, <2>1 DEF Stage, Later, Before
  <2>3. Before'
    BY <2>1, <2>2, KnownStays DEF Before, NotAsked, work
  <2> QED
    BY <2>1, <2>3, OrderlyAgain DEF Orderly, Stage, Reached
<1>4. CASE BeginSendAudio
  <2>1. /\ status = "Started" /\ Abandon("feeder", <<Do("add")>>) /\ "feeder" \in Users
        /\ UNCHANGED <<node, network, calls>>
    BY <1>4 DEF BeginSendAudio, Users
  <2>2. UNCHANGED <<status, exit, isStop, cmd, events, inbox, link, server, wire, calls>>
    BY <2>1 DEF node, network
  <2>3. /\ work' = work /\ todo'["feeder"] = <<Do("add")>>
        /\ \A u \in Users \ {"feeder"} : todo'[u] = todo[u]
    BY <1>1, <2>1, UserGoes
  <2>4. Stage'
    BY <1>1, <2>2, <2>3, StageKeeps DEF NotAsked
  <2>5. Reached /\ Reached'
    BY <2>1, <2>2 DEF Orderly, Reached
  <2>6. Calling("feeder")'
    BY <2>3, <2>5 DEF Calling
  <2> QED
    BY <1>1, <2>1, <2>2, <2>3, <2>4, <2>5, <2>6, UserAgain DEF Orderly
<1>5. CASE Stop
  <2>1. /\ Abandon(StopBy, <<Do("notify")>>) /\ StopBy \in Users /\ exit' = "Stopping"
        /\ UNCHANGED <<status, isStop, cmd, events, network, calls>>
    BY <1>5, SessionAssumption DEF Stop, Users
  <2>2. UNCHANGED <<inbox, link, server, wire>>
    BY <2>1 DEF network
  <2>3. /\ work' = work /\ todo'[StopBy] = <<Do("notify")>>
        /\ \A u \in Users \ {StopBy} : todo'[u] = todo[u]
    BY <1>1, <2>1, UserGoes
  <2>4. Stage'
    BY <1>1, <2>1, <2>2, <2>3, StageKeeps DEF NotAsked
  <2>5. Calling(StopBy)'
    BY <2>3 DEF Calling
  <2>6. Reached => Reached'
    BY <2>1, <2>2 DEF Reached
  <2> QED
    BY <1>1, <2>1, <2>2, <2>3, <2>4, <2>5, <2>6, UserAgain DEF Orderly
<1> QED
  BY <1>3, <1>4, <1>5

\* addAudioDataBuffer and cmdNotify up to what they send.
LEMMA AddInOrder ==
  ASSUME TypeInv, Orderly, NEW t \in Users, Add(t) \/ Notify(t) PROVE Orderly' /\ UNCHANGED calls
<1>1. Programs /\ Stage /\ Calling(t)
  BY DEF TypeInv, Orderly
<1>2. events \in [launch : BOOLEAN, read : BOOLEAN, write : {"none", "idle", "armed"}]
  BY DEF TypeInv, Types
<1>3. UNCHANGED <<status, exit, isStop, cmd, inbox, link, server, wire, calls>>
  BY DEF Add, Notify, node, network
<1>4. events'.launch = events.launch /\ (events'.write # "none" <=> events.write # "none")
  <2>1. events' = events \/ events' = [events EXCEPT !.write = IF @ = "none" THEN @ ELSE "armed"]
    BY DEF Add, Notify, node
  <2> QED
    BY <1>2, <2>1
<1>5. todo[t] # <<>> /\ Tail(todo[t]) = <<>>
  <2>1. todo[t] # <<>>
    BY DEF Add, Notify, At
  <2> QED
    BY <1>1, <2>1, CallingAt, CallSteps
<1>6. PICK steps \in {<<>>, <<Do("flush")>>, <<Do("directive")>>} :
         /\ Perform(t, steps) \/ (Continue(t) /\ steps = <<>>)
         /\ steps # <<>> => Reached
  <2>1. CASE Notify(t)
    <3>1. CASE status = "Started" /\ audio = 0
      BY <2>1, <3>1 DEF Notify, Orderly
    <3>2. CASE ~(status = "Started" /\ audio = 0)
      BY <2>1, <3>2 DEF Notify
    <3> QED
      BY <3>1, <3>2
  <2>2. CASE Add(t)
    <3>1. Reached
      BY <1>1, <1>5, <2>2, CallingAt DEF Add, At
    <3> QED
      BY <2>2, <3>1 DEF Add
  <2> QED
    BY <2>1, <2>2
<1>7. steps \o <<>> = steps
  BY <1>6, CallSteps
<1>8. work' = work /\ todo'[t] = steps /\ \A u \in Users \ {t} : todo'[u] = todo[u]
  <2>1. \/ Perform(t, steps) /\ steps = steps \o Tail(todo[t])
        \/ Continue(t) /\ steps = Tail(todo[t])
    BY <1>5, <1>6, <1>7
  <2> QED
    BY <1>1, <2>1, UserGoes
<1>9. Stage'
  BY <1>1, <1>3, <1>4, <1>8, StageKeeps DEF NotAsked
<1>10. Reached => Reached'
  BY <1>3 DEF Reached
<1>11. Calling(t)'
  BY <1>6, <1>8, <1>10 DEF Calling
<1> QED
  BY <1>1, <1>3, <1>4, <1>8, <1>9, <1>10, <1>11, UserAgain DEF Orderly

\* A server that has started the task hears on a link that is up.
LEMMA HeardIsUp ==
  ASSUME Orderly, server \in {"started", "heard"} PROVE link = "up" /\ events.write # "none"
<1>1. PICK tag \in Tags, e \in Callbacks, ms \in Batches, rest \in Rests : Position(tag, e, ms, rest)
  BY DEF Orderly, Stage, Before
<1>2. link = "up"
  BY <1>1 DEF Position, Table, Shaking, Ongoing, Telling, Reacting, Gone
<1> QED
  BY <1>2 DEF Orderly

\* A user's call sends, on a link that is up.
LEMMA UserFlushInOrder ==
  ASSUME TypeInv, LinkHolds, Orderly, NEW t \in Users, Flush(t) PROVE Orderly' /\ UNCHANGED calls
<1>1. Programs /\ Stage /\ Calling(t) /\ Types /\ Sequences
  BY DEF TypeInv, Orderly, StopInv
<1>2. UNCHANGED <<status, exit, isStop, cmd, inbox, link, server, calls>>
  BY DEF Flush
<1>3. todo[t] # <<>> /\ Tail(todo[t]) = <<>> /\ Reached
  <2>1. todo[t] # <<>> /\ Head(todo[t]).op = "flush"
    BY DEF Flush, At
  <2> QED
    BY <1>1, <2>1, CallingAt, CallSteps
<1>4. /\ events'.launch = events.launch /\ (events'.write # "none" <=> events.write # "none")
      /\ wire' = wire \/ wire' = Append(wire, "audio")
      /\ Perform(t, <<Do("directive")>>) \/ Continue(t)
  <2>1. CASE isStop
    BY <2>1 DEF Flush
  <2>2. CASE ~isStop
    <3>1. link = "up" /\ events.write # "none"
      BY <1>3, <2>2, HeardIsUp DEF Reached
    <3>2. PICK result \in Results :
             /\ SendAudio(result)
             /\ \/ result = "empty" /\ Perform(t, <<Do("directive")>>)
                \/ result = "rest" /\ Continue(t)
                \/ result = "error" /\ Abandon(t, OnError(t))
      BY <2>2 DEF Flush
    <3>3. /\ result # "error" /\ events'.write # "none" /\ events'.launch = events.launch
          /\ wire' = wire \/ wire' = Append(wire, "audio")
      BY <1>1, <3>1, <3>2, AudioGoes
    <3> QED
      BY <3>1, <3>2, <3>3
  <2> QED
    BY <2>1, <2>2
<1>5. NotAsked => NotAsked'
  BY <1>1, <1>2, <1>4 DEF NotAsked, Sequences
<1>6. /\ work' = work /\ \A u \in Users \ {t} : todo'[u] = todo[u]
      /\ todo'[t] \in {<<>>, <<Do("directive")>>}
  <2>1. CASE Continue(t)
    BY <1>1, <1>3, <2>1, UserGoes
  <2>2. CASE Perform(t, <<Do("directive")>>)
    <3>1. <<Do("directive")>> = <<Do("directive")>> \o Tail(todo[t])
      BY <1>3, CallSteps
    <3> QED
      BY <1>1, <2>2, <3>1, UserGoes
  <2> QED
    BY <1>4, <2>1, <2>2
<1>7. Stage'
  BY <1>1, <1>2, <1>4, <1>5, <1>6, StageKeeps
<1>8. Reached'
  BY <1>2, <1>3 DEF Reached
<1>9. Calling(t)'
  BY <1>6, <1>8 DEF Calling
<1> QED
  BY <1>1, <1>2, <1>4, <1>6, <1>7, <1>8, <1>9, UserAgain DEF Orderly

LEMMA UserDirectiveInOrder ==
  ASSUME TypeInv, LinkHolds, Orderly, NEW t \in Users, Directive(t) PROVE Orderly' /\ UNCHANGED calls
<1>1. Programs /\ Stage /\ Calling(t) /\ Sequences /\ cmd \in Seq(Directives)
  BY DEF TypeInv, Orderly, StopInv, Sequences
<1>2. UNCHANGED <<status, exit, inbox, link, server, calls>> /\ (isStop => isStop')
      /\ (isStop' => isStop \/ exit = "Stopping")
  BY DEF Directive, MustStop
<1>3. todo[t] # <<>> /\ Tail(todo[t]) = <<>> /\ Reached
  <2>1. todo[t] # <<>> /\ Head(todo[t]).op = "directive"
    BY DEF Directive, At
  <2> QED
    BY <1>1, <2>1, CallingAt, CallSteps
<1>4. Continue(t) /\ events' = events /\ (NotAsked => NotAsked')
  <2>1. CASE UNCHANGED <<cmd, wire, events>> /\ Continue(t)
    BY <2>1 DEF NotAsked
  <2>2. ASSUME MustStop \/ (status = "Started" /\ exit = "Invalid"), NEW result \in Results,
               SendCmd(IF MustStop THEN Append(cmd, "stop") ELSE cmd, result),
               IF result = "error" THEN Abandon(t, OnError(t)) ELSE Continue(t)
        PROVE  Continue(t) /\ events' = events /\ (NotAsked => NotAsked')
    <3>1. ~isStop
      BY <2>2 DEF MustStop, Orderly
    <3>2. link = "up"
      BY <1>3, <3>1, HeardIsUp DEF Reached
    <3>3. (IF MustStop THEN Append(cmd, "stop") ELSE cmd) \in Seq(Directives)
      BY <1>1, AppendStops DEF Directives
    <3>4. result # "error" /\ UNCHANGED events
      BY <1>1, <2>2, <3>2, <3>3, SendsWell
    <3>5. ASSUME NotAsked
          PROVE  \A i \in DOMAIN (IF MustStop THEN Append(cmd, "stop") ELSE cmd) :
                    (IF MustStop THEN Append(cmd, "stop") ELSE cmd)[i] # "start"
      BY <1>1, <3>5 DEF NotAsked
    <3>6. NotAsked => NotAsked'
      BY <1>1, <2>2, <3>2, <3>3, <3>5, SendsWell
    <3> QED
      BY <2>2, <3>4, <3>6
  <2> QED
    BY <2>1, <2>2 DEF Directive
<1>5. work' = work /\ todo'[t] = <<>> /\ \A u \in Users \ {t} : todo'[u] = todo[u]
  BY <1>1, <1>3, <1>4, UserGoes
<1>6. Stage'
  BY <1>1, <1>2, <1>4, <1>5, StageKeeps
<1>7. Reached'
  BY <1>2, <1>3 DEF Reached
<1>8. Calling(t)'
  BY <1>5 DEF Calling
<1> QED
  BY <1>1, <1>2, <1>4, <1>5, <1>6, <1>7, <1>8, UserAgain DEF Orderly

\* Every step that is not a cancel.
LEMMA OrderlyKeeps ==
  ASSUME TypeInv, LinkHolds, ServerKeepsOn, Orderly, [Next]_vars, exit # "Cancel", exit' # "Cancel"
  PROVE  Orderly' /\ (All!Next \/ UNCHANGED calls)
<1>1. Programs /\ Stage /\ \A t \in Users : Calling(t)
  BY DEF TypeInv, Orderly
<1>2. CASE EventThread
  <2>1. CASE Running("worker")
    <3>1. ASSUME Add("worker") \/ Notify("worker") \/ Disconnect("worker") PROVE FALSE
      <4>1. work # <<>> /\ Head(work).op \in {"add", "notify", "disconnect"}
        BY <3>1 DEF Add, Notify, Disconnect, At, work
      <4>2. PICK tag \in Tags, e \in Callbacks, ms \in Batches, rest \in Rests : Standing(tag, e, ms, rest)
        BY <1>1, <4>1, WhereItStands
      <4> QED
        BY <4>1, <4>2 DEF Standing
    <3> QED
      BY <2>1, <3>1, FlushInOrder, DirectiveInOrder, EventInOrder, CallInOrder, ClosedInOrder,
         CloseNodeInOrder DEF Running
  <2> QED
    BY <1>2, <2>1, LaunchInOrder, ConnectedInOrder, ReadInOrder, CommandInOrder, ParseInOrder,
       AfterInOrder, BeginInOrder, WriteInOrder DEF EventThread
<1>3. CASE User
  <2>1. ~Cancel
    BY DEF Cancel
  <2> QED
    BY <1>3, <2>1, UserInOrder DEF User
<1>4. CASE Server
  BY <1>4, ServerInOrder
<1>5. CASE Fault
  BY <1>5, ConnectFailsInOrder, NoTimeout, NoBreak, ServerInOrder DEF Fault
<1>6. ASSUME NEW t \in Users, Running(t)
      PROVE  Orderly' /\ UNCHANGED calls
  <2>1. ASSUME Event(t) \/ Call(t) \/ Closed(t) \/ CloseNode(t) \/ Disconnect(t) PROVE FALSE
    <3>1. todo[t] # <<>> /\ Head(todo[t]).op \in {"event", "call", "closed", "close", "disconnect"}
      BY <2>1 DEF Event, Call, Closed, CloseNode, Disconnect, At
    <3> QED
      BY <1>1, <3>1, CallingAt
  <2> QED
    BY <1>6, <2>1, AddInOrder, UserFlushInOrder, UserDirectiveInOrder DEF Running
<1>7. CASE UNCHANGED vars
  <2>1. UNCHANGED <<status, exit, isStop, cmd, events, inbox, link, server, wire, todo, calls>>
    BY <1>7 DEF vars, node, network
  <2>2. Stage'
    BY <1>1, <2>1, StageKeeps DEF NotAsked, work
  <2> QED
    BY <2>1, <2>2, OrderlyAgain DEF Orderly, Reached
<1> QED
  BY <1>2, <1>3, <1>4, <1>5, <1>6, <1>7 DEF Next

(***************************************************************************)
(* After cancel the threads run their programs to the end, and come to no  *)
(* further callback: at most the one whose check came before is made.      *)
(***************************************************************************)
LEMMA SilentOnes ==
  /\ \A op \in {"add", "notify", "flush", "directive", "closed", "close", "disconnect",
                "command", "begin"} : Do(op) \in SilentSteps
  /\ \A e \in Callbacks : On("event", e) \in SilentSteps /\ On("after", e) \in SilentSteps
  /\ \A m \in Replies : On("parse", m) \in SilentSteps
  /\ \A s \in SilentSteps : s.op # "call"
  /\ SilentSteps \subseteq ParseSteps
<1>1. \A op, e : Do(op).op = op /\ On(op, e).op = op
  BY DEF Do, On
<1> QED
  BY <1>1, StepsAreSteps DEF SilentSteps

LEMMA SilentPrograms ==
  /\ TellFailure \in Seq(SilentSteps) /\ <<>> \in Seq(SilentSteps)
  /\ \A op \in {"add", "notify", "flush", "directive", "closed", "close", "disconnect",
                "command", "begin"} : <<Do(op)>> \in Seq(SilentSteps)
  /\ \A t : OnError(t) \in Seq(SilentSteps)
  /\ GiveUp \in Seq(SilentSteps)
  /\ <<Do("close"), On("event", "Close")>> \in Seq(SilentSteps)
<1>1. {On("event", "TaskFailed"), On("event", "Close"), Do("close")} \subseteq SilentSteps
  BY SilentOnes DEF Callbacks
<1>2. TellFailure \in Seq(SilentSteps) /\ <<Do("close"), On("event", "Close")>> \in Seq(SilentSteps)
  BY <1>1 DEF TellFailure
<1>3. \A op \in {"add", "notify", "flush", "directive", "closed", "close", "disconnect",
                 "command", "begin"} : <<Do(op)>> \in Seq(SilentSteps)
  BY SilentOnes, OneStep
<1>4. <<>> \in Seq(SilentSteps)
  OBVIOUS
<1>5. <<Do("close")>> \in Seq(SilentSteps) /\ <<Do("disconnect")>> \in Seq(SilentSteps)
      /\ <<Do("begin")>> \in Seq(SilentSteps)
  BY <1>3
<1>6. /\ FailedRead \in Seq(SilentSteps) /\ FailedWrite \in Seq(SilentSteps)
      /\ FailedCall \in Seq(SilentSteps)
  BY <1>2, <1>4, <1>5, ConcatIsSeq DEF FailedRead, FailedWrite, FailedCall
<1>7. (\A t : OnError(t) \in Seq(SilentSteps)) /\ GiveUp \in Seq(SilentSteps)
  BY <1>5, <1>6 DEF OnError, GiveUp
<1> QED
  BY <1>2, <1>3, <1>4, <1>7

\* Cancel finds the event thread before a callback, or on its way into one.
LEMMA CancelSilences ==
  ASSUME TypeInv, Orderly, Cancel PROVE Silenced'
<1>1. Stage /\ Programs /\ \A t \in Users : Calling(t)
  BY DEF TypeInv, Orderly
<1>2. UNCHANGED <<todo, calls>>
  BY DEF Cancel
<1>3. \A t \in Users : todo[t] \in Seq(SilentSteps)
  <2>1. /\ <<Do("add")>> \in Seq(SilentSteps) /\ <<Do("notify")>> \in Seq(SilentSteps)
        /\ <<Do("flush")>> \in Seq(SilentSteps) /\ <<Do("directive")>> \in Seq(SilentSteps)
        /\ <<>> \in Seq(SilentSteps)
    BY SilentPrograms
  <2> QED
    BY <1>1, <2>1 DEF Calling
<1>4. Fitting
  <2>1. CASE work = <<>>
    BY <2>1, SilentPrograms DEF Fitting
  <2>2. CASE work # <<>>
    <3>1. PICK tag \in Tags, e \in Callbacks, ms \in Batches, rest \in Rests : Position(tag, e, ms, rest)
      BY <1>1, <2>2, WhereItStands
    <3> DEFINE lead == Lead(tag, e)
               more == Parses(ms) \o rest
    <3>2. more \in Seq(SilentSteps)
      <4>1. Parses(ms) \in Seq(SilentSteps)
        <5>1. ms \in Seq(Replies)
          BY BatchesAre
        <5> DEFINE step(m) == On("parse", m)
        <5>2. \A i \in 1 .. Len(ms) : step(ms[i]) \in SilentSteps
          <6>1. \A i \in 1 .. Len(ms) : ms[i] \in Replies
            BY <5>1
          <6> QED
            BY <6>1, SilentOnes
        <5>3. Parses(ms) = [i \in 1 .. Len(ms) |-> step(ms[i])]
          BY <5>1 DEF Parses
        <5> HIDE DEF step
        <5> QED
          BY <5>1, <5>2, <5>3
      <4>2. rest \in Seq(SilentSteps)
        BY SilentPrograms DEF Rests
      <4> QED
        BY <4>1, <4>2, ConcatIsSeq
    <3>3. work = lead \o more
      BY <3>1 DEF Position, Ahead
    <3>4. /\ <<On("after", e)>> \in Seq(SilentSteps) /\ <<On("event", "Close")>> \in Seq(SilentSteps)
          /\ <<On("event", "TaskFailed"), On("event", "Close")>> \in Seq(SilentSteps)
          /\ <<>> \in Seq(SilentSteps)
      <4>1. /\ On("after", e) \in SilentSteps /\ On("event", "Close") \in SilentSteps
            /\ On("event", "TaskFailed") \in SilentSteps
        BY SilentOnes DEF Callbacks
      <4> QED
        BY <4>1, OneStep, TwoSteps, SilentPrograms
    <3>5. CASE tag \notin {"call", "end call", "fail call"}
      <4>1. CASE tag \in {"idle", "over"}
        <5>1. lead \in Seq(SilentSteps)
          BY <3>4, <4>1, LeadsAre
        <5> HIDE DEF lead, more
        <5>2. work \in Seq(SilentSteps)
          BY <3>2, <3>3, <5>1, ConcatIsSeq
        <5> QED
          BY <5>2 DEF Fitting
      <4>2. CASE tag \notin {"idle", "over"}
        <5>1. lead \in Seq(ParseSteps) /\ lead # <<>>
          BY <4>2, LeadsAre
        <5>2. /\ Head(lead) \in SilentSteps
              /\ Tail(lead) \in Seq(SilentSteps)
          <6>1. CASE tag \in {"command", "flush", "directive", "closed"}
            <7>1. Head(lead) = Do(tag) /\ Tail(lead) = <<>>
              BY <6>1, LeadsAre
            <7>2. Do(tag) \in SilentSteps
              BY <6>1, SilentOnes
            <7> QED
              BY <3>4, <7>1, <7>2
          <6>2. CASE tag \in {"after", "end event", "fail event"}
            BY <3>4, <6>2, LeadsAre, SilentOnes DEF Callbacks
          <6>3. CASE tag \in {"end", "fail", "over close"}
            BY <3>4, <6>3, LeadsAre, SilentOnes
          <6> QED
            BY <3>5, <4>2, <6>1, <6>2, <6>3 DEF Tags
        <5> HIDE DEF lead, more
        <5>3. lead \in Seq(SilentSteps)
          BY <5>1, <5>2, PutTogether
        <5>4. work \in Seq(SilentSteps)
          BY <3>2, <3>3, <5>3, ConcatIsSeq
        <5> QED
          BY <5>4 DEF Fitting
      <4> QED
        BY <4>1, <4>2
    <3>6. CASE tag \in {"call", "end call", "fail call"}
      <4>1. lead \in Seq(ParseSteps) /\ lead # <<>> /\ Tail(lead) \in Seq(SilentSteps)
        BY <3>4, <3>6, LeadsAre
      <4>2. Head(lead).op = "call" /\ \E k \in {"started", "ended", "closed"} : <<Known, Head(lead).about, k>> \in Turns
        <5>1. CASE tag = "call"
          <6>1. Head(lead) = On("call", e)
            BY <5>1, LeadsAre
          <6>2. Head(lead).op = "call" /\ Head(lead).about = e
            BY <6>1 DEF On
          <6> QED
            BY <3>1, <5>1, <6>2 DEF Position, Table, Telling
        <5>2. CASE tag = "end call"
          <6>1. Head(lead) = On("call", "Close")
            BY <5>2, LeadsAre
          <6>2. Head(lead).op = "call" /\ Head(lead).about = "Close"
            BY <6>1 DEF On
          <6>3. Known = "ended"
            BY <3>1, <5>2 DEF Position, Table
          <6>4. <<Known, Head(lead).about, "closed">> \in Turns
            BY <6>2, <6>3 DEF Turns
          <6> QED
            BY <6>2, <6>4
        <5>3. CASE tag = "fail call"
          <6>1. Head(lead) = On("call", "TaskFailed")
            BY <5>3, LeadsAre
          <6>2. Head(lead).op = "call" /\ Head(lead).about = "TaskFailed"
            BY <6>1 DEF On
          <6>3. Known = "new"
            BY <3>1, <5>3 DEF Position, Table
          <6>4. <<Known, Head(lead).about, "ended">> \in Turns
            BY <6>2, <6>3 DEF Turns
          <6> QED
            BY <6>2, <6>4
        <5> QED
          BY <3>6, <5>1, <5>2, <5>3
      <4>3. more \in Seq(ParseSteps)
        BY BatchesAre, RestsAre, ParsesAre, ConcatIsSeq
      <4> HIDE DEF lead, more
      <4>4. work # <<>> /\ Head(work) = Head(lead) /\ Tail(work) = Tail(lead) \o more
        BY <3>3, <4>1, <4>3, HeadOfConcat
      <4>5. Tail(work) \in Seq(SilentSteps)
        BY <3>2, <4>1, <4>4, ConcatIsSeq
      <4> QED
        BY <4>2, <4>4, <4>5 DEF Fitting
    <3> QED
      BY <3>5, <3>6
  <2> QED
    BY <2>1, <2>2
<1> QED
  BY <1>2, <1>3, <1>4, KnownStays DEF Silenced, Fitting, work

\* The programs of a cancelled session get no new callback.
LEMMA SilentAgain ==
  ASSUME Programs, Silenced, UNCHANGED calls, NEW t \in Threads, todo[t] \in Seq(SilentSteps),
         todo[t] # <<>>, NEW steps \in Seq(SilentSteps),
         Continue(t) \/ Perform(t, steps) \/ Abandon(t, steps)
  PROVE  Silenced'
<1>1. Tail(todo[t]) \in Seq(SilentSteps)
  BY TailIsSeq
<1>2. steps \o Tail(todo[t]) \in Seq(SilentSteps)
  BY <1>1, ConcatIsSeq
<1>3. todo'[t] \in Seq(SilentSteps) /\ \A u \in Threads \ {t} : todo'[u] = todo[u]
  BY <1>1, <1>2 DEF Continue, Perform, Abandon, Programs
<1>4. \A u \in Users : todo'[u] \in Seq(SilentSteps)
  BY <1>3 DEF Silenced, Users, Threads
<1>5. Fitting'
  <2>1. CASE t = "worker"
    BY <1>3, <2>1 DEF Fitting, work
  <2>2. CASE t # "worker"
    <3>1. work' = work
      BY <1>3, <2>2 DEF work, Threads
    <3> QED
      BY <3>1, KnownStays DEF Silenced, Fitting
  <2> QED
    BY <2>1, <2>2
<1> QED
  BY <1>4, <1>5 DEF Silenced

\* The event thread at rest begins a program without a callback.
LEMMA SilentRestart ==
  ASSUME Programs, Silenced, UNCHANGED calls, NEW steps \in Seq(SilentSteps),
         Abandon("worker", steps)
  PROVE  Silenced'
<1>1. work' = steps /\ \A u \in Users : todo'[u] = todo[u]
  BY WorkerOnly DEF Programs, Abandon, Threads, work
<1> QED
  BY <1>1 DEF Silenced, Fitting

LEMMA SilentStays ==
  ASSUME Silenced, UNCHANGED <<todo, calls>> PROVE Silenced'
BY KnownStays DEF Silenced, Fitting, work

\* A thread that is not on its way into a callback has a silent program.
LEMMA SilentAt ==
  ASSUME Silenced, NEW t \in Threads, todo[t] # <<>>, Head(todo[t]).op # "call"
  PROVE  todo[t] \in Seq(SilentSteps)
BY DEF Silenced, Fitting, work, Threads, Users

LEMMA SilentRunning ==
  ASSUME TypeInv, Silenced, exit = "Cancel", NEW t \in Threads, Running(t), ~Call(t)
  PROVE  Silenced' /\ UNCHANGED calls
<1>1. Programs
  BY DEF TypeInv
<1>2. todo[t] # <<>> /\ Head(todo[t]).op # "call"
  BY DEF Running, Add, Notify, Flush, Directive, Event, Closed, CloseNode, Disconnect, At
<1>3. todo[t] \in Seq(SilentSteps)
  BY <1>2, SilentAt
<1>4. UNCHANGED calls
  BY DEF Running, Add, Notify, Flush, Directive, Event, Closed, CloseNode, Disconnect
<1>5. /\ <<Do("flush")>> \in Seq(SilentSteps) /\ <<Do("directive")>> \in Seq(SilentSteps)
      /\ <<>> \in Seq(SilentSteps) /\ OnError(t) \in Seq(SilentSteps)
  BY SilentPrograms
<1>6. CASE Add(t)
  <2>1. Continue(t) \/ Perform(t, <<Do("flush")>>) \/ Perform(t, <<Do("directive")>>)
    BY <1>6 DEF Add
  <2> QED
    BY <1>1, <1>2, <1>3, <1>4, <1>5, <2>1, SilentAgain
<1>7. CASE Notify(t)
  <2>1. Continue(t) \/ Perform(t, <<Do("directive")>>)
    BY <1>7 DEF Notify
  <2> QED
    BY <1>1, <1>2, <1>3, <1>4, <1>5, <2>1, SilentAgain
<1>8. CASE Flush(t)
  <2>1. Continue(t) \/ Perform(t, <<Do("directive")>>) \/ Abandon(t, OnError(t))
    BY <1>8 DEF Flush
  <2> QED
    BY <1>1, <1>2, <1>3, <1>4, <1>5, <2>1, SilentAgain
<1>9. CASE Directive(t)
  <2>1. Continue(t) \/ Abandon(t, OnError(t))
    BY <1>9 DEF Directive
  <2> QED
    BY <1>1, <1>2, <1>3, <1>4, <1>5, <2>1, SilentAgain
<1>10. CASE Event(t) \/ Closed(t) \/ CloseNode(t) \/ Disconnect(t)
  <2>1. Continue(t)
    BY <1>10 DEF Event, Closed, CloseNode, Disconnect
  <2> QED
    BY <1>1, <1>2, <1>3, <1>4, <1>5, <2>1, SilentAgain
<1> QED
  BY <1>4, <1>6, <1>7, <1>8, <1>9, <1>10 DEF Running

LEMMA SilentEventThread ==
  ASSUME TypeInv, Silenced, exit = "Cancel", Command \/ Parse \/ After \/ Begin
  PROVE  Silenced' /\ UNCHANGED calls
<1>1. Programs /\ "worker" \in Threads
  BY DEF TypeInv, Threads
<1>2. todo["worker"] # <<>> /\ Head(todo["worker"]).op # "call"
  BY DEF Command, Parse, After, Begin, At
<1>3. todo["worker"] \in Seq(SilentSteps)
  BY <1>1, <1>2, SilentAt
<1>4. UNCHANGED calls
  BY DEF Command, Parse, After, Begin
<1>5. /\ <<Do("flush")>> \in Seq(SilentSteps) /\ <<Do("close")>> \in Seq(SilentSteps)
      /\ <<>> \in Seq(SilentSteps) /\ OnError("worker") \in Seq(SilentSteps)
      /\ GiveUp \in Seq(SilentSteps) /\ <<Do("close"), On("event", "Close")>> \in Seq(SilentSteps)
  BY SilentPrograms
<1>6. CASE Command
  <2>1. Continue("worker") \/ Abandon("worker", OnError("worker"))
    BY <1>6 DEF Command
  <2> QED
    BY <1>1, <1>2, <1>3, <1>4, <1>5, <2>1, SilentAgain
<1>7. CASE Parse
  <2>1. Abandon("worker", <<Do("close")>>) \/ Abandon("worker", GiveUp)
    BY <1>7 DEF Parse
  <2> QED
    BY <1>1, <1>2, <1>3, <1>4, <1>5, <2>1, SilentAgain
<1>8. CASE After
  <2>1. Continue("worker") \/ Perform("worker", <<Do("close"), On("event", "Close")>>)
    BY <1>8 DEF After
  <2> QED
    BY <1>1, <1>2, <1>3, <1>4, <1>5, <2>1, SilentAgain
<1>9. CASE Begin
  <2>1. Continue("worker") \/ Perform("worker", <<Do("flush")>>)
    BY <1>9 DEF Begin
  <2> QED
    BY <1>1, <1>2, <1>3, <1>4, <1>5, <2>1, SilentAgain
<1> QED
  BY <1>4, <1>6, <1>7, <1>8, <1>9

LEMMA SilentAtRest ==
  ASSUME TypeInv, Silenced, exit = "Cancel",
         Launch \/ Connected \/ ConnectFails \/ Read \/ Write \/ Timeout
  PROVE  Silenced' /\ UNCHANGED calls
<1>1. Programs
  BY DEF TypeInv
<1>2. UNCHANGED calls
  BY DEF Launch, Connected, ConnectFails, Read, Write, Timeout
<1>3. CASE Launch \/ Connected \/ ConnectFails
  <2>1. todo' = todo
    BY <1>3 DEF Launch, Connected, ConnectFails, Dial
  <2> QED
    BY <1>2, <2>1, SilentStays
<1>4. CASE Read \/ Write \/ Timeout
  <2>1. <<Do("close")>> \o <<>> = <<Do("close")>> /\ <<Do("close")>> \in Seq(SilentSteps)
    BY CallSteps, SilentPrograms
  <2>2. Abandon("worker", <<Do("close")>>)
    BY <1>4, <2>1 DEF Read, Write, Timeout
  <2> QED
    BY <1>1, <1>2, <2>1, <2>2, SilentRestart
<1> QED
  BY <1>2, <1>3, <1>4

\* The one callback whose check came before the cancel.
LEMMA LateCall ==
  ASSUME TypeInv, Silenced, NEW t \in Threads, Call(t) PROVE Silenced' /\ All!Next
<1>1. Programs /\ calls \in Seq(Call_)
  BY DEF TypeInv, Types
<1>2. todo[t] # <<>> /\ Head(todo[t]).op = "call" /\ About(t) = Head(todo[t]).about
  BY DEF Call, At, About
<1>3. todo[t] \notin Seq(SilentSteps)
  <2>1. todo[t] \in Seq(SilentSteps) => Head(todo[t]) \in SilentSteps
    BY <1>2, TailIsSeq
  <2> QED
    BY <1>2, <2>1, SilentOnes
<1>4. t = "worker"
  BY <1>3 DEF Silenced, Threads
<1>5. work # <<>> /\ Head(work).op = "call" /\ About("worker") = Head(work).about
  BY <1>2, <1>4 DEF work
<1>6. PICK k \in {"started", "ended", "closed"} : <<Known, Head(work).about, k>> \in Turns
  BY <1>3, <1>4 DEF Silenced, Fitting, work
<1>7. Tail(work) \in Seq(SilentSteps)
  BY <1>3, <1>4 DEF Silenced, Fitting, work
<1> DEFINE event == Head(work).about
           c == [by |-> "worker", event |-> event, late |-> exit = "Cancel"]
<1>8. calls' = Append(calls, c) /\ c.event = event
  BY <1>4, <1>5 DEF Call
<1>9. event \in Callbacks /\ exit \in {"Invalid", "Stopping", "Cancel"}
  BY <1>6 DEF Turns, Callbacks, TypeInv, Types
<1>10. c \in Call_ /\ <<Known, c.event, k>> \in Turns
  BY <1>6, <1>8, <1>9 DEF Call_, Threads
<1>11. All!Next
  <2> HIDE DEF c, event
  <2> QED
    BY <1>1, <1>8, <1>10, CallTurns
<1>12. Continue("worker") \/ Perform("worker", <<Do("closed")>>)
  BY <1>4 DEF Call
<1>13. work' \in Seq(SilentSteps)
  <2>1. <<Do("closed")>> \in Seq(SilentSteps)
    BY SilentPrograms
  <2>2. <<Do("closed")>> \o Tail(work) \in Seq(SilentSteps)
    BY <1>7, <2>1, ConcatIsSeq
  <2> QED
    BY <1>1, <1>7, <1>12, <2>2 DEF Continue, Perform, Programs, Threads, work
<1>14. \A u \in Users : todo'[u] = todo[u]
  BY <1>1, <1>12, WorkerOnly
<1> QED
  BY <1>11, <1>13, <1>14 DEF Silenced, Fitting

LEMMA SilentKeeps ==
  ASSUME TypeInv, Silenced, exit = "Cancel", [Next]_vars
  PROVE  Silenced' /\ exit' = "Cancel" /\ (All!Next \/ UNCHANGED calls)
<1>1. exit' = "Cancel"
  BY DEF Next, EventThread, User, Server, Fault, Running, Launch, Connected, Read, Command, Parse,
     After, Begin, Write, Add, Notify, Flush, Directive, Event, Call, Closed, CloseNode, Disconnect,
     Start, BeginSendAudio, Stop, Cancel, ServerUpgrades, ServerStarts, ServerReports,
     ServerCompletes, ServerRefuses, ServerFailsTask, Reply, ConnectFails, Timeout, LinkBreaks,
     vars, node
<1>2. ASSUME NEW t \in Threads, Running(t)
      PROVE  Silenced' /\ (All!Next \/ UNCHANGED calls)
  BY <1>2, LateCall, SilentRunning
<1>3. CASE EventThread
  BY <1>1, <1>2, <1>3, SilentEventThread, SilentAtRest DEF EventThread, Threads
<1>4. CASE User
  <2>1. FALSE
    BY <1>4 DEF User, Start, BeginSendAudio, Stop, Cancel
  <2> QED
    BY <2>1
<1>5. CASE Server \/ LinkBreaks \/ ServerRefuses \/ ServerFailsTask \/ UNCHANGED vars
  <2>1. UNCHANGED <<todo, calls>>
    BY <1>5 DEF Server, LinkBreaks, ServerUpgrades, ServerStarts, ServerReports, ServerCompletes,
       ServerRefuses, ServerFailsTask, Reply, vars
  <2> QED
    BY <1>1, <2>1, SilentStays
<1>6. CASE ConnectFails \/ Timeout
  BY <1>1, <1>6, SilentAtRest
<1>7. ASSUME NEW t \in Users, Running(t) PROVE t \in Threads
  BY <1>7 DEF Threads
<1> QED
  BY <1>1, <1>2, <1>3, <1>4, <1>5, <1>6, <1>7 DEF Next, Fault

\* The callbacks of a request arrive in the order of TaskEvents, on a link that
\* holds once it is up, from a server that gives up a task only before it is
\* started: one start, results, one end and one Close, with the calls of the two
\* user threads, stop and cancel at any moment. (parseFrame, handlerEvent.)
THEOREM CallbacksAreOrdered ==
  ASSUME LinkHolds, ServerKeepsOn PROVE Spec => CallbacksInOrder
<1>1. Init => OrderInv /\ All!Init
  <2> SUFFICES ASSUME Init PROVE OrderInv /\ All!Init
    OBVIOUS
  <2>1. Known = "new" /\ Reports = <<>>
    BY DEF Init, Known, Made, Reports
  <2>2. Before /\ NotAsked
    BY <2>1 DEF Init, Before, NotAsked, work, Threads, NoEvents
  <2>3. \A t \in Users : Calling(t)
    BY DEF Init, Calling, Threads
  <2>4. Orderly
    BY <2>2, <2>3 DEF Init, Orderly, Stage, NoEvents
  <2> QED
    BY <2>1, <2>4 DEF Init, OrderInv, All!Init
<1>2. OrderInv /\ TypeInv /\ [Next]_vars => OrderInv' /\ [All!Next]_Reports
  <2> SUFFICES ASSUME OrderInv, TypeInv, [Next]_vars PROVE OrderInv' /\ [All!Next]_Reports
    OBVIOUS
  <2>1. UNCHANGED calls => UNCHANGED Reports
    BY DEF Reports
  <2>2. CASE exit = "Cancel"
    BY <2>1, <2>2, SilentKeeps DEF OrderInv
  <2>3. CASE exit # "Cancel" /\ exit' # "Cancel"
    BY <2>1, <2>3, OrderlyKeeps DEF OrderInv
  <2>4. CASE exit # "Cancel" /\ exit' = "Cancel"
    <3>1. Cancel
      BY <2>4 DEF Next, EventThread, User, Server, Fault, Running, Launch, Connected, Read,
         Command, Parse, After, Begin, Write, Add, Notify, Flush, Directive, Event, Call, Closed,
         CloseNode, Disconnect, Start, BeginSendAudio, Stop, ServerUpgrades, ServerStarts,
         ServerReports, ServerCompletes, ServerRefuses, ServerFailsTask, Reply, ConnectFails,
         Timeout, LinkBreaks, vars, node
    <3>2. UNCHANGED calls
      BY <3>1 DEF Cancel
    <3> QED
      BY <2>1, <2>4, <3>1, <3>2, CancelSilences DEF OrderInv
  <2> QED
    BY <2>2, <2>3, <2>4
<1> QED
  BY <1>1, <1>2, TypeInvInit, TypeInvKeeps, PTL DEF Spec, CallbacksInOrder, All!Spec

(***************************************************************************)
(* Cancel, whatever fails: a thread makes at most one callback more. A     *)
(* callback is under way only at the head of a program, and after cancel   *)
(* no program comes to another.                                            *)
(***************************************************************************)
IsLate(t, i) == i \in DOMAIN calls /\ calls[i].by = t /\ calls[i].late

Silent(t) == todo[t] \in Seq(SilentSteps)
InCallback(t) == todo[t] # <<>> /\ Head(todo[t]).op = "call" /\ Tail(todo[t]) \in Seq(SilentSteps)

LateInv == \A t \in Threads :
  /\ Silent(t) \/ InCallback(t)
  /\ \A i : IsLate(t, i) => exit = "Cancel" /\ Silent(t)
  /\ \A i, j : IsLate(t, i) /\ IsLate(t, j) => i = j

\* A thread's step that is no callback.
LEMMA LateAgain ==
  ASSUME LateInv, UNCHANGED calls, exit = "Cancel" => exit' = "Cancel",
         NEW t \in Threads, \A u \in Threads \ {t} : todo'[u] = todo[u],
         Silent(t)' \/ (exit # "Cancel" /\ InCallback(t)')
  PROVE  LateInv'
<1>1. \A u, i : IsLate(u, i)' <=> IsLate(u, i)
  BY DEF IsLate
<1>2. ASSUME NEW u \in Threads
      PROVE  /\ Silent(u)' \/ InCallback(u)'
             /\ \A i : IsLate(u, i)' => exit' = "Cancel" /\ Silent(u)'
             /\ \A i, j : IsLate(u, i)' /\ IsLate(u, j)' => i = j
  <2>1. CASE u = t
    BY <1>1, <2>1 DEF LateInv
  <2>2. CASE u # t
    <3>1. (Silent(u)' <=> Silent(u)) /\ (InCallback(u)' <=> InCallback(u))
      BY <2>2 DEF Silent, InCallback
    <3> QED
      BY <1>1, <3>1 DEF LateInv
  <2> QED
    BY <2>1, <2>2
<1> QED
  BY <1>2 DEF LateInv

\* The threads go on like that, and after cancel none comes to a callback.
LateGoes == /\ LateInv'
            /\ exit = "Cancel" => \A t \in Threads : Silent(t)' \/ todo'[t] = todo[t]

\* What a thread that is not in a callback may do.
LEMMA LateStep ==
  ASSUME Programs, LateInv, UNCHANGED calls, exit = "Cancel" => exit' = "Cancel",
         NEW t \in Threads, todo[t] # <<>> => Head(todo[t]).op # "call",
         NEW steps \in Seq(SilentSteps),
         \/ todo[t] # <<>> /\ (Continue(t) \/ Perform(t, steps))
         \/ Abandon(t, steps)
  PROVE  LateGoes
<1>1. Silent(t)
  BY DEF LateInv, InCallback
<1>2. /\ todo[t] # <<>> => Tail(todo[t]) \in Seq(SilentSteps)
      /\ todo[t] # <<>> => steps \o Tail(todo[t]) \in Seq(SilentSteps)
  BY <1>1, TailIsSeq, ConcatIsSeq DEF Silent
<1>3. todo'[t] \in Seq(SilentSteps) /\ \A u \in Threads \ {t} : todo'[u] = todo[u]
  BY <1>2 DEF Continue, Perform, Abandon, Programs
<1>4. LateInv'
  BY <1>3, LateAgain DEF Silent
<1> QED
  BY <1>3, <1>4 DEF LateGoes, Silent

\* The check of _exitStatus, and the way into the callback.
LEMMA LateEvent ==
  ASSUME TypeInv, LateInv, NEW t \in Threads, NEW e \in Callbacks, NEW steps \in Seq(SilentSteps),
         UNCHANGED <<calls, exit>>, exit # "Cancel",
         todo[t] # <<>>, Head(todo[t]).op # "call", Perform(t, <<On("call", e)>> \o steps)
  PROVE  LateGoes
<1>1. Programs /\ Silent(t)
  BY DEF LateInv, InCallback, TypeInv
<1>2. Tail(todo[t]) \in Seq(SilentSteps) /\ Tail(todo[t]) \in Seq(ParseSteps) /\ steps \in Seq(ParseSteps)
  BY <1>1, TailIsSeq, SilentOnes DEF Silent
<1>3. On("call", e) \in ParseSteps
  BY StepsAreSteps
<1>4. /\ <<On("call", e)>> \in Seq(ParseSteps) /\ <<On("call", e)>> # <<>>
      /\ Head(<<On("call", e)>>) = On("call", e) /\ Tail(<<On("call", e)>>) = <<>>
  BY <1>3, OneStep
<1> DEFINE call == <<On("call", e)>>
           more == steps \o Tail(todo[t])
<1>5. more \in Seq(SilentSteps) /\ more \in Seq(ParseSteps)
  BY <1>2, ConcatIsSeq
<1>6. (call \o steps) \o Tail(todo[t]) = call \o more
  <2>1. \A p, q, r \in Seq(ParseSteps) : (p \o q) \o r = p \o (q \o r)
    BY Associative
  <2>2. call \in Seq(ParseSteps)
    BY <1>4
  <2>3. (call \o steps) \o Tail(todo[t]) = call \o (steps \o Tail(todo[t]))
    BY <1>2, <2>1, <2>2
  <2> QED
    BY <2>3
<1>7. todo' = [todo EXCEPT ![t] = call \o more]
  BY <1>6 DEF Perform
<1>8. todo'[t] = call \o more /\ \A u \in Threads \ {t} : todo'[u] = todo[u]
  BY <1>1, <1>7 DEF Programs
<1> HIDE DEF call, more
<1>9. /\ call \o more # <<>> /\ Head(call \o more) = On("call", e)
      /\ Tail(call \o more) = <<>> \o more
  <2>1. call \in Seq(ParseSteps) /\ call # <<>> /\ Head(call) = On("call", e) /\ Tail(call) = <<>>
    BY <1>4 DEF call
  <2> QED
    BY <1>5, <2>1, HeadOfConcat
<1>10. <<>> \o more = more
  BY <1>5, NoStep
<1>11. On("call", e).op = "call"
  BY DEF On
<1>12. InCallback(t)'
  BY <1>5, <1>8, <1>9, <1>10, <1>11 DEF InCallback
<1>13. LateInv'
  BY <1>8, <1>12, LateAgain
<1> QED
  BY <1>13 DEF LateGoes

LEMMA LateCallback ==
  ASSUME TypeInv, LateInv, NEW t \in Threads, Call(t) PROVE LateGoes
<1>1. Programs /\ calls \in Seq(Call_)
  BY DEF TypeInv, Types
<1>2. todo[t] # <<>> /\ Head(todo[t]).op = "call" /\ About(t) = Head(todo[t]).about
  BY DEF Call, At, About
<1>3. ~Silent(t)
  <2>1. Silent(t) => Head(todo[t]) \in SilentSteps
    BY <1>2, TailIsSeq DEF Silent
  <2> QED
    BY <1>2, <2>1, SilentOnes
<1>4. Tail(todo[t]) \in Seq(SilentSteps) /\ \A i : ~IsLate(t, i)
  BY <1>3 DEF LateInv, InCallback
<1>5. <<Do("closed")>> \o Tail(todo[t]) \in Seq(SilentSteps)
  BY <1>4, SilentPrograms, ConcatIsSeq
<1>6. Silent(t)' /\ \A u \in Threads \ {t} : todo'[u] = todo[u]
  BY <1>1, <1>4, <1>5 DEF Call, Continue, Perform, Programs, Silent
<1> DEFINE c == [by |-> t, event |-> About(t), late |-> exit = "Cancel"]
<1>7. calls' = Append(calls, c) /\ UNCHANGED exit
  BY DEF Call
<1>8. /\ c.by = t
      /\ c.late => exit = "Cancel"
  OBVIOUS
<1>9. /\ DOMAIN calls' = 1 .. Len(calls) + 1 /\ DOMAIN calls = 1 .. Len(calls)
      /\ \A i \in 1 .. Len(calls) : calls'[i] = calls[i]
      /\ calls'[Len(calls) + 1] = c /\ Len(calls) \in Nat
  <2>1. c \in Call_
    <3>1. About(t) \in Callbacks /\ exit \in {"Invalid", "Stopping", "Cancel"}
      BY <1>1, <1>2, HeadIs DEF TypeInv, Types
    <3> QED
      BY <3>1 DEF Call_
  <2> HIDE DEF c
  <2> QED
    BY <1>1, <1>7, <2>1
<1> HIDE DEF c
<1>10. ASSUME NEW u, NEW i, IsLate(u, i)'
       PROVE  IsLate(u, i) \/ (u = t /\ i = Len(calls) + 1 /\ exit = "Cancel")
  BY <1>8, <1>9, <1>10 DEF IsLate
<1>11. ASSUME NEW u \in Threads
       PROVE  /\ Silent(u)' \/ InCallback(u)'
              /\ \A i : IsLate(u, i)' => exit' = "Cancel" /\ Silent(u)'
              /\ \A i, j : IsLate(u, i)' /\ IsLate(u, j)' => i = j
  <2>1. CASE u = t
    <3>1. \A i : IsLate(u, i)' => i = Len(calls) + 1 /\ exit = "Cancel"
      BY <1>4, <1>10, <2>1
    <3> QED
      BY <1>6, <1>7, <2>1, <3>1
  <2>2. CASE u # t
    <3>1. (Silent(u)' <=> Silent(u)) /\ (InCallback(u)' <=> InCallback(u))
      BY <1>6, <2>2 DEF Silent, InCallback
    <3>2. \A i : IsLate(u, i)' => IsLate(u, i)
      BY <1>10, <2>2
    <3> QED
      BY <1>7, <3>1, <3>2 DEF LateInv
  <2> QED
    BY <2>1, <2>2
<1>12. LateInv'
  BY <1>11 DEF LateInv
<1> QED
  BY <1>6, <1>12 DEF LateGoes

LEMMA LateRunning ==
  ASSUME TypeInv, LateInv, NEW t \in Threads, Running(t) PROVE LateGoes
<1>1. Programs
  BY DEF TypeInv
<1>2. CASE Call(t)
  BY <1>2, LateCallback
<1>3. CASE ~Call(t)
  <2>1. todo[t] # <<>> /\ Head(todo[t]).op # "call" /\ UNCHANGED <<calls, exit>>
    BY <1>3 DEF Running, Add, Notify, Flush, Directive, Event, Closed, CloseNode, Disconnect, At,
       node
  <2>2. /\ <<Do("flush")>> \in Seq(SilentSteps) /\ <<Do("directive")>> \in Seq(SilentSteps)
        /\ <<>> \in Seq(SilentSteps) /\ OnError(t) \in Seq(SilentSteps)
    BY SilentPrograms
  <2>3. ASSUME NEW steps \in Seq(SilentSteps), Continue(t) \/ Perform(t, steps) \/ Abandon(t, steps)
        PROVE  LateGoes
    BY <1>1, <2>1, <2>3, LateStep
  <2>4. CASE Add(t)
    <3>1. Continue(t) \/ Perform(t, <<Do("flush")>>) \/ Perform(t, <<Do("directive")>>)
      BY <2>4 DEF Add
    <3> QED
      BY <2>2, <2>3, <3>1
  <2>5. CASE Notify(t)
    <3>1. Continue(t) \/ Perform(t, <<Do("directive")>>)
      BY <2>5 DEF Notify
    <3> QED
      BY <2>2, <2>3, <3>1
  <2>6. CASE Flush(t)
    <3>1. Continue(t) \/ Perform(t, <<Do("directive")>>) \/ Abandon(t, OnError(t))
      BY <2>6 DEF Flush
    <3> QED
      BY <2>2, <2>3, <3>1
  <2>7. CASE Directive(t)
    <3>1. Continue(t) \/ Abandon(t, OnError(t))
      BY <2>7 DEF Directive
    <3> QED
      BY <2>2, <2>3, <3>1
  <2>8. CASE Closed(t) \/ CloseNode(t) \/ Disconnect(t)
    <3>1. Continue(t)
      BY <2>8 DEF Closed, CloseNode, Disconnect
    <3> QED
      BY <2>2, <2>3, <3>1
  <2>9. CASE Event(t)
    <3>1. Head(todo[t]).op = "event"
      BY <2>9 DEF Event, At
    <3>2. About(t) \in Callbacks
      BY <1>1, <2>1, <3>1, HeadIs
    <3>3. CASE exit = "Cancel"
      BY <2>2, <2>3, <2>9, <3>3 DEF Event
    <3>4. CASE exit # "Cancel"
      <4>1. PICK e \in Callbacks : e = About(t)
        BY <3>2
      <4>2. <<On("call", e)>> \o <<>> = <<On("call", e)>>
        BY StepsAreSteps, OneStep, NoStep
      <4>3. Perform(t, <<On("call", e)>> \o <<>>)
        BY <2>9, <3>4, <4>1, <4>2 DEF Event
      <4> QED
        BY <2>1, <2>2, <3>4, <4>3, LateEvent
    <3> QED
      BY <3>3, <3>4
  <2> QED
    BY <1>3, <2>4, <2>5, <2>6, <2>7, <2>8, <2>9 DEF Running
<1> QED
  BY <1>2, <1>3

LEMMA LateEventThread ==
  ASSUME TypeInv, LateInv, Command \/ Parse \/ After \/ Begin PROVE LateGoes
<1>1. Programs /\ "worker" \in Threads
  BY DEF TypeInv, Threads
<1>2. todo["worker"] # <<>> /\ Head(todo["worker"]).op # "call" /\ UNCHANGED <<calls, exit>>
  BY DEF Command, Parse, After, Begin, At, node
<1>3. /\ <<Do("flush")>> \in Seq(SilentSteps) /\ <<Do("close")>> \in Seq(SilentSteps)
      /\ <<>> \in Seq(SilentSteps) /\ OnError("worker") \in Seq(SilentSteps)
      /\ GiveUp \in Seq(SilentSteps) /\ <<Do("close"), On("event", "Close")>> \in Seq(SilentSteps)
  BY SilentPrograms
<1>4. ASSUME NEW steps \in Seq(SilentSteps),
             Continue("worker") \/ Perform("worker", steps) \/ Abandon("worker", steps)
      PROVE  LateGoes
  BY <1>1, <1>2, <1>4, LateStep
<1>5. CASE Command
  <2>1. Continue("worker") \/ Abandon("worker", OnError("worker"))
    BY <1>5 DEF Command
  <2> QED
    BY <1>3, <1>4, <2>1
<1>6. CASE After
  <2>1. Continue("worker") \/ Perform("worker", <<Do("close"), On("event", "Close")>>)
    BY <1>6 DEF After
  <2> QED
    BY <1>3, <1>4, <2>1
<1>7. CASE Begin
  <2>1. Continue("worker") \/ Perform("worker", <<Do("flush")>>)
    BY <1>7 DEF Begin
  <2> QED
    BY <1>3, <1>4, <2>1
<1>8. CASE Parse
  <2> DEFINE event == IF About("worker") = "CLOSE" THEN "TaskFailed" ELSE About("worker")
  <2>1. \/ Abandon("worker", <<Do("close")>>)
        \/ Abandon("worker", GiveUp)
        \/ exit # "Cancel" /\ Perform("worker", <<On("call", event), On("after", event)>>)
    BY <1>8 DEF Parse
  <2>2. About("worker") \in Replies
    <3>1. Head(todo["worker"]).op = "parse"
      BY <1>8 DEF Parse, At
    <3> QED
      BY <1>1, <1>2, <3>1, HeadIs
  <2>3. event \in Callbacks
    BY <2>2 DEF Replies, Messages, Callbacks
  <2>4. PICK e \in Callbacks : e = event
    BY <2>3
  <2> HIDE DEF event
  <2>5. CASE exit # "Cancel" /\ Perform("worker", <<On("call", event), On("after", event)>>)
    <3>1. On("call", e) \in ParseSteps /\ On("after", e) \in ParseSteps /\ On("after", e) \in SilentSteps
      BY StepsAreSteps, SilentOnes
    <3>2. <<On("call", e)>> \o <<On("after", e)>> = <<On("call", e), On("after", e)>>
      BY <3>1, TwoSteps
    <3>3. <<On("after", e)>> \in Seq(SilentSteps)
      BY <3>1, OneStep
    <3>4. Perform("worker", <<On("call", e)>> \o <<On("after", e)>>)
      BY <2>4, <2>5, <3>2
    <3> QED
      BY <1>1, <1>2, <2>5, <3>3, <3>4, LateEvent
  <2> QED
    BY <1>3, <1>4, <2>1, <2>5
<1> QED
  BY <1>5, <1>6, <1>7, <1>8

\* The event thread at rest, and the steps that leave the programs alone.
LEMMA LateStays ==
  ASSUME LateInv, UNCHANGED <<calls, todo>>, exit = "Cancel" => exit' = "Cancel" PROVE LateGoes
BY DEF LateGoes, LateInv, IsLate, Silent, InCallback

LEMMA LateAtRest ==
  ASSUME TypeInv, LateInv, Launch \/ Connected \/ ConnectFails \/ Read \/ Write \/ Timeout
  PROVE  LateGoes
<1>1. Programs /\ "worker" \in Threads /\ inbox \in Seq(Messages)
  BY DEF TypeInv, Threads, InboxInv
<1>2. UNCHANGED <<calls, exit>> /\ todo["worker"] = <<>>
  BY DEF Launch, Connected, ConnectFails, Read, Write, Timeout, Worker, Idle, node
<1>3. ASSUME NEW steps \in Seq(SilentSteps), Abandon("worker", steps)
      PROVE  LateGoes
  BY <1>1, <1>2, <1>3, LateStep
<1>4. /\ TellFailure \in Seq(SilentSteps) /\ <<Do("close")>> \in Seq(SilentSteps)
      /\ <<Do("command")>> \in Seq(SilentSteps) /\ <<Do("flush")>> \in Seq(SilentSteps)
      /\ <<Do("begin")>> \in Seq(SilentSteps) /\ <<>> \in Seq(SilentSteps)
  BY SilentPrograms
<1>5. FailedRead \in Seq(SilentSteps) /\ FailedWrite \in Seq(SilentSteps)
  BY <1>4, ConcatIsSeq DEF FailedRead, FailedWrite
<1>6. CASE Launch \/ Connected \/ ConnectFails
  <2>1. todo' = todo \/ Abandon("worker", TellFailure)
    BY <1>6 DEF Launch, Connected, ConnectFails, Dial
  <2> QED
    BY <1>2, <1>3, <1>4, <2>1, LateStays
<1>7. CASE Write
  <2>1. \/ Abandon("worker", <<Do("close")>>) \/ Abandon("worker", <<Do("command")>>)
        \/ Abandon("worker", <<Do("flush")>>) \/ Abandon("worker", FailedWrite)
    BY <1>7 DEF Write
  <2> QED
    BY <1>3, <1>4, <1>5, <2>1
<1>8. CASE Timeout
  <2>1. Abandon("worker", <<Do("close")>> \o IF exit = "Cancel" THEN <<>> ELSE TellFailure)
    BY <1>8 DEF Timeout
  <2>2. <<Do("close")>> \o (IF exit = "Cancel" THEN <<>> ELSE TellFailure) \in Seq(SilentSteps)
    BY <1>4, ConcatIsSeq
  <2> QED
    BY <1>3, <2>1, <2>2
<1>9. CASE Read
  <2>1. ASSUME status \in {"Starting", "Started"}, NEW n \in 1 .. Len(inbox),
               Abandon("worker", [i \in 1 .. n |-> On("parse", inbox[i])] \o
                            IF status = "Starting" THEN <<Do("begin")>> ELSE <<>>)
        PROVE  LateGoes
    <3>1. inbox \in Seq(Replies)
      BY <2>1 DEF TypeInv, InboxInv, Upgraded
    <3> DEFINE step(m) == On("parse", m)
               parses == [i \in 1 .. n |-> step(inbox[i])]
    <3>2. \A i \in 1 .. n : step(inbox[i]) \in SilentSteps
      <4>1. \A i \in 1 .. n : inbox[i] \in Replies
        BY <2>1, <3>1
      <4> QED
        BY <4>1, SilentOnes
    <3>3. parses \in Seq(SilentSteps)
      <4> HIDE DEF step
      <4>1. n \in Nat
        BY <3>1
      <4> QED
        BY <3>2, <4>1
    <3>4. parses \o (IF status = "Starting" THEN <<Do("begin")>> ELSE <<>>) \in Seq(SilentSteps)
      BY <1>4, <3>3, ConcatIsSeq
    <3> QED
      BY <1>3, <2>1, <3>4
  <2> QED
    BY <1>3, <1>4, <1>5, <1>9, <2>1 DEF Read
<1> QED
  BY <1>6, <1>7, <1>8, <1>9

\* A user's call begins.
LEMMA LateUser == ASSUME TypeInv, LateInv, User PROVE LateGoes
<1>1. Programs /\ StopBy \in Users /\ Users \subseteq Threads /\ "feeder" \in Users
  BY SessionAssumption DEF TypeInv, Users, Threads
<1>2. <<Do("add")>> \in Seq(SilentSteps) /\ <<Do("notify")>> \in Seq(SilentSteps)
  BY SilentPrograms
<1>3. CASE Start \/ Cancel
  BY <1>3, LateStays DEF Start, Cancel
<1>4. CASE BeginSendAudio
  <2>1. todo["feeder"] = <<>> /\ Abandon("feeder", <<Do("add")>>) /\ UNCHANGED <<calls, exit>>
    BY <1>4 DEF BeginSendAudio, Idle, node
  <2> QED
    BY <1>1, <1>2, <2>1, LateStep
<1>5. CASE Stop
  <2>1. todo[StopBy] = <<>> /\ Abandon(StopBy, <<Do("notify")>>) /\ UNCHANGED calls /\ exit # "Cancel"
    BY <1>5 DEF Stop, Idle
  <2> QED
    BY <1>1, <1>2, <2>1, LateStep
<1> QED
  BY <1>3, <1>4, <1>5 DEF User

LEMMA LateKeeps == LateInv /\ TypeInv /\ [Next]_vars => LateGoes
<1> SUFFICES ASSUME LateInv, TypeInv, [Next]_vars PROVE LateGoes
  OBVIOUS
<1>1. CASE EventThread
  BY <1>1, LateRunning, LateEventThread, LateAtRest DEF EventThread, Threads
<1>2. CASE User
  BY <1>2, LateUser
<1>3. CASE Server \/ LinkBreaks \/ ServerRefuses \/ ServerFailsTask \/ UNCHANGED vars
  <2>1. UNCHANGED <<todo, calls, exit>>
    BY <1>3 DEF Server, LinkBreaks, ServerUpgrades, ServerStarts, ServerReports, ServerCompletes,
       ServerRefuses, ServerFailsTask, Reply, vars, node
  <2> QED
    BY <2>1, LateStays
<1>4. CASE ConnectFails \/ Timeout
  BY <1>4, LateAtRest
<1>5. ASSUME NEW t \in Users, Running(t) PROVE LateGoes
  BY <1>5, LateRunning DEF Threads
<1> QED
  BY <1>1, <1>2, <1>3, <1>4, <1>5 DEF Next, Fault

LEMMA LateHolds == LateInv /\ TypeInv /\ [Next]_vars => LateInv'
BY LateKeeps DEF LateGoes

\* Before start no thread is in a callback.
LEMMA LateInit == Init => LateInv
<1> SUFFICES ASSUME Init PROVE LateInv
  OBVIOUS
<1>1. \A t \in Threads : Silent(t)
  BY DEF Init, Silent
<1> QED
  BY <1>1 DEF Init, LateInv, IsLate

\* Whatever fails and whenever it is called, cancel lets each thread make at most one
\* callback more: the one whose check of _exitStatus came first. (handlerEvent,
\* handlerFrame and the end of parseFrame.)
THEOREM CancelSilencesSoon == Spec => []OneLateCallback
<1>1. LateInv => OneLateCallback
  <2> SUFFICES ASSUME LateInv, NEW t \in Threads PROVE Cardinality(Late(t)) <= 1
    BY DEF OneLateCallback
  <2>1. \A i : i \in Late(t) <=> IsLate(t, i)
    BY DEF Late, IsLate
  <2>2. CASE Late(t) = {}
    BY <2>2, FS_EmptySet
  <2>3. CASE Late(t) # {}
    <3>1. PICK i : i \in Late(t)
      BY <2>3
    <3>2. Late(t) = {i}
      BY <2>1, <3>1 DEF LateInv
    <3>3. Cardinality({i}) = 1
      BY FS_Singleton
    <3> QED
      BY <3>2, <3>3
  <2> QED
    BY <2>2, <2>3
<1> QED
  BY <1>1, LateInit, LateHolds, TypeInvInit, TypeInvKeeps, PTL DEF Spec

(***************************************************************************)
(* The order of each thread's callbacks, whatever fails. A thread that     *)
(* tells its user of a request is at a stage: "new", "starting" (after the *)
(* callback Started, while parseFrame has yet to set NodeStarted),         *)
(* "started", "ended" and "closed". Its program leads from the stage it is *)
(* at to another, every step where it is allowed, and the messages that    *)
(* are not read yet lead on from there to what the server has come to.     *)
(* This is kept until cancel; then only a callback that was under way is   *)
(* made, and it is still its turn.                                         *)
(***************************************************************************)
\* A thread told its user of an event.
Own(t, e) == \E i \in DOMAIN calls : calls[i].by = t /\ calls[i].event = e

\* The stages of a thread's callbacks, and what it has told its user there.
Stages == {"new", "starting", "started", "ended", "closed"}
Knows(t, k) ==
  /\ Own(t, "Close") <=> k = "closed"
  /\ (Own(t, "Completed") \/ Own(t, "TaskFailed")) <=> k \in {"ended", "closed"}
  /\ Own(t, "Started") => k # "new"
  /\ k \in {"starting", "started"} => Own(t, "Started")

\* A callback of the user, what follows it in parseFrame, and a message that is parsed.
Turn(k, e, l) ==
  \/ e = "Started" /\ k = "new" /\ l = "starting"
  \/ e = "Result" /\ k = "started" /\ l = "started"
  \/ e = "Completed" /\ k = "started" /\ l = "ended"
  \/ e = "TaskFailed" /\ k \in {"new", "started"} /\ l = "ended"
  \/ e = "Close" /\ k = "ended" /\ l = "closed"

Follows(k, e, l) ==
  \/ e = "Started" /\ k = "starting" /\ l = "started"
  \/ e = "Result" /\ k = "started" /\ l = "started"
  \/ e \in {"Completed", "TaskFailed"} /\ k = "ended" /\ l = "closed"

Hears(k, m, l) ==
  \/ m = "switch" /\ k = "new" /\ l = "new"
  \/ m = "refuse" /\ k = "new" /\ l = "closed"
  \/ m = "Started" /\ k = "new" /\ l = "started"
  \/ m = "Result" /\ k = "started" /\ l = "started"
  \/ m = "Completed" /\ k = "started" /\ l = "closed"
  \/ m = "TaskFailed" /\ k \in {"new", "started"} /\ l = "closed"
  \/ m = "CLOSE" /\ k \in {"new", "started", "closed"} /\ l = "closed"

\* What a step of a program makes of a stage.
Goes(s, k, l) ==
  \/ s.op \in {"event", "call"} /\ Turn(k, s.about, l)
  \/ s.op = "after" /\ Follows(k, s.about, l)
  \/ s.op = "parse" /\ Hears(k, s.about, l)
  \/ s.op \in {"close", "disconnect"} /\ k # "starting" /\ l = k
  \/ s.op = "closed" /\ k = "closed" /\ l = k
  \/ s.op = "begin" /\ k \in {"new", "started", "closed"} /\ l = k
  \/ s.op \in {"add", "notify", "flush", "directive", "command"} /\ k \in {"new", "started"} /\ l = k

\* A program leads from stage k to stage l.
Runs(k, q, l) == \E a \in [1 .. Len(q) + 1 -> Stages] :
  /\ a[1] = k /\ a[Len(q) + 1] = l
  /\ \A i \in 1 .. Len(q) : Goes(q[i], a[i], a[i + 1])

\* The event thread is about to close the connection.
Shuts(s) == \/ s.op = "close"
            \/ s.op = "parse" /\ s.about \in {"Completed", "TaskFailed", "CLOSE"}
            \/ s.op = "after" /\ s.about \in {"Completed", "TaskFailed"}

Leaving == \E i \in DOMAIN work : Shuts(work[i])

\* The node is not connected yet, and nothing was heard.
Early == events.launch \/ link = "connecting" \/ status = "Created"

\* A node that was not connected yet: no event, no message, no answer.
Fresh == /\ status \in {"Created", "Invoking", "Connecting"}
         /\ status = "Created" => link = "down" /\ ~events.launch
         /\ events.launch => link = "down"
         /\ link \in {"down", "connecting"} /\ ~events.read /\ events.write = "none"
         /\ server = "idle" /\ inbox = <<>>

\* The server's answer to Start was taken, or the node is done.
Past == status \in {"Started", "Completed", "Failed", "Closed"}

\* Where the messages of the server lead to.
Serves(s, k) == \/ s \in {"idle", "upgraded"} /\ k = "new"
                \/ s \in {"started", "heard"} /\ k = "started"
                \/ s = "done" /\ k = "closed"

ClosedNext(t) == todo[t] # <<>> /\ Head(todo[t]).op = "closed"

\* The event thread, at stage k of its callbacks and with a program that ends at l.
Course(k, l) ==
  /\ Knows("worker", k) /\ Runs(k, work, l) /\ l \in {"new", "started", "closed"}
  /\ Early => Fresh /\ work = <<>> /\ k = "new"
  /\ l = "closed" => Leaving \/ (~events.read /\ events.write = "none")
  /\ status # "Closed" /\ link \in {"up", "broken"} /\ ~Leaving
       => \E m \in Stages : Runs(l, Parses(inbox), m) /\ Serves(server, m)
  /\ k = "closed" => status = "Closed" \/ ClosedNext("worker")
  /\ Past => k \notin {"new", "starting"}

\* A user's call, at stage k of the callbacks of its thread.
Caller(t, k, l) ==
  /\ Knows(t, k) /\ Runs(k, todo[t], l) /\ l \in {"new", "closed"}
  /\ todo[t] \notin {<<>>, <<Do("notify")>>} \/ k # "new" => Past
  /\ k = "closed" => status \in {"Completed", "Failed", "Closed"} \/ ClosedNext(t)

\* Every thread is at a stage of its own.
InTurn == /\ \E k, l \in Stages : Course(k, l)
          /\ \A t \in Users : \E k, l \in Stages : Caller(t, k, l)

\* The callback a thread is on its way into is its turn.
Due(t) == todo[t] # <<>> /\ Head(todo[t]).op = "call"
            => \E k, l \in Stages : Knows(t, k) /\ Turn(k, About(t), l)

\* Before cancel everything ahead is in turn, afterwards the callback under way.
ThreadInv == IF exit = "Cancel" THEN \A t \in Threads : Due(t) ELSE InTurn

\* The empty program stays where it is.
LEMMA RunsNothing ==
  ASSUME NEW k \in Stages, NEW l
  PROVE  Runs(k, <<>>, l) <=> k = l
<1>1. Len(<<>>) = 0
  OBVIOUS
<1>2. ASSUME Runs(k, <<>>, l) PROVE k = l
  BY <1>1, <1>2 DEF Runs
<1>3. ASSUME k = l PROVE Runs(k, <<>>, l)
  <2> DEFINE a == [i \in 1 .. 1 |-> k]
  <2>1. a \in [1 .. Len(<<>>) + 1 -> Stages] /\ a[1] = k
    BY <1>1
  <2>2. a[Len(<<>>) + 1] = l /\ \A i \in 1 .. Len(<<>>) : FALSE
    BY <1>1, <1>3
  <2> HIDE DEF a
  <2> QED
    BY <2>1, <2>2 DEF Runs
<1> QED
  BY <1>2, <1>3

\* A program of one step.
LEMMA RunsOne ==
  ASSUME NEW S, NEW s \in S, NEW k \in Stages, NEW l \in Stages, Goes(s, k, l)
  PROVE  Runs(k, <<s>>, l)
<1> DEFINE a == [i \in 1 .. 2 |-> IF i = 1 THEN k ELSE l]
<1>1. Len(<<s>>) = 1 /\ <<s>>[1] = s
  OBVIOUS
<1>2. a \in [1 .. Len(<<s>>) + 1 -> Stages] /\ a[1] = k /\ a[2] = l
  BY <1>1
<1> HIDE DEF a
<1>3. \A i \in 1 .. Len(<<s>>) : i = 1 /\ a[i + 1] = l
  BY <1>1, <1>2
<1>4. Len(<<s>>) + 1 = 2
  BY <1>1
<1> QED
  BY <1>1, <1>2, <1>3, <1>4 DEF Runs

\* One program after the other.
LEMMA RunsJoin ==
  ASSUME NEW S, NEW p \in Seq(S), NEW q \in Seq(S), NEW k, NEW j, NEW l,
         Runs(k, p, j), Runs(j, q, l)
  PROVE  Runs(k, p \o q, l)
<1>1. PICK a \in [1 .. Len(p) + 1 -> Stages] :
         /\ a[1] = k /\ a[Len(p) + 1] = j
         /\ \A i \in 1 .. Len(p) : Goes(p[i], a[i], a[i + 1])
  BY DEF Runs
<1>2. PICK b \in [1 .. Len(q) + 1 -> Stages] :
         /\ b[1] = j /\ b[Len(q) + 1] = l
         /\ \A i \in 1 .. Len(q) : Goes(q[i], b[i], b[i + 1])
  BY DEF Runs
<1>3. /\ Len(p) \in Nat /\ Len(q) \in Nat /\ Len(p \o q) = Len(p) + Len(q)
      /\ \A i \in 1 .. Len(p) : (p \o q)[i] = p[i]
      /\ \A i \in Len(p) + 1 .. Len(p) + Len(q) : (p \o q)[i] = q[i - Len(p)]
  OBVIOUS
<1> DEFINE c == [i \in 1 .. Len(p) + Len(q) + 1 |-> IF i <= Len(p) THEN a[i] ELSE b[i - Len(p)]]
<1>4. ASSUME NEW i \in 1 .. Len(p) + Len(q) + 1 PROVE c[i] \in Stages
  <2>1. CASE i <= Len(p)
    <3>1. i \in 1 .. Len(p) + 1 /\ c[i] = a[i]
      BY <1>3, <2>1
    <3> HIDE DEF c
    <3> QED
      BY <1>1, <3>1
  <2>2. CASE ~(i <= Len(p))
    <3>1. i - Len(p) \in 1 .. Len(q) + 1 /\ c[i] = b[i - Len(p)]
      BY <1>3, <2>2
    <3> HIDE DEF c
    <3> QED
      BY <1>2, <3>1
  <2> QED
    BY <2>1, <2>2
<1>5. c \in [1 .. Len(p \o q) + 1 -> Stages]
  BY <1>3, <1>4
<1>6. c[Len(p) + Len(q) + 1] = l
  BY <1>2, <1>3
<1>7. c[1] = k
  BY <1>1, <1>2, <1>3
<1>8. ASSUME NEW i \in 1 .. Len(p) + Len(q)
      PROVE  Goes((p \o q)[i], c[i], c[i + 1])
  <2>1. CASE i < Len(p)
    <3>1. i \in 1 .. Len(p) /\ c[i] = a[i] /\ c[i + 1] = a[i + 1]
      BY <1>3, <2>1
    <3> HIDE DEF c
    <3> QED
      BY <1>1, <1>3, <3>1
  <2>2. CASE i = Len(p)
    <3>1. i \in 1 .. Len(p) /\ c[i] = a[i] /\ c[i + 1] = b[1] /\ b[1] = a[i + 1]
      BY <1>1, <1>2, <1>3, <2>2
    <3> HIDE DEF c
    <3> QED
      BY <1>1, <1>3, <3>1
  <2>3. CASE i > Len(p)
    <3>1. /\ i - Len(p) \in 1 .. Len(q) /\ c[i] = b[i - Len(p)]
          /\ c[i + 1] = b[(i - Len(p)) + 1]
      BY <1>3, <2>3
    <3>2. (p \o q)[i] = q[i - Len(p)]
      BY <1>3, <2>3
    <3> HIDE DEF c
    <3> QED
      BY <1>2, <3>1, <3>2
  <2> QED
    BY <1>3, <2>1, <2>2, <2>3
<1> HIDE DEF c
<1> QED
  BY <1>3, <1>5, <1>6, <1>7, <1>8 DEF Runs

\* A program ends its first part at a stage, where the rest goes on.
LEMMA RunsSplit ==
  ASSUME NEW S, NEW p \in Seq(S), NEW q \in Seq(S), NEW k, NEW l, Runs(k, p \o q, l)
  PROVE  \E j \in Stages : Runs(k, p, j) /\ Runs(j, q, l)
<1>1. PICK c \in [1 .. Len(p \o q) + 1 -> Stages] :
         /\ c[1] = k /\ c[Len(p \o q) + 1] = l
         /\ \A i \in 1 .. Len(p \o q) : Goes((p \o q)[i], c[i], c[i + 1])
  BY DEF Runs
<1>2. /\ Len(p) \in Nat /\ Len(q) \in Nat /\ Len(p \o q) = Len(p) + Len(q)
      /\ \A i \in 1 .. Len(p) : (p \o q)[i] = p[i]
      /\ \A i \in 1 .. Len(q) : (p \o q)[Len(p) + i] = q[i]
  OBVIOUS
<1> DEFINE a == [i \in 1 .. Len(p) + 1 |-> c[i]]
           b == [i \in 1 .. Len(q) + 1 |-> c[Len(p) + i]]
<1>3. /\ a \in [1 .. Len(p) + 1 -> Stages] /\ a[1] = k
      /\ \A i \in 1 .. Len(p) : a[i] = c[i] /\ a[i + 1] = c[i + 1]
      /\ a[Len(p) + 1] = c[Len(p) + 1]
  BY <1>1, <1>2
<1>4. /\ b \in [1 .. Len(q) + 1 -> Stages] /\ b[1] = c[Len(p) + 1]
      /\ \A i \in 1 .. Len(q) : b[i] = c[Len(p) + i] /\ b[i + 1] = c[Len(p) + i + 1]
      /\ b[Len(q) + 1] = c[Len(p) + Len(q) + 1]
  BY <1>1, <1>2
<1> HIDE DEF a, b
<1>5. Runs(k, p, c[Len(p) + 1])
  <2>1. \A i \in 1 .. Len(p) : Goes(p[i], a[i], a[i + 1])
    BY <1>1, <1>2, <1>3
  <2> QED
    BY <1>3, <2>1 DEF Runs
<1>6. Runs(c[Len(p) + 1], q, l)
  <2>1. ASSUME NEW i \in 1 .. Len(q) PROVE Goes(q[i], b[i], b[i + 1])
    <3>1. Len(p) + i \in 1 .. Len(p \o q) /\ (p \o q)[Len(p) + i] = q[i]
      BY <1>2
    <3>2. Goes((p \o q)[Len(p) + i], c[Len(p) + i], c[Len(p) + i + 1])
      BY <1>1, <3>1
    <3> QED
      BY <1>4, <3>1, <3>2
  <2> QED
    BY <1>1, <1>2, <1>4, <2>1 DEF Runs
<1>7. c[Len(p) + 1] \in Stages
  BY <1>1, <1>2
<1> QED
  BY <1>5, <1>6, <1>7

\* The first step of a program and the rest.
LEMMA RunsOn ==
  ASSUME NEW S, NEW q \in Seq(S), q # <<>>, NEW k \in Stages, NEW l, Runs(k, q, l)
  PROVE  \E j \in Stages : Goes(Head(q), k, j) /\ Runs(j, Tail(q), l)
<1>1. Head(q) \in S /\ Tail(q) \in Seq(S) /\ <<Head(q)>> \in Seq(S) /\ <<Head(q)>> \o Tail(q) = q
  OBVIOUS
<1>2. PICK j \in Stages : Runs(k, <<Head(q)>>, j) /\ Runs(j, Tail(q), l)
  BY <1>1, RunsSplit
<1>3. Goes(Head(q), k, j)
  <2>1. Len(<<Head(q)>>) = 1 /\ <<Head(q)>>[1] = Head(q)
    OBVIOUS
  <2> QED
    BY <1>2, <2>1 DEF Runs
<1> QED
  BY <1>2, <1>3

\* The messages in the inbox, as steps that parse them.
ParseAny == {On("parse", m) : m \in Messages}

\* A program that parses messages, message by message.
LEMMA ParsesAny ==
  ASSUME NEW ms \in Seq(Messages)
  PROVE  /\ Parses(ms) \in Seq(ParseAny) /\ Len(Parses(ms)) = Len(ms)
         /\ \A i \in 1 .. Len(ms) : Parses(ms)[i] = On("parse", ms[i])
<1> DEFINE step(m) == On("parse", m)
<1>1. Parses(ms) = [i \in 1 .. Len(ms) |-> step(ms[i])]
  BY DEF Parses
<1>2. \A m \in Messages : step(m) \in ParseAny
  BY DEF ParseAny
<1>3. \A i \in 1 .. Len(ms) : ms[i] \in Messages
  OBVIOUS
<1> HIDE DEF step
<1>4. Parses(ms) \in Seq(ParseAny) /\ Len(Parses(ms)) = Len(ms)
  BY <1>1, <1>2, <1>3
<1> QED
  BY <1>1, <1>4 DEF step

\* Parsing some messages and then others.
LEMMA ParsesJoin ==
  ASSUME NEW ms \in Seq(Messages), NEW ns \in Seq(Messages)
  PROVE  Parses(ms \o ns) = Parses(ms) \o Parses(ns)
<1>1. ms \o ns \in Seq(Messages) /\ Len(ms \o ns) = Len(ms) + Len(ns)
  OBVIOUS
<1>2. /\ Parses(ms \o ns) \in Seq(ParseAny) /\ Len(Parses(ms \o ns)) = Len(ms) + Len(ns)
      /\ \A i \in 1 .. Len(ms) + Len(ns) : Parses(ms \o ns)[i] = On("parse", (ms \o ns)[i])
  BY <1>1, ParsesAny
<1>3. /\ Parses(ms) \in Seq(ParseAny) /\ Len(Parses(ms)) = Len(ms)
      /\ \A i \in 1 .. Len(ms) : Parses(ms)[i] = On("parse", ms[i])
      /\ Parses(ns) \in Seq(ParseAny) /\ Len(Parses(ns)) = Len(ns)
      /\ \A i \in 1 .. Len(ns) : Parses(ns)[i] = On("parse", ns[i])
  BY ParsesAny
<1>4. /\ Parses(ms) \o Parses(ns) \in Seq(ParseAny)
      /\ Len(Parses(ms) \o Parses(ns)) = Len(ms) + Len(ns)
  BY <1>3
<1>5. ASSUME NEW i \in 1 .. Len(ms) + Len(ns)
      PROVE  Parses(ms \o ns)[i] = (Parses(ms) \o Parses(ns))[i]
  <2>1. CASE i \in 1 .. Len(ms)
    <3>1. (Parses(ms) \o Parses(ns))[i] = Parses(ms)[i] /\ (ms \o ns)[i] = ms[i]
      BY <1>3, <2>1
    <3> QED
      BY <1>2, <1>3, <2>1, <3>1
  <2>2. CASE i \notin 1 .. Len(ms)
    <3>1. i - Len(ms) \in 1 .. Len(ns)
      BY <2>2
    <3>2. /\ (Parses(ms) \o Parses(ns))[i] = Parses(ns)[i - Len(ms)]
          /\ (ms \o ns)[i] = ns[i - Len(ms)]
      BY <1>3, <2>2, <3>1
    <3> QED
      BY <1>2, <1>3, <3>1, <3>2
  <2> QED
    BY <2>1, <2>2
<1> QED
  BY <1>2, <1>4, <1>5, SameSteps

\* Steps by name.
LEMMA GoesSteps ==
  /\ \A op, e : Do(op).op = op /\ On(op, e).op = op /\ On(op, e).about = e
  /\ \A k \in {"new", "started"} : \A op \in {"add", "notify", "flush", "directive", "command", "begin"} :
       Goes(Do(op), k, k)
  /\ \A op \in {"close", "disconnect"} : \A k \in Stages : k # "starting" => Goes(Do(op), k, k)
BY DEF Do, On, Goes

\* Where messages lead to, and that the node closes where they end.
LEMMA ParsesLead ==
  ASSUME NEW ms \in Seq(Replies), NEW k \in {"new", "started"}, NEW l, Runs(k, Parses(ms), l)
  PROVE  /\ l \in {"new", "started", "closed"}
         /\ l = "closed" => \E i \in DOMAIN Parses(ms) : Shuts(Parses(ms)[i])
<1>1. ms \in Seq(Messages) /\ Len(ms) \in Nat
  BY DEF Replies
<1>2. /\ Parses(ms) \in Seq(ParseAny) /\ Len(Parses(ms)) = Len(ms)
      /\ \A i \in 1 .. Len(ms) : Parses(ms)[i] = On("parse", ms[i])
  BY <1>1, ParsesAny
<1>3. PICK a \in [1 .. Len(ms) + 1 -> Stages] :
         /\ a[1] = k /\ a[Len(ms) + 1] = l
         /\ \A i \in 1 .. Len(ms) : Goes(Parses(ms)[i], a[i], a[i + 1])
  BY <1>2 DEF Runs
<1>4. CASE Len(ms) = 0
  BY <1>3, <1>4
<1>5. CASE Len(ms) # 0
  <2> DEFINE n == Len(ms)
  <2>1. n \in 1 .. Len(ms) /\ n \in DOMAIN Parses(ms) /\ ms[n] \in Replies
    BY <1>1, <1>2, <1>5
  <2>2. Goes(On("parse", ms[n]), a[n], l)
    BY <1>2, <1>3, <2>1
  <2>3. /\ Parses(ms)[n].op = "parse" /\ Parses(ms)[n].about = ms[n]
        /\ Hears(a[n], ms[n], l)
    <3>1. On("parse", ms[n]).op = "parse" /\ On("parse", ms[n]).about = ms[n]
      BY GoesSteps
    <3>2. Hears(a[n], ms[n], l)
      BY <2>2, <3>1 DEF Goes
    <3> QED
      BY <1>2, <2>1, <3>1, <3>2
  <2> HIDE DEF n
  <2>4. l \in {"new", "started", "closed"}
    BY <2>3 DEF Hears
  <2>5. l = "closed" => ms[n] \in {"Completed", "TaskFailed", "CLOSE"}
    BY <2>1, <2>3 DEF Hears, Replies
  <2> QED
    BY <2>1, <2>3, <2>4, <2>5 DEF Shuts
<1> QED
  BY <1>4, <1>5

\* What the functions that report a failure run.
LEMMA TellRuns ==
  ASSUME NEW k \in {"new", "started"}
  PROVE  Runs(k, TellFailure, "closed") /\ TellFailure \in Seq(ParseSteps)
<1>1. /\ On("event", "TaskFailed") \in ParseSteps /\ On("event", "Close") \in ParseSteps
  BY StepsAreSteps DEF Callbacks
<1>2. Goes(On("event", "TaskFailed"), k, "ended") /\ Goes(On("event", "Close"), "ended", "closed")
  BY GoesSteps DEF Goes, Turn
<1>3. {k, "ended", "closed"} \subseteq Stages
  BY DEF Stages
<1>4. Runs(k, <<On("event", "TaskFailed")>>, "ended") /\ Runs("ended", <<On("event", "Close")>>, "closed")
  BY <1>1, <1>2, <1>3, RunsOne
<1>5. /\ <<On("event", "TaskFailed")>> \in Seq(ParseSteps) /\ <<On("event", "Close")>> \in Seq(ParseSteps)
  BY <1>1
<1>6. /\ <<On("event", "TaskFailed")>> \o <<On("event", "Close")>> = TellFailure
      /\ TellFailure \in Seq(ParseSteps)
  BY <1>1, TwoSteps DEF TellFailure
<1>7. Runs(k, <<On("event", "TaskFailed")>> \o <<On("event", "Close")>>, "closed")
  BY <1>4, <1>5, RunsJoin
<1> QED
  BY <1>6, <1>7

\* A failure that is reported leads to the last callback.
LEMMA FailuresRun ==
  ASSUME NEW k \in {"new", "started"}
  PROVE  /\ Runs(k, <<Do("close")>> \o TellFailure, "closed")
         /\ Runs(k, FailedWrite, "closed")
         /\ Runs(k, FailedCall, "closed")
         /\ status # "Closed" => Runs(k, FailedRead, "closed")
         /\ status = "Closed" => FailedRead = <<>>
<1>1. TellFailure \in Seq(ParseSteps) /\ Runs(k, TellFailure, "closed")
  BY TellRuns
<1>2. Do("close") \in ParseSteps /\ Do("disconnect") \in ParseSteps
  BY StepsAreSteps
<1>3. <<Do("close")>> \in Seq(ParseSteps) /\ <<Do("disconnect")>> \in Seq(ParseSteps)
  BY <1>2
<1>4. k \in Stages /\ "closed" \in Stages /\ k # "starting"
  BY DEF Stages
<1>5. /\ Runs(k, <<Do("close")>>, k) /\ Runs(k, <<Do("disconnect")>>, k)
      /\ Runs("closed", <<Do("close")>>, "closed")
  BY <1>2, <1>4, GoesSteps, RunsOne
<1>6. Runs(k, <<Do("close")>> \o TellFailure, "closed") /\ Runs(k, FailedCall, "closed")
  BY <1>1, <1>3, <1>5, RunsJoin DEF FailedCall
<1>7. Runs(k, FailedWrite, "closed")
  BY <1>1, <1>3, <1>5, RunsJoin DEF FailedWrite
<1> QED
  BY <1>6, <1>7 DEF FailedRead

\* The ends of a program that is put together.
LEMMA EndsOfThree ==
  ASSUME NEW S, NEW f \in Seq(S), NEW c \in Seq(S), Len(f) = 2, Len(c) = 1
  PROVE  /\ 1 \in DOMAIN (c \o f) /\ (c \o f)[1] = c[1]
         /\ 3 \in DOMAIN (f \o c) /\ (f \o c)[3] = c[1]
<1>1. ASSUME NEW p \in Seq(S), NEW q \in Seq(S)
      PROVE  /\ Len(p) \in Nat /\ Len(q) \in Nat
             /\ DOMAIN (p \o q) = 1 .. Len(p) + Len(q)
             /\ \A i \in 1 .. Len(p) : (p \o q)[i] = p[i]
             /\ \A i \in 1 .. Len(q) : (p \o q)[Len(p) + i] = q[i]
  OBVIOUS
<1>2. DOMAIN (c \o f) = 1 .. 3 /\ DOMAIN (f \o c) = 1 .. 3
  <2>1. 2 + 1 = 3 /\ 1 + 2 = 3
    OBVIOUS
  <2> QED
    BY <1>1, <2>1
<1>3. (c \o f)[1] = c[1]
  BY <1>1
<1>4. (f \o c)[3] = c[1]
  <2>1. 1 \in 1 .. Len(c) /\ Len(f) + 1 = 3
    OBVIOUS
  <2>2. (f \o c)[Len(f) + 1] = c[1]
    BY <1>1, <2>1
  <2> QED
    BY <2>1, <2>2
<1> QED
  BY <1>2, <1>3, <1>4

\* The programs that end with a report close the connection.
LEMMA FailuresShut ==
  /\ \E i \in DOMAIN FailedWrite : Shuts(FailedWrite[i])
  /\ \E i \in DOMAIN (<<Do("close")>> \o TellFailure) : Shuts((<<Do("close")>> \o TellFailure)[i])
  /\ status # "Closed" => \E i \in DOMAIN FailedRead : Shuts(FailedRead[i])
  /\ \E i \in DOMAIN <<Do("close")>> : Shuts(<<Do("close")>>[i])
<1>1. Shuts(Do("close"))
  BY GoesSteps DEF Shuts
<1>2. /\ On("event", "TaskFailed") \in ParseSteps /\ On("event", "Close") \in ParseSteps
      /\ Do("close") \in ParseSteps
  BY StepsAreSteps DEF Callbacks
<1>3. TellFailure \in Seq(ParseSteps) /\ Len(TellFailure) = 2
  BY <1>2 DEF TellFailure
<1>4. /\ <<Do("close")>> \in Seq(ParseSteps) /\ Len(<<Do("close")>>) = 1 /\ <<Do("close")>>[1] = Do("close")
  BY <1>2
<1>5. /\ 1 \in DOMAIN (<<Do("close")>> \o TellFailure) /\ (<<Do("close")>> \o TellFailure)[1] = Do("close")
      /\ 3 \in DOMAIN (TellFailure \o <<Do("close")>>) /\ (TellFailure \o <<Do("close")>>)[3] = Do("close")
  BY <1>3, <1>4, EndsOfThree
<1> QED
  BY <1>1, <1>4, <1>5 DEF FailedWrite, FailedRead

\* What a thread told its user, after one callback more.
LEMMA OwnMore ==
  ASSUME calls \in Seq(Call_), NEW c \in Call_, calls' = Append(calls, c)
  PROVE  \A t, e : Own(t, e)' <=> Own(t, e) \/ (t = c.by /\ e = c.event)
<1>1. /\ DOMAIN calls' = 1 .. Len(calls) + 1 /\ DOMAIN calls = 1 .. Len(calls)
      /\ \A i \in 1 .. Len(calls) : calls'[i] = calls[i]
      /\ calls'[Len(calls) + 1] = c /\ Len(calls) \in Nat
  OBVIOUS
<1>2. ASSUME NEW t, NEW e, Own(t, e)' PROVE Own(t, e) \/ (t = c.by /\ e = c.event)
  BY <1>1, <1>2 DEF Own
<1>3. ASSUME NEW t, NEW e, Own(t, e) PROVE Own(t, e)'
  BY <1>1, <1>3 DEF Own
<1>4. Own(c.by, c.event)'
  BY <1>1 DEF Own
<1> QED
  BY <1>2, <1>3, <1>4

\* What a thread knows, while it makes no callback.
LEMMA KnowsStays ==
  ASSUME NEW t, NEW k, \A e : Own(t, e)' <=> Own(t, e), Knows(t, k)
  PROVE  Knows(t, k)'
BY DEF Knows

\* A callback in its turn leads to the next stage.
LEMMA KnowsTurn ==
  ASSUME NEW t, NEW k, NEW e, NEW l, Knows(t, k), Turn(k, e, l),
         \A d : Own(t, d)' <=> Own(t, d) \/ d = e
  PROVE  Knows(t, l)'
<1>1. CASE e = "Started"
  BY <1>1 DEF Knows, Turn
<1>2. CASE e = "Result"
  BY <1>2 DEF Knows, Turn
<1>3. CASE e = "Completed"
  BY <1>3 DEF Knows, Turn
<1>4. CASE e = "TaskFailed"
  BY <1>4 DEF Knows, Turn
<1>5. CASE e = "Close"
  BY <1>5 DEF Knows, Turn
<1> QED
  BY <1>1, <1>2, <1>3, <1>4, <1>5 DEF Turn

Ending == status \in {"Completed", "Failed", "Closed"}
Off == ~events.read /\ events.write = "none"
Linked == status # "Closed" /\ link \in {"up", "broken"}
Streams(l) == \E m \in Stages : Runs(l, Parses(inbox), m) /\ Serves(server, m)

\* The others go on, and the event thread stands where it stood.
LEMMA CourseStays ==
  ASSUME NEW k \in Stages, NEW l \in Stages, Course(k, l), work' = work,
         \A e : Own("worker", e)' <=> Own("worker", e),
         Early' => Early, Fresh /\ Early' => Fresh', Off => Off',
         Linked' => Linked, Linked /\ Linked' /\ Streams(l) => Streams(l)',
         status = "Closed" => status' = "Closed", Past' => Past
  PROVE  Course(k, l)'
<1>1. Knows("worker", k)'
  BY KnowsStays DEF Course
<1>2. Leaving' <=> Leaving
  BY DEF Leaving
<1>3. ClosedNext("worker") => ClosedNext("worker")'
  BY DEF ClosedNext, work
<1> QED
  BY <1>1, <1>2, <1>3 DEF Course, Off, Linked, Streams

\* A step of the event thread.
LEMMA CourseGoes ==
  ASSUME NEW k \in Stages, NEW l \in Stages, Course(k, l), work # <<>>,
         NEW j \in Stages, NEW h \in {"new", "started", "closed"},
         Knows("worker", j)', Runs(j, work', h),
         ~events.launch => ~events'.launch, link' \in {link, "down"}, status' # "Created" \/ status' = status,
         h = "closed" => Leaving' \/ Off',
         Linked' /\ ~Leaving' => Linked /\ ~Leaving /\ UNCHANGED <<inbox, server>> /\ h = l,
         j = "closed" => status' = "Closed" \/ ClosedNext("worker")',
         Past' => j \notin {"new", "starting"}
  PROVE  Course(j, h)'
<1>1. ~Early
  BY DEF Course
<1>2. ~Early'
  BY <1>1 DEF Early
<1>3. Linked' /\ ~Leaving' => Streams(h)'
  <2> SUFFICES ASSUME Linked', ~Leaving' PROVE Streams(h)'
    OBVIOUS
  <2>1. Linked /\ ~Leaving /\ inbox' = inbox /\ server' = server /\ h = l
    OBVIOUS
  <2>2. Streams(l)
    BY <2>1 DEF Course, Linked, Streams
  <2> QED
    BY <2>1, <2>2 DEF Streams
<1> QED
  BY <1>2, <1>3 DEF Course, Off, Linked, Streams

\* A user's call while others go on.
LEMMA CallerStays ==
  ASSUME NEW t, NEW k \in Stages, NEW l \in Stages, Caller(t, k, l), todo'[t] = todo[t],
         \A e : Own(t, e)' <=> Own(t, e), Past => Past', Ending => Ending'
  PROVE  Caller(t, k, l)'
<1>1. Knows(t, k)'
  BY KnowsStays DEF Caller
<1>2. ClosedNext(t) => ClosedNext(t)'
  BY DEF ClosedNext
<1> QED
  BY <1>1, <1>2 DEF Caller, Ending

\* The users' calls do not notice the event thread.
LEMMA CallersStay ==
  ASSUME InTurn, \A t \in Users : todo'[t] = todo[t],
         \A t \in Users : \A e : Own(t, e)' <=> Own(t, e), Past => Past', Ending => Ending'
  PROVE  \A t \in Users : \E k, l \in Stages : Caller(t, k, l)'
<1> SUFFICES ASSUME NEW t \in Users PROVE \E k, l \in Stages : Caller(t, k, l)'
  OBVIOUS
<1>1. PICK k \in Stages, l \in Stages : Caller(t, k, l)
  BY DEF InTurn
<1> QED
  BY <1>1, CallerStays

\* What the next step of a program makes of the stage, and of the messages that are left.
LEMMA WorkGoes ==
  ASSUME Programs, NEW k \in Stages, NEW l \in Stages, Course(k, l), work # <<>>
  PROVE  /\ Head(work) \in ParseSteps /\ Tail(work) \in Seq(ParseSteps)
         /\ \E j \in Stages : Goes(Head(work), k, j) /\ Runs(j, Tail(work), l)
         /\ k \notin {"closed"} \/ Head(work).op = "closed" \/ status = "Closed"
         /\ ~Early
<1>1. work \in Seq(ParseSteps) /\ "worker" \in Threads
  BY DEF Programs, work, Threads
<1>2. Head(work) \in ParseSteps /\ Tail(work) \in Seq(ParseSteps)
  BY <1>1, TailIsSeq
<1>3. \E j \in Stages : Goes(Head(work), k, j) /\ Runs(j, Tail(work), l)
  BY <1>1, RunsOn DEF Course
<1> QED
  BY <1>2, <1>3 DEF Course, ClosedNext, work

\* How a step changes the program of the event thread.
LEMMA WorkNext ==
  ASSUME Programs, NEW p
  PROVE  /\ Continue("worker") => work' = Tail(work)
         /\ Perform("worker", p) => work' = p \o Tail(work)
         /\ Abandon("worker", p) => work' = p
BY DEF Programs, Continue, Perform, Abandon, work, Threads

\* The close that is ahead is the next step or still ahead.
LEMMA LeavingGoes ==
  ASSUME NEW S, work \in Seq(S), work # <<>>, NEW p \in Seq(S),
         work' = Tail(work) \/ work' = p \o Tail(work), Leaving
  PROVE  Shuts(Head(work)) \/ Leaving'
<1>1. PICK i \in 1 .. Len(work) : Shuts(work[i])
  BY DEF Leaving
<1>2. CASE i = 1
  BY <1>1, <1>2
<1>3. CASE i # 1
  <2>1. /\ i - 1 \in 1 .. Len(Tail(work)) /\ Tail(work)[i - 1] = work[i] /\ Tail(work) \in Seq(S)
    BY <1>1, <1>3
  <2>2. CASE work' = Tail(work)
    <3> DEFINE q == Tail(work)
    <3>1. i - 1 \in DOMAIN q /\ Shuts(q[i - 1]) /\ work' = q
      BY <1>1, <2>1, <2>2
    <3> HIDE DEF q
    <3> QED
      BY <3>1 DEF Leaving
  <2>3. CASE work' = p \o Tail(work)
    <3> DEFINE q == Tail(work)
    <3>1. q \in Seq(S) /\ i - 1 \in 1 .. Len(q) /\ q[i - 1] = work[i]
      BY <2>1
    <3> HIDE DEF q
    <3>2. Len(p) + (i - 1) \in DOMAIN (p \o q) /\ (p \o q)[Len(p) + (i - 1)] = q[i - 1]
      BY <3>1
    <3> QED
      BY <1>1, <2>3, <3>1, <3>2 DEF Leaving, q
  <2> QED
    BY <2>2, <2>3
<1> QED
  BY <1>2, <1>3

\* A program with a close leaves.
LEMMA LeavingBy ==
  ASSUME NEW S, NEW p \in Seq(S), NEW q \in Seq(S), NEW i \in DOMAIN p, Shuts(p[i]),
         work' = p \o q \/ work' = p
  PROVE  Leaving'
<1>1. i \in DOMAIN (p \o q) /\ (p \o q)[i] = p[i]
  OBVIOUS
<1> QED
  BY <1>1 DEF Leaving

\* Sending does not begin to listen again.
LEMMA SendingStays ==
  ASSUME Types, NEW directives, NEW result, SendAudio(result) \/ SendCmd(directives, result)
  PROVE  (Off => Off') /\ events'.launch = events.launch
<1>1. events \in [launch : BOOLEAN, read : BOOLEAN, write : {"none", "idle", "armed"}]
  BY DEF Types
<1>2. events' = events \/ (events.write # "none" /\ events' = [events EXCEPT !.write = "armed"])
  BY DEF SendAudio, SendCmd
<1> QED
  BY <1>1, <1>2 DEF Off

\* The event thread is done with a step; the users' calls do not notice.
LEMMA InTurnAgain ==
  ASSUME InTurn, Programs, NEW p, Continue("worker") \/ Perform("worker", p) \/ Abandon("worker", p),
         NEW k \in Stages, NEW l \in Stages, Course(k, l)',
         \A t \in Users : \A e : Own(t, e)' <=> Own(t, e), Past => Past', Ending => Ending'
  PROVE  InTurn'
<1>1. \A t \in Users : todo'[t] = todo[t]
  BY WorkerOnly
<1>2. \A t \in Users : \E j, h \in Stages : Caller(t, j, h)'
  BY <1>1, CallersStay
<1> QED
  BY <1>2 DEF InTurn

\* Sending, and the way to the next directive or, after an error, to the report.
LEMMA SendsInTurn ==
  ASSUME TypeInv, InTurn, work # <<>>, Head(work).op \in {"add", "notify", "flush", "directive", "command"},
         \/ Continue("worker") \/ Perform("worker", <<Do("directive")>>)
         \/ Perform("worker", <<Do("flush")>>) \/ Abandon("worker", OnError("worker")),
         UNCHANGED <<status, link, inbox, server, calls>>,
         events'.launch = events.launch, Off => Off'
  PROVE  InTurn'
<1>1. Programs /\ work \in Seq(ParseSteps)
  BY DEF TypeInv, Programs, work, Threads
<1>2. PICK k \in Stages, l \in Stages : Course(k, l)
  BY DEF InTurn
<1>3. PICK j \in Stages : Goes(Head(work), k, j) /\ Runs(j, Tail(work), l)
  BY <1>1, <1>2, WorkGoes
<1>4. k \in {"new", "started"} /\ j = k
  BY <1>3 DEF Goes
<1>5. \A t, e : Own(t, e)' <=> Own(t, e)
  BY DEF Own
<1>6. Knows("worker", k)'
  BY <1>2, <1>5, KnowsStays DEF Course
<1>7. (Past' <=> Past) /\ (Ending' <=> Ending) /\ (Linked' <=> Linked)
  BY DEF Past, Ending, Linked
<1>8. l \in {"new", "started", "closed"} /\ (l = "closed" => Leaving \/ Off)
      /\ (Past => k \notin {"new", "starting"})
  BY <1>2 DEF Course, Off
<1>9. ~Shuts(Head(work))
  BY DEF Shuts
<1>10. CASE \/ Continue("worker") \/ Perform("worker", <<Do("directive")>>)
            \/ Perform("worker", <<Do("flush")>>)
  <2>1. \A op \in {"directive", "flush"} : Do(op) \in ParseSteps /\ Goes(Do(op), k, k)
    BY <1>4, StepsAreSteps, GoesSteps
  <2>2. \A op \in {"directive", "flush"} : <<Do(op)>> \in Seq(ParseSteps) /\ Runs(k, <<Do(op)>>, k)
    BY <2>1, RunsOne
  <2>3. Tail(work) \in Seq(ParseSteps) /\ <<>> \o Tail(work) = Tail(work)
    BY <1>1, TailIsSeq, NoStep
  <2>4. PICK p \in Seq(ParseSteps) : work' = p \o Tail(work) /\ Runs(k, p, k)
    <3>1. CASE Continue("worker")
      <4>1. work' = <<>> \o Tail(work) /\ <<>> \in Seq(ParseSteps)
        BY <1>1, <2>3, <3>1, WorkNext
      <4>2. Runs(k, <<>>, k)
        BY RunsNothing
      <4> QED
        BY <4>1, <4>2
    <3>2. ASSUME NEW op \in {"directive", "flush"}, Perform("worker", <<Do(op)>>)
          PROVE  \E p \in Seq(ParseSteps) : work' = p \o Tail(work) /\ Runs(k, p, k)
      <4>1. work' = <<Do(op)>> \o Tail(work)
        BY <1>1, <3>2, WorkNext
      <4> QED
        BY <2>2, <4>1
    <3> QED
      BY <1>10, <3>1, <3>2
  <2>5. Runs(k, work', l)
    BY <1>3, <1>4, <2>3, <2>4, RunsJoin
  <2>6. Leaving => Leaving'
    BY <1>1, <1>9, <2>4, LeavingGoes
  <2>7. Course(k, l)'
    BY <1>2, <1>4, <1>6, <1>7, <1>8, <2>5, <2>6, CourseGoes
  <2> QED
    BY <1>1, <1>5, <1>7, <1>10, <2>7, InTurnAgain
<1>11. CASE Abandon("worker", OnError("worker"))
  <2>1. work' = OnError("worker")
    BY <1>1, <1>11, WorkNext
  <2>2. OnError("worker") = FailedRead \/ OnError("worker") = FailedWrite
    BY DEF OnError, Users
  <2>3. CASE status = "Closed" /\ work' = FailedRead
    <3>1. work' = <<>> /\ Runs(k, work', k)
      BY <1>4, <2>3, FailuresRun, RunsNothing
    <3>2. ~Linked'
      BY <2>3 DEF Linked
    <3>3. Course(k, k)'
      BY <1>2, <1>4, <1>6, <1>8, <1>7, <3>1, <3>2, CourseGoes
    <3> QED
      BY <1>1, <1>5, <1>7, <1>11, <3>3, InTurnAgain
  <2>4. CASE work' = FailedWrite \/ (status # "Closed" /\ work' = FailedRead)
    <3>1. Runs(k, work', "closed")
      BY <1>4, <2>4, FailuresRun
    <3>2. Leaving'
      BY <2>4, FailuresShut DEF Leaving
    <3>3. "closed" \in Stages
      BY DEF Stages
    <3>4. Course(k, "closed")'
      BY <1>2, <1>4, <1>6, <1>8, <1>7, <3>1, <3>2, <3>3, CourseGoes
    <3> QED
      BY <1>1, <1>5, <1>7, <1>11, <3>3, <3>4, InTurnAgain
  <2> QED
    BY <2>1, <2>2, <2>3, <2>4
<1> QED
  BY <1>10, <1>11

\* A step of the event thread whose program goes on.
LEMMA WorkOn ==
  ASSUME TypeInv, InTurn, work # <<>>,
         NEW k \in Stages, NEW l \in Stages, NEW j \in Stages, NEW g \in Stages,
         Course(k, l), Runs(j, Tail(work), l),
         NEW p \in Seq(ParseSteps), (Continue("worker") /\ p = <<>>) \/ Perform("worker", p),
         Runs(g, p, j), Knows("worker", g)',
         \A t \in Users : \A e : Own(t, e)' <=> Own(t, e), Past => Past', Ending => Ending',
         events' \in {events, NoEvents}, link' \in {link, "down"},
         status' # "Created" \/ status' = status,
         server' = server, inbox' = inbox \/ link' = "down",
         status = "Closed" => status' = "Closed" \/ Leaving',
         Shuts(Head(work)) => Leaving' \/ (events' = NoEvents /\ link' = "down"),
         g = "closed" => status' = "Closed" \/ ClosedNext("worker")',
         Past' => g \notin {"new", "starting"}
  PROVE  InTurn'
<1>1. Programs /\ Types /\ work \in Seq(ParseSteps)
  BY DEF TypeInv, Programs, work, Threads
<1>2. Tail(work) \in Seq(ParseSteps)
  BY <1>1, TailIsSeq
<1>3. work' = p \o Tail(work)
  <2>1. <<>> \o Tail(work) = Tail(work)
    BY <1>2, NoStep
  <2> QED
    BY <1>1, <2>1, WorkNext
<1>4. Runs(g, work', l)
  BY <1>2, <1>3, RunsJoin
<1>5. Leaving => Leaving' \/ (events' = NoEvents /\ link' = "down")
  <2>1. Leaving => Shuts(Head(work)) \/ Leaving'
    BY <1>1, <1>3, LeavingGoes
  <2> QED
    BY <2>1
<1>6. l \in {"new", "started", "closed"} /\ (l = "closed" => Leaving \/ Off)
  BY DEF Course, Off
<1>7. (Off => Off') /\ (events' = NoEvents => Off') /\ (~events.launch => ~events'.launch)
  BY DEF Off, NoEvents
<1>8. Linked' /\ ~Leaving' => Linked /\ inbox' = inbox /\ link' # "down"
  BY DEF Linked
<1>9. Course(g, l)'
  <2>1. l = "closed" => Leaving' \/ Off'
    BY <1>5, <1>6, <1>7
  <2>2. Linked' /\ ~Leaving' => Linked /\ ~Leaving /\ UNCHANGED <<inbox, server>>
    BY <1>5, <1>8
  <2> QED
    BY <1>4, <1>6, <1>7, <2>1, <2>2, CourseGoes
<1> QED
  BY <1>1, <1>9, InTurnAgain

\* A step that shows the users nothing and leaves the network alone.
LEMMA QuietStep ==
  ASSUME UNCHANGED <<status, events, link, server, inbox, calls>>
  PROVE  /\ \A t, e : Own(t, e)' <=> Own(t, e)
         /\ Past' <=> Past
         /\ Ending' <=> Ending
BY DEF Own, Past, Ending

\* handlerEvent, on the event thread.
LEMMA EventInTurn == ASSUME TypeInv, InTurn, Event("worker"), exit # "Cancel" PROVE InTurn'
<1>1. work # <<>> /\ Head(work).op = "event" /\ Programs
  BY DEF Event, At, work, TypeInv
<1>2. PICK k \in Stages, l \in Stages : Course(k, l)
  BY DEF InTurn
<1>3. PICK j \in Stages : Goes(Head(work), k, j) /\ Runs(j, Tail(work), l)
  BY <1>1, <1>2, WorkGoes
<1>4. About("worker") = Head(work).about /\ About("worker") \in Callbacks
  BY <1>1, HeadIs DEF About, work, Threads
<1>5. Turn(k, About("worker"), j)
  BY <1>1, <1>3, <1>4 DEF Goes
<1>6. On("call", About("worker")) \in ParseSteps
  BY <1>4, StepsAreSteps
<1>7. Goes(On("call", About("worker")), k, j)
  BY <1>5, GoesSteps DEF Goes
<1>8. /\ <<On("call", About("worker"))>> \in Seq(ParseSteps)
      /\ Runs(k, <<On("call", About("worker"))>>, j)
  BY <1>6, <1>7, RunsOne
<1>9. UNCHANGED <<status, events, link, server, inbox, calls>>
  BY DEF Event, node, network
<1>10. Knows("worker", k)'
  BY <1>2, <1>9, QuietStep, KnowsStays DEF Course
<1>11. ~Shuts(Head(work)) /\ k # "closed"
  BY <1>1, <1>5 DEF Shuts, Turn
<1>12. Perform("worker", <<On("call", About("worker"))>>)
  BY DEF Event
<1>13. Past => k \notin {"new", "starting"}
  BY <1>2 DEF Course
<1> QED
  BY <1>1, <1>2, <1>3, <1>8, <1>9, <1>10, <1>11, <1>12, <1>13, QuietStep, WorkOn

\* What a callback makes known.
LEMMA CallTold ==
  ASSUME TypeInv, NEW t \in Threads, Call(t)
  PROVE  /\ \A u, e : Own(u, e)' <=> Own(u, e) \/ (u = t /\ e = About(t))
         /\ About(t) \in Callbacks
<1>1. About(t) \in Callbacks
  BY HeadIs DEF TypeInv, Call, At
<1>2. [by |-> t, event |-> About(t), late |-> exit = "Cancel"] \in Call_
  BY <1>1 DEF Call_
<1>3. calls \in Seq(Call_)
  BY DEF TypeInv, Types
<1> QED
  BY <1>1, <1>2, <1>3, OwnMore DEF Call

\* The callback, on the event thread.
LEMMA CallInTurn == ASSUME TypeInv, InTurn, Call("worker") PROVE InTurn'
<1>1. work # <<>> /\ Head(work).op = "call" /\ Programs
  BY DEF Call, At, work, TypeInv
<1>2. PICK k \in Stages, l \in Stages : Course(k, l)
  BY DEF InTurn
<1>3. PICK j \in Stages : Goes(Head(work), k, j) /\ Runs(j, Tail(work), l)
  BY <1>1, <1>2, WorkGoes
<1> DEFINE e == About("worker")
<1>4. e = Head(work).about
  BY DEF About, work
<1>5. Turn(k, e, j)
  BY <1>1, <1>3, <1>4 DEF Goes
<1>6. \A u, d : Own(u, d)' <=> Own(u, d) \/ (u = "worker" /\ d = e)
  BY CallTold DEF Threads
<1>7. Knows("worker", j)'
  BY <1>2, <1>5, <1>6, KnowsTurn DEF Course
<1>8. \A t \in Users : \A d : Own(t, d)' <=> Own(t, d)
  BY <1>6 DEF Users
<1>9. UNCHANGED <<status, events, link, server, inbox>>
  BY DEF Call, network
<1>10. (Past' <=> Past) /\ (Ending' <=> Ending) /\ ~Shuts(Head(work))
  BY <1>1, <1>9 DEF Past, Ending, Shuts
<1>11. Past => j \notin {"new", "starting"}
  BY <1>2, <1>5 DEF Course, Turn
<1>12. CASE e = "Close"
  <2>1. Perform("worker", <<Do("closed")>>)
    BY <1>12 DEF Call
  <2>2. Do("closed") \in ParseSteps /\ j = "closed"
    BY <1>5, <1>12, StepsAreSteps DEF Turn
  <2>3. Goes(Do("closed"), j, j)
    BY <2>2, GoesSteps DEF Goes
  <2>4. <<Do("closed")>> \in Seq(ParseSteps) /\ Runs(j, <<Do("closed")>>, j)
    BY <2>2, <2>3, RunsOne
  <2>5. ClosedNext("worker")'
    <3>1. todo'["worker"] = <<Do("closed")>> \o Tail(work)
      BY <1>1, <2>1, WorkNext DEF work
    <3>2. Tail(work) \in Seq(ParseSteps)
      BY <1>1, HeadIs DEF work, Threads
    <3>3. todo'["worker"] # <<>> /\ Head(todo'["worker"]) = Do("closed")
      BY <2>2, <2>4, <3>1, <3>2, OneStep, HeadOfConcat
    <3> QED
      BY <3>3, GoesSteps DEF ClosedNext
  <2> QED
    BY <1>1, <1>2, <1>3, <1>7, <1>8, <1>9, <1>10, <1>11, <2>1, <2>4, <2>5, WorkOn
<1>13. CASE e # "Close"
  <2>1. Continue("worker") /\ j # "closed"
    BY <1>5, <1>13 DEF Call, Turn
  <2>2. <<>> \in Seq(ParseSteps) /\ Runs(j, <<>>, j)
    BY RunsNothing
  <2> QED
    BY <1>1, <1>2, <1>3, <1>7, <1>8, <1>9, <1>10, <1>11, <2>1, <2>2, WorkOn
<1> QED
  BY <1>12, <1>13

\* handlerEvent after the callback Close, on the event thread.
LEMMA ClosedInTurn == ASSUME TypeInv, InTurn, Closed("worker") PROVE InTurn'
<1>1. work # <<>> /\ Head(work).op = "closed" /\ Programs
  BY DEF Closed, At, work, TypeInv
<1>2. PICK k \in Stages, l \in Stages : Course(k, l)
  BY DEF InTurn
<1>3. PICK j \in Stages : Goes(Head(work), k, j) /\ Runs(j, Tail(work), l)
  BY <1>1, <1>2, WorkGoes
<1>4. k = "closed" /\ j = k
  BY <1>1, <1>3 DEF Goes
<1>5. UNCHANGED <<events, link, server, inbox, calls>> /\ status' = "Closed" /\ Continue("worker")
  BY DEF Closed, network
<1>6. \A t, e : Own(t, e)' <=> Own(t, e)
  BY <1>5 DEF Own
<1>7. Knows("worker", k)' /\ Past' /\ Ending' /\ ~Shuts(Head(work))
  BY <1>1, <1>2, <1>5, <1>6, KnowsStays DEF Course, Past, Ending, Shuts
<1>8. <<>> \in Seq(ParseSteps) /\ Runs(k, <<>>, j)
  BY <1>4, RunsNothing
<1> QED
  BY <1>1, <1>2, <1>3, <1>4, <1>5, <1>6, <1>7, <1>8, WorkOn

\* closeConnectNode and disconnectProcess, on the event thread.
LEMMA CutInTurn ==
  ASSUME TypeInv, InTurn, CloseNode("worker") \/ Disconnect("worker") PROVE InTurn'
<1>1. work # <<>> /\ Head(work).op \in {"close", "disconnect"} /\ Programs
  BY DEF CloseNode, Disconnect, At, work, TypeInv
<1>2. PICK k \in Stages, l \in Stages : Course(k, l)
  BY DEF InTurn
<1>3. PICK j \in Stages : Goes(Head(work), k, j) /\ Runs(j, Tail(work), l)
  BY <1>1, <1>2, WorkGoes
<1>4. j = k /\ (k = "closed" => status = "Closed")
  BY <1>1, <1>2, <1>3, WorkGoes DEF Goes
<1>5. UNCHANGED <<status, server, calls>> /\ Continue("worker") /\ link' = "down"
  BY DEF CloseNode, Disconnect, node
<1>6. \A t, e : Own(t, e)' <=> Own(t, e)
  BY <1>5 DEF Own
<1>7. /\ Knows("worker", k)' /\ (Past' <=> Past) /\ (Ending' <=> Ending)
      /\ Past => k \notin {"new", "starting"}
  BY <1>2, <1>5, <1>6, KnowsStays DEF Course, Past, Ending
<1>8. <<>> \in Seq(ParseSteps) /\ Runs(k, <<>>, j)
  BY <1>4, RunsNothing
<1>9. /\ events' \in {events, NoEvents}
      /\ Shuts(Head(work)) => events' = NoEvents
  BY <1>1 DEF CloseNode, Disconnect, node, Shuts, At, work
<1> QED
  BY <1>1, <1>2, <1>3, <1>4, <1>5, <1>6, <1>7, <1>8, <1>9, WorkOn

\* The callback of a message, and what follows it.
LEMMA HearsTurns ==
  ASSUME NEW k \in {"new", "started"}, NEW m \in Replies, NEW j \in Stages, Hears(k, m, j),
         NEW e, e = IF m = "CLOSE" THEN "TaskFailed" ELSE m
  PROVE  /\ e \in Callbacks
         /\ Runs(k, <<On("call", e), On("after", e)>>, j)
         /\ <<On("call", e), On("after", e)>> \in Seq(ParseSteps)
         /\ m \in {"Completed", "TaskFailed", "CLOSE"} =>
              \E i \in DOMAIN <<On("call", e), On("after", e)>> :
                Shuts(<<On("call", e), On("after", e)>>[i])
<1>1. e \in Callbacks
  BY DEF Replies, Messages, Callbacks
<1>2. /\ On("call", e) \in ParseSteps /\ On("after", e) \in ParseSteps
      /\ <<On("call", e)>> \in Seq(ParseSteps) /\ <<On("after", e)>> \in Seq(ParseSteps)
  BY <1>1, StepsAreSteps
<1>3. \E x \in Stages : Turn(k, e, x) /\ Follows(x, e, j)
  <2>1. CASE m = "Started"
    BY <2>1 DEF Hears, Turn, Follows, Stages
  <2>2. CASE m = "Result"
    BY <2>2 DEF Hears, Turn, Follows, Stages
  <2>3. CASE m = "Completed"
    BY <2>3 DEF Hears, Turn, Follows, Stages
  <2>4. CASE m \in {"TaskFailed", "CLOSE"}
    BY <2>4 DEF Hears, Turn, Follows, Stages
  <2> QED
    BY <2>1, <2>2, <2>3, <2>4 DEF Hears, Replies
<1>4. PICK x \in Stages : Turn(k, e, x) /\ Follows(x, e, j)
  BY <1>3
<1>5. Goes(On("call", e), k, x) /\ Goes(On("after", e), x, j)
  BY <1>4, GoesSteps DEF Goes
<1>6. k \in Stages
  BY DEF Stages
<1>7. Runs(k, <<On("call", e)>> \o <<On("after", e)>>, j)
  BY <1>2, <1>5, <1>6, RunsOne, RunsJoin
<1>8. /\ <<On("call", e)>> \o <<On("after", e)>> = <<On("call", e), On("after", e)>>
      /\ <<On("call", e), On("after", e)>> \in Seq(ParseSteps)
  BY <1>2, TwoSteps
<1>9. ASSUME m \in {"Completed", "TaskFailed", "CLOSE"}
      PROVE  \E i \in DOMAIN <<On("call", e), On("after", e)>> :
               Shuts(<<On("call", e), On("after", e)>>[i])
  <2>1. Shuts(On("after", e))
    BY <1>9, GoesSteps DEF Shuts
  <2>2. 2 \in DOMAIN <<On("call", e), On("after", e)>> /\ <<On("call", e), On("after", e)>>[2] = On("after", e)
    OBVIOUS
  <2> QED
    BY <2>1, <2>2
<1> QED
  BY <1>1, <1>7, <1>8, <1>9

\* parseFrame up to the callback.
LEMMA ParseInTurn == ASSUME TypeInv, InTurn, Parse, exit # "Cancel" PROVE InTurn'
<1>1. work # <<>> /\ Head(work).op = "parse" /\ Programs /\ "worker" \in Threads
  BY DEF Parse, At, work, TypeInv, Threads
<1>2. PICK k \in Stages, l \in Stages : Course(k, l)
  BY DEF InTurn
<1>3. /\ k \notin {"closed"} \/ Head(work).op = "closed" \/ status = "Closed"
      /\ Tail(work) \in Seq(ParseSteps)
  BY <1>1, <1>2, WorkGoes
<1>4. PICK j \in Stages : Goes(Head(work), k, j) /\ Runs(j, Tail(work), l)
  BY <1>1, <1>2, WorkGoes
<1> DEFINE m == About("worker")
           e == IF m = "CLOSE" THEN "TaskFailed" ELSE m
<1>5. m = Head(work).about /\ m \in Replies
  BY <1>1, HeadIs DEF About, work
<1>6. Hears(k, m, j)
  BY <1>1, <1>4, <1>5 DEF Goes
<1>7. UNCHANGED <<status, events, link, server, inbox, calls>>
  BY DEF Parse, node, network
<1>8. Knows("worker", k)' /\ (Past => k \notin {"new", "starting"})
  BY <1>2, <1>7, QuietStep, KnowsStays DEF Course
<1>9. CASE NormalEnd(m)
  <2>1. Abandon("worker", <<Do("close")>>) /\ status = "Closed"
    BY <1>9 DEF Parse, NormalEnd
  <2>2. work' = <<Do("close")>>
    BY <1>1, <2>1, WorkNext
  <2>3. Do("close") \in ParseSteps /\ k \in {"new", "started", "closed"}
    BY <1>6, <1>9, StepsAreSteps DEF Hears, NormalEnd
  <2>4. Goes(Do("close"), k, k)
    BY <2>3, GoesSteps
  <2>5. Runs(k, work', k)
    BY <2>2, <2>3, <2>4, RunsOne
  <2>6. Leaving'
    BY <2>2, FailuresShut DEF Leaving
  <2>7. ~Linked' /\ status' = "Closed"
    BY <1>7, <2>1 DEF Linked
  <2>8. Course(k, k)'
    BY <1>1, <1>2, <1>7, <1>8, <2>1, <2>3, <2>5, <2>6, <2>7, QuietStep, CourseGoes
  <2> QED
    BY <1>1, <1>7, <2>1, <2>8, QuietStep, InTurnAgain
<1>10. CASE ~NormalEnd(m)
  <2>1. k \in {"new", "started"}
    BY <1>1, <1>3, <1>6, <1>10 DEF Hears, NormalEnd
  <2>2. Perform("worker", <<On("call", e), On("after", e)>>)
    BY <1>10 DEF Parse
  <2>3. /\ Runs(k, <<On("call", e), On("after", e)>>, j)
        /\ <<On("call", e), On("after", e)>> \in Seq(ParseSteps)
        /\ m \in {"Completed", "TaskFailed", "CLOSE"} =>
             \E i \in DOMAIN <<On("call", e), On("after", e)>> :
               Shuts(<<On("call", e), On("after", e)>>[i])
    BY <1>5, <1>6, <2>1, HearsTurns
  <2> HIDE DEF e
  <2> DEFINE p == <<On("call", e), On("after", e)>>
  <2> HIDE DEF p
  <2>4. Runs(k, p, j) /\ p \in Seq(ParseSteps) /\ Perform("worker", p)
    BY <2>2, <2>3 DEF p
  <2>5. Shuts(Head(work)) => Leaving'
    <3>1. Shuts(Head(work)) => m \in {"Completed", "TaskFailed", "CLOSE"}
      BY <1>1, <1>5 DEF Shuts
    <3>2. work' = p \o Tail(work)
      BY <1>1, <2>4, WorkNext
    <3>3. (\E i \in DOMAIN p : Shuts(p[i])) => Leaving'
      BY <1>3, <2>4, <3>2, LeavingBy
    <3>4. m \in {"Completed", "TaskFailed", "CLOSE"} => \E i \in DOMAIN p : Shuts(p[i])
      BY <2>3 DEF p
    <3> QED
      BY <3>1, <3>3, <3>4
  <2> QED
    BY <1>1, <1>2, <1>4, <1>7, <1>8, <2>1, <2>4, <2>5, QuietStep, WorkOn
<1> QED
  BY <1>9, <1>10

\* parseFrame after the callback: the status, and the way to Close.
LEMMA AfterInTurn == ASSUME TypeInv, InTurn, After PROVE InTurn'
<1>1. work # <<>> /\ Head(work).op = "after" /\ Programs /\ "worker" \in Threads
  BY DEF After, At, work, TypeInv, Threads
<1>2. PICK k \in Stages, l \in Stages : Course(k, l)
  BY DEF InTurn
<1>3. Tail(work) \in Seq(ParseSteps)
  BY <1>1, <1>2, WorkGoes
<1>4. PICK j \in Stages : Goes(Head(work), k, j) /\ Runs(j, Tail(work), l)
  BY <1>1, <1>2, WorkGoes
<1> DEFINE e == About("worker")
<1>5. e = Head(work).about
  BY DEF About, work
<1>6. Follows(k, e, j)
  BY <1>1, <1>4, <1>5 DEF Goes
<1>7. UNCHANGED <<events, link, server, inbox, calls>>
  BY DEF After, network
<1>8. \A t, d : Own(t, d)' <=> Own(t, d)
  BY <1>7 DEF Own
<1>9. /\ Knows("worker", k)' /\ Knows("worker", k)
      /\ Past => k \notin {"new", "starting"}
  BY <1>2, <1>8, KnowsStays DEF Course
<1>10. CASE e = "Started"
  <2>1. k = "starting" /\ j = "started" /\ ~Past
    BY <1>6, <1>9, <1>10 DEF Follows
  <2>2. status' = "Started" /\ Continue("worker")
    BY <1>10 DEF After
  <2>3. Knows("worker", j)'
    BY <1>8, <1>9, <2>1 DEF Knows
  <2>4. status # "Closed" /\ ~Ending
    BY <2>1 DEF Past, Ending
  <2>5. <<>> \in Seq(ParseSteps) /\ Runs(j, <<>>, j) /\ ~Shuts(Head(work))
    BY <1>1, <1>5, <1>10, RunsNothing DEF Shuts
  <2> QED
    BY <1>1, <1>2, <1>4, <1>7, <1>8, <2>1, <2>2, <2>3, <2>4, <2>5, WorkOn
<1>11. CASE e = "Result"
  <2>1. k = "started" /\ j = k
    BY <1>6, <1>11 DEF Follows
  <2>2. status' = status /\ Continue("worker")
    BY <1>11 DEF After
  <2>3. <<>> \in Seq(ParseSteps) /\ Runs(j, <<>>, j) /\ ~Shuts(Head(work))
    BY <1>1, <1>5, <1>11, RunsNothing DEF Shuts
  <2> QED
    BY <1>1, <1>2, <1>4, <1>7, <1>9, <2>1, <2>2, <2>3, QuietStep, WorkOn
<1>12. CASE e \in {"Completed", "TaskFailed"}
  <2>1. k = "ended" /\ j = "closed"
    BY <1>6, <1>12 DEF Follows
  <2>2. /\ status' \in {"Completed", "Failed"}
        /\ Perform("worker", <<Do("close"), On("event", "Close")>>)
    BY <1>12 DEF After
  <2>3. /\ Do("close") \in ParseSteps /\ On("event", "Close") \in ParseSteps
        /\ <<Do("close")>> \in Seq(ParseSteps) /\ <<On("event", "Close")>> \in Seq(ParseSteps)
    BY StepsAreSteps DEF Callbacks
  <2>4. Goes(Do("close"), k, k) /\ Goes(On("event", "Close"), k, j)
    BY <2>1, GoesSteps DEF Goes, Turn
  <2>5. Runs(k, <<Do("close")>> \o <<On("event", "Close")>>, j)
    BY <2>3, <2>4, RunsOne, RunsJoin
  <2> DEFINE p == <<Do("close"), On("event", "Close")>>
  <2>6. p \in Seq(ParseSteps) /\ Runs(k, p, j)
    BY <2>3, <2>5, TwoSteps
  <2>7. 1 \in DOMAIN p /\ Shuts(p[1])
    BY GoesSteps DEF Shuts
  <2> HIDE DEF p
  <2>8. work' = p \o Tail(work)
    BY <1>1, <2>2, WorkNext DEF p
  <2>9. Leaving'
    BY <1>3, <2>6, <2>7, <2>8, LeavingBy
  <2>10. Past' /\ Ending' /\ status' # "Created"
    BY <2>2 DEF Past, Ending
  <2>11. Perform("worker", p)
    BY <2>2 DEF p
  <2> QED
    BY <1>1, <1>2, <1>4, <1>7, <1>8, <1>9, <2>1, <2>6, <2>9, <2>10, <2>11, WorkOn
<1> QED
  BY <1>6, <1>10, <1>11, <1>12 DEF Follows

\* nodeResponseProcess: a node that has just become Started sends.
LEMMA BeginInTurn == ASSUME TypeInv, InTurn, Begin PROVE InTurn'
<1>1. work # <<>> /\ Head(work).op = "begin" /\ Programs
  BY DEF Begin, At, work, TypeInv
<1>2. PICK k \in Stages, l \in Stages : Course(k, l)
  BY DEF InTurn
<1>3. PICK j \in Stages : Goes(Head(work), k, j) /\ Runs(j, Tail(work), l)
  BY <1>1, <1>2, WorkGoes
<1>4. /\ j = k /\ k \in {"new", "started", "closed"} /\ (k = "closed" => status = "Closed")
      /\ ~Shuts(Head(work))
  BY <1>1, <1>2, <1>3, WorkGoes DEF Goes, Shuts
<1>5. UNCHANGED <<status, events, link, server, inbox, calls>>
  BY DEF Begin, node, network
<1>6. Knows("worker", k)' /\ (Past => k \notin {"new", "starting"})
  BY <1>2, <1>5, QuietStep, KnowsStays DEF Course
<1>7. CASE status = "Started"
  <2>1. Do("flush") \in ParseSteps /\ Goes(Do("flush"), k, k)
    BY <1>4, <1>7, StepsAreSteps, GoesSteps
  <2>2. <<Do("flush")>> \in Seq(ParseSteps) /\ Runs(k, <<Do("flush")>>, j)
    BY <1>4, <2>1, RunsOne
  <2>3. Perform("worker", <<Do("flush")>>) /\ k # "closed"
    BY <1>4, <1>7 DEF Begin
  <2> QED
    BY <1>1, <1>2, <1>3, <1>4, <1>5, <1>6, <2>2, <2>3, QuietStep, WorkOn
<1>8. CASE status # "Started"
  <2>1. Continue("worker")
    BY <1>8 DEF Begin
  <2>2. <<>> \in Seq(ParseSteps) /\ Runs(k, <<>>, j)
    BY <1>4, RunsNothing
  <2> QED
    BY <1>1, <1>2, <1>3, <1>4, <1>5, <1>6, <2>1, <2>2, QuietStep, WorkOn
<1> QED
  BY <1>7, <1>8

\* What the event thread sends.
LEMMA SendInTurn ==
  ASSUME TypeInv, InTurn,
         Add("worker") \/ Notify("worker") \/ Flush("worker") \/ Directive("worker") \/ Command
  PROVE  InTurn'
<1>1. /\ work # <<>> /\ Head(work).op \in {"add", "notify", "flush", "directive", "command"} /\ Types
      /\ "worker" \notin Users
      /\ events \in [launch : BOOLEAN, read : BOOLEAN, write : {"none", "idle", "armed"}]
  BY DEF Add, Notify, Flush, Directive, Command, At, work, TypeInv, Types, Users
<1>2. \/ Continue("worker") \/ Perform("worker", <<Do("directive")>>)
      \/ Perform("worker", <<Do("flush")>>) \/ Abandon("worker", OnError("worker"))
  BY DEF Add, Notify, Flush, Directive, Command
<1>3. UNCHANGED <<status, link, inbox, server, calls>>
  BY DEF Add, Notify, Flush, Directive, Command, node, network
<1>4. CASE Add("worker") \/ Notify("worker")
  <2>1. (Off => Off') /\ events'.launch = events.launch
    BY <1>1, <1>4 DEF Add, Notify, node, Off
  <2> QED
    BY <1>1, <1>2, <1>3, <2>1, SendsInTurn
<1>5. CASE Flush("worker") \/ Directive("worker") \/ Command
  <2>1. \/ events' = events
        \/ \E result, directives : SendAudio(result) \/ SendCmd(directives, result)
    BY <1>1, <1>5 DEF Flush, Directive, Command
  <2>2. (Off => Off') /\ events'.launch = events.launch
    BY <1>1, <2>1, SendingStays DEF Off
  <2> QED
    BY <1>1, <1>2, <1>3, <2>2, SendsInTurn
<1> QED
  BY <1>4, <1>5

\* The messages after the first, and after several.
LEMMA ParsesNext ==
  ASSUME NEW ms \in Seq(Messages), ms # <<>>
  PROVE  /\ Parses(ms) \in Seq(ParseAny) /\ Parses(ms) # <<>>
         /\ Head(Parses(ms)) = On("parse", Head(ms)) /\ Tail(Parses(ms)) = Parses(Tail(ms))
<1>1. Head(ms) \in Messages /\ Tail(ms) \in Seq(Messages) /\ <<Head(ms)>> \in Seq(Messages)
      /\ <<Head(ms)>> \o Tail(ms) = ms
  OBVIOUS
<1>2. /\ Parses(<<Head(ms)>>) \in Seq(ParseAny) /\ Len(Parses(<<Head(ms)>>)) = 1
      /\ Parses(<<Head(ms)>>)[1] = On("parse", Head(ms))
  <2> DEFINE one == <<Head(ms)>>
  <2>1. Len(one) = 1 /\ one[1] = Head(ms) /\ one \in Seq(Messages)
    BY <1>1
  <2> HIDE DEF one
  <2>2. Parses(one) \in Seq(ParseAny) /\ Len(Parses(one)) = 1 /\ Parses(one)[1] = On("parse", one[1])
    BY <2>1, ParsesAny
  <2> QED
    BY <2>1, <2>2 DEF one
<1>3. On("parse", Head(ms)) \in ParseAny /\ Parses(Tail(ms)) \in Seq(ParseAny)
      /\ Parses(ms) \in Seq(ParseAny)
  BY <1>1, ParsesAny DEF ParseAny
<1>4. Parses(<<Head(ms)>>) = <<On("parse", Head(ms))>>
  <2>1. /\ <<On("parse", Head(ms))>> \in Seq(ParseAny) /\ Len(<<On("parse", Head(ms))>>) = 1
        /\ <<On("parse", Head(ms))>>[1] = On("parse", Head(ms))
    BY <1>3
  <2>2. \A i \in 1 .. 1 : Parses(<<Head(ms)>>)[i] = <<On("parse", Head(ms))>>[i]
    BY <1>2, <2>1
  <2> QED
    BY <1>2, <2>1, <2>2, SameSteps
<1>5. Parses(ms) = <<On("parse", Head(ms))>> \o Parses(Tail(ms))
  BY <1>1, <1>4, ParsesJoin
<1>6. /\ <<On("parse", Head(ms))>> \in Seq(ParseAny) /\ <<On("parse", Head(ms))>> # <<>>
      /\ Head(<<On("parse", Head(ms))>>) = On("parse", Head(ms)) /\ Tail(<<On("parse", Head(ms))>>) = <<>>
  BY <1>3, OneStep
<1>7. <<>> \o Parses(Tail(ms)) = Parses(Tail(ms))
  BY <1>3, NoStep
<1> QED
  BY <1>3, <1>5, <1>6, <1>7, HeadOfConcat

\* No message, nothing to parse.
LEMMA ParsesNone == Parses(<<>>) = <<>>
<1>1. <<>> \in Seq(Replies)
  OBVIOUS
<1> QED
  BY <1>1, ParsesAre

\* The messages read now and those left for the next time.
LEMMA CutOff ==
  ASSUME NEW S, NEW ms \in Seq(S), NEW n \in 1 .. Len(ms)
  PROVE  /\ SubSeq(ms, 1, n) \in Seq(S) /\ SubSeq(ms, n + 1, Len(ms)) \in Seq(S)
         /\ SubSeq(ms, 1, n) \o SubSeq(ms, n + 1, Len(ms)) = ms
         /\ DOMAIN SubSeq(ms, 1, n) = 1 .. n /\ \A i \in 1 .. n : SubSeq(ms, 1, n)[i] = ms[i]
OBVIOUS

\* The event thread between two callbacks of libevent.
LEMMA AtRestInTurn ==
  ASSUME TypeInv, InTurn, Worker
  PROVE  /\ work = <<>> /\ ~Leaving /\ Programs
         /\ \E k \in {"new", "started", "closed"} :
              Course(k, k) /\ (k = "closed" => Off /\ status = "Closed")
<1>1. work = <<>> /\ Programs
  BY DEF Worker, Idle, work, TypeInv
<1>2. ~Leaving /\ ~ClosedNext("worker")
  BY <1>1 DEF Leaving, ClosedNext, work
<1>3. PICK k \in Stages, l \in Stages : Course(k, l)
  BY DEF InTurn
<1>4. k = l
  BY <1>1, <1>3, RunsNothing DEF Course
<1>5. k \in {"new", "started", "closed"}
  BY <1>3, <1>4 DEF Course
<1>6. k = "closed" => Off /\ status = "Closed"
  BY <1>2, <1>3, <1>4 DEF Course, Off
<1> QED
  BY <1>1, <1>2, <1>3, <1>4, <1>5, <1>6

\* It starts a program.
LEMMA RestOn ==
  ASSUME TypeInv, InTurn, Worker, NEW k \in {"new", "started"}, Course(k, k),
         NEW p, Abandon("worker", p), NEW h \in {"new", "started", "closed"}, Runs(k, p, h),
         ~Early', h = "closed" => Leaving' \/ (Off' /\ ~Linked'),
         Linked' /\ ~Leaving' => Streams(h)', calls' = calls,
         Past' => Past \/ k # "new", Past => Past', Ending => Ending'
  PROVE  InTurn'
<1>1. work' = p /\ Programs
  BY WorkNext DEF TypeInv
<1>2. \A t, e : Own(t, e)' <=> Own(t, e)
  BY DEF Own
<1>3. Knows("worker", k)' /\ (Past => k \notin {"new", "starting"})
  BY <1>2, KnowsStays DEF Course
<1>4. Course(k, h)'
  BY <1>1, <1>3 DEF Course, Off, Linked, Streams
<1>5. k \in Stages /\ h \in Stages
  BY DEF Stages
<1> QED
  BY <1>1, <1>2, <1>4, <1>5, InTurnAgain

\* It rests on, in another state.
LEMMA RestStays ==
  ASSUME TypeInv, InTurn, Worker, NEW k \in {"new", "started"}, Course(k, k), todo' = todo,
         Early' => Fresh' /\ k = "new", Linked' => Streams(k)', calls' = calls,
         Past' => Past, Past => Past', Ending => Ending'
  PROVE  InTurn'
<1>1. work' = work /\ work = <<>>
  BY DEF Worker, Idle, work
<1>2. \A t, e : Own(t, e)' <=> Own(t, e)
  BY DEF Own
<1>3. /\ Knows("worker", k)' /\ (Past => k \notin {"new", "starting"})
      /\ Runs(k, work, k)
  BY <1>2, KnowsStays DEF Course
<1>4. Course(k, k)'
  BY <1>1, <1>3 DEF Course, Linked, Streams
<1>5. k \in Stages
  BY DEF Stages
<1>6. \A t \in Users : \E j, l \in Stages : Caller(t, j, l)'
  BY <1>2, CallersStay
<1> QED
  BY <1>4, <1>5, <1>6 DEF InTurn

\* The node that is not connected yet.
LEMMA DialInTurn ==
  ASSUME TypeInv, InTurn, Worker, Fresh, status # "Created", exit # "Cancel", Dial,
         ~events'.launch, events'.read = events.read, events'.write = events.write,
         UNCHANGED <<inbox, server, calls>>, Early
  PROVE  InTurn'
<1>1. PICK k \in {"new", "started", "closed"} : Course(k, k)
  BY AtRestInTurn
<1>2. k = "new" /\ k \in {"new", "started"}
  BY <1>1 DEF Course
<1>3. ~Past /\ ~Ending
  BY DEF Fresh, Past, Ending
<1>4. CASE status' = "Connecting" /\ link' = "connecting" /\ todo' = todo
  <2>1. Fresh' /\ ~Linked' /\ ~Past'
    BY <1>4 DEF Fresh, Linked, Past
  <2> QED
    BY <1>1, <1>2, <1>3, <1>4, <2>1, RestStays
<1>5. CASE link' = "down" /\ status' = status /\ Abandon("worker", TellFailure)
  <2>1. ~Early' /\ ~Linked' /\ Off' /\ ~Past'
    BY <1>3, <1>5 DEF Fresh, Early, Linked, Off, Past
  <2>2. Runs(k, TellFailure, "closed")
    BY <1>2, TellRuns
  <2> QED
    BY <1>1, <1>2, <1>3, <1>5, <2>1, <2>2, RestOn
<1> QED
  BY <1>4, <1>5 DEF Dial

\* launchEventCallback.
LEMMA LaunchInTurn == ASSUME TypeInv, InTurn, Launch, exit # "Cancel" PROVE InTurn'
<1>1. /\ events \in [launch : BOOLEAN, read : BOOLEAN, write : {"none", "idle", "armed"}]
      /\ Worker /\ events.launch /\ Early
  BY DEF TypeInv, Types, Launch, Early
<1>2. PICK k \in {"new", "started", "closed"} : Course(k, k)
  BY <1>1, AtRestInTurn
<1>3. Fresh /\ k = "new" /\ k \in {"new", "started"}
  BY <1>1, <1>2 DEF Course
<1>4. status # "Created" /\ link = "down" /\ ~Past /\ ~Ending
  BY <1>1, <1>3 DEF Fresh, Past, Ending
<1>5. /\ ~events'.launch /\ events'.read = events.read /\ events'.write = events.write
      /\ UNCHANGED <<inbox, server, calls>>
  BY <1>1 DEF Launch
<1>6. CASE Dial
  BY <1>1, <1>3, <1>4, <1>5, <1>6, DialInTurn
<1>7. CASE status' = "Invoked" /\ UNCHANGED <<link, todo>>
  <2>1. ~Early' /\ ~Linked' /\ ~Past'
    BY <1>4, <1>5, <1>7 DEF Early, Linked, Past
  <2> QED
    BY <1>1, <1>2, <1>3, <1>4, <1>5, <1>7, <2>1, RestStays
<1> QED
  BY <1>6, <1>7 DEF Launch

\* connectEventCallback after a failed connect.
LEMMA ConnectFailsInTurn == ASSUME TypeInv, InTurn, ConnectFails, exit # "Cancel" PROVE InTurn'
<1>1. Worker /\ link = "connecting" /\ Early
  BY DEF ConnectFails, Early
<1>2. PICK k \in {"new", "started", "closed"} : Course(k, k)
  BY <1>1, AtRestInTurn
<1>3. Fresh
  BY <1>1, <1>2 DEF Course
<1>4. status # "Created" /\ ~events.launch
  BY <1>1, <1>3 DEF Fresh
<1> QED
  BY <1>1, <1>3, <1>4, DialInTurn DEF ConnectFails

\* connectEventCallback: nothing was sent, and nothing has come.
LEMMA ConnectedInTurn == ASSUME TypeInv, InTurn, Connected, exit # "Cancel" PROVE InTurn'
<1>1. /\ Worker /\ link = "connecting" /\ Early
      /\ events \in [launch : BOOLEAN, read : BOOLEAN, write : {"none", "idle", "armed"}]
  BY DEF Connected, Early, TypeInv, Types
<1>2. PICK k \in {"new", "started", "closed"} : Course(k, k)
  BY <1>1, AtRestInTurn
<1>3. Fresh /\ k = "new" /\ k \in {"new", "started"}
  BY <1>1, <1>2 DEF Course
<1>4. ~events.launch /\ ~Past /\ ~Ending
  BY <1>1, <1>3 DEF Fresh, Past, Ending
<1>5. /\ UNCHANGED <<inbox, server, calls, todo>> /\ link' = "up" /\ status' = "Handshaking"
      /\ ~events'.launch
  BY <1>1, <1>4 DEF Connected
<1>6. ~Early' /\ ~Past'
  BY <1>5 DEF Early, Past
<1>7. Streams(k)'
  <2>1. inbox' = <<>> /\ server' = "idle"
    BY <1>3, <1>5 DEF Fresh
  <2>2. Runs(k, <<>>, k) /\ k \in Stages
    BY <1>3, RunsNothing DEF Stages
  <2>3. Runs(k, Parses(inbox'), k) /\ Serves(server', k)
    BY <1>3, <2>1, <2>2, ParsesNone DEF Serves
  <2> QED
    BY <2>2, <2>3 DEF Streams
<1> QED
  BY <1>1, <1>2, <1>3, <1>4, <1>5, <1>6, <1>7, RestStays

\* Where the messages that are read together lead to.
LEMMA BatchLeads ==
  ASSUME inbox \in Seq(Replies), NEW n \in 1 .. Len(inbox), NEW k \in {"new", "started"}, Streams(k),
         NEW rest \in Rests, inbox' = SubSeq(inbox, n + 1, Len(inbox)), server' = server
  PROVE  LET p == [i \in 1 .. n |-> On("parse", inbox[i])] \o rest
         IN \E h \in {"new", "started", "closed"} :
              /\ Runs(k, p, h)
              /\ h = "closed" => \E i \in DOMAIN p : Shuts(p[i])
              /\ Streams(h)'
<1> DEFINE m == SubSeq(inbox, 1, n)
           a == [i \in 1 .. n |-> On("parse", inbox[i])]
<1>1. /\ m \in Seq(Replies) /\ inbox' \in Seq(Replies) /\ m \o inbox' = inbox
      /\ DOMAIN m = 1 .. n /\ \A i \in 1 .. n : m[i] = inbox[i]
  BY CutOff
<1>2. a = Parses(m)
  BY <1>1 DEF Parses
<1> HIDE DEF m, a
<1>3. Parses(m) \in Seq(ParseSteps) /\ Parses(inbox') \in Seq(ParseSteps)
  BY <1>1, ParsesAre
<1>4. m \in Seq(Messages) /\ inbox' \in Seq(Messages)
  BY <1>1 DEF Replies
<1>5. PICK x \in Stages : Runs(k, Parses(inbox), x) /\ Serves(server, x)
  BY DEF Streams
<1>6. Parses(inbox) = Parses(m) \o Parses(inbox')
  BY <1>1, <1>4, ParsesJoin
<1>7. PICK h \in Stages : Runs(k, Parses(m), h) /\ Runs(h, Parses(inbox'), x)
  BY <1>3, <1>5, <1>6, RunsSplit
<1>8. /\ h \in {"new", "started", "closed"}
      /\ h = "closed" => \E i \in DOMAIN Parses(m) : Shuts(Parses(m)[i])
  BY <1>1, <1>7, ParsesLead
<1>9. rest \in Seq(ParseSteps) /\ Runs(h, rest, h)
  <2>1. CASE rest = <<>>
    BY <2>1, RunsNothing, RestsAre
  <2>2. CASE rest = <<Do("begin")>>
    <3>1. Do("begin") \in ParseSteps /\ Goes(Do("begin"), h, h)
      BY <1>8, StepsAreSteps, GoesSteps DEF Goes
    <3> QED
      BY <2>2, <3>1, RunsOne, RestsAre
  <2> QED
    BY <2>1, <2>2 DEF Rests
<1>10. Runs(k, a \o rest, h)
  BY <1>2, <1>3, <1>7, <1>9, RunsJoin
<1>11. h = "closed" => \E i \in DOMAIN (a \o rest) : Shuts((a \o rest)[i])
  <2> SUFFICES ASSUME h = "closed" PROVE \E i \in DOMAIN (a \o rest) : Shuts((a \o rest)[i])
    OBVIOUS
  <2>1. PICK i \in DOMAIN a : Shuts(a[i])
    BY <1>2, <1>8
  <2>2. a \in Seq(ParseSteps)
    BY <1>2, <1>3
  <2>3. i \in DOMAIN (a \o rest) /\ (a \o rest)[i] = a[i]
    BY <1>9, <2>1, <2>2
  <2> QED
    BY <2>1, <2>3
<1>12. Streams(h)'
  BY <1>5, <1>7 DEF Streams
<1> QED
  BY <1>8, <1>10, <1>11, <1>12 DEF a

\* readEventCallBack.
LEMMA ReadInTurn == ASSUME TypeInv, InTurn, Read, exit # "Cancel" PROVE InTurn'
<1>1. Worker /\ events.read /\ link \in {"up", "broken"} /\ Programs /\ inbox \in Seq(Messages)
  BY DEF Read, TypeInv, InboxInv
<1>2. PICK k \in {"new", "started", "closed"} : Course(k, k) /\ (k = "closed" => Off)
  BY <1>1, AtRestInTurn
<1>3. k \in {"new", "started"} /\ work = <<>> /\ ~Leaving
  BY <1>1, <1>2, AtRestInTurn DEF Off
<1>4. ~Early
  BY <1>1, <1>2 DEF Course, Fresh
<1>5. UNCHANGED <<events, link, server, calls>>
  BY DEF Read
<1>6. CASE UNCHANGED <<status, inbox>> /\ Abandon("worker", FailedRead)
  <2>1. ~Early' /\ (Past' <=> Past) /\ (Ending' <=> Ending)
    BY <1>4, <1>5, <1>6 DEF Early, Past, Ending
  <2>2. work' = FailedRead
    BY <1>1, <1>6, WorkNext
  <2>3. CASE status = "Closed"
    <3>1. FailedRead = <<>> /\ Runs(k, FailedRead, k)
      BY <1>3, <2>3, FailuresRun, RunsNothing DEF Stages
    <3>2. ~Linked'
      BY <1>6, <2>3 DEF Linked
    <3> QED
      BY <1>1, <1>2, <1>3, <1>5, <1>6, <2>1, <3>1, <3>2, RestOn
  <2>4. CASE status # "Closed"
    <3>1. Runs(k, FailedRead, "closed")
      BY <1>3, <2>4, FailuresRun
    <3>2. Leaving'
      BY <2>2, <2>4, FailuresShut DEF Leaving
    <3> QED
      BY <1>1, <1>2, <1>3, <1>5, <1>6, <2>1, <3>1, <3>2, RestOn
  <2> QED
    BY <2>3, <2>4
<1>7. CASE /\ status = "Handshaking" /\ link = "up" /\ Head(inbox) = "switch"
           /\ inbox' = Tail(inbox) /\ status' = "Starting" /\ Abandon("worker", <<Do("command")>>)
  <2>1. ~Early' /\ ~Past' /\ ~Past /\ ~Ending /\ inbox # <<>>
    BY <1>1, <1>4, <1>5, <1>7 DEF Early, Past, Ending, Read
  <2>2. Streams(k)
    BY <1>2, <1>3, <1>7 DEF Course, Streams
  <2>3. PICK m \in Stages : Runs(k, Parses(inbox), m) /\ Serves(server, m)
    BY <2>2 DEF Streams
  <2>4. /\ Parses(inbox) \in Seq(ParseAny) /\ Parses(inbox) # <<>>
        /\ Head(Parses(inbox)) = On("parse", "switch") /\ Tail(Parses(inbox)) = Parses(inbox')
    BY <1>1, <1>7, <2>1, ParsesNext
  <2>5. PICK j \in Stages : Goes(On("parse", "switch"), k, j) /\ Runs(j, Parses(inbox'), m)
    <3>1. k \in Stages
      BY <1>3 DEF Stages
    <3> QED
      BY <2>3, <2>4, <3>1, RunsOn
  <2>6. k = "new" /\ j = "new"
    BY <2>5, GoesSteps DEF Goes, Hears
  <2>7. Streams(k)'
    BY <1>5, <2>3, <2>5, <2>6 DEF Streams
  <2>8. Runs(k, <<Do("command")>>, k)
    <3>1. Do("command") \in ParseSteps /\ Goes(Do("command"), k, k) /\ k \in Stages
      BY <2>6, StepsAreSteps, GoesSteps DEF Stages
    <3> QED
      BY <3>1, RunsOne
  <2> QED
    BY <1>1, <1>2, <1>3, <1>5, <1>7, <2>1, <2>7, <2>8, RestOn
<1>8. ASSUME status \in {"Starting", "Started"}, NEW n \in 1 .. Len(inbox), link = "up",
             inbox' = SubSeq(inbox, n + 1, Len(inbox)), status' = status,
             Abandon("worker", [i \in 1 .. n |-> On("parse", inbox[i])] \o
                          IF status = "Starting" THEN <<Do("begin")>> ELSE <<>>)
      PROVE  InTurn'
  <2>1. ~Early' /\ (Past' <=> Past) /\ (Ending' <=> Ending)
    BY <1>4, <1>5, <1>8 DEF Early, Past, Ending
  <2>2. Streams(k)
    BY <1>2, <1>3, <1>8 DEF Course, Streams
  <2>3. inbox \in Seq(Replies)
    BY <1>8 DEF TypeInv, InboxInv, Upgraded
  <2>4. PICK r \in Rests : r = IF status = "Starting" THEN <<Do("begin")>> ELSE <<>>
    BY DEF Rests
  <2> DEFINE p == [i \in 1 .. n |-> On("parse", inbox[i])] \o r
  <2>5. Abandon("worker", p)
    BY <1>8, <2>4
  <2>6. \E h \in {"new", "started", "closed"} :
          /\ Runs(k, p, h) /\ Streams(h)'
          /\ h = "closed" => \E i \in DOMAIN p : Shuts(p[i])
    BY <1>3, <1>5, <1>8, <2>2, <2>3, BatchLeads
  <2> HIDE DEF p
  <2>7. PICK h \in {"new", "started", "closed"} :
          /\ Runs(k, p, h) /\ Streams(h)'
          /\ h = "closed" => \E i \in DOMAIN p : Shuts(p[i])
    BY <2>6
  <2>8. work' = p
    BY <1>1, <2>5, WorkNext
  <2>9. h = "closed" => Leaving'
    BY <2>7, <2>8 DEF Leaving
  <2> QED
    BY <1>1, <1>2, <1>3, <1>5, <2>1, <2>5, <2>7, <2>9, RestOn
<1> QED
  BY <1>6, <1>7, <1>8 DEF Read

\* writeEventCallBack.
LEMMA WriteInTurn == ASSUME TypeInv, InTurn, Write, exit # "Cancel" PROVE InTurn'
<1>1. /\ Worker /\ events.write = "armed" /\ link \in {"up", "broken"} /\ Programs
      /\ events \in [launch : BOOLEAN, read : BOOLEAN, write : {"none", "idle", "armed"}]
  BY DEF Write, TypeInv, Types
<1>2. PICK k \in {"new", "started", "closed"} : Course(k, k) /\ (k = "closed" => Off)
  BY <1>1, AtRestInTurn
<1>3. k \in {"new", "started"} /\ work = <<>> /\ ~Leaving /\ k \in Stages
  BY <1>1, <1>2, AtRestInTurn DEF Off, Stages
<1>4. ~Early
  BY <1>1, <1>2 DEF Course, Fresh
<1>5. UNCHANGED <<status, inbox, link, server, calls>> /\ events'.launch = events.launch
  BY <1>1 DEF Write, network
<1>6. ~Early' /\ (Past' <=> Past) /\ (Ending' <=> Ending)
  BY <1>4, <1>5 DEF Early, Past, Ending
<1>7. Linked' => Streams(k)'
  BY <1>2, <1>3, <1>5 DEF Course, Linked, Streams
<1>8. /\ Runs(k, <<Do("command")>>, k) /\ Runs(k, <<Do("flush")>>, k)
  <2>1. /\ Do("command") \in ParseSteps /\ Goes(Do("command"), k, k)
        /\ Do("flush") \in ParseSteps /\ Goes(Do("flush"), k, k)
    BY <1>3, StepsAreSteps, GoesSteps
  <2> QED
    BY <1>3, <2>1, RunsOne
<1>9. CASE Abandon("worker", <<Do("command")>>) \/ Abandon("worker", <<Do("flush")>>)
  BY <1>1, <1>2, <1>3, <1>5, <1>6, <1>7, <1>8, <1>9, RestOn
<1>10. CASE Abandon("worker", FailedWrite)
  <2>1. work' = FailedWrite
    BY <1>1, <1>10, WorkNext
  <2>2. Leaving' /\ Runs(k, FailedWrite, "closed")
    BY <1>3, <2>1, FailuresRun, FailuresShut DEF Leaving
  <2> QED
    BY <1>1, <1>2, <1>3, <1>5, <1>6, <1>10, <2>2, RestOn
<1> QED
  BY <1>9, <1>10 DEF Write

\* EV_TIMEOUT.
LEMMA TimeoutInTurn == ASSUME TypeInv, InTurn, Timeout, exit # "Cancel" PROVE InTurn'
<1>1. Worker /\ (events.read \/ events.write = "armed") /\ Programs
  BY DEF Timeout, TypeInv
<1>2. PICK k \in {"new", "started", "closed"} : Course(k, k) /\ (k = "closed" => Off)
  BY <1>1, AtRestInTurn
<1>3. k \in {"new", "started"}
  BY <1>1, <1>2 DEF Off
<1>4. ~Early
  BY <1>1, <1>2 DEF Course, Fresh
<1>5. UNCHANGED <<status, inbox, link, server, calls, events>>
  BY DEF Timeout, node, network
<1>6. ~Early' /\ (Past' <=> Past) /\ (Ending' <=> Ending)
  BY <1>4, <1>5 DEF Early, Past, Ending
<1>7. Abandon("worker", <<Do("close")>> \o TellFailure)
  BY DEF Timeout
<1>8. work' = <<Do("close")>> \o TellFailure
  BY <1>1, <1>7, WorkNext
<1>9. Leaving' /\ Runs(k, <<Do("close")>> \o TellFailure, "closed")
  BY <1>3, <1>8, FailuresRun, FailuresShut DEF Leaving
<1> QED
  BY <1>1, <1>2, <1>3, <1>5, <1>6, <1>7, <1>9, RestOn

\* What a user's thread does to the event thread's course: the network may be cut and
\* the node may be closed once the node has come so far.
LEMMA CourseApart ==
  ASSUME InTurn, work' = work, \A e : Own("worker", e)' <=> Own("worker", e),
         events'.launch => events.launch, link' \in {link, "down"}, status' \in {status, "Closed"},
         server' = server, inbox' = inbox \/ link' = "down", Off => Off',
         Past \/ UNCHANGED <<status, events, link, server, inbox>>
  PROVE  \E k, l \in Stages : Course(k, l)'
<1>1. PICK k \in Stages, l \in Stages : Course(k, l)
  BY DEF InTurn
<1>2. Early => ~Past
  BY <1>1 DEF Course, Fresh, Past
<1>3. Early' => Early
  BY <1>2 DEF Early, Past
<1>4. Fresh /\ Early' => Fresh'
  BY <1>2, <1>3 DEF Fresh
<1>5. /\ Linked' => Linked /\ inbox' = inbox
      /\ status = "Closed" => status' = "Closed"
      /\ Past' => Past
  BY DEF Linked, Past
<1>6. Linked /\ Linked' /\ Streams(l) => Streams(l)'
  BY <1>5 DEF Streams
<1> QED
  BY <1>1, <1>3, <1>4, <1>5, <1>6, CourseStays

\* A user's thread in the middle of a call.
LEMMA UserAt ==
  ASSUME TypeInv, InTurn, NEW t \in Users, todo[t] # <<>>
  PROVE  /\ Head(todo[t]) \in ParseSteps /\ Tail(todo[t]) \in Seq(ParseSteps)
         /\ Head(todo[t]).op \in {"event", "call", "after"} => About(t) \in Callbacks
         /\ t \in Threads /\ Programs
         /\ \E k, l, j \in Stages :
              /\ Caller(t, k, l) /\ Goes(Head(todo[t]), k, j) /\ Runs(j, Tail(todo[t]), l)
              /\ k = "closed" => Ending \/ Head(todo[t]).op = "closed"
         /\ Head(todo[t]).op # "notify" => Past
<1>1. t \in Threads /\ Programs
  BY DEF TypeInv, Threads
<1>2. /\ Head(todo[t]) \in ParseSteps /\ Tail(todo[t]) \in Seq(ParseSteps)
      /\ Head(todo[t]).op \in {"event", "call", "after"} => About(t) \in Callbacks
      /\ todo[t] \in Seq(ParseSteps)
  BY <1>1, HeadIs DEF Programs
<1>3. PICK k \in Stages, l \in Stages : Caller(t, k, l)
  BY DEF InTurn
<1>4. \E j \in Stages : Goes(Head(todo[t]), k, j) /\ Runs(j, Tail(todo[t]), l)
  BY <1>2, <1>3, RunsOn DEF Caller
<1>5. k = "closed" => Ending \/ Head(todo[t]).op = "closed"
  BY <1>3 DEF Caller, Ending, ClosedNext
<1>6. Head(todo[t]).op # "notify" => Past
  <2>1. Head(<<Do("notify")>>) = Do("notify")
    BY StepsAreSteps, OneStep
  <2>2. todo[t] = <<Do("notify")>> => Head(todo[t]).op = "notify"
    BY <2>1, GoesSteps
  <2> QED
    BY <1>3, <2>2 DEF Caller
<1> QED
  BY <1>1, <1>2, <1>3, <1>4, <1>5, <1>6

\* A step of a user's thread.
LEMMA UserOn ==
  ASSUME TypeInv, InTurn, NEW t \in Users, NEW q, todo' = [todo EXCEPT ![t] = q],
         NEW g \in Stages, NEW h \in {"new", "closed"}, Runs(g, q, h), Knows(t, g)',
         Past' \/ (q \in {<<>>, <<Do("notify")>>} /\ g = "new"),
         g = "closed" => Ending' \/ ClosedNext(t)',
         \A u \in Threads : u # t => \A e : Own(u, e)' <=> Own(u, e),
         events'.launch => events.launch, link' \in {link, "down"}, status' \in {status, "Closed"},
         server' = server, inbox' = inbox \/ link' = "down", Off => Off',
         Past \/ UNCHANGED <<status, events, link, server, inbox>>
  PROVE  InTurn'
<1>1. t \in Threads /\ t # "worker" /\ "worker" \in Threads
  BY DEF Users, Threads
<1>2. todo'[t] = q /\ \A u \in Threads : u # t => todo'[u] = todo[u]
  BY <1>1 DEF TypeInv, Programs
<1>3. \E k, l \in Stages : Course(k, l)'
  BY <1>1, <1>2, CourseApart DEF work
<1>4. h \in Stages
  BY DEF Stages
<1>5. Caller(t, g, h)'
  BY <1>2 DEF Caller, Ending
<1>6. (Past => Past') /\ (Ending => Ending')
  BY DEF Past, Ending
<1>7. ASSUME NEW u \in Users, u # t PROVE \E k, l \in Stages : Caller(u, k, l)'
  <2>1. PICK k \in Stages, l \in Stages : Caller(u, k, l)
    BY DEF InTurn
  <2>2. u \in Threads
    BY DEF Threads
  <2> QED
    BY <1>2, <1>6, <1>7, <2>1, <2>2, CallerStays
<1> QED
  BY <1>3, <1>4, <1>5, <1>7 DEF InTurn

\* Its program goes on.
LEMMA UserGoesOn ==
  ASSUME TypeInv, InTurn, NEW t \in Users, todo[t] # <<>>,
         NEW k \in Stages, NEW l \in Stages, NEW j \in Stages, NEW g \in Stages,
         Caller(t, k, l), Runs(j, Tail(todo[t]), l),
         NEW p \in Seq(ParseSteps), (Continue(t) /\ p = <<>>) \/ Perform(t, p),
         Runs(g, p, j), Knows(t, g)',
         Past', g = "closed" => Ending' \/ ClosedNext(t)',
         \A u \in Threads : u # t => \A e : Own(u, e)' <=> Own(u, e),
         events'.launch => events.launch, link' \in {link, "down"}, status' \in {status, "Closed"},
         server' = server, inbox' = inbox \/ link' = "down", Off => Off',
         Past \/ UNCHANGED <<status, events, link, server, inbox>>
  PROVE  InTurn'
<1>1. Tail(todo[t]) \in Seq(ParseSteps)
  BY UserAt
<1>2. <<>> \o Tail(todo[t]) = Tail(todo[t])
  BY <1>1, NoStep
<1>3. todo' = [todo EXCEPT ![t] = p \o Tail(todo[t])]
  BY <1>2 DEF Continue, Perform
<1>4. Runs(g, p \o Tail(todo[t]), l)
  BY <1>1, RunsJoin
<1>5. l \in {"new", "closed"}
  BY DEF Caller
<1> QED
  BY <1>3, <1>4, <1>5, UserOn

\* addAudioDataBuffer, the directive after it, and the report of an error, on a user's
\* thread.
LEMMA UserSends ==
  ASSUME TypeInv, InTurn, NEW t \in Users, todo[t] # <<>>,
         Head(todo[t]).op \in {"add", "flush", "directive"},
         \/ Continue(t) \/ Perform(t, <<Do("directive")>>) \/ Perform(t, <<Do("flush")>>)
         \/ Abandon(t, OnError(t)),
         UNCHANGED <<status, link, inbox, server, calls>>,
         events'.launch = events.launch, Off => Off'
  PROVE  InTurn'
<1>1. PICK k \in Stages, l \in Stages, j \in Stages :
        /\ Caller(t, k, l) /\ Goes(Head(todo[t]), k, j) /\ Runs(j, Tail(todo[t]), l)
  BY UserAt
<1>2. k \in {"new", "started"} /\ j = k
  BY <1>1 DEF Goes
<1>3. Past /\ Past'
  <2>1. Past
    BY UserAt
  <2> QED
    BY <2>1 DEF Past
<1>4. \A u, e : Own(u, e)' <=> Own(u, e)
  BY DEF Own
<1>5. Knows(t, k)'
  BY <1>1, <1>4, KnowsStays DEF Caller
<1>6. CASE Continue(t) \/ Perform(t, <<Do("directive")>>) \/ Perform(t, <<Do("flush")>>)
  <2>1. /\ Do("directive") \in ParseSteps /\ Goes(Do("directive"), k, k)
        /\ Do("flush") \in ParseSteps /\ Goes(Do("flush"), k, k)
    BY <1>2, StepsAreSteps, GoesSteps
  <2>2. /\ <<Do("directive")>> \in Seq(ParseSteps) /\ Runs(k, <<Do("directive")>>, k)
        /\ <<Do("flush")>> \in Seq(ParseSteps) /\ Runs(k, <<Do("flush")>>, k)
        /\ <<>> \in Seq(ParseSteps) /\ Runs(k, <<>>, k)
    BY <2>1, RunsOne, RunsNothing
  <2>3. PICK p \in Seq(ParseSteps) :
          ((Continue(t) /\ p = <<>>) \/ Perform(t, p)) /\ Runs(k, p, k)
    BY <1>6, <2>2
  <2> QED
    BY <1>1, <1>2, <1>3, <1>4, <1>5, <2>3, UserGoesOn
<1>7. CASE Abandon(t, OnError(t))
  <2>1. todo' = [todo EXCEPT ![t] = FailedCall] /\ Runs(k, FailedCall, "closed")
    BY <1>2, <1>7, FailuresRun DEF Abandon, OnError
  <2> QED
    BY <1>2, <1>3, <1>4, <1>5, <2>1, UserOn
<1> QED
  BY <1>6, <1>7

\* sendAudio and the directive of stop, on the user's thread.
LEMMA UserSendingInTurn ==
  ASSUME TypeInv, InTurn, NEW t \in Users, Add(t) \/ Flush(t) \/ Directive(t)
  PROVE  InTurn'
<1>1. /\ todo[t] # <<>> /\ Head(todo[t]).op \in {"add", "flush", "directive"} /\ Types
      /\ events \in [launch : BOOLEAN, read : BOOLEAN, write : {"none", "idle", "armed"}]
  BY DEF Add, Flush, Directive, At, TypeInv, Types
<1>2. \/ Continue(t) \/ Perform(t, <<Do("directive")>>) \/ Perform(t, <<Do("flush")>>)
      \/ Abandon(t, OnError(t))
  BY DEF Add, Flush, Directive
<1>3. UNCHANGED <<status, link, inbox, server, calls>>
  BY DEF Add, Flush, Directive, network
<1>4. CASE Add(t)
  <2>1. (Off => Off') /\ events'.launch = events.launch
    BY <1>1, <1>4 DEF Add, Off
  <2> QED
    BY <1>1, <1>2, <1>3, <2>1, UserSends
<1>5. CASE Flush(t) \/ Directive(t)
  <2>1. \/ events' = events
        \/ \E result, directives : SendAudio(result) \/ SendCmd(directives, result)
    BY <1>5 DEF Flush, Directive
  <2>2. (Off => Off') /\ events'.launch = events.launch
    BY <1>1, <2>1, SendingStays DEF Off
  <2> QED
    BY <1>1, <1>2, <1>3, <2>2, UserSends
<1> QED
  BY <1>4, <1>5

\* cmdNotify.
LEMMA NotifyInTurn == ASSUME TypeInv, InTurn, NEW t \in Users, Notify(t) PROVE InTurn'
<1>1. todo[t] # <<>> /\ Head(todo[t]).op = "notify"
  BY DEF Notify, At
<1>2. PICK k \in Stages, l \in Stages, j \in Stages :
        /\ Caller(t, k, l) /\ Goes(Head(todo[t]), k, j) /\ Runs(j, Tail(todo[t]), l)
  BY <1>1, UserAt
<1>3. k \in {"new", "started"} /\ j = k
  BY <1>1, <1>2 DEF Goes
<1>4. UNCHANGED <<status, events, link, server, inbox, calls>>
  BY DEF Notify, node, network
<1>5. Knows(t, k)'
  BY <1>2, <1>4, QuietStep, KnowsStays DEF Caller
<1>6. Off => Off'
  BY <1>4 DEF Off
<1>7. CASE status = "Started" /\ Perform(t, <<Do("directive")>>)
  <2>1. Do("directive") \in ParseSteps /\ Goes(Do("directive"), k, k)
    BY <1>3, StepsAreSteps, GoesSteps
  <2>2. <<Do("directive")>> \in Seq(ParseSteps) /\ Runs(k, <<Do("directive")>>, k)
    BY <2>1, RunsOne
  <2>3. Past' /\ Past
    BY <1>4, <1>7 DEF Past
  <2> QED
    BY <1>1, <1>2, <1>3, <1>4, <1>5, <1>6, <1>7, <2>2, <2>3, QuietStep, UserGoesOn
<1>8. CASE Continue(t)
  <2> DEFINE q == Tail(todo[t])
  <2>1. todo' = [todo EXCEPT ![t] = q]
    BY <1>8 DEF Continue
  <2>2. todo[t] = <<Do("notify")>> => q = <<>>
    BY StepsAreSteps, OneStep
  <2>3. Past \/ (q = <<>> /\ k = "new")
    BY <1>1, <1>2, <2>2 DEF Caller
  <2>4. Past => Past'
    BY <1>4 DEF Past
  <2>5. l \in {"new", "closed"} /\ Runs(k, q, l)
    BY <1>2, <1>3 DEF Caller
  <2> HIDE DEF q
  <2> QED
    BY <1>3, <1>4, <1>5, <1>6, <2>1, <2>3, <2>4, <2>5, QuietStep, UserOn
<1> QED
  BY <1>7, <1>8 DEF Notify

\* handlerEvent up to the callback.
LEMMA UserEventInTurn ==
  ASSUME TypeInv, InTurn, NEW t \in Users, Event(t), exit # "Cancel" PROVE InTurn'
<1>1. todo[t] # <<>> /\ Head(todo[t]).op = "event"
  BY DEF Event, At
<1>2. PICK k \in Stages, l \in Stages, j \in Stages :
        /\ Caller(t, k, l) /\ Goes(Head(todo[t]), k, j) /\ Runs(j, Tail(todo[t]), l)
  BY <1>1, UserAt
<1>3. Past /\ About(t) \in Callbacks
  BY <1>1, UserAt
<1>4. Turn(k, About(t), j)
  BY <1>1, <1>2 DEF Goes, About
<1>5. On("call", About(t)) \in ParseSteps /\ Goes(On("call", About(t)), k, j)
  BY <1>3, <1>4, StepsAreSteps, GoesSteps DEF Goes
<1>6. <<On("call", About(t))>> \in Seq(ParseSteps) /\ Runs(k, <<On("call", About(t))>>, j)
  BY <1>5, RunsOne
<1>7. UNCHANGED <<status, events, link, server, inbox, calls>>
  BY DEF Event, node, network
<1>8. Knows(t, k)' /\ k # "closed"
  BY <1>2, <1>4, <1>7, QuietStep, KnowsStays DEF Caller, Turn
<1>9. Perform(t, <<On("call", About(t))>>)
  BY DEF Event
<1>10. (Off => Off') /\ Past'
  BY <1>3, <1>7 DEF Off, Past
<1> QED
  BY <1>1, <1>2, <1>3, <1>6, <1>7, <1>8, <1>9, <1>10, QuietStep, UserGoesOn

\* The callback.
LEMMA UserCallInTurn == ASSUME TypeInv, InTurn, NEW t \in Users, Call(t) PROVE InTurn'
<1>1. todo[t] # <<>> /\ Head(todo[t]).op = "call"
  BY DEF Call, At
<1>2. PICK k \in Stages, l \in Stages, j \in Stages :
        /\ Caller(t, k, l) /\ Goes(Head(todo[t]), k, j) /\ Runs(j, Tail(todo[t]), l)
  BY <1>1, UserAt
<1>3. Past /\ t \in Threads /\ Programs /\ Tail(todo[t]) \in Seq(ParseSteps)
  BY <1>1, UserAt
<1> DEFINE e == About(t)
<1>4. Turn(k, e, j)
  BY <1>1, <1>2 DEF Goes, About
<1>5. \A u, d : Own(u, d)' <=> Own(u, d) \/ (u = t /\ d = e)
  BY <1>3, CallTold
<1>6. Knows(t, j)'
  BY <1>2, <1>4, <1>5, KnowsTurn DEF Caller
<1>7. UNCHANGED <<status, events, link, server, inbox>>
  BY DEF Call, network
<1>8. (Off => Off') /\ Past'
  BY <1>3, <1>7 DEF Off, Past
<1>9. CASE e = "Close"
  <2>1. Perform(t, <<Do("closed")>>)
    BY <1>9 DEF Call
  <2>2. Do("closed") \in ParseSteps /\ j = "closed"
    BY <1>4, <1>9, StepsAreSteps DEF Turn
  <2>3. Goes(Do("closed"), j, j)
    BY <2>2, GoesSteps DEF Goes
  <2>4. <<Do("closed")>> \in Seq(ParseSteps) /\ Runs(j, <<Do("closed")>>, j)
    BY <2>2, <2>3, RunsOne
  <2>5. ClosedNext(t)'
    <3>1. todo'[t] = <<Do("closed")>> \o Tail(todo[t])
      BY <1>3, <2>1 DEF Perform, Programs
    <3>2. todo'[t] # <<>> /\ Head(todo'[t]) = Do("closed")
      BY <1>3, <2>2, <2>4, <3>1, OneStep, HeadOfConcat
    <3> QED
      BY <3>2, GoesSteps DEF ClosedNext
  <2> QED
    BY <1>1, <1>2, <1>3, <1>5, <1>6, <1>7, <1>8, <2>1, <2>4, <2>5, UserGoesOn
<1>10. CASE e # "Close"
  <2>1. Continue(t) /\ j # "closed"
    BY <1>4, <1>10 DEF Call, Turn
  <2>2. <<>> \in Seq(ParseSteps) /\ Runs(j, <<>>, j)
    BY RunsNothing
  <2> QED
    BY <1>1, <1>2, <1>3, <1>5, <1>6, <1>7, <1>8, <2>1, <2>2, UserGoesOn
<1> QED
  BY <1>9, <1>10

\* NodeClosed, and the socket closed.
LEMMA UserEndInTurn ==
  ASSUME TypeInv, InTurn, NEW t \in Users, Closed(t) \/ CloseNode(t) \/ Disconnect(t)
  PROVE  InTurn'
<1>1. todo[t] # <<>> /\ Head(todo[t]).op \in {"closed", "close", "disconnect"}
  BY DEF Closed, CloseNode, Disconnect, At
<1>2. PICK k \in Stages, l \in Stages, j \in Stages :
        /\ Caller(t, k, l) /\ Goes(Head(todo[t]), k, j) /\ Runs(j, Tail(todo[t]), l)
        /\ k = "closed" => Ending \/ Head(todo[t]).op = "closed"
  BY <1>1, UserAt
<1>3. Past /\ j = k
  BY <1>1, <1>2, UserAt DEF Goes
<1>4. calls' = calls /\ server' = server /\ Continue(t)
  BY DEF Closed, CloseNode, Disconnect, node, network
<1>5. \A u, e : Own(u, e)' <=> Own(u, e)
  BY <1>4 DEF Own
<1>6. Knows(t, k)' /\ <<>> \in Seq(ParseSteps) /\ Runs(k, <<>>, k)
  <2>1. Knows(t, k)
    BY <1>2 DEF Caller
  <2>2. Knows(t, k)'
    BY <1>5, <2>1, KnowsStays
  <2> QED
    BY <2>2, RunsNothing
<1>7. /\ events' \in {events, NoEvents} /\ link' \in {link, "down"}
      /\ status' \in {status, "Closed"}
      /\ inbox' = inbox \/ link' = "down"
      /\ Head(todo[t]).op = "closed" => status' = "Closed"
  BY <1>1 DEF Closed, CloseNode, Disconnect, node, network, At
<1>8. (Off => Off') /\ (events'.launch => events.launch)
  BY <1>7 DEF Off, NoEvents
<1>9. Past' /\ (Ending => Ending') /\ (status' = "Closed" => Ending')
  BY <1>3, <1>7 DEF Past, Ending
<1> QED
  BY <1>1, <1>2, <1>3, <1>4, <1>5, <1>6, <1>7, <1>8, <1>9, UserGoesOn

\* Every step of a user's thread.
LEMMA UserRunsInTurn ==
  ASSUME TypeInv, InTurn, NEW t \in Users, Running(t), exit # "Cancel" PROVE InTurn'
BY UserSendingInTurn, NotifyInTurn, UserEventInTurn, UserCallInTurn, UserEndInTurn DEF Running

\* start: the node is about to be launched.
LEMMA StartInTurn == ASSUME TypeInv, InTurn, Start PROVE InTurn'
<1>1. PICK k \in Stages, l \in Stages : Course(k, l)
  BY DEF InTurn
<1>2. /\ events \in [launch : BOOLEAN, read : BOOLEAN, write : {"none", "idle", "armed"}]
      /\ status = "Created" /\ status' = "Invoking" /\ Early
      /\ events' = [events EXCEPT !.launch = TRUE]
      /\ UNCHANGED <<link, inbox, server, todo, calls>>
  BY DEF Start, TypeInv, Types, network, Early
<1>3. Fresh /\ work = <<>> /\ k = "new"
  BY <1>1, <1>2 DEF Course
<1>4. l = k /\ work' = work /\ link = "down"
  BY <1>1, <1>2, <1>3, RunsNothing DEF Course, work, Fresh
<1>5. Fresh'
  BY <1>2, <1>3, <1>4 DEF Fresh
<1>6. \A t, e : Own(t, e)' <=> Own(t, e)
  BY <1>2 DEF Own
<1>7. Knows("worker", k)' /\ ~Past' /\ ~Linked' /\ ~Past /\ ~Ending
  BY <1>1, <1>2, <1>4, <1>6, KnowsStays DEF Course, Past, Linked, Ending
<1>8. Course(k, l)'
  BY <1>1, <1>3, <1>4, <1>5, <1>7 DEF Course, Linked
<1>9. \A t \in Users : \E j, h \in Stages : Caller(t, j, h)'
  BY <1>2, <1>6, <1>7, CallersStay
<1> QED
  BY <1>8, <1>9 DEF InTurn

\* sendAudio and stop: the user's thread was idle.
LEMMA UserBegins ==
  ASSUME TypeInv, InTurn, NEW t \in Users, Idle(t), NEW op \in {"add", "notify"},
         Abandon(t, <<Do(op)>>), op = "add" => Past, ~Ending,
         UNCHANGED <<status, events, link, server, inbox, calls>>
  PROVE  InTurn'
<1>1. PICK k \in Stages, l \in Stages : Caller(t, k, l)
  BY DEF InTurn
<1>2. todo[t] = <<>> /\ ~ClosedNext(t)
  BY DEF Idle, ClosedNext
<1>3. k = l /\ k = "new"
  BY <1>1, <1>2, RunsNothing DEF Caller, Ending
<1>4. Do(op) \in ParseSteps /\ Goes(Do(op), k, k)
  BY <1>3, StepsAreSteps, GoesSteps
<1>5. Runs(k, <<Do(op)>>, k)
  BY <1>4, RunsOne
<1>6. Knows(t, k)'
  BY <1>1, QuietStep, KnowsStays DEF Caller
<1>7. Past' \/ <<Do(op)>> = <<Do("notify")>>
  BY DEF Past
<1>8. (Off => Off') /\ (events'.launch => events.launch)
  BY DEF Off
<1>9. todo' = [todo EXCEPT ![t] = <<Do(op)>>]
  BY DEF Abandon
<1> QED
  BY <1>3, <1>5, <1>6, <1>7, <1>8, <1>9, QuietStep, UserOn

\* The calls of the user.
LEMMA UserInTurn == ASSUME TypeInv, InTurn, User, exit' # "Cancel" PROVE InTurn'
<1>1. CASE Start
  BY <1>1, StartInTurn
<1>2. CASE BeginSendAudio
  <2>1. "feeder" \in Users /\ Past /\ ~Ending /\ "add" \in {"add", "notify"}
    BY <1>2 DEF BeginSendAudio, Users, Past, Ending
  <2> QED
    BY <1>2, <2>1, UserBegins DEF BeginSendAudio, node, network
<1>3. CASE Stop
  <2>1. StopBy \in Users /\ ~Ending /\ "notify" \in {"add", "notify"} /\ "notify" # "add"
    BY <1>3, SessionAssumption DEF Stop, Users, Ending
  <2> QED
    BY <1>3, <2>1, UserBegins DEF Stop, network
<1>4. ~Cancel
  BY DEF Cancel
<1> QED
  BY <1>1, <1>2, <1>3, <1>4 DEF User

\* The server answers where it stands.
LEMMA ReplyInTurn ==
  ASSUME TypeInv, InTurn, NEW phase, NEW messages \in Seq(Messages), Reply(phase, messages),
         \A m \in Stages : Serves(server, m) =>
           \E n \in Stages : Runs(m, Parses(messages), n) /\ Serves(phase, n)
  PROVE  InTurn'
<1>1. PICK k \in Stages, l \in Stages : Course(k, l)
  BY DEF InTurn
<1>2. /\ link = "up" /\ UNCHANGED <<status, events, link, todo, calls>>
      /\ server' = phase /\ inbox' = inbox \o messages /\ inbox \in Seq(Messages)
  BY DEF Reply, node, TypeInv, InboxInv
<1>3. ~Early
  BY <1>1, <1>2 DEF Course, Fresh
<1>4. ~Early' /\ (Past' <=> Past) /\ (Ending' <=> Ending) /\ (Off' <=> Off) /\ (Linked' <=> Linked)
      /\ work' = work
  BY <1>2, <1>3 DEF Early, Past, Ending, Off, Linked, work
<1>5. \A t, e : Own(t, e)' <=> Own(t, e)
  BY <1>2 DEF Own
<1>6. Streams(l) => Streams(l)'
  <2> SUFFICES ASSUME Streams(l) PROVE Streams(l)'
    OBVIOUS
  <2>1. PICK m \in Stages : Runs(l, Parses(inbox), m) /\ Serves(server, m)
    BY DEF Streams
  <2>2. PICK n \in Stages : Runs(m, Parses(messages), n) /\ Serves(phase, n)
    BY <2>1
  <2>3. Parses(inbox') = Parses(inbox) \o Parses(messages)
    BY <1>2, ParsesJoin
  <2>4. Parses(inbox) \in Seq(ParseAny) /\ Parses(messages) \in Seq(ParseAny)
    BY <1>2, ParsesAny
  <2>5. Runs(l, Parses(inbox'), n)
    BY <2>1, <2>2, <2>3, <2>4, RunsJoin
  <2> QED
    BY <1>2, <2>2, <2>5 DEF Streams
<1>7. Course(k, l)'
  BY <1>1, <1>2, <1>4, <1>5, <1>6, CourseStays
<1>8. \A t \in Users : \E j, h \in Stages : Caller(t, j, h)'
  BY <1>2, <1>4, <1>5, CallersStay
<1> QED
  BY <1>7, <1>8 DEF InTurn

\* One message, and the two that end a task.
LEMMA MessageLeads ==
  ASSUME NEW m \in Messages, NEW k \in Stages, NEW l \in Stages, Hears(k, m, l)
  PROVE  <<m>> \in Seq(Messages) /\ Runs(k, Parses(<<m>>), l)
<1> DEFINE one == <<m>>
<1>1. /\ one \in Seq(Messages) /\ one # <<>> /\ Head(one) = m /\ Tail(one) = <<>>
  BY OneStep
<1> HIDE DEF one
<1>2. /\ Parses(one) \in Seq(ParseAny) /\ Parses(one) # <<>>
      /\ Head(Parses(one)) = On("parse", m) /\ Tail(Parses(one)) = <<>>
  BY <1>1, ParsesNext, ParsesNone
<1>3. On("parse", m) \in ParseAny /\ Goes(On("parse", m), k, l)
  BY GoesSteps DEF ParseAny, Goes
<1>4. Parses(one) = <<On("parse", m)>>
  <2> DEFINE s == On("parse", m)
             q == Parses(one)
  <2>1. q \in Seq(ParseAny) /\ q # <<>> /\ Head(q) = s /\ Tail(q) = <<>> /\ s \in ParseAny
    BY <1>2, <1>3
  <2> HIDE DEF s, q
  <2>2. q = <<s>>
    <3>1. q = <<Head(q)>> \o Tail(q)
      BY <2>1
    <3>2. <<s>> \in Seq(ParseAny)
      BY <2>1
    <3>3. <<s>> \o <<>> = <<s>>
      BY <3>2, NoStep
    <3> QED
      BY <2>1, <3>1, <3>3
  <2> QED
    BY <2>2 DEF s, q
<1>5. Runs(k, Parses(one), l)
  BY <1>3, <1>4, RunsOne
<1> QED
  BY <1>1, <1>5 DEF one

\* The messages of the server.
LEMMA ServerInTurn ==
  ASSUME TypeInv, InTurn, Server \/ ServerRefuses \/ ServerFailsTask PROVE InTurn'
<1>1. {"switch", "refuse", "Started", "Result", "Completed", "TaskFailed", "CLOSE"} = Messages
  BY DEF Messages
<1>2. {"new", "starting", "started", "ended", "closed"} = Stages
  BY DEF Stages
<1>3. /\ Hears("new", "switch", "new") /\ Hears("new", "refuse", "closed")
      /\ Hears("new", "Started", "started") /\ Hears("started", "Result", "started")
      /\ Hears("started", "Completed", "closed")
      /\ \A m \in {"new", "started"} : Hears(m, "TaskFailed", "closed") /\ Hears(m, "CLOSE", "closed")
      /\ Hears("closed", "CLOSE", "closed")
  BY DEF Hears
<1>4. CASE ServerUpgrades
  <2>1. server = "idle" /\ Reply("upgraded", <<"switch">>)
    BY <1>4 DEF ServerUpgrades
  <2>2. <<"switch">> \in Seq(Messages) /\ Runs("new", Parses(<<"switch">>), "new")
    BY <1>1, <1>2, <1>3, MessageLeads
  <2>3. ASSUME NEW m \in Stages, Serves(server, m)
        PROVE  \E n \in Stages : Runs(m, Parses(<<"switch">>), n) /\ Serves("upgraded", n)
    BY <1>2, <2>1, <2>2, <2>3 DEF Serves
  <2> QED
    BY <2>1, <2>2, <2>3, ReplyInTurn
<1>5. CASE ServerRefuses
  <2>1. server = "idle" /\ Reply("done", <<"refuse">>)
    BY <1>5 DEF ServerRefuses
  <2>2. <<"refuse">> \in Seq(Messages) /\ Runs("new", Parses(<<"refuse">>), "closed")
    BY <1>1, <1>2, <1>3, MessageLeads
  <2>3. ASSUME NEW m \in Stages, Serves(server, m)
        PROVE  \E n \in Stages : Runs(m, Parses(<<"refuse">>), n) /\ Serves("done", n)
    BY <1>2, <2>1, <2>2, <2>3 DEF Serves
  <2> QED
    BY <2>1, <2>2, <2>3, ReplyInTurn
<1>6. CASE ServerStarts
  <2>1. server = "upgraded" /\ Reply("started", <<"Started">>)
    BY <1>6 DEF ServerStarts
  <2>2. <<"Started">> \in Seq(Messages) /\ Runs("new", Parses(<<"Started">>), "started")
    BY <1>1, <1>2, <1>3, MessageLeads
  <2>3. ASSUME NEW m \in Stages, Serves(server, m)
        PROVE  \E n \in Stages : Runs(m, Parses(<<"Started">>), n) /\ Serves("started", n)
    BY <1>2, <2>1, <2>2, <2>3 DEF Serves
  <2> QED
    BY <2>1, <2>2, <2>3, ReplyInTurn
<1>7. CASE ServerReports
  <2>1. server = "started" /\ Reply("heard", <<"Result">>)
    BY <1>7 DEF ServerReports
  <2>2. <<"Result">> \in Seq(Messages) /\ Runs("started", Parses(<<"Result">>), "started")
    BY <1>1, <1>2, <1>3, MessageLeads
  <2>3. ASSUME NEW m \in Stages, Serves(server, m)
        PROVE  \E n \in Stages : Runs(m, Parses(<<"Result">>), n) /\ Serves("heard", n)
    BY <1>2, <2>1, <2>2, <2>3 DEF Serves
  <2> QED
    BY <2>1, <2>2, <2>3, ReplyInTurn
<1>8. CASE ServerCompletes
  <2>1. server \in {"started", "heard"} /\ Reply("done", <<"Completed">>)
    BY <1>8 DEF ServerCompletes
  <2>2. <<"Completed">> \in Seq(Messages) /\ Runs("started", Parses(<<"Completed">>), "closed")
    BY <1>1, <1>2, <1>3, MessageLeads
  <2>3. ASSUME NEW m \in Stages, Serves(server, m)
        PROVE  \E n \in Stages : Runs(m, Parses(<<"Completed">>), n) /\ Serves("done", n)
    BY <1>2, <2>1, <2>2, <2>3 DEF Serves
  <2> QED
    BY <2>1, <2>2, <2>3, ReplyInTurn
<1>9. CASE ServerFailsTask
  <2>1. server \in {"upgraded", "started", "heard"}
    BY <1>9, SessionAssumption DEF ServerFailsTask
  <2>2. ASSUME NEW m \in Stages, Serves(server, m) PROVE m \in {"new", "started"}
    BY <2>1, <2>2 DEF Serves
  <2>3. Serves("done", "closed")
    BY DEF Serves
  <2>4. CASE Reply("done", <<"TaskFailed">>)
    <3>1. <<"TaskFailed">> \in Seq(Messages)
          /\ \A m \in {"new", "started"} : Runs(m, Parses(<<"TaskFailed">>), "closed")
      BY <1>1, <1>2, <1>3, MessageLeads
    <3> QED
      BY <1>2, <2>2, <2>3, <2>4, <3>1, ReplyInTurn
  <2>5. CASE Reply("done", <<"CLOSE">>)
    <3>1. <<"CLOSE">> \in Seq(Messages)
          /\ \A m \in {"new", "started"} : Runs(m, Parses(<<"CLOSE">>), "closed")
      BY <1>1, <1>2, <1>3, MessageLeads
    <3> QED
      BY <1>2, <2>2, <2>3, <2>5, <3>1, ReplyInTurn
  <2>6. CASE Reply("done", <<"TaskFailed", "CLOSE">>)
    <3>1. /\ <<"TaskFailed">> \in Seq(Messages) /\ <<"CLOSE">> \in Seq(Messages)
          /\ \A m \in {"new", "started"} : Runs(m, Parses(<<"TaskFailed">>), "closed")
          /\ Runs("closed", Parses(<<"CLOSE">>), "closed")
      BY <1>1, <1>2, <1>3, MessageLeads
    <3>2. /\ <<"TaskFailed", "CLOSE">> \in Seq(Messages)
          /\ <<"TaskFailed">> \o <<"CLOSE">> = <<"TaskFailed", "CLOSE">>
      BY <1>1, TwoSteps
    <3>3. Parses(<<"TaskFailed", "CLOSE">>) = Parses(<<"TaskFailed">>) \o Parses(<<"CLOSE">>)
      BY <3>1, <3>2, ParsesJoin
    <3>4. Parses(<<"TaskFailed">>) \in Seq(ParseAny) /\ Parses(<<"CLOSE">>) \in Seq(ParseAny)
      BY <3>1, ParsesAny
    <3>5. \A m \in {"new", "started"} : Runs(m, Parses(<<"TaskFailed", "CLOSE">>), "closed")
      BY <3>1, <3>3, <3>4, RunsJoin
    <3> QED
      BY <1>2, <2>2, <2>3, <2>6, <3>2, <3>5, ReplyInTurn
  <2> QED
    BY <1>9, <2>4, <2>5, <2>6 DEF ServerFailsTask
<1> QED
  BY <1>4, <1>5, <1>6, <1>7, <1>8, <1>9 DEF Server

\* The connection breaks, or nothing happens.
LEMMA BreakInTurn == ASSUME TypeInv, InTurn, LinkBreaks \/ UNCHANGED vars PROVE InTurn'
<1>1. PICK k \in Stages, l \in Stages : Course(k, l)
  BY DEF InTurn
<1>2. /\ UNCHANGED <<status, events, inbox, server, todo, calls>>
      /\ link' = link \/ (link = "up" /\ link' = "broken")
  BY DEF LinkBreaks, vars, node, network
<1>3. (Past' <=> Past) /\ (Ending' <=> Ending) /\ (Off' <=> Off) /\ (Linked' => Linked)
      /\ (Streams(l) => Streams(l)') /\ work' = work
  BY <1>2 DEF Past, Ending, Off, Linked, work, Streams
<1>4. \A t, e : Own(t, e)' <=> Own(t, e)
  BY <1>2 DEF Own
<1>5. (Early' => Early) /\ (Fresh /\ Early' => Fresh')
  BY <1>2 DEF Early, Fresh
<1>6. Course(k, l)'
  BY <1>1, <1>2, <1>3, <1>4, <1>5, CourseStays
<1>7. \A t \in Users : \E j, h \in Stages : Caller(t, j, h)'
  BY <1>2, <1>3, <1>4, CallersStay
<1> QED
  BY <1>6, <1>7 DEF InTurn

\* Every thread's callbacks stay in turn until the request is cancelled.
LEMMA InTurnKeeps ==
  ASSUME TypeInv, InTurn, exit # "Cancel", exit' # "Cancel", [Next]_vars PROVE InTurn'
<1>1. CASE EventThread
  <2>1. CASE Running("worker")
    BY <2>1, SendInTurn, EventInTurn, CallInTurn, ClosedInTurn, CutInTurn DEF Running
  <2> QED
    BY <1>1, <2>1, LaunchInTurn, ConnectedInTurn, ReadInTurn, SendInTurn, ParseInTurn, AfterInTurn,
       BeginInTurn, WriteInTurn DEF EventThread
<1>2. CASE User
  BY <1>2, UserInTurn
<1>3. CASE Server
  BY <1>3, ServerInTurn
<1>4. CASE Fault
  BY <1>4, ConnectFailsInTurn, TimeoutInTurn, BreakInTurn, ServerInTurn DEF Fault
<1>5. ASSUME NEW t \in Users, Running(t) PROVE InTurn'
  BY <1>5, UserRunsInTurn
<1>6. CASE UNCHANGED vars
  BY <1>6, BreakInTurn
<1> QED
  BY <1>1, <1>2, <1>3, <1>4, <1>5, <1>6 DEF Next

\* In turn, a callback under way is due.
LEMMA DueInTurn == ASSUME TypeInv, InTurn, NEW t \in Threads PROVE Due(t)
<1> SUFFICES ASSUME todo[t] # <<>>, Head(todo[t]).op = "call"
             PROVE  \E k, l \in Stages : Knows(t, k) /\ Turn(k, About(t), l)
  BY DEF Due
<1>1. \A k, j : Goes(Head(todo[t]), k, j) => Turn(k, About(t), j)
  BY DEF Goes, About
<1>2. CASE t \in Users
  <2>1. PICK k \in Stages, l \in Stages, j \in Stages : Caller(t, k, l) /\ Goes(Head(todo[t]), k, j)
    BY <1>2, UserAt
  <2> QED
    BY <1>1, <2>1 DEF Caller
<1>3. CASE t = "worker"
  <2>1. work = todo[t] /\ Programs
    BY <1>3 DEF work, TypeInv
  <2>2. PICK k \in Stages, l \in Stages : Course(k, l)
    BY DEF InTurn
  <2>3. \E j \in Stages : Goes(Head(todo[t]), k, j)
    BY <2>1, <2>2, WorkGoes
  <2> QED
    BY <1>1, <1>3, <2>2, <2>3 DEF Course
<1> QED
  BY <1>2, <1>3 DEF Threads

\* Before start nobody was told anything.
LEMMA InTurnInit == ASSUME Init PROVE InTurn
<1>1. \A t, e : ~Own(t, e)
  BY DEF Init, Own
<1>2. "new" \in Stages /\ \A t : Knows(t, "new")
  BY <1>1 DEF Knows, Stages
<1>3. Runs("new", <<>>, "new")
  BY <1>2, RunsNothing
<1>4. work = <<>> /\ \A t \in Users : todo[t] = <<>>
  BY DEF Init, work, Threads
<1>5. Course("new", "new")
  BY <1>2, <1>3, <1>4 DEF Init, Course, Early, Fresh, NoEvents, Past
<1>6. \A t \in Users : Caller(t, "new", "new")
  BY <1>2, <1>3, <1>4 DEF Caller
<1> QED
  BY <1>2, <1>5, <1>6 DEF InTurn

\* Only a callback makes one.
LEMMA OnlyCalls == ASSUME [Next]_vars PROVE UNCHANGED calls \/ \E t \in Threads : Call(t)
<1>1. \A t \in Threads : Running(t) => UNCHANGED calls \/ Call(t)
  BY DEF Running, Add, Notify, Flush, Directive, Event, Closed, CloseNode, Disconnect
<1>2. CASE EventThread
  BY <1>1, <1>2 DEF EventThread, Launch, Connected, Read, Command, Parse, After, Begin, Write, Threads
<1>3. CASE User \/ Server \/ Fault
  BY <1>3 DEF User, Server, Fault, Start, BeginSendAudio, Stop, Cancel, ServerUpgrades, ServerStarts,
     ServerReports, ServerCompletes, ServerRefuses, ServerFailsTask, Reply, ConnectFails, Timeout,
     LinkBreaks
<1> QED
  BY <1>1, <1>2, <1>3 DEF Next, Threads, vars

\* After cancel a callback under way stays due.
LEMMA DueKeeps ==
  ASSUME TypeInv, LateInv, exit = "Cancel", [Next]_vars, NEW t \in Threads, Due(t) PROVE Due(t)'
<1>1. Silent(t)' => todo'[t] = <<>> \/ Head(todo'[t]).op # "call"
  BY TailIsSeq DEF Silent, SilentSteps
<1>2. CASE Silent(t)'
  BY <1>1, <1>2 DEF Due
<1>3. CASE todo'[t] = todo[t] /\ \A e : Own(t, e)' <=> Own(t, e)
  <2>1. About(t)' = About(t)
    BY <1>3 DEF About
  <2>2. \A k : Knows(t, k) => Knows(t, k)'
    BY <1>3, KnowsStays
  <2>3. \A k, l : Turn(k, About(t), l) => Turn(k, About(t), l)'
    BY <2>1 DEF Turn
  <2> QED
    BY <1>3, <2>2, <2>3 DEF Due
<1>4. CASE Call(t)
  <2>1. Tail(todo[t]) \in Seq(SilentSteps)
    BY <1>4, TailIsSeq DEF LateInv, Silent, InCallback, Call, At
  <2>2. <<Do("closed")>> \in Seq(SilentSteps)
    BY SilentOnes
  <2>3. <<Do("closed")>> \o Tail(todo[t]) \in Seq(SilentSteps)
    BY <2>1, <2>2, ConcatIsSeq
  <2>4. todo'[t] \in Seq(SilentSteps)
    BY <1>4, <2>1, <2>3 DEF Call, Continue, Perform, TypeInv, Programs
  <2> QED
    BY <1>2, <2>4 DEF Silent
<1>5. CASE ~Call(t)
  <2>1. \A e : Own(t, e)' <=> Own(t, e)
    <3>1. CASE UNCHANGED calls
      BY <3>1 DEF Own
    <3>2. ASSUME NEW u \in Threads, Call(u) PROVE \A e : Own(t, e)' <=> Own(t, e)
      BY <1>5, <3>2, CallTold
    <3> QED
      BY <3>1, <3>2, OnlyCalls
  <2>2. Silent(t)' \/ todo'[t] = todo[t]
    BY LateKeeps DEF LateGoes
  <2> QED
    BY <1>2, <1>3, <2>1, <2>2
<1> QED
  BY <1>4, <1>5

\* Whatever happens, a callback under way is due.
LEMMA ThreadDue ==
  ASSUME TypeInv, ThreadInv, NEW t \in Threads PROVE Due(t)
BY DueInTurn DEF ThreadInv

\* This is kept, before cancel and after it.
LEMMA ThreadKeeps == TypeInv /\ LateInv /\ ThreadInv /\ [Next]_vars => ThreadInv'
<1> SUFFICES ASSUME TypeInv, LateInv, ThreadInv, [Next]_vars PROVE ThreadInv'
  OBVIOUS
<1>1. CASE exit = "Cancel"
  <2>1. exit' = "Cancel"
    BY <1>1 DEF Next, EventThread, User, Server, Fault, Running, Launch, Connected, Read, Command, Parse,
     After, Begin, Write, Add, Notify, Flush, Directive, Event, Call, Closed, CloseNode, Disconnect,
     Start, BeginSendAudio, Stop, Cancel, ServerUpgrades, ServerStarts, ServerReports,
     ServerCompletes, ServerRefuses, ServerFailsTask, Reply, ConnectFails, Timeout, LinkBreaks,
     vars, node
  <2>2. \A t \in Threads : Due(t)'
    BY <1>1, ThreadDue, DueKeeps
  <2> QED
    BY <2>1, <2>2 DEF ThreadInv
<1>2. CASE exit # "Cancel" /\ exit' # "Cancel"
  BY <1>2, InTurnKeeps DEF ThreadInv
<1>3. CASE exit # "Cancel" /\ exit' = "Cancel"
  <2>1. Cancel
    BY <1>3 DEF Next, EventThread, User, Server, Fault, Running, Launch, Connected, Read,
       Command, Parse, After, Begin, Write, Add, Notify, Flush, Directive, Event, Call, Closed,
       CloseNode, Disconnect, Start, BeginSendAudio, Stop, ServerUpgrades, ServerStarts,
       ServerReports, ServerCompletes, ServerRefuses, ServerFailsTask, Reply, ConnectFails,
       Timeout, LinkBreaks, vars, node
  <2>2. UNCHANGED <<todo, calls>>
    BY <2>1 DEF Cancel
  <2>3. \A t, e : Own(t, e)' <=> Own(t, e)
    BY <2>2 DEF Own
  <2>4. ASSUME NEW t \in Threads PROVE Due(t)'
    <3>1. Due(t) /\ About(t)' = About(t)
      BY <2>2, ThreadDue DEF About
    <3>2. \A k : Knows(t, k) => Knows(t, k)'
      BY <2>3, KnowsStays
    <3>3. \A k, l : Turn(k, About(t), l) => Turn(k, About(t), l)'
      BY <3>1 DEF Turn
    <3> QED
      BY <2>2, <3>1, <3>2, <3>3 DEF Due
  <2> QED
    BY <1>3, <2>4 DEF ThreadInv
<1> QED
  BY <1>1, <1>2, <1>3

(***************************************************************************)
(* What a thread has told its user, as a log. FlattenSeq chooses a         *)
(* function that grows by one part after the other; what holds of each of  *)
(* its values is shown with an induction over a set, from a least          *)
(* counterexample.                                                         *)
(***************************************************************************)
\* Induction over the natural numbers, for a set.
LEMMA SetInduction ==
  ASSUME NEW T, 0 \in T, \A n \in Nat : n \in T => n + 1 \in T
  PROVE  Nat \subseteq T
<1> DEFINE Others == Nat \ T
<1> SUFFICES ASSUME Others # {} PROVE FALSE
  OBVIOUS
<1>1. PICK n \in Others : \A m \in Others : ~ (<<m, n>> \in OpToRel(<, Nat))
  <2>1. Others \subseteq Nat
    OBVIOUS
  <2> HIDE DEF Others
  <2> QED BY <2>1, NatLessThanWellFounded, WFMin
<1>2. \A m \in Others : ~(m < n)
  BY <1>1 DEF OpToRel
<1>3. n \in Nat /\ n # 0
  OBVIOUS
<1>4. n - 1 \in Nat /\ n - 1 < n /\ (n - 1) + 1 = n
  BY <1>3
<1>5. n - 1 \in T
  BY <1>2, <1>4
<1> QED
  BY <1>4, <1>5

\* The sequence that begins with s[1] and grows by one after the other.
Grown(s, m, g) == g = [i \in 1..m |-> IF i = 1 THEN s[i] ELSE g[i - 1] \o s[i]]

\* What it is at a place, and after the first.
LEMMA GrownAt ==
  ASSUME NEW s, NEW m \in Nat, NEW g, Grown(s, m, g), NEW i \in 1..m
  PROVE  g[i] = IF i = 1 THEN s[i] ELSE g[i - 1] \o s[i]
<1> DEFINE G == [j \in 1..m |-> IF j = 1 THEN s[j] ELSE g[j - 1] \o s[j]]
<1>1. g = G
  BY DEF Grown
<1>2. G[i] = IF i = 1 THEN s[i] ELSE g[i - 1] \o s[i]
  OBVIOUS
<1> QED
  <2> HIDE DEF G
  <2> QED BY <1>1, <1>2

\* The same, at a place after the first.
LEMMA GrownNext ==
  ASSUME NEW s, NEW m \in Nat, NEW g, Grown(s, m, g), NEW i \in 1..m, i # 1
  PROVE  g[i] = g[i - 1] \o s[i]
<1> DEFINE G == [j \in 1..m |-> IF j = 1 THEN s[j] ELSE g[j - 1] \o s[j]]
<1>1. g = G
  BY DEF Grown
<1>2. G[i] = g[i - 1] \o s[i]
  OBVIOUS
<1> QED
  <2> HIDE DEF G
  <2> QED BY <1>1, <1>2

\* There is one for every length.
LEMMA GrownExists ==
  ASSUME NEW s, NEW n \in Nat PROVE \E g : Grown(s, n, g)
<1> DEFINE T == {m \in Nat : \E g : Grown(s, m, g)}
<1>1. 0 \in T
  <2>1. Grown(s, 0, [i \in 1..0 |-> s])
    BY DEF Grown
  <2> QED BY <2>1
<1>2. ASSUME NEW m \in Nat, m \in T PROVE m + 1 \in T
  <2>1. PICK g : Grown(s, m, g)
    BY <1>2
  <2> DEFINE h == [i \in 1..(m + 1) |->
                     IF i <= m THEN g[i] ELSE IF i = 1 THEN s[i] ELSE g[m] \o s[i]]
  <2>2. ASSUME NEW i \in 1..(m + 1)
        PROVE  h[i] = IF i = 1 THEN s[i] ELSE h[i - 1] \o s[i]
    <3>1. CASE i <= m
      <4>1. g[i] = IF i = 1 THEN s[i] ELSE g[i - 1] \o s[i]
        BY <2>1, <3>1, GrownAt
      <4> QED BY <3>1, <4>1
    <3>2. CASE i = m + 1 /\ i # 1
      <4>1. i - 1 = m /\ i - 1 \in 1..(m + 1) /\ ~(i <= m)
        BY <3>2
      <4>2. h[i - 1] = g[m]
        BY <4>1
      <4> QED BY <3>2, <4>1, <4>2
    <3>3. CASE i = m + 1 /\ i = 1
      BY <3>3
    <3> QED BY <3>1, <3>2, <3>3
  <2>3. Grown(s, m + 1, h)
    <3>1. h = [i \in 1..(m + 1) |-> h[i]]
      OBVIOUS
    <3> HIDE DEF h
    <3> QED BY <2>2, <3>1, Zenon DEF Grown
  <2> QED BY <2>3
<1>3. Nat \subseteq T
  <2> HIDE DEF T
  <2> QED BY <1>1, <1>2, SetInduction
<1> QED
  BY <1>3

\* FlattenSeq chooses such a sequence and takes its last element.
LEMMA FlattenIs ==
  ASSUME NEW s, NEW n \in Nat \ {0}, Len(s) = n
  PROVE  \E g : Grown(s, n, g) /\ FlattenSeq(s) = g[n]
<1> DEFINE f == CHOOSE g : Grown(s, n, g)
<1>1. Grown(s, n, f)
  BY GrownExists
<1>2. FlattenSeq(s) = f[n]
  BY DEF FlattenSeq, Grown
<1> QED
  BY <1>1, <1>2

\* The flattened beginning of a sequence is an element of what grew for all of it.
Begins(s, i, t) == Len(t) = i /\ \A j \in 1..i : t[j] = s[j]

\* A beginning of the parts flattens to what had grown so far.
LEMMA FlattenAt ==
  ASSUME NEW s, NEW n \in Nat \ {0}, NEW g, Grown(s, n, g), NEW i \in 1..n,
         NEW t, Begins(s, i, t)
  PROVE  FlattenSeq(t) = g[i]
<1>0. Len(t) = i /\ \A j \in 1..i : t[j] = s[j]
  BY DEF Begins
<1>1. PICK h : Grown(t, i, h) /\ FlattenSeq(t) = h[i]
  <2>1. i \in Nat \ {0}
    OBVIOUS
  <2> QED BY <1>0, <2>1, FlattenIs
<1> DEFINE T == {m \in Nat : m + 1 \in 1..i => h[m + 1] = g[m + 1]}
<1>2. 0 \in T
  <2>1. 1 \in 1..i /\ 1 \in 1..n
    OBVIOUS
  <2>2. h[1] = t[1] /\ g[1] = s[1]
    BY <1>1, <2>1, GrownAt
  <2> QED BY <1>0, <2>1, <2>2
<1>3. ASSUME NEW m \in Nat, m \in T PROVE m + 1 \in T
  <2> SUFFICES ASSUME (m + 1) + 1 \in 1..i PROVE h[(m + 1) + 1] = g[(m + 1) + 1]
    OBVIOUS
  <2>1. h[m + 1] = g[m + 1]
    BY <1>3
  <2>2. PICK k \in 1..i : k = (m + 1) + 1 /\ k # 1 /\ k - 1 = m + 1 /\ i \in Nat
    OBVIOUS
  <2>3. k \in 1..n /\ t[k] = s[k]
    BY <1>0
  <2>4. h[k] = h[k - 1] \o t[k]
    BY <1>1, <2>2, GrownNext
  <2>5. g[k] = g[k - 1] \o s[k]
    BY <2>2, <2>3, GrownNext
  <2> QED BY <2>1, <2>2, <2>3, <2>4, <2>5
<1>4. Nat \subseteq T
  <2> HIDE DEF T
  <2> QED BY <1>2, <1>3, SetInduction
<1>5. h[i] = g[i]
  <2>1. i - 1 \in Nat /\ (i - 1) + 1 = i
    OBVIOUS
  <2>2. i - 1 \in T
    BY <1>4, <2>1, Zenon
  <2> QED BY <2>1, <2>2
<1> QED
  BY <1>1, <1>5

\* Nothing flattens to nothing.
LEMMA FlattenNothing == FlattenSeq(<<>>) = <<>>
  BY DEF FlattenSeq

\* One part more.
LEMMA FlattenAppend ==
  ASSUME NEW S, NEW a \in Seq(Seq(S)), NEW z \in Seq(S), NEW b, b = Append(a, z)
  PROVE  FlattenSeq(b) = FlattenSeq(a) \o z
<1> DEFINE n == Len(b)
<1>1. /\ n = Len(a) + 1 /\ n \in Nat \ {0} /\ n \in 1..n /\ b[n] = z /\ Len(a) \in Nat
      /\ \A j \in 1..Len(a) : a[j] = b[j]
  OBVIOUS
<1>2. PICK g : Grown(b, n, g) /\ FlattenSeq(b) = g[n]
  BY <1>1, FlattenIs
<1>3. CASE Len(a) = 0
  <2>1. a = <<>> /\ n = 1
    BY <1>1, <1>3
  <2>2. g[n] = b[n]
    BY <1>1, <1>2, <2>1, GrownAt
  <2>3. FlattenSeq(a) = <<>> /\ <<>> \o z = z
    BY <2>1, FlattenNothing
  <2> QED BY <1>1, <1>2, <2>2, <2>3
<1>4. CASE Len(a) # 0
  <2>0. Len(a) \in 1..n /\ Len(a) = n - 1 /\ n # 1
    BY <1>1, <1>4
  <2>1. PICK i \in 1..n : i = Len(a) /\ i = n - 1 /\ n # 1
    <3> HIDE DEF n
    <3> QED BY <2>0, Zenon
  <2>2. FlattenSeq(a) = g[i]
    <3>1. Begins(b, i, a)
      BY <1>1, <2>1 DEF Begins
    <3>2. Len(b) \in Nat \ {0} /\ Grown(b, Len(b), g) /\ i \in 1..Len(b)
      BY <1>1, <1>2, <2>1
    <3> QED BY <3>1, <3>2, FlattenAt, Zenon
  <2>3. g[n] = g[n - 1] \o b[n]
    <3> HIDE DEF n
    <3> QED BY <1>1, <1>2, <2>1, GrownNext
  <2> QED BY <1>1, <1>2, <2>1, <2>2, <2>3
<1> QED
  BY <1>3, <1>4

\* What a callback adds to the log of a thread, and what all of them do.
Saying(c, t) == IF c.by = t THEN <<c.event>> ELSE <<>>
Said(t) == [i \in DOMAIN calls |-> Saying(calls[i], t)]

\* The log flattens what the callbacks add.
LEMMA LogIsSaid == \A t : Log(t) = FlattenSeq(Said(t))
BY DEF Log, Said, Saying

\* A callback more.
LEMMA LogMore ==
  ASSUME calls \in Seq(Call_), NEW c \in Call_, calls' = Append(calls, c), NEW t \in Threads
  PROVE  Log(t)' = Log(t) \o Saying(c, t)
<1>1. \A d \in Call_ : Saying(d, t) \in Seq(Callbacks)
  BY DEF Saying, Call_
<1>2. /\ DOMAIN calls' = 1 .. Len(calls) + 1 /\ DOMAIN calls = 1 .. Len(calls)
      /\ \A i \in 1 .. Len(calls) : calls'[i] = calls[i] /\ calls[i] \in Call_
      /\ calls'[Len(calls) + 1] = c /\ Len(calls) \in Nat
  OBVIOUS
<1>3. Said(t) \in Seq(Seq(Callbacks)) /\ Len(Said(t)) = Len(calls)
      /\ \A i \in 1 .. Len(calls) : Said(t)[i] = Saying(calls[i], t)
  BY <1>1, <1>2 DEF Said
<1>4. Said(t)' = Append(Said(t), Saying(c, t))
  <2> DEFINE a == Append(Said(t), Saying(c, t))
             b == Said(t)'
  <2>1. /\ a \in Seq(Seq(Callbacks)) /\ Len(a) = Len(calls) + 1
        /\ \A i \in 1 .. Len(calls) + 1 : a[i] = Saying(calls'[i], t)
    BY <1>1, <1>2, <1>3
  <2>2. b = [i \in 1 .. Len(calls) + 1 |-> Saying(calls'[i], t)]
    BY <1>2 DEF Said, Saying
  <2>3. \A i \in 1 .. Len(calls) + 1 : Saying(calls'[i], t) \in Seq(Callbacks)
    BY <1>1, <1>2
  <2> HIDE DEF a, b
  <2>4. /\ b \in Seq(Seq(Callbacks)) /\ Len(b) = Len(calls) + 1
        /\ \A i \in 1 .. Len(calls) + 1 : b[i] = Saying(calls'[i], t)
    BY <1>2, <2>2, <2>3
  <2>5. a = b
    BY <2>1, <2>4, SeqEqual
  <2> QED
    BY <2>5 DEF a, b
<1>5. FlattenSeq(Said(t)') = FlattenSeq(Said(t)) \o Saying(c, t)
  BY <1>1, <1>3, <1>4, FlattenAppend
<1>6. Log(t)' = FlattenSeq(Said(t)')
  BY DEF Log, Said, Saying
<1> QED
  BY <1>5, <1>6, LogIsSaid

\* A thread's log holds what the thread has told its user.
LogInv == \A t \in Threads :
  /\ Log(t) \in Seq(Callbacks)
  /\ \A e : (\E i \in DOMAIN Log(t) : Log(t)[i] = e) <=> Own(t, e)

\* Every log begins empty.
LEMMA LogInit == ASSUME Init PROVE LogInv
<1>1. ASSUME NEW t PROVE Log(t) = <<>> /\ \A e : ~Own(t, e)
  <2>1. calls = <<>>
    BY DEF Init
  <2>2. Said(t) = <<>>
    BY <2>1 DEF Said
  <2> QED
    BY <2>1, <2>2, LogIsSaid, FlattenNothing DEF Own
<1>2. <<>> \in Seq(Callbacks) /\ DOMAIN <<>> = {}
  OBVIOUS
<1>3. ASSUME NEW t \in Threads
      PROVE  Log(t) \in Seq(Callbacks) /\ \A e : (\E i \in DOMAIN Log(t) : Log(t)[i] = e) <=> Own(t, e)
  BY <1>1, <1>2
<1> QED
  BY <1>3 DEF LogInv

\* A thread's log grows by the callback the thread makes.
LEMMA LogCall ==
  ASSUME TypeInv, LogInv, NEW u \in Threads, Call(u), NEW t \in Threads
  PROVE  /\ Log(t)' = IF t = u THEN Append(Log(t), About(u)) ELSE Log(t)
         /\ Log(t)' \in Seq(Callbacks)
         /\ \A e : (\E i \in DOMAIN Log(t)' : Log(t)'[i] = e) <=> Own(t, e)'
<1> DEFINE c == [by |-> u, event |-> About(u), late |-> exit = "Cancel"]
<1>1. About(u) \in Callbacks /\ \A e : Own(t, e)' <=> Own(t, e) \/ (t = u /\ e = About(u))
  BY CallTold
<1>2. c \in Call_ /\ calls' = Append(calls, c) /\ c.by = u /\ c.event = About(u) /\ calls \in Seq(Call_)
  BY <1>1 DEF Call_, Call, TypeInv, Types
<1>3. Log(t)' = Log(t) \o Saying(c, t)
  <2> HIDE DEF c
  <2> QED
    BY <1>2, LogMore
<1>4. Log(t) \in Seq(Callbacks) /\ \A e : (\E i \in DOMAIN Log(t) : Log(t)[i] = e) <=> Own(t, e)
  BY DEF LogInv
<1>5. CASE t = u
  <2>1. Saying(c, t) = <<About(u)>>
    BY <1>2, <1>5 DEF Saying
  <2>0. \A q \in Seq(Callbacks) : \A x \in Callbacks : q \o <<x>> = Append(q, x)
    OBVIOUS
  <2>2. Log(t)' = Append(Log(t), About(u))
    BY <1>1, <1>3, <1>4, <2>0, <2>1, Zenon
  <2> DEFINE s == Log(t)
             z == Log(t)'
  <2>3. s \in Seq(Callbacks) /\ z = Append(s, About(u))
    BY <1>4, <2>2
  <2> HIDE DEF s, z
  <2>4. /\ DOMAIN s = 1 .. Len(s) /\ DOMAIN z = 1 .. Len(s) + 1 /\ Len(s) \in Nat
        /\ \A i \in 1 .. Len(s) : z[i] = s[i]
        /\ z[Len(s) + 1] = About(u) /\ z \in Seq(Callbacks)
    BY <1>1, <2>3
  <2>5. \A e : (\E i \in DOMAIN z : z[i] = e) <=> (\E i \in DOMAIN s : s[i] = e) \/ e = About(u)
    BY <2>4
  <2> QED
    BY <1>1, <1>4, <1>5, <2>2, <2>4, <2>5 DEF s, z
<1>6. CASE t # u
  <2>1. Saying(c, t) = <<>>
    BY <1>2, <1>6 DEF Saying
  <2>2. Log(t)' = Log(t)
    BY <1>3, <1>4, <2>1
  <2> QED
    BY <1>1, <1>4, <1>6, <2>2
<1> QED
  BY <1>5, <1>6

\* Without a callback no log changes.
LEMMA LogStays == ASSUME UNCHANGED calls, NEW t PROVE Log(t)' = Log(t) /\ \A e : Own(t, e)' <=> Own(t, e)
BY DEF Log, Own

\* This is kept by every step.
LEMMA LogKeeps == TypeInv /\ LogInv /\ [Next]_vars => LogInv'
<1> SUFFICES ASSUME TypeInv, LogInv, [Next]_vars PROVE LogInv'
  OBVIOUS
<1>1. CASE UNCHANGED calls
  BY <1>1, LogStays DEF LogInv
<1>2. ASSUME NEW u \in Threads, Call(u) PROVE LogInv'
  BY <1>2, LogCall DEF LogInv
<1> QED
  BY <1>1, <1>2, OnlyCalls

\* Every thread that tells its user of a request, the event thread and the callers of
\* sendAudio and stop, keeps to the order of TaskEvents, whatever fails and whoever
\* reports it: one start, results, one end and one Close. (parseFrame, handlerEvent,
\* handlerTaskFailedEvent.)
THEOREM ThreadsReportInOrder == Spec => ThreadCallbacksInOrder
<1>1. Init => LateInv /\ ThreadInv /\ LogInv
  <2> SUFFICES ASSUME Init PROVE LateInv /\ ThreadInv /\ LogInv
    OBVIOUS
  <2>1. InTurn /\ LogInv
    BY InTurnInit, LogInit
  <2>2. LateInv
    BY LateInit
  <2> QED
    BY <2>1, <2>2 DEF Init, ThreadInv
<1>2. TypeInv /\ LateInv /\ ThreadInv /\ LogInv /\ [Next]_vars
        => [\A t \in Threads : One(t)!Next \/ UNCHANGED Log(t)]_calls
  <2> SUFFICES ASSUME TypeInv, ThreadInv, LogInv, [Next]_vars, calls' # calls, NEW t \in Threads
               PROVE  One(t)!Next \/ UNCHANGED Log(t)
    OBVIOUS
  <2>1. PICK u \in Threads : Call(u)
    BY OnlyCalls
  <2>2. CASE t # u
    BY <2>1, <2>2, LogCall
  <2>3. CASE t = u
    <3>1. Log(t)' = Append(Log(t), About(t))
      BY <2>1, <2>3, LogCall
    <3>2. PICK k \in Stages, l \in Stages : Knows(t, k) /\ Turn(k, About(t), l)
      BY <2>1, <2>3, ThreadDue DEF Due, Call, At
    <3>3. \A e : One(t)!Told(e) <=> Own(t, e)
      BY DEF LogInv, One!Told
    <3> QED
      BY <3>1, <3>2, <3>3 DEF Knows, Turn, One!Next, One!Started, One!Result, One!Completed,
         One!TaskFailed, One!Close, One!Ended
  <2> QED
    BY <2>2, <2>3
<1> QED
  BY <1>1, <1>2, LateHolds, ThreadKeeps, LogKeeps, TypeInvInit, TypeInvKeeps,
     PTL DEF Spec, ThreadCallbacksInOrder

===============================================================================
