--------------------------- MODULE SyncCalls_proofs ---------------------------
(***************************************************************************)
(* Proofs about SyncCalls, for any requests, users and plans, in three     *)
(* layers, each with the troubles it bears. Whatever happens, the mutex is *)
(* given back. When no send fails and no kept connection does, nothing is  *)
(* left to be told of a session when the next one of its request begins.   *)
(* When no send fails and no wait wakes without a cause, the value of a    *)
(* synchronous call is true.                                               *)
(*                                                                         *)
(* The waits have no predicate, so what makes an answer the right one is   *)
(* not in the wait: it is the mutex, which lets nobody start a request     *)
(* while somebody waits for it; the error code of a start that ran out,    *)
(* which is never reset; and that a session is told once that it started.  *)
(***************************************************************************)
EXTENDS SyncCalls, SequenceTheorems, TLAPS

(***************************************************************************)
(* What a thread may have to tell, for one request at a time.              *)
(***************************************************************************)
\* The programs that begin in Launch, Break, Answer and a failed send, and what is
\* left of each.
Prog(k, r) ==
  CASE k = 0 -> <<>>
    [] k = 1 -> <<Do("dial", r, "none")>>
    [] k = 2 -> <<Do("event", r, "TaskFailed"), Do("event", r, "Close")>>
    [] k = 3 -> <<Do("signal", r, "TaskFailed"), Do("callback", r, "TaskFailed"),
                  Do("event", r, "Close")>>
    [] k = 4 -> <<Do("callback", r, "TaskFailed"), Do("event", r, "Close")>>
    [] k = 5 -> <<Do("event", r, "Close")>>
    [] k = 6 -> <<Do("signal", r, "Close"), Do("callback", r, "Close"),
                  Do("status", r, "Closed")>>
    [] k = 7 -> <<Do("callback", r, "Close"), Do("status", r, "Closed")>>
    [] k = 8 -> <<Do("status", r, "Closed")>>
    [] k = 9 -> <<Do("signal", r, "Started"), Do("callback", r, "Started"),
                  Do("status", r, "Started")>>
    [] k = 10 -> <<Do("callback", r, "Started"), Do("status", r, "Started")>>
    [] k = 11 -> <<Do("status", r, "Started")>>
    [] k = 12 -> <<Do("signal", r, "Completed"), Do("callback", r, "Completed"),
                   Do("status", r, "Completed"), Do("event", r, "Close")>>
    [] k = 13 -> <<Do("callback", r, "Completed"), Do("status", r, "Completed"),
                   Do("event", r, "Close")>>
    [] k = 14 -> <<Do("status", r, "Completed"), Do("event", r, "Close")>>
    [] k = 15 -> <<Do("signal", r, "TaskFailed"), Do("callback", r, "TaskFailed"),
                   Do("status", r, "Failed"), Do("event", r, "Close")>>
    [] k = 16 -> <<Do("callback", r, "TaskFailed"), Do("status", r, "Failed"),
                   Do("event", r, "Close")>>
    [] k = 17 -> <<Do("status", r, "Failed"), Do("event", r, "Close")>>

\* What the first step of each is, and what comes after it.
Op(k) ==
  CASE k = 1 -> "dial"
    [] k \in {2, 5} -> "event"
    [] k \in {3, 6, 9, 12, 15} -> "signal"
    [] k \in {4, 7, 10, 13, 16} -> "callback"
    [] k \in {8, 11, 14, 17} -> "status"

Of(k) ==
  CASE k = 1 -> "none"
    [] k \in {2, 3, 4, 15, 16} -> "TaskFailed"
    [] k \in {5, 6, 7} -> "Close"
    [] k = 8 -> "Closed"
    [] k \in {9, 10, 11} -> "Started"
    [] k \in {12, 13, 14} -> "Completed"
    [] k = 17 -> "Failed"

After(k) == IF k \in {1, 5, 8, 11} THEN 0
            ELSE IF k \in {2, 4, 14, 17} THEN 5 ELSE k + 1

LEMMA FirstStep ==
  ASSUME NEW k \in 1..17, NEW r
  PROVE  /\ Prog(k, r) # <<>>
         /\ Head(Prog(k, r)).request = r
         /\ Head(Prog(k, r)).op = Op(k)
         /\ Head(Prog(k, r)).event = Of(k)
         /\ \A i \in DOMAIN Prog(k, r) : Prog(k, r)[i].request = r
         /\ Tail(Prog(k, r)) = Prog(After(k), r)
<1>1. CASE k = 1
  BY <1>1 DEF Prog, Op, Of, After, Do
<1>2. CASE k = 2
  BY <1>2 DEF Prog, Op, Of, After, Do
<1>3. CASE k = 3
  BY <1>3 DEF Prog, Op, Of, After, Do
<1>4. CASE k = 4
  BY <1>4 DEF Prog, Op, Of, After, Do
<1>5. CASE k = 5
  BY <1>5 DEF Prog, Op, Of, After, Do
<1>6. CASE k = 6
  BY <1>6 DEF Prog, Op, Of, After, Do
<1>7. CASE k = 7
  BY <1>7 DEF Prog, Op, Of, After, Do
<1>8. CASE k = 8
  BY <1>8 DEF Prog, Op, Of, After, Do
<1>9. CASE k = 9
  BY <1>9 DEF Prog, Op, Of, After, Do
<1>10. CASE k = 10
  BY <1>10 DEF Prog, Op, Of, After, Do
<1>11. CASE k = 11
  BY <1>11 DEF Prog, Op, Of, After, Do
<1>12. CASE k = 12
  BY <1>12 DEF Prog, Op, Of, After, Do
<1>13. CASE k = 13
  BY <1>13 DEF Prog, Op, Of, After, Do
<1>14. CASE k = 14
  BY <1>14 DEF Prog, Op, Of, After, Do
<1>15. CASE k = 15
  BY <1>15 DEF Prog, Op, Of, After, Do
<1>16. CASE k = 16
  BY <1>16 DEF Prog, Op, Of, After, Do
<1>17. CASE k = 17
  BY <1>17 DEF Prog, Op, Of, After, Do
<1> QED
  BY <1>1, <1>2, <1>3, <1>4, <1>5, <1>6, <1>7, <1>8, <1>9,
     <1>10, <1>11, <1>12, <1>13, <1>14, <1>15, <1>16, <1>17

(***************************************************************************)
(* Programs put together.                                                  *)
(***************************************************************************)
LEMMA Join11 == ASSUME NEW a, NEW b PROVE <<a>> \o <<b>> = <<a, b>>
<1> DEFINE S == {a, b}
<1>1. <<a>> \in Seq(S) /\ <<b>> \in Seq(S) /\ <<a, b>> \in Seq(S)
  OBVIOUS
<1>2. <<a>> \o <<b>> \in Seq(S) /\ Len(<<a>> \o <<b>>) = 2
  BY <1>1
<1>3. (<<a>> \o <<b>>)[1] = a /\ (<<a>> \o <<b>>)[2] = b
  BY <1>1
<1>4. \A i \in 1..2 : (<<a>> \o <<b>>)[i] = <<a, b>>[i]
  BY <1>3
<1> HIDE DEF S
<1> QED
  BY <1>1, <1>2, <1>4, SeqEqual

LEMMA Join21 == ASSUME NEW a, NEW b, NEW c PROVE <<a, b>> \o <<c>> = <<a, b, c>>
<1> DEFINE S == {a, b, c}
<1>1. <<a, b>> \in Seq(S) /\ <<c>> \in Seq(S) /\ <<a, b, c>> \in Seq(S)
  OBVIOUS
<1>2. <<a, b>> \o <<c>> \in Seq(S) /\ Len(<<a, b>> \o <<c>>) = 3
  BY <1>1
<1>3. /\ (<<a, b>> \o <<c>>)[1] = a /\ (<<a, b>> \o <<c>>)[2] = b
      /\ (<<a, b>> \o <<c>>)[3] = c
  BY <1>1
<1>4. \A i \in 1..3 : (<<a, b>> \o <<c>>)[i] = <<a, b, c>>[i]
  BY <1>3
<1> HIDE DEF S
<1> QED
  BY <1>1, <1>2, <1>4, SeqEqual

LEMMA Join31 ==
  ASSUME NEW a, NEW b, NEW c, NEW d PROVE <<a, b, c>> \o <<d>> = <<a, b, c, d>>
<1> DEFINE S == {a, b, c, d}
<1>1. <<a, b, c>> \in Seq(S) /\ <<d>> \in Seq(S) /\ <<a, b, c, d>> \in Seq(S)
  OBVIOUS
<1>2. <<a, b, c>> \o <<d>> \in Seq(S) /\ Len(<<a, b, c>> \o <<d>>) = 4
  BY <1>1
<1>3. /\ (<<a, b, c>> \o <<d>>)[1] = a /\ (<<a, b, c>> \o <<d>>)[2] = b
      /\ (<<a, b, c>> \o <<d>>)[3] = c /\ (<<a, b, c>> \o <<d>>)[4] = d
  BY <1>1
<1>4. \A i \in 1..4 : (<<a, b, c>> \o <<d>>)[i] = <<a, b, c, d>>[i]
  BY <1>3
<1> HIDE DEF S
<1> QED
  BY <1>1, <1>2, <1>4, SeqEqual

\* What the actions put before what is left.
LEMMA Programs ==
  ASSUME NEW r
  PROVE  /\ TaskFailed(r) \o Prog(0, r) = Prog(2, r) /\ TaskFailed(r) = Prog(2, r)
         /\ <<>> \o Prog(0, r) = Prog(0, r) /\ <<>> \o Prog(5, r) = Prog(5, r)
         /\ Frame(r, "TaskFailed") \o Prog(5, r) = Prog(3, r)
         /\ Frame(r, "Close") \o Status(r, "Closed") \o Prog(0, r) = Prog(6, r)
         /\ Frame(r, "Started") \o Status(r, "Started") = Prog(9, r)
         /\ Frame(r, "Completed") \o Status(r, "Completed") \o Event(r, "Close") = Prog(12, r)
         /\ Frame(r, "TaskFailed") \o Status(r, "Failed") \o Event(r, "Close") = Prog(15, r)
<1>1. TaskFailed(r) = Prog(2, r)
  BY Join11 DEF TaskFailed, Event, Prog
<1>2. Prog(2, r) \o <<>> = Prog(2, r)
  <2>1. Prog(2, r) \in Seq({Do("event", r, "TaskFailed"), Do("event", r, "Close")})
    BY DEF Prog
  <2> QED
    BY <2>1, ConcatEmptySeq
<1>3. Frame(r, "TaskFailed") \o Prog(5, r) = Prog(3, r)
  BY Join21 DEF Frame, Prog
<1>4. Frame(r, "Close") \o Status(r, "Closed") = Prog(6, r)
  BY Join21 DEF Frame, Status, Prog
<1>5. Prog(6, r) \o <<>> = Prog(6, r)
  <2>1. Prog(6, r) \in Seq({Do("signal", r, "Close"), Do("callback", r, "Close"),
                            Do("status", r, "Closed")})
    BY DEF Prog
  <2> QED
    BY <2>1, ConcatEmptySeq
<1>6. Frame(r, "Started") \o Status(r, "Started") = Prog(9, r)
  BY Join21 DEF Frame, Status, Prog
<1>7. Frame(r, "Completed") \o Status(r, "Completed") \o Event(r, "Close") = Prog(12, r)
  <2>1. Frame(r, "Completed") \o Status(r, "Completed")
          = <<Do("signal", r, "Completed"), Do("callback", r, "Completed"),
              Do("status", r, "Completed")>>
    BY Join21 DEF Frame, Status
  <2>2. Event(r, "Close") = <<Do("event", r, "Close")>>
    BY DEF Event
  <2>3. Prog(12, r) = <<Do("signal", r, "Completed"), Do("callback", r, "Completed"),
                        Do("status", r, "Completed"), Do("event", r, "Close")>>
    BY DEF Prog
  <2> QED
    BY <2>1, <2>2, <2>3, Join31
<1>8. Frame(r, "TaskFailed") \o Status(r, "Failed") \o Event(r, "Close") = Prog(15, r)
  <2>1. Frame(r, "TaskFailed") \o Status(r, "Failed")
          = <<Do("signal", r, "TaskFailed"), Do("callback", r, "TaskFailed"),
              Do("status", r, "Failed")>>
    BY Join21 DEF Frame, Status
  <2>2. Event(r, "Close") = <<Do("event", r, "Close")>>
    BY DEF Event
  <2>3. Prog(15, r) = <<Do("signal", r, "TaskFailed"), Do("callback", r, "TaskFailed"),
                        Do("status", r, "Failed"), Do("event", r, "Close")>>
    BY DEF Prog
  <2> QED
    BY <2>1, <2>2, <2>3, Join31
<1>9. Prog(0, r) = <<>> /\ Prog(5, r) = <<Do("event", r, "Close")>>
  BY DEF Prog
<1>10. <<>> \o Prog(0, r) = Prog(0, r) /\ <<>> \o Prog(5, r) = Prog(5, r)
  <2>1. Prog(0, r) \in Seq({Do("event", r, "Close")})
    BY DEF Prog
  <2>2. Prog(5, r) \in Seq({Do("event", r, "Close")})
    BY DEF Prog
  <2> QED
    BY <2>1, <2>2, ConcatEmptySeq
<1> QED
  BY <1>1, <1>2, <1>3, <1>4, <1>5, <1>6, <1>7, <1>8, <1>9, <1>10

(***************************************************************************)
(* Whatever happens: types, programs and the mutex.                        *)
(***************************************************************************)
Exits == {"Invalid", "Stopping", "Cancel"}
Errors == {"none", "TaskFailed", "InvokeTimeout"}

CallsTyped ==
  /\ DOMAIN call = Callers
  /\ \A c \in Callers :
       /\ DOMAIN call[c] = {"op", "request", "at"}
       /\ call[c].at \in Places
       /\ call[c].at # "idle" => call[c].request \in Requests
       /\ call[c].op = "audio" => call[c].at \in {"admit", "report"}

NodesTyped ==
  /\ status \in [Requests -> Statuses] /\ exit \in [Requests -> Exits]
  /\ error \in [Requests -> Errors] /\ launch \in [Requests -> BOOLEAN]
  /\ link \in [Requests -> {"none", "up", "down"}]
  /\ answered \in [Requests -> SUBSET {"Started", "Close"}]
  /\ refused \subseteq Requests /\ long \in BOOLEAN

\* Each thread is in one of the programs, or in none.
InPrograms ==
  /\ DOMAIN todo = Callers
  /\ \A c \in Callers :
       todo[c] = <<>> \/ \E k \in 1..17, r \in Requests : todo[c] = Prog(k, r)

\* Who is past the lock and has not returned holds the mutex, but for sendAudio.
Critical(c) == /\ call[c].op # "audio"
               /\ call[c].at \in {"admit", "wait", "asleep", "woken", "report"}

Mutex ==
  /\ \A c \in Callers : Critical(c) => holder = c
  /\ holder # Nobody => holder \in Callers /\ Critical(holder)

TypedInv == CallsTyped /\ NodesTyped /\ InPrograms /\ Mutex

LEMMA NobodyCalls == Nobody \notin Callers /\ EventThread \in Callers
<1>1. Nobody \notin Callers
  BY CallsAssumption DEF Callers, Nobody
<1> QED
  BY <1>1 DEF Callers, EventThread

\* A thread goes from one program to another of the same request.
LEMMA TodoMoves ==
  ASSUME InPrograms, NEW c \in Callers, NEW k \in 0..17, NEW r \in Requests,
         todo' = [todo EXCEPT ![c] = Prog(k, r)]
  PROVE  InPrograms' /\ todo'[c] = Prog(k, r) /\ \A d \in Callers : d # c => todo'[d] = todo[d]
<1>1. todo'[c] = Prog(k, r) /\ \A d \in Callers : d # c => todo'[d] = todo[d]
  BY DEF InPrograms
<1>2. DOMAIN todo' = Callers
  BY DEF InPrograms
<1>3. todo'[c] = <<>> \/ \E m \in 1..17, q \in Requests : todo'[c] = Prog(m, q)
  <2>1. CASE k = 0
    BY <1>1, <2>1 DEF Prog
  <2>2. CASE k # 0
    BY <1>1, <2>2, k \in 1..17
  <2> QED
    BY <2>1, <2>2
<1> QED
  BY <1>1, <1>2, <1>3 DEF InPrograms

\* A step of one caller keeps the types and the mutex.
LEMMA CallerTyped ==
  ASSUME TypedInv, NEW c \in Callers, NodesTyped', InPrograms',
         DOMAIN call' = Callers, \A d \in Callers : d # c => call'[d] = call[d],
         DOMAIN call'[c] = {"op", "request", "at"}, call'[c].at \in Places,
         call'[c].at # "idle" => call'[c].request \in Requests,
         call'[c].op = "audio" => call'[c].at \in {"admit", "report"},
         \/ Critical(c)' /\ holder' = c /\ (Critical(c) \/ holder = Nobody)
         \/ ~Critical(c)' /\ Critical(c) /\ holder' = Nobody
         \/ ~Critical(c)' /\ ~Critical(c) /\ holder' = holder
  PROVE  TypedInv'
<1>1. CallsTyped'
  BY DEF TypedInv, CallsTyped
<1>2. Mutex
  BY DEF TypedInv
<1>3. \A d \in Callers : d # c => (Critical(d)' <=> Critical(d))
  BY DEF Critical
<1>4. CASE Critical(c)' /\ holder' = c /\ (Critical(c) \/ holder = Nobody)
  <2>1. \A d \in Callers : Critical(d)' => d = c
    BY <1>2, <1>3, <1>4, NobodyCalls DEF Mutex
  <2>2. Mutex'
    BY <1>4, <2>1 DEF Mutex
  <2> QED
    BY <1>1, <2>2 DEF TypedInv
<1>5. CASE ~Critical(c)' /\ Critical(c) /\ holder' = Nobody
  <2>1. \A d \in Callers : ~Critical(d)'
    BY <1>2, <1>3, <1>5 DEF Mutex
  <2>2. Mutex'
    BY <1>5, <2>1 DEF Mutex
  <2> QED
    BY <1>1, <2>2 DEF TypedInv
<1>6. CASE ~Critical(c)' /\ ~Critical(c) /\ holder' = holder
  <2>1. \A d \in Callers : Critical(d)' <=> Critical(d)
    BY <1>3, <1>6
  <2>2. Mutex'
    BY <1>2, <1>6, <2>1 DEF Mutex
  <2> QED
    BY <1>1, <2>2 DEF TypedInv
<1> QED
  BY <1>4, <1>5, <1>6

\* What Go and Return make of a call.
LEMMA GoMoves ==
  ASSUME TypedInv, NEW c \in Callers, ~At(c, "idle"), NEW place, Go(c, place)
  PROVE  /\ DOMAIN call' = Callers /\ \A d \in Callers : d # c => call'[d] = call[d]
         /\ DOMAIN call'[c] = {"op", "request", "at"}
         /\ call'[c].at = place /\ call'[c].op = call[c].op
         /\ call'[c].request = call[c].request /\ call[c].request \in Requests
<1>1. DOMAIN call = Callers /\ DOMAIN call[c] = {"op", "request", "at"} /\ call[c].request \in Requests
  BY DEF TypedInv, CallsTyped, At
<1> QED
  BY <1>1 DEF Go

LEMMA ReturnMoves ==
  ASSUME TypedInv, NEW c \in Callers, Return(c)
  PROVE  /\ DOMAIN call' = Callers /\ \A d \in Callers : d # c => call'[d] = call[d]
         /\ DOMAIN call'[c] = {"op", "request", "at"}
         /\ call'[c] = Idle /\ call'[c].at = "idle" /\ call'[c].op = "none" /\ ~Critical(c)'
         /\ Critical(c) => holder' = Nobody
         /\ ~Critical(c) => holder' = holder
<1>1. DOMAIN call = Callers
  BY DEF TypedInv, CallsTyped
<1>2. /\ DOMAIN call' = Callers /\ \A d \in Callers : d # c => call'[d] = call[d]
      /\ DOMAIN call'[c] = {"op", "request", "at"}
      /\ call'[c] = Idle /\ call'[c].at = "idle" /\ call'[c].op = "none"
  BY <1>1 DEF Return, Idle
<1>3. holder = c <=> Critical(c)
  BY NobodyCalls DEF TypedInv, Mutex
<1> QED
  BY <1>2, <1>3 DEF Return, Critical

\* Return, from any place.
LEMMA ReturnTyped ==
  ASSUME TypedInv, NEW c \in Callers, Return(c), NodesTyped', InPrograms'
  PROVE  TypedInv'
<1>1. "idle" \in Places
  BY DEF Places
<1> QED
  BY <1>1, ReturnMoves, CallerTyped

\* A step to another place that neither takes the mutex nor gives it back.
LEMMA GoTyped ==
  ASSUME TypedInv, NEW c \in Callers, ~At(c, "idle"), NEW place \in Places, Go(c, place),
         holder' = holder, NodesTyped', InPrograms',
         \/ Critical(c) /\ place \in {"wait", "asleep", "woken", "report"}
         \/ call[c].op = "audio" /\ place = "report"
  PROVE  TypedInv'
<1>1. /\ DOMAIN call' = Callers /\ \A d \in Callers : d # c => call'[d] = call[d]
      /\ DOMAIN call'[c] = {"op", "request", "at"}
      /\ call'[c].at = place /\ call'[c].op = call[c].op
      /\ call'[c].request = call[c].request /\ call[c].request \in Requests
  BY GoMoves
<1>2. Critical(c) => holder = c
  BY DEF TypedInv, Mutex
<1>3. Critical(c) <=> Critical(c)'
  BY <1>1 DEF Critical
<1>4. call'[c].op = "audio" => call'[c].at \in {"admit", "report"}
  BY <1>1 DEF Critical
<1> QED
  BY <1>1, <1>2, <1>3, <1>4, CallerTyped

LEMMA BeginTyped ==
  ASSUME TypedInv, NEW c \in Callers, NEW op \in Ops, NEW r \in Requests, Begin(c, op, r)
  PROVE  TypedInv'
<1>1. /\ call[c].at = "idle" /\ UNCHANGED <<holder, node, todo, refused, long, troubles>>
      /\ call' = [call EXCEPT ![c] = [op |-> op, request |-> r,
                                      at |-> IF op = "audio" THEN "admit" ELSE "lock"]]
  BY DEF Begin, At
<1>2. /\ DOMAIN call' = Callers /\ \A d \in Callers : d # c => call'[d] = call[d]
      /\ DOMAIN call'[c] = {"op", "request", "at"}
      /\ call'[c].op = op /\ call'[c].request = r
      /\ call'[c].at = IF op = "audio" THEN "admit" ELSE "lock"
  BY <1>1 DEF TypedInv, CallsTyped
<1>3. NodesTyped' /\ InPrograms'
  BY <1>1 DEF TypedInv, NodesTyped, InPrograms, node
<1>4. ~Critical(c) /\ ~Critical(c)' /\ holder' = holder
  BY <1>1, <1>2 DEF Critical
<1>5. call'[c].at \in Places
  BY <1>2 DEF Places
<1> QED
  BY <1>2, <1>3, <1>4, <1>5, CallerTyped

LEMMA LockTyped ==
  ASSUME TypedInv, NEW c \in Callers, Lock(c) \/ Relock(c)
  PROVE  TypedInv'
<1>1. NodesTyped' /\ InPrograms'
  BY DEF Lock, Relock, TypedInv, NodesTyped, InPrograms, node, others
<1>2. CASE Relock(c)
  BY <1>1, <1>2, ReturnTyped DEF Relock
<1>3. CASE Lock(c)
  <2>1. call[c].at = "lock" /\ holder = Nobody /\ holder' = c /\ Go(c, "admit")
    BY <1>3 DEF Lock, At
  <2>2. /\ DOMAIN call' = Callers /\ \A d \in Callers : d # c => call'[d] = call[d]
        /\ DOMAIN call'[c] = {"op", "request", "at"}
        /\ call'[c].at = "admit" /\ call'[c].op = call[c].op
        /\ call'[c].request = call[c].request /\ call[c].request \in Requests
    BY <2>1, GoMoves DEF At
  <2>3. call[c].op # "audio"
    BY <2>1 DEF TypedInv, CallsTyped
  <2>4. Critical(c)' /\ "admit" \in Places
    BY <2>2, <2>3 DEF Critical, Places
  <2> QED
    BY <1>1, <2>1, <2>2, <2>3, <2>4, CallerTyped
<1> QED
  BY <1>2, <1>3

\* A failed send has its failure to tell.
LEMMA FailsTyped ==
  ASSUME TypedInv, NEW c \in Callers, At(c, "admit"), Fails(c),
         UNCHANGED <<status, error, launch, answered, others>>, exit' \in [Requests -> Exits]
  PROVE  TypedInv'
<1> DEFINE r == call[c].request
<1>1. r \in Requests /\ ~At(c, "idle") /\ (Critical(c) \/ call[c].op = "audio")
  BY DEF At, Critical, TypedInv, CallsTyped
<1>2. link' = [link EXCEPT ![r] = IF @ = "up" THEN "down" ELSE @]
  BY DEF Fails, Req
<1>3. link' \in [Requests -> {"none", "up", "down"}]
  BY <1>1, <1>2 DEF TypedInv, NodesTyped
<1>4. NodesTyped'
  BY <1>3 DEF TypedInv, NodesTyped, others
<1>5. todo' = [todo EXCEPT ![c] = Prog(2, r)]
  BY <1>1, Programs DEF Fails, Req
<1>6. InPrograms'
  <2>1. InPrograms /\ 2 \in 0..17
    BY DEF TypedInv
  <2> QED
    BY <1>1, <1>5, <2>1, TodoMoves
<1>7. Go(c, "report") /\ holder' = holder /\ "report" \in Places
  BY DEF Fails, Places
<1> QED
  BY <1>1, <1>4, <1>6, <1>7, GoTyped

LEMMA StopTyped ==
  ASSUME TypedInv, NEW c \in Callers, Stop(c) \/ Send(c)
  PROVE  TypedInv'
<1>1. At(c, "admit") /\ UNCHANGED <<status, error, launch, answered, others>>
  BY DEF Stop, Send
<1>2. exit' \in [Requests -> Exits]
  BY DEF Stop, Send, TypedInv, NodesTyped, Exits
<1>3. ASSUME UNCHANGED <<link, todo>>
      PROVE  NodesTyped' /\ InPrograms'
  BY <1>1, <1>2, <1>3 DEF TypedInv, NodesTyped, InPrograms, others
<1>4. CASE Return(c) /\ UNCHANGED <<link, todo>>
  BY <1>3, <1>4, ReturnTyped
<1>5. CASE call[c].op = "stop" /\ Go(c, "wait") /\ UNCHANGED <<holder, link, todo>>
  <2>1. Critical(c) /\ ~At(c, "idle") /\ "wait" \in Places
    BY <1>1, <1>5 DEF Critical, At, Places
  <2> QED
    BY <1>3, <1>5, <2>1, GoTyped
<1>6. CASE Fails(c)
  BY <1>1, <1>2, <1>6, FailsTyped
<1> QED
  BY <1>4, <1>5, <1>6 DEF Stop, Send

LEMMA CancelTyped ==
  ASSUME TypedInv, NEW c \in Callers, Cancel(c)
  PROVE  TypedInv'
<1>1. /\ call[c].at = "admit" /\ call[c].op = "cancel"
      /\ UNCHANGED <<status, error, launch, link, answered, todo, others>>
  BY DEF Cancel, At
<1>2. exit' \in [Requests -> Exits]
  BY DEF Cancel, TypedInv, NodesTyped, Exits
<1>3. NodesTyped' /\ InPrograms'
  BY <1>1, <1>2 DEF TypedInv, NodesTyped, InPrograms, others
<1>4. CASE Return(c)
  BY <1>3, <1>4, ReturnTyped
<1>5. CASE Go(c, "relock") /\ holder' = Nobody
  <2>1. /\ DOMAIN call' = Callers /\ \A d \in Callers : d # c => call'[d] = call[d]
        /\ DOMAIN call'[c] = {"op", "request", "at"}
        /\ call'[c].at = "relock" /\ call'[c].op = call[c].op
        /\ call'[c].request = call[c].request /\ call[c].request \in Requests
    BY <1>1, <1>5, GoMoves DEF At
  <2>2. Critical(c) /\ ~Critical(c)' /\ "relock" \in Places /\ call'[c].op # "audio"
    BY <1>1, <2>1 DEF Critical, Places
  <2> QED
    BY <1>3, <1>5, <2>1, <2>2, CallerTyped
<1> QED
  BY <1>4, <1>5 DEF Cancel

LEMMA WaitTyped ==
  ASSUME TypedInv, NEW c \in Callers,
         Sleep(c) \/ TimeOut(c) \/ WakeEarly(c) \/ Finish(c) \/ Reported(c)
  PROVE  TypedInv'
<1>1. UNCHANGED <<status, exit, launch, link, answered, todo, others>>
  BY DEF Sleep, TimeOut, WakeEarly, Finish, Reported, node
<1>2. call[c].at # "idle" => call[c].request \in Requests
  BY DEF TypedInv, CallsTyped
<1>3. error' \in [Requests -> Errors]
  <2>1. CASE TimeOut(c)
    BY <1>2, <2>1 DEF TimeOut, At, Req, TypedInv, NodesTyped, Errors
  <2>2. CASE ~TimeOut(c)
    BY <2>2 DEF Sleep, WakeEarly, Finish, Reported, node, TypedInv, NodesTyped
  <2> QED
    BY <2>1, <2>2
<1>4. NodesTyped' /\ InPrograms'
  BY <1>1, <1>3 DEF TypedInv, NodesTyped, InPrograms, others
<1>5. CASE Return(c)
  BY <1>4, <1>5, ReturnTyped
<1>6. CASE \E place \in {"wait", "asleep", "woken"} :
             Go(c, place) /\ holder' = holder /\ ~Return(c)
  <2>1. PICK place \in {"wait", "asleep", "woken"} : Go(c, place) /\ holder' = holder
    BY <1>6
  <2>2. Critical(c) /\ ~At(c, "idle")
    <3>1. \/ call[c].at \in {"wait", "asleep"}
          \/ call[c].at = "report" /\ call[c].op = "stop"
      BY <1>6 DEF Sleep, TimeOut, WakeEarly, Finish, Reported, At
    <3> QED
      BY <3>1 DEF Critical, At, TypedInv, CallsTyped
  <2>3. place \in Places
    BY DEF Places
  <2> QED
    BY <1>4, <2>1, <2>2, <2>3, GoTyped
<1> QED
  BY <1>5, <1>6 DEF Sleep, TimeOut, WakeEarly, Finish, Reported

LEMMA StartTyped ==
  ASSUME TypedInv, NEW c \in Callers, Start(c)
  PROVE  TypedInv'
<1>1. /\ call[c].at = "admit" /\ call[c].op = "start"
      /\ UNCHANGED <<error, link, todo, long, troubles>>
  BY DEF Start, At, Reset
<1>2. ~At(c, "idle") /\ Critical(c) /\ Req(c) \in Requests /\ "wait" \in Places
  BY <1>1 DEF At, Critical, Req, Places, TypedInv, CallsTyped
<1>3. status' \in [Requests -> Statuses] /\ exit' \in [Requests -> Exits]
  BY <1>2 DEF Start, Reset, TypedInv, NodesTyped, Statuses, Exits
<1>4. /\ launch' \in [Requests -> BOOLEAN] /\ refused' \subseteq Requests
      /\ answered' \in [Requests -> SUBSET {"Started", "Close"}]
  BY <1>2 DEF Start, TypedInv, NodesTyped
<1>5. NodesTyped' /\ InPrograms'
  BY <1>1, <1>3, <1>4 DEF TypedInv, NodesTyped, InPrograms
<1>6. CASE Return(c)
  BY <1>5, <1>6, ReturnTyped
<1>7. CASE Go(c, "wait") /\ holder' = holder
  BY <1>2, <1>5, <1>7, GoTyped
<1> QED
  BY <1>6, <1>7 DEF Start

(***************************************************************************)
(* The steps of who tells, by their programs.                              *)
(***************************************************************************)
Busies(c, k, n, r) ==
  /\ About(c) = r /\ todo[c] = Prog(k, r) /\ todo' = [todo EXCEPT ![c] = Prog(n, r)]
  /\ Head(todo[c]).op = Op(k) /\ Head(todo[c]).event = Of(k)

\* Caller c goes from program k of request r to program n.
TellStep(c, k, n, r) ==
  /\ Busies(c, k, n, r)
  /\ UNCHANGED <<holder, exit, launch, link, others>>
  /\ \/ /\ k \in {2, 5} /\ n \in {0, 3, 5, 6}
        /\ error' = error \/ error' = [error EXCEPT ![r] = "TaskFailed"]
        /\ UNCHANGED <<status, call, answered>>
     \/ /\ k \in {3, 6, 9, 12, 15} /\ n = k + 1
        /\ Signal(c) /\ UNCHANGED <<status, error>>
     \/ /\ k \in {4, 7, 10, 13, 16} /\ n = After(k)
        /\ UNCHANGED <<status, error, call, answered>>
     \/ /\ k \in {8, 11, 14, 17} /\ n = After(k)
        /\ status' = [status EXCEPT ![r] = Of(k)] /\ UNCHANGED <<error, call, answered>>

\* The program a thread is in.
LEMMA WorkIs ==
  ASSUME TypedInv, NEW c \in Callers, Busy(c)
  PROVE  \E k \in 1..17, r \in Requests :
           /\ About(c) = r /\ todo[c] = Prog(k, r)
           /\ Head(todo[c]).op = Op(k) /\ Head(todo[c]).event = Of(k)
           /\ Tail(todo[c]) = Prog(After(k), r)
<1>1. PICK k \in 1..17, r \in Requests : todo[c] = Prog(k, r)
  BY DEF TypedInv, InPrograms, Busy
<1>2. /\ Head(todo[c]).request = r /\ Head(todo[c]).op = Op(k) /\ Head(todo[c]).event = Of(k)
      /\ Tail(todo[c]) = Prog(After(k), r)
  BY <1>1, FirstStep
<1> QED
  BY <1>1, <1>2 DEF About

LEMMA TellMoves ==
  ASSUME TypedInv, NEW c \in Callers, Tell(c)
  PROVE  \E k \in 1..17, n \in 0..17, r \in Requests : TellStep(c, k, n, r)
<1>1. Busy(c)
  BY DEF Tell, HandleEvent, Signal, CalledBack, Store, Now
<1>2. PICK k \in 1..17, r \in Requests :
        /\ About(c) = r /\ todo[c] = Prog(k, r)
        /\ Head(todo[c]).op = Op(k) /\ Head(todo[c]).event = Of(k)
        /\ Tail(todo[c]) = Prog(After(k), r)
  BY <1>1, WorkIs
<1>3. /\ Done(c) => todo' = [todo EXCEPT ![c] = Prog(After(k), r)]
      /\ \A steps : Then(c, steps) => todo' = [todo EXCEPT ![c] = steps \o Prog(After(k), r)]
  BY <1>2 DEF Done, Then
<1>4. ASSUME HandleEvent(c) PROVE \E n \in 0..17 : TellStep(c, k, n, r)
  <2>1. k \in {2, 5} /\ After(k) = (IF k = 2 THEN 5 ELSE 0)
        /\ Of(k) = (IF k = 2 THEN "TaskFailed" ELSE "Close")
    BY <1>2, <1>4 DEF HandleEvent, Now, Op, After, Of
  <2>2. /\ UNCHANGED <<holder, exit, launch, link, others, status, call, answered>>
        /\ error' = error \/ error' = [error EXCEPT ![r] = "TaskFailed"]
    <3>1. UNCHANGED <<holder, exit, launch, link, others, status, call, answered>>
      BY <1>4 DEF HandleEvent
    <3>2. error' = [error EXCEPT ![r] = error[r]] => error' = error
      BY DEF TypedInv, NodesTyped
    <3>3. \/ error' = error \/ error' = [error EXCEPT ![r] = error[r]]
          \/ error' = [error EXCEPT ![r] = "TaskFailed"]
      BY <1>2, <1>4, <2>1 DEF HandleEvent
    <3> QED
      BY <3>1, <3>2, <3>3
  <2>3. PICK n \in {0, 3, 5, 6} : todo' = [todo EXCEPT ![c] = Prog(n, r)]
    <3>1. CASE Done(c)
      BY <1>3, <2>1, <3>1
    <3>2. CASE Then(c, <<>>)
      <4>1. todo' = [todo EXCEPT ![c] = <<>> \o Prog(After(k), r)]
        BY <1>3, <3>2
      <4>2. <<>> \o Prog(After(k), r) = Prog(After(k), r)
        BY <2>1, Programs
      <4> QED
        BY <2>1, <4>1, <4>2
    <3>3. CASE Of(k) = "Close" /\ Then(c, Frame(r, "Close") \o Status(r, "Closed"))
      <4>1. todo' = [todo EXCEPT ![c] = Frame(r, "Close") \o Status(r, "Closed") \o Prog(0, r)]
        BY <1>3, <2>1, <3>3
      <4>2. Frame(r, "Close") \o Status(r, "Closed") \o Prog(0, r) = Prog(6, r)
        BY Programs
      <4> QED
        BY <4>1, <4>2
    <3>4. CASE Of(k) = "TaskFailed" /\ Then(c, Frame(r, "TaskFailed"))
      <4>1. todo' = [todo EXCEPT ![c] = Frame(r, "TaskFailed") \o Prog(5, r)]
        BY <1>3, <2>1, <3>4
      <4>2. Frame(r, "TaskFailed") \o Prog(5, r) = Prog(3, r)
        BY Programs
      <4> QED
        BY <4>1, <4>2
    <3> DEFINE e == Head(todo[c]).event
    <3>5. \/ Done(c)
          \/ Then(c, IF status[r] = "Closed" THEN <<>>
                     ELSE IF e = "Close" THEN Frame(r, e) \o Status(r, "Closed")
                     ELSE Frame(r, e))
      BY <1>2, <1>4 DEF HandleEvent
    <3>6. e = Of(k) /\ (e = "Close" \/ e = "TaskFailed") /\ "Close" # "TaskFailed"
      BY <1>2, <2>1
    <3> HIDE DEF e
    <3> QED
      BY <3>1, <3>2, <3>3, <3>4, <3>5, <3>6
  <2>4. Busies(c, k, n, r)
    BY <1>2, <2>3 DEF Busies
  <2>5. TellStep(c, k, n, r)
    BY <2>1, <2>2, <2>4 DEF TellStep
  <2> QED
    BY <2>5
<1>5. ASSUME Signal(c) PROVE \E n \in 0..17 : TellStep(c, k, n, r)
  <2>1. k \in {3, 6, 9, 12, 15} /\ After(k) = k + 1 /\ k + 1 \in 0..17
    BY <1>2, <1>5 DEF Signal, Now, Op, After
  <2>2. todo' = [todo EXCEPT ![c] = Prog(k + 1, r)]
    BY <1>3, <1>5, <2>1 DEF Signal
  <2>3. UNCHANGED <<holder, exit, launch, link, others, status, error>>
    BY <1>5 DEF Signal
  <2> QED
    BY <1>2, <1>5, <2>1, <2>2, <2>3 DEF TellStep, Busies
<1>6. ASSUME CalledBack(c) PROVE \E n \in 0..17 : TellStep(c, k, n, r)
  <2>1. k \in {4, 7, 10, 13, 16} /\ After(k) \in 0..17
    BY <1>2, <1>6 DEF CalledBack, Now, Op, After
  <2>2. UNCHANGED <<holder, exit, launch, link, others, status, error, call, answered>>
    BY <1>6 DEF CalledBack, node
  <2>3. todo' = [todo EXCEPT ![c] = Prog(After(k), r)]
    BY <1>3, <1>6 DEF CalledBack
  <2> QED
    BY <1>2, <2>1, <2>2, <2>3 DEF TellStep, Busies
<1>7. ASSUME Store(c) PROVE \E n \in 0..17 : TellStep(c, k, n, r)
  <2>1. k \in {8, 11, 14, 17} /\ After(k) \in 0..17
    BY <1>2, <1>7 DEF Store, Now, Op, After
  <2>2. /\ UNCHANGED <<holder, exit, launch, link, others, error, call, answered>>
        /\ status' = [status EXCEPT ![r] = Of(k)]
    BY <1>2, <1>7 DEF Store
  <2>3. todo' = [todo EXCEPT ![c] = Prog(After(k), r)]
    BY <1>3, <1>7 DEF Store
  <2> QED
    BY <1>2, <2>1, <2>2, <2>3 DEF TellStep, Busies
<1> QED
  BY <1>4, <1>5, <1>6, <1>7 DEF Tell

\* The event thread begins a program, or dials.
BeginStep(k, n, r) ==
  /\ todo[EventThread] = Prog(k, r) /\ todo' = [todo EXCEPT ![EventThread] = Prog(n, r)]
  /\ UNCHANGED <<holder, exit, error, answered, call, others>>
  /\ \/ /\ k = 0 /\ n \in {0, 1} /\ launch[r] /\ launch' = [launch EXCEPT ![r] = FALSE]
        /\ status' = [status EXCEPT ![r] = "Invoked"] /\ link' = link
     \/ /\ k = 1 /\ n = 0 /\ launch' = launch
        /\ status' = [status EXCEPT ![r] = "Starting"]
        /\ link' = [link EXCEPT ![r] = "up"]
     \/ /\ k = 1 /\ n = 2 /\ launch' = launch /\ status' = status
        /\ link' = [link EXCEPT ![r] = "none"]
     \/ /\ k = 0 /\ n \in {9, 12, 15} /\ launch' = launch /\ status' = status
        /\ status[r] \in {"Starting", "Started"} /\ (n = 9 => status[r] = "Starting")
        /\ link' = link \/ link' = [link EXCEPT ![r] = "none"]
     \/ /\ k = 0 /\ n = 2 /\ launch' = [launch EXCEPT ![r] = FALSE] /\ status' = status
        /\ \/ status[r] \in {"Starting", "Started"}
           \/ "idle" \in troubles /\ status[r] \in {"Invoking", "Invoked", "Closed"}
        /\ link' = [link EXCEPT ![r] = "none"]

LEMMA BeginMoves ==
  ASSUME TypedInv,
         Dial \/ \E r \in Requests : Launch(r) \/ Answer(r) \/ Break(r)
  PROVE  \E k \in {0, 1}, n \in 0..17, r \in Requests : BeginStep(k, n, r)
<1>1. ASSUME Dial PROVE \E n \in {0, 2}, r \in Requests : BeginStep(1, n, r)
  <2>1. PICK k \in 1..17, r \in Requests :
          /\ About(EventThread) = r /\ todo[EventThread] = Prog(k, r)
          /\ Head(todo[EventThread]).op = Op(k) /\ Head(todo[EventThread]).event = Of(k)
          /\ Tail(todo[EventThread]) = Prog(After(k), r)
    BY <1>1, WorkIs, NobodyCalls DEF Dial, Now
  <2>2. k = 1 /\ After(k) = 0
    BY <1>1, <2>1 DEF Dial, Now, Op, After
  <2>3. /\ Done(EventThread) => todo' = [todo EXCEPT ![EventThread] = Prog(0, r)]
        /\ Then(EventThread, TaskFailed(r)) => todo' = [todo EXCEPT ![EventThread] = Prog(2, r)]
    <3>1. Tail(todo[EventThread]) = Prog(0, r)
      BY <2>1, <2>2
    <3>2. TaskFailed(r) \o Prog(0, r) = Prog(2, r)
      BY Programs
    <3> QED
      BY <3>1, <3>2 DEF Done, Then
  <2>4. \/ /\ status' = [status EXCEPT ![r] = "Starting"]
           /\ link' = [link EXCEPT ![r] = "up"] /\ Done(EventThread)
        \/ /\ link' = [link EXCEPT ![r] = "none"] /\ status' = status
           /\ Then(EventThread, TaskFailed(r))
    BY <1>1, <2>1 DEF Dial
  <2>5. UNCHANGED <<holder, exit, error, launch, answered, call, others>>
    BY <1>1 DEF Dial
  <2> QED
    BY <2>1, <2>2, <2>3, <2>4, <2>5 DEF BeginStep
<1>2. \A steps : Run(steps) => /\ \A r : todo[EventThread] = Prog(0, r)
                               /\ todo' = [todo EXCEPT ![EventThread] = steps]
  BY DEF Run, Busy, Prog
<1>3. ASSUME NEW r \in Requests, Launch(r) PROVE \E n \in {0, 1} : BeginStep(0, n, r)
  <2>1. /\ launch[r] /\ launch' = [launch EXCEPT ![r] = FALSE]
        /\ status' = [status EXCEPT ![r] = "Invoked"]
        /\ Run(IF exit[r] # "Invalid" THEN <<>> ELSE <<Do("dial", r, "none")>>)
        /\ UNCHANGED <<holder, exit, error, link, answered, call, others>>
    BY <1>3 DEF Launch
  <2>2. Run(Prog(0, r)) \/ Run(Prog(1, r))
    BY <2>1 DEF Prog
  <2> QED
    BY <1>2, <2>1, <2>2 DEF BeginStep
<1>4. ASSUME NEW r \in Requests, Answer(r) PROVE \E n \in {9, 12, 15} : BeginStep(0, n, r)
  <2>1. /\ UNCHANGED <<holder, status, exit, error, launch, answered, call, others>>
        /\ link[r] = "up" /\ status[r] \in {"Starting", "Started"}
    BY <1>4 DEF Answer
  <2>2. link' = link \/ link' = [link EXCEPT ![r] = "none"]
    BY <1>4, <2>1 DEF Answer, TypedInv, NodesTyped
  <2>3. \/ status[r] = "Starting" /\ Run(Frame(r, "Started") \o Status(r, "Started"))
        \/ Run(Frame(r, "Completed") \o Status(r, "Completed") \o Event(r, "Close"))
        \/ Run(Frame(r, "TaskFailed") \o Status(r, "Failed") \o Event(r, "Close"))
    BY <1>4 DEF Answer
  <2>4. PICK n \in {9, 12, 15} : Run(Prog(n, r)) /\ (n = 9 => status[r] = "Starting")
    <3>1. CASE status[r] = "Starting" /\ Run(Frame(r, "Started") \o Status(r, "Started"))
      BY <3>1, Programs
    <3>2. CASE Run(Frame(r, "Completed") \o Status(r, "Completed") \o Event(r, "Close"))
      <4>1. Run(Prog(12, r))
        BY <3>2, Programs, Zenon
      <4>2. (12 = 9) => status[r] = "Starting"
        OBVIOUS
      <4> QED
        BY <4>1, <4>2
    <3>3. CASE Run(Frame(r, "TaskFailed") \o Status(r, "Failed") \o Event(r, "Close"))
      <4>1. Run(Prog(15, r))
        BY <3>3, Programs, Zenon
      <4>2. (15 = 9) => status[r] = "Starting"
        OBVIOUS
      <4> QED
        BY <4>1, <4>2
    <3> QED
      BY <2>3, <3>1, <3>2, <3>3
  <2> QED
    BY <1>2, <2>1, <2>2, <2>4 DEF BeginStep
<1>5. ASSUME NEW r \in Requests, Break(r) PROVE BeginStep(0, 2, r)
  <2>1. /\ Run(Prog(2, r)) /\ link' = [link EXCEPT ![r] = "none"]
        /\ launch' = [launch EXCEPT ![r] = FALSE]
        /\ UNCHANGED <<holder, status, exit, error, answered, call, others>>
        /\ \/ status[r] \in {"Starting", "Started"}
           \/ "idle" \in troubles /\ status[r] \in {"Invoking", "Invoked", "Closed"}
    <3>1. TaskFailed(r) = Prog(2, r)
      BY Programs
    <3> QED
      BY <1>5, <3>1 DEF Break
  <2> QED
    BY <1>2, <2>1 DEF BeginStep
<1>6. {0, 2} \subseteq 0..17 /\ {9, 12, 15} \subseteq 0..17 /\ {0, 1} \subseteq 0..17
  OBVIOUS
<1> QED
  BY <1>1, <1>3, <1>4, <1>5, <1>6

\* What Signal makes of the callers: it wakes those that sleep for its request.
LEMMA SignalMoves ==
  ASSUME TypedInv, NEW c \in Callers, NEW k \in 1..17, NEW r \in Requests,
         About(c) = r, Head(todo[c]).event = Of(k), Signal(c)
  PROVE  /\ DOMAIN call' = Callers
         /\ \A d \in Callers :
              /\ call'[d].op = call[d].op /\ call'[d].request = call[d].request
              /\ DOMAIN call'[d] = {"op", "request", "at"}
              /\ \/ call'[d] = call[d]
                 \/ /\ call[d].at = "asleep" /\ call'[d].at = "woken"
                    /\ Of(k) \in {"Started", "Close"} /\ call[d].request = r
         /\ answered' = [answered EXCEPT ![r] =
                           @ \union (IF Of(k) \in {"Started", "Close"} THEN {Of(k)} ELSE {})]
<1> DEFINE e == Of(k)
<1>1. CASE e \in {"Started", "Close"}
  <2>1. /\ call' = [d \in Callers |-> IF At(d, "asleep") /\ Req(d) = r
                                      THEN [call[d] EXCEPT !.at = "woken"] ELSE call[d]]
        /\ answered' = [answered EXCEPT ![r] = @ \union {e}]
    BY <1>1 DEF Signal
  <2> HIDE DEF e
  <2>2. /\ DOMAIN call' = Callers
        /\ \A d \in Callers :
              /\ call'[d].op = call[d].op /\ call'[d].request = call[d].request
              /\ DOMAIN call'[d] = {"op", "request", "at"}
              /\ \/ call'[d] = call[d]
                 \/ /\ call[d].at = "asleep" /\ call'[d].at = "woken" /\ call[d].request = r
    BY <2>1 DEF At, Req, TypedInv, CallsTyped
  <2> QED
    BY <1>1, <2>1, <2>2 DEF e
<1>2. CASE e \notin {"Started", "Close"}
  <2>1. call' = call /\ answered' = answered
    BY <1>2 DEF Signal
  <2>2. answered' = [answered EXCEPT ![r] = @ \union {}]
    BY <2>1 DEF TypedInv, NodesTyped
  <2> QED
    BY <1>2, <2>1, <2>2 DEF TypedInv, CallsTyped
<1> QED
  BY <1>1, <1>2

LEMMA TellTyped ==
  ASSUME TypedInv, NEW c \in Callers, NEW k \in 1..17, NEW n \in 0..17, NEW r \in Requests,
         TellStep(c, k, n, r)
  PROVE  TypedInv'
<1>1. Busies(c, k, n, r) /\ UNCHANGED <<holder, exit, launch, link, others>>
  BY DEF TellStep
<1>2. InPrograms'
  BY <1>1, TodoMoves DEF Busies, TypedInv
<1>3. status' \in [Requests -> Statuses] /\ error' \in [Requests -> Errors]
  <2>1. \/ status' = status
        \/ k \in {8, 11, 14, 17} /\ status' = [status EXCEPT ![r] = Of(k)]
    BY DEF TellStep
  <2>2. k \in {8, 11, 14, 17} => Of(k) \in Statuses
    BY DEF Of, Statuses
  <2>3. error' = error \/ error' = [error EXCEPT ![r] = "TaskFailed"]
    BY DEF TellStep
  <2> QED
    BY <2>1, <2>2, <2>3 DEF TypedInv, NodesTyped, Errors
<1>4. CASE UNCHANGED <<call, answered>>
  <2>1. NodesTyped' /\ CallsTyped'
    BY <1>1, <1>3, <1>4 DEF TypedInv, NodesTyped, CallsTyped, others
  <2>2. Mutex'
    BY <1>1, <1>4 DEF TypedInv, Mutex, Critical
  <2> QED
    BY <1>2, <2>1, <2>2 DEF TypedInv
<1>5. CASE Signal(c)
  <2>1. /\ DOMAIN call' = Callers
        /\ \A d \in Callers :
             /\ call'[d].op = call[d].op /\ call'[d].request = call[d].request
             /\ DOMAIN call'[d] = {"op", "request", "at"}
             /\ \/ call'[d] = call[d]
                \/ call[d].at = "asleep" /\ call'[d].at = "woken"
        /\ answered' = [answered EXCEPT ![r] =
                          @ \union (IF Of(k) \in {"Started", "Close"} THEN {Of(k)} ELSE {})]
    BY <1>1, <1>5, SignalMoves DEF Busies
  <2>2. answered' \in [Requests -> SUBSET {"Started", "Close"}]
    BY <2>1 DEF TypedInv, NodesTyped
  <2>3. NodesTyped'
    BY <1>1, <1>3, <2>2 DEF TypedInv, NodesTyped, others
  <2>4. CallsTyped'
    BY <2>1 DEF TypedInv, CallsTyped, Places
  <2>5. \A d \in Callers : Critical(d)' <=> Critical(d)
    BY <2>1 DEF Critical
  <2>6. Mutex'
    BY <1>1, <2>5 DEF TypedInv, Mutex
  <2> QED
    BY <1>2, <2>3, <2>4, <2>6 DEF TypedInv
<1> QED
  BY <1>4, <1>5 DEF TellStep

LEMMA BeginStepTyped ==
  ASSUME TypedInv, NEW k \in {0, 1}, NEW n \in 0..17, NEW r \in Requests, BeginStep(k, n, r)
  PROVE  TypedInv'
<1>1. InPrograms'
  BY TodoMoves, NobodyCalls DEF BeginStep, TypedInv
<1>2. NodesTyped'
  BY DEF BeginStep, TypedInv, NodesTyped, Statuses, others
<1>3. CallsTyped' /\ Mutex'
  BY DEF BeginStep, TypedInv, CallsTyped, Mutex, Critical
<1> QED
  BY <1>1, <1>2, <1>3 DEF TypedInv

LEMMA TypedBegins == Init => TypedInv
<1> SUFFICES ASSUME Init PROVE TypedInv
  OBVIOUS
<1>1. CallsTyped
  BY DEF Init, CallsTyped, Idle, Places
<1>2. NodesTyped
  BY DEF Init, NodesTyped, Statuses, Exits, Errors
<1>3. InPrograms
  BY DEF Init, InPrograms
<1>4. \A c \in Callers : ~Critical(c)
  BY DEF Init, Critical, Idle
<1>5. Mutex
  BY <1>4 DEF Init, Mutex
<1> QED
  BY <1>1, <1>2, <1>3, <1>5 DEF TypedInv

LEMMA TypedSteps == TypedInv /\ [Next]_vars => TypedInv'
<1> SUFFICES ASSUME TypedInv, [Next]_vars PROVE TypedInv'
  OBVIOUS
<1>1. ASSUME NEW c \in Callers, Inside(c) PROVE TypedInv'
  BY <1>1, LockTyped, StartTyped, StopTyped, CancelTyped, WaitTyped DEF Inside
<1>2. ASSUME NEW c \in Callers, Tell(c) PROVE TypedInv'
  BY <1>2, TellMoves, TellTyped
<1>3. ASSUME NEW c \in Callers, NEW op \in Ops, NEW r \in Requests, Begin(c, op, r)
      PROVE  TypedInv'
  BY <1>3, BeginTyped
<1>4. ASSUME Dial \/ \E r \in Requests : Launch(r) \/ Answer(r) \/ Break(r) PROVE TypedInv'
  BY <1>4, BeginMoves, BeginStepTyped
<1>5. CASE UNCHANGED vars
  <2>1. CallsTyped' /\ NodesTyped' /\ InPrograms' /\ Mutex'
    BY <1>5 DEF vars, node, others, TypedInv, CallsTyped, NodesTyped, InPrograms, Mutex, Critical
  <2> QED
    BY <2>1 DEF TypedInv
<1> QED
  BY <1>1, <1>2, <1>3, <1>4, <1>5 DEF Next

\* Every variable has its type, and the mutex of the client is held by a caller that
\* is past the lock of its call: no path of a call keeps it, also none on which a send
\* fails and is told with the mutex held (nlsEventNetWork.cpp).
THEOREM MutexIsGivenBack == Spec => []CallsTypeOK
<1>1. TypedInv => CallsTypeOK
  BY DEF TypedInv, CallsTyped, NodesTyped, Mutex, Critical, CallsTypeOK, Exits, Errors
<1> QED
  BY TypedBegins, TypedSteps, <1>1, PTL DEF Spec

(***************************************************************************)
(* No send fails: only the event thread tells, and the steps of the others *)
(* leave it alone.                                                         *)
(***************************************************************************)
Silent == \A c \in Callers : c # EventThread => todo[c] = <<>>

\* What the event thread does next is for r.
Mine(r) == todo[EventThread] # <<>> /\ Head(todo[EventThread]).request = r

\* What the steps of a caller that start no session leave as it is.
CallerStep == UNCHANGED <<status, launch, link, answered, todo, refused, long, troubles>>

LEMMA QuietSteps ==
  ASSUME TypedInv, Silent, "send" \notin troubles, Next
  PROVE  /\ Silent'
         /\ \/ CallerStep
            \/ \E c \in Callers : Start(c)
            \/ \E k \in 1..17, n \in 0..17, r \in Requests : TellStep(EventThread, k, n, r)
            \/ \E k \in {0, 1}, n \in 0..17, r \in Requests : BeginStep(k, n, r)
<1>1. ASSUME NEW c \in Callers, Inside(c)
      PROVE  Silent' /\ (CallerStep \/ Start(c))
  <2>1. ~Fails(c)
    BY DEF Fails
  <2>2. todo' = todo /\ (CallerStep \/ Start(c))
    <3>1. CASE Start(c)
      BY <3>1 DEF Start
    <3>2. CASE Stop(c)
      BY <2>1, <3>2 DEF Stop, CallerStep, others
    <3>3. CASE Send(c)
      BY <2>1, <3>3 DEF Send, CallerStep, others
    <3>4. CASE Lock(c) \/ Cancel(c) \/ Relock(c)
      BY <3>4 DEF Lock, Cancel, Relock, CallerStep, node, others
    <3>5. CASE Sleep(c) \/ TimeOut(c) \/ WakeEarly(c) \/ Finish(c) \/ Reported(c)
      BY <3>5 DEF Sleep, TimeOut, WakeEarly, Finish, Reported, CallerStep, node, others
    <3> QED
      BY <1>1, <3>1, <3>2, <3>3, <3>4, <3>5 DEF Inside
  <2> QED
    BY <2>2 DEF Silent
<1>2. ASSUME NEW c \in Callers, Tell(c)
      PROVE  Silent' /\ \E k \in 1..17, n \in 0..17, r \in Requests : TellStep(EventThread, k, n, r)
  <2>1. c = EventThread
    BY <1>2 DEF Silent, Tell, HandleEvent, Signal, CalledBack, Store, Now, Busy
  <2>2. PICK k \in 1..17, n \in 0..17, r \in Requests : TellStep(EventThread, k, n, r)
    BY <1>2, <2>1, TellMoves, NobodyCalls
  <2>3. \A d \in Callers : d # EventThread => todo'[d] = todo[d]
    BY <2>2, TodoMoves, NobodyCalls DEF TellStep, Busies, TypedInv
  <2> QED
    BY <2>2, <2>3 DEF Silent
<1>3. ASSUME NEW c \in Callers, NEW op \in Ops, NEW r \in Requests, Begin(c, op, r)
      PROVE  Silent' /\ CallerStep
  BY <1>3 DEF Begin, CallerStep, node, Silent
<1>4. ASSUME Dial \/ \E r \in Requests : Launch(r) \/ Answer(r) \/ Break(r)
      PROVE  Silent' /\ \E k \in {0, 1}, n \in 0..17, r \in Requests : BeginStep(k, n, r)
  <2>1. PICK k \in {0, 1}, n \in 0..17, r \in Requests : BeginStep(k, n, r)
    BY <1>4, BeginMoves
  <2>2. \A d \in Callers : d # EventThread => todo'[d] = todo[d]
    BY <2>1, TodoMoves, NobodyCalls DEF BeginStep, TypedInv
  <2> QED
    BY <2>1, <2>2 DEF Silent
<1> QED
  BY <1>1, <1>2, <1>3, <1>4 DEF Next

\* The next step of program k of r.
LEMMA NextStep ==
  ASSUME NEW t, NEW k \in 0..17, NEW r, t = Prog(k, r)
  PROVE  /\ t = <<>> <=> k = 0
         /\ k # 0 => Head(t).request = r /\ Head(t).op = Op(k) /\ Head(t).event = Of(k)
<1>1. CASE k = 0
  BY <1>1 DEF Prog
<1>2. CASE k # 0
  BY <1>2, k \in 1..17, FirstStep
<1> QED
  BY <1>1, <1>2

\* What a start does to the requests: it begins a session, or refuses a request, or
\* leaves all as it was.
LEMMA StartMoves ==
  ASSUME TypedInv, NEW c \in Callers, Start(c)
  PROVE  /\ UNCHANGED <<error, link, todo, long, troubles>>
         /\ call[c].op = "start" /\ Critical(c) /\ call[c].request \in Requests
         /\ \/ /\ status[call[c].request] \in {"Created", "Closed"}
               /\ status' = [status EXCEPT ![call[c].request] = "Invoking"]
               /\ launch' = [launch EXCEPT ![call[c].request] = TRUE]
               /\ answered' = [answered EXCEPT ![call[c].request] = {}]
               /\ Go(c, "wait") /\ UNCHANGED <<holder, refused>>
            \/ Return(c) /\ UNCHANGED <<status, launch, answered, refused>>
            \/ /\ status' = [status EXCEPT ![call[c].request] = "Created"]
               /\ refused' = refused \union {call[c].request}
               /\ Return(c) /\ UNCHANGED <<launch, answered>>
<1>1. /\ UNCHANGED <<error, link, todo, long, troubles>>
      /\ call[c].op = "start" /\ call[c].at = "admit"
  BY DEF Start, At, Reset
<1>2. Critical(c) /\ call[c].request \in Requests
  BY <1>1 DEF Critical, TypedInv, CallsTyped
<1> QED
  BY <1>1, <1>2 DEF Start, Startable, Reset, Req

(***************************************************************************)
(* Rounds.                                                                 *)
(***************************************************************************)
\* A session that is to be launched has nothing told of it, and what the event thread
\* does for a request it does for a session.
Works(r) ==
  /\ launch[r] => status[r] = "Invoking"
  /\ Mine(r) => status[r] \notin {"Created", "Closed", "Invoking"}

RoundsInv == \A r \in Requests : r \notin refused => Works(r)

LEMMA RoundsSteps ==
  ASSUME TypedInv, Silent, {"send", "idle"} \intersect troubles = {}, RoundsInv, [Next]_vars
  PROVE  Silent' /\ RoundsInv'
<1>1. CASE UNCHANGED vars
  BY <1>1 DEF vars, node, others, Silent, RoundsInv, Works, Mine
<1>2. CASE Next
  <2>1. Silent'
    BY <1>2, QuietSteps
  <2>2. CASE CallerStep
    <3>1. status' = status /\ launch' = launch /\ todo' = todo /\ refused' = refused
      BY <2>2 DEF CallerStep
    <3>2. \A q \in Requests : Works(q) => Works(q)'
      BY <3>1 DEF Works, Mine
    <3> QED
      BY <2>1, <3>1, <3>2 DEF RoundsInv
  <2>3. ASSUME NEW c \in Callers, Start(c) PROVE RoundsInv'
    <3> DEFINE s == call[c].request
    <3>1. s \in Requests /\ todo' = todo
      BY <2>3, StartMoves
    <3>2. CASE /\ status[s] \in {"Created", "Closed"}
               /\ status' = [status EXCEPT ![s] = "Invoking"]
               /\ launch' = [launch EXCEPT ![s] = TRUE] /\ refused' = refused
      <4> HIDE DEF s
      <4>1. s \notin refused => ~Mine(s)
        BY <3>1, <3>2 DEF RoundsInv, Works
      <4>2. status'[s] = "Invoking" /\ \A q \in Requests : q # s => status'[q] = status[q] /\ launch'[q] = launch[q]
        BY <3>1, <3>2 DEF TypedInv, NodesTyped
      <4> QED
        BY <3>1, <3>2, <4>1, <4>2 DEF RoundsInv, Works, Mine
    <3>3. CASE UNCHANGED <<status, launch, refused>>
      BY <3>1, <3>3 DEF RoundsInv, Works, Mine
    <3>4. CASE /\ status' = [status EXCEPT ![s] = "Created"] /\ launch' = launch
               /\ refused' = refused \union {s}
      <4> HIDE DEF s
      <4>1. \A q \in Requests : q # s => status'[q] = status[q]
        BY <3>1, <3>4 DEF TypedInv, NodesTyped
      <4> QED
        BY <3>1, <3>4, <4>1 DEF RoundsInv, Works, Mine
    <3> HIDE DEF s
    <3> QED
      BY <2>3, <3>2, <3>3, <3>4, StartMoves DEF s
  <2>4. ASSUME NEW k \in 1..17, NEW n \in 0..17, NEW r \in Requests,
               TellStep(EventThread, k, n, r)
        PROVE  RoundsInv'
    <3>1. /\ todo[EventThread] = Prog(k, r) /\ launch' = launch /\ refused' = refused
          /\ todo'[EventThread] = Prog(n, r)
      BY <2>4, NobodyCalls DEF TellStep, Busies, others, TypedInv, InPrograms
    <3>2. Mine(r) /\ \A q \in Requests : Mine(q)' => q = r /\ n # 0
      BY <3>1, NextStep DEF Mine
    <3>3. \/ status' = status
          \/ /\ status' = [status EXCEPT ![r] = Of(k)] /\ k \in {8, 11, 14, 17} /\ n = After(k)
      BY <2>4 DEF TellStep
    <3>4. k \in {8, 11, 14, 17} /\ n = After(k) =>
            Of(k) \in {"Started", "Completed", "Failed"} \/ n = 0
      BY DEF Of, After
    <3>5. Of(k) \notin {"Created", "Invoking"} \/ status' = status
      BY <3>3 DEF Of
    <3>6. /\ \A q \in Requests : q # r => status'[q] = status[q]
          /\ status'[r] = status[r] \/ status'[r] = Of(k)
      BY <3>3 DEF TypedInv, NodesTyped
    <3>7. r \notin refused => Works(r)'
      BY <3>1, <3>2, <3>3, <3>4, <3>6 DEF RoundsInv, Works, TypedInv, NodesTyped
    <3>8. \A q \in Requests : q # r /\ q \notin refused => Works(q)'
      BY <3>1, <3>2, <3>6 DEF RoundsInv, Works
    <3> QED
      BY <3>1, <3>7, <3>8 DEF RoundsInv
  <2>5. ASSUME NEW k \in {0, 1}, NEW n \in 0..17, NEW r \in Requests, BeginStep(k, n, r)
        PROVE  RoundsInv'
    <3>1. /\ todo[EventThread] = Prog(k, r) /\ todo'[EventThread] = Prog(n, r)
          /\ refused' = refused
      BY <2>5, NobodyCalls DEF BeginStep, others, TypedInv, InPrograms
    <3>2. (k = 1 => Mine(r)) /\ \A q \in Requests : Mine(q)' => q = r
      BY <3>1, NextStep DEF Mine
    <3>3. /\ \A q \in Requests : q # r => status'[q] = status[q] /\ launch'[q] = launch[q]
          /\ launch'[r] => launch[r]
      BY <2>5 DEF BeginStep, TypedInv, NodesTyped
    <3>4. \/ k = 0 /\ launch[r] /\ ~launch'[r] /\ status'[r] = "Invoked"
          \/ k = 1 /\ launch' = launch /\ status'[r] \in {status[r], "Starting"}
          \/ k = 0 /\ status[r] \in {"Starting", "Started"} /\ status' = status
      BY <2>5 DEF BeginStep, TypedInv, NodesTyped
    <3>5. r \notin refused => Works(r)'
      BY <3>2, <3>3, <3>4 DEF RoundsInv, Works
    <3>6. \A q \in Requests : q # r /\ q \notin refused => Works(q)'
      BY <3>2, <3>3 DEF RoundsInv, Works
    <3> QED
      BY <3>1, <3>5, <3>6 DEF RoundsInv
  <2> QED
    BY <1>2, <2>1, <2>2, <2>3, <2>4, <2>5, QuietSteps
<1> QED
  BY <1>1, <1>2

\* What is let in does not change.
LEMMA TroublesStay == [Next]_vars => troubles' = troubles
<1> SUFFICES ASSUME Next PROVE troubles' = troubles
  BY DEF vars, others
<1>1. ASSUME NEW c \in Callers, Inside(c) PROVE troubles' = troubles
  BY <1>1 DEF Inside, Lock, Start, Stop, Cancel, Relock, Send, Sleep, TimeOut, WakeEarly,
              Finish, Reported, others
<1>2. ASSUME NEW c \in Callers, Tell(c) PROVE troubles' = troubles
  BY <1>2 DEF Tell, HandleEvent, Signal, CalledBack, Store, others
<1>3. ASSUME NEW c \in Callers, NEW op \in Ops, NEW r \in Requests, Begin(c, op, r)
      PROVE  troubles' = troubles
  BY <1>3 DEF Begin
<1>4. ASSUME Dial PROVE troubles' = troubles
  BY <1>4 DEF Dial, others
<1>5. ASSUME NEW r \in Requests, Launch(r) \/ Answer(r) \/ Break(r) PROVE troubles' = troubles
  BY <1>5 DEF Launch, Answer, Break, others
<1> QED
  BY <1>1, <1>2, <1>3, <1>4, <1>5 DEF Next

\* A request that is started anew has nothing of the session before left to be told,
\* provided that no send fails in a user's call and no connection does between two
\* sessions: the launch event of start finds the event thread elsewhere.
THEOREM RoundsAreApart == Spec => RoundsDoNotOverlap
<1> DEFINE Calm == {"send", "idle"} \intersect troubles = {}
           Apart == Calm =>
                      \A r \in Requests :
                        r \notin refused' /\ launch'[r] /\ ~launch[r] =>
                          \A c \in Callers : \A i \in DOMAIN todo[c] : todo[c][i].request # r
           Inv == TypedInv /\ (Calm => Silent /\ RoundsInv)
<1>1. Init => Inv
  <2>1. Init => \A r \in Requests : ~launch[r] /\ ~Mine(r)
    BY NobodyCalls DEF Init, Mine
  <2> QED
    BY <2>1, TypedBegins DEF Init, Silent, RoundsInv, Works
<1>2. Inv /\ [Next]_vars => Inv'
  BY TypedSteps, RoundsSteps, TroublesStay
<1>3. Inv /\ [Next]_vars => [Apart]_vars
  <2> SUFFICES ASSUME Inv, Next, Calm, NEW r \in Requests,
                      r \notin refused', launch'[r], ~launch[r],
                      NEW c \in Callers, NEW i \in DOMAIN todo[c]
               PROVE  todo[c][i].request # r
    OBVIOUS
  <2>1. PICK d \in Callers : Start(d)
    <3>1. launch' # launch
      OBVIOUS
    <3>2. ~CallerStep
      BY <3>1 DEF CallerStep
    <3>3. \A k \in 1..17, n \in 0..17, q \in Requests : ~TellStep(EventThread, k, n, q)
      BY <3>1 DEF TellStep
    <3>4. \A k \in {0, 1}, n \in 0..17, q \in Requests : ~BeginStep(k, n, q)
      BY <3>1 DEF BeginStep, TypedInv, NodesTyped
    <3> QED
      BY <3>2, <3>3, <3>4, QuietSteps
  <2>2. status[r] \in {"Created", "Closed"} /\ r \notin refused
    BY <2>1, StartMoves DEF TypedInv, NodesTyped
  <2>3. ~Mine(r)
    BY <2>2 DEF RoundsInv, Works
  <2>4. todo[c] # <<>> /\ c = EventThread
    BY DEF Silent
  <2>5. PICK k \in 1..17, q \in Requests : todo[c] = Prog(k, q)
    BY <2>4 DEF TypedInv, InPrograms
  <2>6. Head(todo[c]).request = q /\ todo[c][i].request = q
    BY <2>5, FirstStep
  <2> QED
    BY <2>3, <2>4, <2>6 DEF Mine
<1> QED
  BY <1>1, <1>2, <1>3, PTL DEF Spec, RoundsDoNotOverlap

(***************************************************************************)
(* Answers.                                                                *)
(***************************************************************************)
Waits(c, op, r) ==
  call[c].op = op /\ call[c].request = r /\ call[c].at \in {"wait", "asleep", "woken"}

\* A session is launched once, dials once, and is told once that it started.
ToldOnce(r) ==
  /\ launch[r] \/ Mine(r) => status[r] # "Created"
  /\ status[r] = "Starting" => ~launch[r]
  /\ Mine(r) /\ Head(todo[EventThread]).op = "dial" => status[r] = "Invoked" /\ ~launch[r]
  /\ Mine(r) /\ Head(todo[EventThread]).event = "Started" => status[r] = "Starting"

\* What was told to have started does not start again.
StartsOnce(r) ==
  "Started" \in answered[r] =>
    /\ ~launch[r]
    /\ Mine(r) => Head(todo[EventThread]).op # "dial"
    /\ Mine(r) /\ Head(todo[EventThread]).event = "Started" => Head(todo[EventThread]).op # "signal"
    /\ status[r] = "Starting" => Mine(r) /\ Head(todo[EventThread]).event = "Started"

\* A start that is over was answered, or its error stays.
Answered(r) ==
  /\ error[r] = "none" /\ status[r] # "Created"
  /\ \A c \in Callers : ~Waits(c, "start", r)
  => answered[r] # {}

Intact(r) == ToldOnce(r) /\ StartsOnce(r) /\ Answered(r)

AnswersInv ==
  /\ \A r \in Requests : r \notin refused => Intact(r)
  /\ StartIsAnswered /\ StopIsAnswered

\* A step of caller c that leaves the sessions of the requests alone.
CallerMoves(c) ==
  /\ UNCHANGED <<status, launch, answered, todo, refused>>
  /\ \A q \in Requests : error'[q] = "none" => error[q] = "none"
  /\ \A d \in Callers : d # c => call'[d] = call[d]
  /\ call'[c].at = "woken" => error'[call'[c].request] # "none"
  /\ \A q \in Requests : Waits(c, "start", q) =>
       \/ Waits(c, "start", q)'
       \/ Succeeds(c)
       \/ error'[q] # "none"

LEMMA CallerKeeps ==
  ASSUME TypedInv, AnswersInv, NEW c \in Callers, CallerMoves(c)
  PROVE  AnswersInv'
<1>1. \A d \in Callers : Succeeds(d)' => d # c /\ Succeeds(d) /\ Req(d) \in Requests
  BY DEF CallerMoves, Succeeds, At, Req, TypedInv, CallsTyped
<1>2. StartIsAnswered' /\ StopIsAnswered'
  BY <1>1 DEF CallerMoves, AnswersInv, StartIsAnswered, StopIsAnswered, Fresh, Req
<1>3. ASSUME NEW q \in Requests, q \notin refused
      PROVE  Intact(q)'
  <2>1. ToldOnce(q) /\ StartsOnce(q) /\ Answered(q)
    BY <1>3 DEF AnswersInv, Intact
  <2>2. status' = status /\ launch' = launch /\ answered' = answered /\ todo' = todo
    BY DEF CallerMoves
  <2>3. ToldOnce(q)' /\ StartsOnce(q)'
    BY <2>1, <2>2 DEF ToldOnce, StartsOnce, Mine
  <2>4. ASSUME error'[q] = "none", \A d \in Callers : ~Waits(d, "start", q)',
               \E d \in Callers : Waits(d, "start", q)
        PROVE  answered[q] # {}
    <3>1. Waits(c, "start", q)
      BY <2>4 DEF CallerMoves, Waits
    <3>2. Succeeds(c)
      BY <2>4, <3>1 DEF CallerMoves
    <3> QED
      BY <1>3, <3>1, <3>2 DEF AnswersInv, StartIsAnswered, Waits, Fresh, Req
  <2>5. Answered(q)'
    BY <2>1, <2>2, <2>4 DEF CallerMoves, Answered
  <2> QED
    BY <2>3, <2>5 DEF Intact
<1> QED
  BY <1>2, <1>3 DEF CallerMoves, AnswersInv

LEMMA InsideKeeps ==
  ASSUME TypedInv, AnswersInv, {"send", "wakeup"} \intersect troubles = {},
         NEW c \in Callers, Inside(c), ~Start(c)
  PROVE  AnswersInv'
<1>1. ~Fails(c) /\ ~WakeEarly(c)
  BY DEF Fails, WakeEarly
<1>2. call[c].at # "idle" => call[c].request \in Requests
  BY DEF TypedInv, CallsTyped
<1>3. CASE Lock(c)
  <2>1. call[c].at = "lock" /\ Go(c, "admit")
    BY <1>3 DEF Lock, At
  <2>2. call'[c].at = "admit" /\ \A d \in Callers : d # c => call'[d] = call[d]
    BY <2>1, GoMoves DEF At
  <2>3. CallerMoves(c)
    BY <1>3, <2>1, <2>2 DEF Lock, CallerMoves, Waits, node, others
  <2> QED
    BY <2>3, CallerKeeps
<1>4. ASSUME Return(c), UNCHANGED <<status, error, launch, answered, todo, others>>,
             call[c].at = "woken" \/ call[c].at \in {"relock", "report"}
             \/ (call[c].at = "admit" /\ call[c].op # "start")
      PROVE  AnswersInv'
  <2>1. call'[c].at = "idle" /\ \A d \in Callers : d # c => call'[d] = call[d]
    BY <1>4, ReturnMoves
  <2>2. \A q \in Requests : Waits(c, "start", q) => Succeeds(c) \/ error[q] # "none"
    BY <1>4 DEF Waits, Succeeds, At, Req
  <2>3. CallerMoves(c)
    BY <1>4, <2>1, <2>2 DEF CallerMoves, others
  <2> QED
    BY <2>3, CallerKeeps
<1>5. ASSUME NEW place \in {"wait", "relock"}, Go(c, place),
             UNCHANGED <<status, error, launch, answered, todo, others>>,
             call[c].at \in {"admit", "report"}
      PROVE  AnswersInv'
  <2>1. call'[c].at = place /\ \A d \in Callers : d # c => call'[d] = call[d]
    BY <1>5, GoMoves DEF At
  <2>2. CallerMoves(c)
    BY <1>5, <2>1 DEF CallerMoves, Waits, others
  <2> QED
    BY <2>2, CallerKeeps
<1>6. CASE Sleep(c)
  <2>1. call[c].at = "wait" /\ Go(c, "asleep")
    BY <1>6 DEF Sleep, At
  <2>2. /\ call'[c].at = "asleep" /\ \A d \in Callers : d # c => call'[d] = call[d]
        /\ call'[c].op = call[c].op /\ call'[c].request = call[c].request
    BY <2>1, GoMoves DEF At
  <2>3. CallerMoves(c)
    BY <1>6, <2>1, <2>2 DEF Sleep, CallerMoves, Waits, node, others
  <2> QED
    BY <2>3, CallerKeeps
<1>7. CASE TimeOut(c)
  <2>1. call[c].at = "asleep" /\ Go(c, "woken")
    BY <1>7 DEF TimeOut, At
  <2>2. /\ call'[c].at = "woken" /\ \A d \in Callers : d # c => call'[d] = call[d]
        /\ call'[c].op = call[c].op /\ call'[c].request = call[c].request
        /\ call[c].request \in Requests
    BY <2>1, GoMoves DEF At
  <2>3. /\ error'[call[c].request] = "InvokeTimeout"
        /\ \A q \in Requests : error'[q] = "none" => error[q] = "none"
    BY <1>7, <2>2 DEF TimeOut, Req, TypedInv, NodesTyped
  <2>4. CallerMoves(c)
    BY <1>7, <2>1, <2>2, <2>3 DEF TimeOut, CallerMoves, Waits, others
  <2> QED
    BY <2>4, CallerKeeps
<1>8. CASE Finish(c) \/ Relock(c)
  BY <1>4, <1>8 DEF Finish, Relock, At, node
<1>9. CASE Reported(c)
  BY <1>4, <1>5, <1>9 DEF Reported, At, node
<1>10. CASE Stop(c)
  BY <1>1, <1>4, <1>5, <1>10 DEF Stop, At
<1>11. CASE Cancel(c)
  BY <1>4, <1>5, <1>11 DEF Cancel, At
<1>12. CASE Send(c)
  BY <1>1, <1>4, <1>12 DEF Send, At
<1> QED
  BY <1>1, <1>3, <1>6, <1>7, <1>8, <1>9, <1>10, <1>11, <1>12 DEF Inside

LEMMA BeginKeeps ==
  ASSUME TypedInv, AnswersInv, NEW c \in Callers, NEW op \in Ops, NEW r \in Requests,
         Begin(c, op, r)
  PROVE  AnswersInv'
<1>1. /\ call[c].at = "idle" /\ UNCHANGED <<node, todo, refused>>
      /\ call' = [call EXCEPT ![c] = [op |-> op, request |-> r,
                                      at |-> IF op = "audio" THEN "admit" ELSE "lock"]]
  BY DEF Begin, At
<1>2. /\ \A d \in Callers : d # c => call'[d] = call[d]
      /\ call'[c].at \in {"admit", "lock"}
  BY <1>1 DEF TypedInv, CallsTyped
<1>3. CallerMoves(c)
  BY <1>1, <1>2 DEF CallerMoves, Waits, node
<1> QED
  BY <1>3, CallerKeeps

\* start is where a session begins, or a request is refused.
LEMMA StartKeeps ==
  ASSUME TypedInv, AnswersInv, NEW c \in Callers, Start(c)
  PROVE  AnswersInv'
<1>0. PICK s \in Requests : s = call[c].request
  BY StartMoves
<1>1. /\ UNCHANGED <<error, todo>>
      /\ call[c].op = "start" /\ Critical(c) /\ call[c].at = "admit"
  BY StartMoves DEF Start, At
<1>2. \A d \in Callers : d # c => ~Critical(d)
  BY <1>1 DEF TypedInv, Mutex
<1>3. \A d \in Callers : call[d].op = "start" => call[d].at \notin {"wait", "asleep", "woken"}
  BY <1>1, <1>2 DEF Critical
<1>4. \A d \in Callers, q \in Requests : ~Waits(d, "start", q)
  BY <1>3 DEF Waits
<1>5. CASE /\ status[s] \in {"Created", "Closed"}
           /\ status' = [status EXCEPT ![s] = "Invoking"]
           /\ launch' = [launch EXCEPT ![s] = TRUE]
           /\ answered' = [answered EXCEPT ![s] = {}]
           /\ Go(c, "wait") /\ UNCHANGED <<holder, refused>>
  <2>1. /\ \A d \in Callers : d # c => call'[d] = call[d]
        /\ call'[c].at = "wait" /\ call'[c].op = "start" /\ call'[c].request = s
    BY <1>0, <1>1, <1>5, GoMoves DEF At
  <2>2. \A d \in Callers : ~Succeeds(d)'
    <3>1. \A d \in Callers : call[d].at = "woken" => Critical(d)
      BY DEF Critical, TypedInv, CallsTyped
    <3> QED
      BY <1>2, <2>1, <3>1 DEF Succeeds, At
  <2>3. StartIsAnswered' /\ StopIsAnswered'
    BY <2>2 DEF StartIsAnswered, StopIsAnswered
  <2>4. Waits(c, "start", s)'
    BY <2>1 DEF Waits
  <2>5. /\ status'[s] = "Invoking" /\ launch'[s] = TRUE /\ answered'[s] = {}
        /\ \A q \in Requests : q # s => /\ status'[q] = status[q] /\ launch'[q] = launch[q]
                                        /\ answered'[q] = answered[q]
    BY <1>1, <1>5 DEF TypedInv, NodesTyped
  <2>6. ASSUME NEW q \in Requests, q \notin refused PROVE Intact(q)'
    <3>1. ToldOnce(q) /\ StartsOnce(q) /\ Answered(q)
      BY <2>6 DEF AnswersInv, Intact
    <3>2. CASE q # s
      <4>1. /\ status'[q] = status[q] /\ launch'[q] = launch[q] /\ answered'[q] = answered[q]
            /\ error' = error /\ todo' = todo
        BY <1>1, <2>5, <3>2
      <4>2. ToldOnce(q)' /\ StartsOnce(q)'
        BY <3>1, <4>1 DEF ToldOnce, StartsOnce, Mine
      <4>3. Answered(q)'
        BY <1>4, <3>1, <4>1 DEF Answered
      <4> QED
        BY <4>2, <4>3 DEF Intact
    <3>3. CASE q = s
      <4>1. ToldOnce(s)'
        BY <1>1, <1>5, <2>5, <3>1, <3>3 DEF ToldOnce, Mine
      <4>2. StartsOnce(s)' /\ Answered(s)'
        BY <2>4, <2>5 DEF StartsOnce, Answered
      <4> QED
        BY <3>3, <4>1, <4>2 DEF Intact
    <3> QED
      BY <3>2, <3>3
  <2> QED
    BY <1>5, <2>3, <2>6 DEF AnswersInv
<1>6. CASE Return(c) /\ UNCHANGED <<status, launch, answered, refused>>
  <2>1. call'[c].at = "idle" /\ \A d \in Callers : d # c => call'[d] = call[d]
    BY <1>6, ReturnMoves
  <2>2. CallerMoves(c)
    BY <1>1, <1>4, <1>6, <2>1 DEF CallerMoves
  <2> QED
    BY <2>2, CallerKeeps
<1>7. CASE /\ status' = [status EXCEPT ![s] = "Created"]
           /\ refused' = refused \union {s}
           /\ Return(c) /\ UNCHANGED <<launch, answered>>
  <2>1. call'[c].at = "idle" /\ \A d \in Callers : d # c => call'[d] = call[d]
    BY <1>7, ReturnMoves
  <2>2. \A d \in Callers : ~Succeeds(d)'
    <3>1. \A d \in Callers : call[d].at = "woken" => Critical(d)
      BY DEF Critical, TypedInv, CallsTyped
    <3> QED
      BY <1>2, <2>1, <3>1 DEF Succeeds, At
  <2>3. StartIsAnswered' /\ StopIsAnswered'
    BY <2>2 DEF StartIsAnswered, StopIsAnswered
  <2>4. ASSUME NEW q \in Requests, q \notin refused' PROVE Intact(q)'
    <3>1. q \notin refused /\ q # s
      BY <1>7, <2>4
    <3>2. ToldOnce(q) /\ StartsOnce(q) /\ Answered(q)
      BY <3>1 DEF AnswersInv, Intact
    <3>3. /\ status'[q] = status[q] /\ launch' = launch /\ answered' = answered
          /\ error' = error /\ todo' = todo
      BY <1>1, <1>7, <3>1 DEF TypedInv, NodesTyped
    <3>4. ToldOnce(q)' /\ StartsOnce(q)'
      BY <3>2, <3>3 DEF ToldOnce, StartsOnce, Mine
    <3>5. Answered(q)'
      BY <1>4, <3>2, <3>3 DEF Answered
    <3> QED
      BY <3>4, <3>5 DEF Intact
  <2> QED
    BY <2>3, <2>4 DEF AnswersInv
<1> QED
  BY <1>0, <1>5, <1>6, <1>7, StartMoves

\* The event thread. Started wakes a start, and nobody else: a stop that sleeps without
\* an error had its session told before.
LEMMA TellKeeps ==
  ASSUME TypedInv, AnswersInv, NEW k \in 1..17, NEW n \in 0..17, NEW r \in Requests,
         TellStep(EventThread, k, n, r)
  PROVE  AnswersInv'
<1>1. /\ About(EventThread) = r /\ todo[EventThread] = Prog(k, r)
      /\ todo'[EventThread] = Prog(n, r)
      /\ Head(todo[EventThread]).op = Op(k) /\ Head(todo[EventThread]).event = Of(k)
      /\ UNCHANGED <<launch, refused>>
  BY NobodyCalls DEF TellStep, Busies, others, TypedInv, InPrograms
<1>2. /\ Mine(r) /\ \A q \in Requests : Mine(q) => q = r
      /\ Mine(r)' <=> n # 0
      /\ \A q \in Requests : Mine(q)' => q = r
      /\ n # 0 => Head(todo'[EventThread]).op = Op(n) /\ Head(todo'[EventThread]).event = Of(n)
  <2>1. Mine(r) /\ \A q \in Requests : Mine(q) => q = r
    BY <1>1, NextStep DEF Mine
  <2>2. ASSUME NEW t, t = Prog(n, r)
        PROVE  /\ t = <<>> <=> n = 0
               /\ n # 0 => Head(t).request = r /\ Head(t).op = Op(n) /\ Head(t).event = Of(n)
    BY <2>2, NextStep
  <2>3. /\ todo'[EventThread] = <<>> <=> n = 0
        /\ n # 0 => /\ Head(todo'[EventThread]).request = r
                    /\ Head(todo'[EventThread]).op = Op(n)
                    /\ Head(todo'[EventThread]).event = Of(n)
    <3>1. todo'[EventThread] = Prog(n, r)
      BY <1>1
    <3> QED
      BY <3>1, <2>2
  <2> QED
    BY <2>1, <2>3 DEF Mine
<1>3. /\ n # 0 => Op(n) # "dial"
      /\ n # 0 /\ Of(n) = "Started" => Of(k) = "Started" /\ Op(n) # "signal" /\ status' = status
  BY DEF TellStep, Op, Of, After
<1>4. /\ \A q \in Requests : q # r => status'[q] = status[q]
      /\ \/ status' = status /\ (Of(k) = "Started" => n # 0 /\ Of(n) = "Started")
         \/ status'[r] = Of(k) /\ Of(k) \in {"Started", "Completed", "Failed", "Closed"}
  <2>1. CASE status' = [status EXCEPT ![r] = Of(k)] /\ k \in {8, 11, 14, 17}
    <3>1. Of(k) \in {"Started", "Completed", "Failed", "Closed"}
      BY <2>1 DEF Of
    <3> QED
      BY <2>1, <3>1 DEF TypedInv, NodesTyped
  <2>2. CASE status' = status /\ k \notin {8, 11, 14, 17}
    <3>1. Of(k) = "Started" => n # 0 /\ Of(n) = "Started"
      BY <2>2 DEF TellStep, Of, After
    <3> QED
      BY <2>2, <3>1
  <2> QED
    BY <2>1, <2>2 DEF TellStep
<1>5. \A q \in Requests : error'[q] = "none" => error[q] = "none"
  BY DEF TellStep, TypedInv, NodesTyped
<1>6. /\ \A d \in Callers :
           /\ call'[d].op = call[d].op /\ call'[d].request = call[d].request
           /\ \/ call'[d] = call[d]
              \/ /\ call[d].at = "asleep" /\ call'[d].at = "woken"
                 /\ Of(k) \in {"Started", "Close"} /\ call[d].request = r
      /\ \A q \in Requests : answered[q] \subseteq answered'[q]
      /\ \A q \in Requests : q # r => answered'[q] = answered[q]
      /\ call' # call => Of(k) \in answered'[r]
      /\ "Started" \in answered'[r] /\ "Started" \notin answered[r] =>
           Op(k) = "signal" /\ Of(k) = "Started"
      /\ call' # call => error' = error /\ status' = status /\ Op(k) = "signal"
  <2>1. CASE UNCHANGED <<call, answered>>
    BY <2>1
  <2>2. CASE Signal(EventThread) /\ k \in {3, 6, 9, 12, 15} /\ UNCHANGED <<status, error>>
    <3>1. /\ \A d \in Callers :
               /\ call'[d].op = call[d].op /\ call'[d].request = call[d].request
               /\ \/ call'[d] = call[d]
                  \/ /\ call[d].at = "asleep" /\ call'[d].at = "woken"
                     /\ Of(k) \in {"Started", "Close"} /\ call[d].request = r
          /\ answered' = [answered EXCEPT ![r] =
                            @ \union (IF Of(k) \in {"Started", "Close"} THEN {Of(k)} ELSE {})]
      BY <1>1, <2>2, SignalMoves, NobodyCalls
    <3>2. Op(k) = "signal"
      BY <2>2 DEF Op
    <3>3. /\ \A q \in Requests : answered[q] \subseteq answered'[q]
          /\ \A q \in Requests : q # r => answered'[q] = answered[q]
          /\ Of(k) \in {"Started", "Close"} => Of(k) \in answered'[r]
          /\ "Started" \in answered'[r] /\ "Started" \notin answered[r] => Of(k) = "Started"
      BY <3>1 DEF TypedInv, NodesTyped
    <3>4. call' # call => Of(k) \in {"Started", "Close"}
      BY <1>1, <2>2 DEF Signal
    <3> QED
      BY <2>2, <3>1, <3>2, <3>3, <3>4
  <2> QED
    BY <2>1, <2>2 DEF TellStep
<1>7. \A d \in Callers, q \in Requests : Waits(d, "start", q)' <=> Waits(d, "start", q)
  BY <1>6 DEF Waits
<1>8. ASSUME NEW q \in Requests, q \notin refused
      PROVE  Intact(q)'
  <2>1. ToldOnce(q) /\ StartsOnce(q) /\ Answered(q)
    BY <1>8 DEF AnswersInv, Intact
  <2>2. status'[q] # "Created" => status[q] # "Created"
    BY <1>2, <1>4, <2>1 DEF ToldOnce
  <2>3. Answered(q)'
    BY <1>5, <1>6, <1>7, <2>1, <2>2 DEF Answered
  <2>4. CASE q # r
    <3>1. ~Mine(q) /\ ~Mine(q)' /\ status'[q] = status[q] /\ launch'[q] = launch[q]
      BY <1>1, <1>2, <1>4, <2>4
    <3>2. answered'[q] = answered[q]
      BY <1>6, <2>4
    <3>3. ToldOnce(q)' /\ StartsOnce(q)'
      BY <2>1, <3>1, <3>2 DEF ToldOnce, StartsOnce
    <3> QED
      BY <2>3, <3>3 DEF Intact
  <2>5. CASE q = r
    <3>1. /\ status[r] # "Created" /\ (Of(k) = "Started" => status[r] = "Starting")
          /\ launch'[r] = launch[r] /\ (status[r] = "Starting" => ~launch[r])
      BY <1>1, <1>2, <2>1, <2>5 DEF ToldOnce
    <3>2. status'[r] = status[r] \/ status'[r] \notin {"Created", "Starting"}
      BY <1>4
    <3>3. ToldOnce(r)'
      BY <1>2, <1>3, <3>1, <3>2 DEF ToldOnce
    <3>4. ASSUME "Started" \in answered'[r]
          PROVE  /\ ~launch'[r]
                 /\ status'[r] = "Starting" => Mine(r)' /\ Head(todo'[EventThread]).event = "Started"
      <4>1. CASE "Started" \in answered[r]
        <5>1. /\ ~launch[r]
              /\ status[r] = "Starting" => Of(k) = "Started"
          BY <1>1, <2>1, <2>5, <4>1 DEF StartsOnce
        <5>2. status'[r] = "Starting" => status' = status /\ status[r] = "Starting"
          BY <1>4
        <5> QED
          BY <1>2, <1>4, <3>1, <5>1, <5>2
      <4>2. CASE "Started" \notin answered[r]
        <5>1. Op(k) = "signal" /\ Of(k) = "Started"
          BY <1>6, <3>4, <4>2
        <5>2. ~launch'[r]
          BY <3>1, <5>1
        <5>3. status'[r] = "Starting" => status' = status
          BY <1>4
        <5> QED
          BY <1>2, <1>4, <5>1, <5>2, <5>3
      <4> QED
        BY <4>1, <4>2
    <3>5. StartsOnce(r)'
      BY <1>2, <1>3, <3>4 DEF StartsOnce
    <3> QED
      BY <2>3, <2>5, <3>3, <3>5 DEF Intact
  <2> QED
    BY <2>4, <2>5
<1>9. ASSUME NEW d \in Callers, Succeeds(d)', Fresh(d)'
      PROVE  /\ call'[d].op = "start" => answered'[Req(d)'] # {}
             /\ call'[d].op = "stop" => "Close" \in answered'[Req(d)']
  <2>1. CASE call'[d] = call[d]
    <3>1. Succeeds(d) /\ Fresh(d) /\ Req(d)' = Req(d) /\ call'[d].op = call[d].op
          /\ Req(d) \in Requests
      BY <1>1, <1>5, <1>9, <2>1 DEF Succeeds, Fresh, At, Req, TypedInv, CallsTyped
    <3> QED
      BY <1>6, <3>1 DEF AnswersInv, StartIsAnswered, StopIsAnswered
  <2>2. CASE call'[d] # call[d]
    <3>1. /\ call[d].at = "asleep" /\ Of(k) \in {"Started", "Close"}
          /\ Req(d)' = r /\ Req(d) = r /\ call'[d].op = call[d].op
          /\ call' # call
      BY <1>6, <2>2 DEF Req
    <3>2. error[r] = "none" /\ r \notin refused /\ Of(k) \in answered'[r] /\ Op(k) = "signal"
      BY <1>1, <1>6, <1>9, <3>1 DEF Succeeds, Fresh, Req
    <3>3. ASSUME call[d].op = "stop" PROVE "Close" \in answered'[r]
      <4>1. \A e \in Callers : ~Waits(e, "start", r)
        <5>1. Critical(d)
          BY <3>1, <3>3 DEF Critical
        <5>2. \A e \in Callers : Waits(e, "start", r) => Critical(e) /\ e # d
          BY <3>3 DEF Waits, Critical
        <5> QED
          BY <5>1, <5>2 DEF TypedInv, Mutex
      <4>2. Intact(r) /\ status[r] # "Created"
        BY <1>2, <3>2 DEF AnswersInv, Intact, ToldOnce
      <4>3. answered[r] # {} /\ answered[r] \subseteq {"Started", "Close"}
        BY <3>2, <4>1, <4>2 DEF Intact, Answered, TypedInv, NodesTyped
      <4>4. Of(k) = "Started" => "Started" \notin answered[r]
        BY <1>1, <1>2, <3>2, <4>2 DEF Intact, StartsOnce
      <4> QED
        BY <1>6, <3>1, <3>2, <4>3, <4>4
    <3> QED
      BY <3>1, <3>2, <3>3
  <2> QED
    BY <2>1, <2>2
<1>10. StartIsAnswered' /\ StopIsAnswered'
  BY <1>9 DEF StartIsAnswered, StopIsAnswered
<1> QED
  BY <1>1, <1>8, <1>10 DEF AnswersInv

LEMMA BeginStepKeeps ==
  ASSUME TypedInv, AnswersInv, NEW k \in {0, 1}, NEW n \in 0..17, NEW r \in Requests,
         BeginStep(k, n, r)
  PROVE  AnswersInv'
<1>1. /\ todo[EventThread] = Prog(k, r) /\ todo'[EventThread] = Prog(n, r)
      /\ UNCHANGED <<error, answered, call, refused>>
  BY NobodyCalls DEF BeginStep, others, TypedInv, InPrograms
<1>2. /\ Mine(r) <=> k # 0
      /\ \A q \in Requests : Mine(q) => q = r
      /\ Mine(r)' <=> n # 0
      /\ \A q \in Requests : Mine(q)' => q = r
      /\ n # 0 => Head(todo'[EventThread]).op = Op(n) /\ Head(todo'[EventThread]).event = Of(n)
      /\ k # 0 => Head(todo[EventThread]).op = "dial"
  <2>1. k # 0 => Op(k) = "dial"
    BY DEF Op
  <2>0. ASSUME NEW t, NEW m \in 0..17, t = Prog(m, r)
        PROVE  /\ t = <<>> <=> m = 0
               /\ m # 0 => Head(t).request = r /\ Head(t).op = Op(m) /\ Head(t).event = Of(m)
    BY <2>0, NextStep
  <2>2. /\ todo[EventThread] = <<>> <=> k = 0
        /\ k # 0 => /\ Head(todo[EventThread]).request = r
                    /\ Head(todo[EventThread]).op = Op(k)
    <3>1. k \in 0..17 /\ todo[EventThread] = Prog(k, r)
      BY <1>1
    <3> QED
      BY <2>0, <3>1
  <2>3. /\ todo'[EventThread] = <<>> <=> n = 0
        /\ n # 0 => /\ Head(todo'[EventThread]).request = r
                    /\ Head(todo'[EventThread]).op = Op(n)
                    /\ Head(todo'[EventThread]).event = Of(n)
    <3>1. todo'[EventThread] = Prog(n, r)
      BY <1>1
    <3> QED
      BY <2>0, <3>1
  <2> QED
    BY <2>1, <2>2, <2>3 DEF Mine
<1>3. /\ \A q \in Requests : q # r => status'[q] = status[q] /\ launch'[q] = launch[q]
      /\ launch'[r] => launch[r]
  BY DEF BeginStep, TypedInv, NodesTyped
<1>4. \/ k = 0 /\ n \in {0, 1} /\ launch[r] /\ ~launch'[r] /\ status'[r] = "Invoked"
      \/ k = 1 /\ n = 0 /\ launch' = launch /\ status'[r] = "Starting"
      \/ k = 1 /\ n = 2 /\ launch' = launch /\ status' = status
      \/ /\ k = 0 /\ n \in {9, 12, 15} /\ launch' = launch /\ status' = status
         /\ status[r] \in {"Starting", "Started"} /\ (n = 9 => status[r] = "Starting")
      \/ k = 0 /\ n = 2 /\ ~launch'[r] /\ status' = status /\ status[r] # "Created"
  BY DEF BeginStep, TypedInv, NodesTyped
<1>5. /\ n = 1 => Op(n) = "dial" /\ Of(n) = "none"
      /\ n = 2 => Op(n) = "event" /\ Of(n) = "TaskFailed"
      /\ n = 9 => Op(n) = "signal" /\ Of(n) = "Started"
      /\ n \in {12, 15} => Op(n) = "signal" /\ Of(n) # "Started"
  BY DEF Op, Of
<1>6. StartIsAnswered' /\ StopIsAnswered'
  BY <1>1 DEF AnswersInv, StartIsAnswered, StopIsAnswered, Succeeds, Fresh, At, Req
<1>7. ASSUME NEW q \in Requests, q \notin refused
      PROVE  Intact(q)'
  <2>1. ToldOnce(q) /\ StartsOnce(q) /\ Answered(q)
    BY <1>7 DEF AnswersInv, Intact
  <2>2. status'[q] # "Created" => status[q] # "Created"
    BY <1>2, <1>3, <1>4, <2>1 DEF ToldOnce
  <2>3. Answered(q)'
    BY <1>1, <2>1, <2>2 DEF Answered, Waits
  <2>4. CASE q # r
    <3>1. ~Mine(q) /\ ~Mine(q)' /\ status'[q] = status[q] /\ launch'[q] = launch[q]
      BY <1>2, <1>3, <2>4
    <3>2. ToldOnce(q)' /\ StartsOnce(q)'
      BY <1>1, <2>1, <3>1 DEF ToldOnce, StartsOnce
    <3> QED
      BY <2>3, <3>2 DEF Intact
  <2>5. CASE q = r
    <3>1. ToldOnce(r)'
      BY <1>2, <1>3, <1>4, <1>5, <2>1, <2>5 DEF ToldOnce
    <3>2. StartsOnce(r)'
      BY <1>1, <1>2, <1>3, <1>4, <1>5, <2>1, <2>5 DEF StartsOnce
    <3> QED
      BY <2>3, <2>5, <3>1, <3>2 DEF Intact
  <2> QED
    BY <2>4, <2>5
<1> QED
  BY <1>1, <1>6, <1>7 DEF AnswersInv

LEMMA AnswersSteps ==
  ASSUME TypedInv, Silent, AnswersInv, {"send", "wakeup"} \intersect troubles = {}, [Next]_vars
  PROVE  Silent' /\ AnswersInv'
<1>1. CASE UNCHANGED vars
  <2>1. /\ UNCHANGED <<status, error, launch, answered, todo, call, refused>>
    BY <1>1 DEF vars, node, others
  <2>2. StartIsAnswered' /\ StopIsAnswered'
    BY <2>1 DEF AnswersInv, StartIsAnswered, StopIsAnswered, Succeeds, Fresh, At, Req
  <2>3. \A q \in Requests : Intact(q) => Intact(q)'
    BY <2>1 DEF Intact, ToldOnce, StartsOnce, Answered, Mine, Waits
  <2> QED
    BY <2>1, <2>2, <2>3 DEF AnswersInv, Silent
<1>2. CASE Next
  <2>1. Silent'
    BY <1>2, QuietSteps
  <2>2. ASSUME NEW c \in Callers, Inside(c) PROVE AnswersInv'
    BY <2>2, InsideKeeps, StartKeeps
  <2>3. ASSUME NEW c \in Callers, Tell(c) PROVE AnswersInv'
    <3>1. c = EventThread
      BY <2>3 DEF Silent, Tell, HandleEvent, Signal, CalledBack, Store, Now, Busy
    <3>2. PICK k \in 1..17, n \in 0..17, r \in Requests : TellStep(EventThread, k, n, r)
      BY <2>3, <3>1, TellMoves, NobodyCalls
    <3> QED
      BY <3>2, TellKeeps
  <2>4. ASSUME NEW c \in Callers, NEW op \in Ops, NEW r \in Requests, Begin(c, op, r)
        PROVE  AnswersInv'
    BY <2>4, BeginKeeps
  <2>5. ASSUME Dial \/ \E r \in Requests : Launch(r) \/ Answer(r) \/ Break(r)
        PROVE  AnswersInv'
    BY <2>5, BeginMoves, BeginStepKeeps
  <2> QED
    BY <1>2, <2>1, <2>2, <2>3, <2>4, <2>5 DEF Next
<1> QED
  BY <1>1, <1>2

\* A synchronous start that returns Success was told Started or Close since it began,
\* and a synchronous stop that does was woken by the Close of its session, although
\* both wait without a predicate (waitInvokeFinish, connectNode.cpp): provided that no
\* wait wakes without a cause and no send fails. Connections may fail at any time.
THEOREM AnswersAreTrue == Spec => []CallsAreAnswered
<1> DEFINE Calm == {"send", "wakeup"} \intersect troubles = {}
           Inv == TypedInv /\ (Calm => Silent /\ AnswersInv)
<1>1. Init => Inv
  <2> SUFFICES ASSUME Init PROVE Inv
    OBVIOUS
  <2>1. \A r \in Requests : /\ ~launch[r] /\ ~Mine(r) /\ status[r] = "Created"
                            /\ answered[r] = {}
    BY NobodyCalls DEF Init, Mine
  <2>2. \A r \in Requests : Intact(r)
    BY <2>1 DEF Intact, ToldOnce, StartsOnce, Answered
  <2>3. \A c \in Callers : ~Succeeds(c)
    BY DEF Init, Succeeds, At, Idle
  <2> QED
    BY <2>2, <2>3, TypedBegins DEF Init, Silent, AnswersInv, StartIsAnswered, StopIsAnswered
<1>2. Inv /\ [Next]_vars => Inv'
  BY TypedSteps, AnswersSteps, TroublesStay
<1>3. Inv => CallsAreAnswered
  BY DEF AnswersInv, CallsAreAnswered
<1> QED
  BY <1>1, <1>2, <1>3, PTL DEF Spec
===============================================================================
