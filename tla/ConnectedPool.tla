---------------------------- MODULE ConnectedPool ----------------------------
(***************************************************************************)
(* The pool of established connections of the SDK (class ConnectedPool,    *)
(* transport/connectedPool.cpp) for one NlsType, together with the three   *)
(* parties that call it:                                                   *)
(*   - the thread that starts a request, which may borrow a connection     *)
(*     (popPrestartedNode, then popPreconnectedNode);                      *)
(*   - the event thread that finishes a task and stores its connection     *)
(*     (pushPrestartedNode, pushPrestartedNodeFromPreconnected) or marks   *)
(*     it abnormal (curRequestIsAbnormal);                                 *)
(*   - the thread that releases a request (NlsClientImpl::releaseRequest); *)
(* and the pool's own thread: a timer that expires and pings the entries   *)
(* under _lock, and a sweep, run WITHOUT _lock, that deletes what the      *)
(* timer marked and opens a replacement connection.                        *)
(*                                                                         *)
(* A connection (the pair socketFd / sslHandle) is named by the request    *)
(* whose ConnectNode created it: its native SSL.                           *)
(***************************************************************************)
EXTENDS Integers

CONSTANTS
  Requests,     \* request objects (an address is not reused)
  NoReq,        \* the NULL pointer
  MaxNumber,    \* _maxPreconnectedNumber, the length of each vector
  ParamOf,      \* the comparable parameters of each request
  Asr,          \* TRUE for TypeAsr, whose preconnected pop uses another list
  CancelRelease,\* users may release a request whose task still runs
  LateRelease,  \* users may hold a finished request past the pool timeout
  PingFails,    \* syncPingCmd may fail
  TornClear     \* the sweep's clearNode() may interleave with a push

ASSUME PoolAssumption ==
  /\ NoReq \notin Requests
  /\ MaxNumber \in Nat \ {0}
  /\ DOMAIN ParamOf = Requests
  /\ {Asr, CancelRelease, LateRelease, PingFails, TornClear} \subseteq BOOLEAN

Prestarted == "prestarted"
Preconnected == "preconnected"
Kinds == {Prestarted, Preconnected}
Index == 0 .. MaxNumber - 1
Slots == Kinds \X Index
ReqOrNull == Requests \union {NoReq}

VARIABLES
  inited,  \* initThisNodesPool has filled both vectors
  pool,    \* Slots -> entry: prestartedRequests and preconnectedRequests
  idle,    \* Kinds -> how often each index is in the IndexList
  req,     \* Requests -> the request and its node, as far as the pool sees it
  starter, \* the request whose start() holds _mtxThread, or NoReq
  release, \* the releaseRequest() that holds _mtxReleaseRequestGuard
  pc,      \* where the pool thread is
  cursor,  \* the entry the sweep is working on
  linked,  \* the request preconnectNodeByRequest has just stored, or NoReq
  deletes  \* Requests -> how often the request object was deleted (cap: 2)

vars == <<inited, pool, idle, req, starter, release, pc, cursor, linked, deletes>>

(***************************************************************************)
(* Entries and nodes.                                                      *)
(***************************************************************************)
\* ToBeCreated, Connected and Started: PreNodeToBeCreated, ...
Entry == [status: {"ToBeCreated", "Connected", "Started"},
          conn: ReqOrNull, request: ReqOrNull, cur: ReqOrNull,
          canPick: BOOLEAN, isAbnormal: BOOLEAN, curInvalid: BOOLEAN,
          shouldRelease: BOOLEAN, shouldPreconnect: BOOLEAN]

\* clearNode(), and the state initThisNodesPool gives an entry.
EmptyEntry ==
  [status |-> "ToBeCreated", conn |-> NoReq, request |-> NoReq, cur |-> NoReq,
   canPick |-> FALSE, isAbnormal |-> FALSE, curInvalid |-> FALSE,
   shouldRelease |-> FALSE, shouldPreconnect |-> FALSE]

\* life: new, starting (inside start()), running, finished (Close delivered),
\* releasing (inside releaseRequest), pooled (left to the pool), orphan
\* (created by the pool and stored nowhere), gone (deleted).
Node == [life: {"new", "starting", "running", "finished", "releasing",
                "pooled", "orphan", "gone"},
         ssl: Requests,                   \* _sslHandle: native or borrowed
         fd: BOOLEAN,                     \* _socketFd is a valid descriptor
         from: {"direct"} \union Kinds,   \* connect_type
         index: Index \union {-1},        \* _poolIndex
         busy: BOOLEAN,                   \* the server still works on its task
         held: BOOLEAN]                   \* the user has not released it

Release == [by: ReqOrNull, phase: {"del", "final"},
            ssl: BOOLEAN, abnormal: BOOLEAN, inPool: BOOLEAN]

NoRelease == [by |-> NoReq, phase |-> "del", ssl |-> FALSE,
              abnormal |-> FALSE, inPool |-> FALSE]

\* the status an entry of a vector has while it stores a connection
Active(k) == IF k = Prestarted THEN "Started" ELSE "Connected"

ActiveSlots(k) == {s \in Slots : s[1] = k /\ pool[s].status = Active(k)}

Stored == ActiveSlots(Prestarted) \union ActiveSlots(Preconnected)

\* getNumberOfPrestartedNodes / getNumberOfPreconnectedNodes > 0
NonEmpty(k) == ActiveSlots(k) # {}

\* curSocketFd == it->socketFd && curSslHandle == it->sslHandle
SameConn(s, r) == req[r].fd /\ pool[s].conn = req[r].ssl

\* A scan of prestartedRequests, then of preconnectedRequests, for a member of
\* S stops at s.
First(s, S) ==
  \A t \in S : \/ s[1] = Prestarted /\ t[1] = Preconnected
               \/ s[1] = t[1] /\ s[2] <= t[2]

\* An IndexList is kept ordered and may hold an index twice: it is the bag of its
\* elements. removeElement removes all of one index.
Remove(list, i) == [list EXCEPT ![i] = 0]

\* insertListInOrder: std::lower_bound and insert
InsertInOrder(list, i) == [list EXCEPT ![i] = @ + 1]

\* mutant of Leads: the last element
Trails(list, i) == list[i] > 0 /\ \A j \in Index : j > i => list[j] = 0

\* the first element of the list
Leads(list, i) == list[i] > 0 /\ \A j \in Index : j < i => list[j] = 0

\* popListFront; an empty list stays empty
PopFront(list) == [i \in Index |-> IF Leads(list, i) THEN list[i] - 1 ELSE list[i]]

\* an entry push may use: no connection stored and nothing left to delete
FreeSlots(k) == {s \in Slots : /\ s[1] = k
                               /\ pool[s].status = "ToBeCreated"
                               /\ ~pool[s].shouldRelease
                               /\ pool[s].request = NoReq}

\* the event thread may still be inside parseFrame for r
Working(r) == /\ req[r].busy
              /\ \/ req[r].life = "running"
                 \/ release.by = r /\ release.phase = "del"

(***************************************************************************)
(* start(): borrow a connection or open one.                               *)
(***************************************************************************)
\* The list a pop from vector k takes its first index from.
ListOf(k) == IF Asr /\ k = Preconnected THEN Prestarted ELSE k

\* what popOnePrestartedNode and popOnePreconnectedNode accept: the scan begins at
\* the first index of the list, or at 0
Candidates(k, r) ==
  {s \in ActiveSlots(k) : /\ \A i \in Index : Leads(idle[ListOf(k)], i) => s[2] >= i
                          /\ pool[s].canPick
                          /\ ParamOf[pool[s].request] = ParamOf[r]}

\* mutant of Borrow: the entry stays available
BorrowAndLeave(k, r, s) ==
  /\ s \in Candidates(k, r) /\ First(s, Candidates(k, r))
  /\ pool' = [pool EXCEPT ![s].cur = r]
  /\ idle' = [idle EXCEPT ![ListOf(k)] = Remove(PopFront(@), s[2])]
  /\ req' = [req EXCEPT ![r] =
              [@ EXCEPT !.life = "running", !.from = k, !.ssl = pool[s].conn,
                        !.fd = TRUE, !.index = s[2], !.busy = TRUE]]
  /\ starter' = NoReq
  /\ UNCHANGED inited

\* mutant of Borrow: an index past the entry
BorrowPast(k, r, s) ==
  /\ s \in Candidates(k, r) /\ First(s, Candidates(k, r))
  /\ pool' = [pool EXCEPT ![s] =
               [@ EXCEPT !.canPick = FALSE, !.cur = r, !.curInvalid = FALSE]]
  /\ idle' = [idle EXCEPT ![ListOf(k)] = Remove(PopFront(@), s[2])]
  /\ req' = [req EXCEPT ![r] =
              [@ EXCEPT !.life = "running", !.from = k, !.ssl = pool[s].conn,
                        !.fd = TRUE, !.index = s[2] + 1, !.busy = TRUE]]
  /\ starter' = NoReq
  /\ UNCHANGED inited

\* the pop takes entry s and returns true
Borrow(k, r, s) ==
  /\ s \in Candidates(k, r) /\ First(s, Candidates(k, r))
  /\ pool' = [pool EXCEPT ![s] =
               [@ EXCEPT !.canPick = FALSE, !.cur = r, !.curInvalid = FALSE]]
  /\ idle' = [idle EXCEPT ![ListOf(k)] = Remove(PopFront(@), s[2])]
  /\ req' = [req EXCEPT ![r] =
              [@ EXCEPT !.life = "running", !.from = k, !.ssl = pool[s].conn,
                        !.fd = TRUE, !.index = s[2], !.busy = TRUE]]
  /\ starter' = NoReq
  /\ UNCHANGED inited

\* the pop returns false: the vectors were empty, or nothing matched and the
\* list lost its first index
NotBorrowed(k, r) ==
  /\ ~inited \/ ~NonEmpty(k) \/ Candidates(k, r) = {}
  /\ inited' = TRUE
  /\ idle' = IF inited /\ NonEmpty(k)
             THEN [idle EXCEPT ![ListOf(k)] = PopFront(@)] ELSE idle
  /\ UNCHANGED pool

BeginStart(r) ==
  /\ pc # "stopped" /\ starter = NoReq
  /\ req[r].life = "new"
  /\ req' = [req EXCEPT ![r] =
              [@ EXCEPT !.life = "starting", !.from = Prestarted, !.held = TRUE]]
  /\ starter' = r
  /\ UNCHANGED <<inited, pool, idle, release, pc, cursor, linked, deletes>>

PopPrestarted(r) ==
  /\ starter = r /\ req[r].from = Prestarted
  /\ \/ \E s \in Slots : inited /\ Borrow(Prestarted, r, s)
     \/ /\ NotBorrowed(Prestarted, r)
        /\ req' = [req EXCEPT ![r].from = Preconnected]
        /\ UNCHANGED starter
  /\ UNCHANGED <<release, pc, cursor, linked, deletes>>

PopPreconnected(r) ==
  /\ starter = r /\ req[r].from = Preconnected
  /\ \/ \E s \in Slots : inited /\ Borrow(Preconnected, r, s)
     \/ /\ NotBorrowed(Preconnected, r)
        /\ req' = [req EXCEPT ![r] =
                    [@ EXCEPT !.life = "running", !.from = "direct", !.fd = TRUE,
                              !.busy = TRUE]]
        /\ starter' = NoReq
  /\ UNCHANGED <<release, pc, cursor, linked, deletes>>

(***************************************************************************)
(* The end of a task (ConnectNode::parseFrame, the closeFlag block). A     *)
(* frame handler that passed its ExitCancel check before cancel() set the  *)
(* flag runs on beside releaseRequest, until delAllEvents waits for it.    *)
(***************************************************************************)
\* mutant of StillThere: compares with the native SSL of the borrower
StillTherePerNative(s, r) ==
  s \in Stored /\ req[pool[s].request].fd /\ req[pool[s].request].ssl = r

\* The entry r borrowed is where r left it: its owner's node has r's connection.
StillThere(s, r) ==
  /\ s \in Stored
  /\ req[pool[s].request].fd /\ req[pool[s].request].ssl = req[r].ssl

\* the node of r after its task ended
Ended(r) == [req[r] EXCEPT !.busy = FALSE,
               !.life = IF req[r].life = "running" THEN "finished" ELSE req[r].life]

\* mutant of Store: the push makes the entry available at once
StoreAvailable(s, k, o, c) ==
  [pool[s] EXCEPT !.status = Active(k), !.conn = c, !.request = o,
                  !.cur = NoReq, !.canPick = TRUE]

\* the entry s of a vector after a push stored connection c of request o in it
Store(s, k, o, c) == [pool[s] EXCEPT !.status = Active(k), !.conn = c,
                        !.request = o, !.cur = NoReq, !.canPick = FALSE]

\* pushPrestartedNode(r, newNode = (the connection is r's own))
PushPrestarted(r) ==
  LET own == <<Prestarted, req[r].index>>
      free == FreeSlots(Prestarted)
  IN \/ /\ req[r].ssl # r /\ StillThere(own, r)
        /\ pool' = [pool EXCEPT ![own] =
                     [@ EXCEPT !.canPick = FALSE, !.curInvalid = TRUE]]
        /\ req' = [req EXCEPT ![r] = Ended(r)]
     \/ /\ req[r].ssl = r \/ ~StillThere(own, r)
        /\ free = {}
        /\ req' = [req EXCEPT ![r] = Ended(r)]
        /\ UNCHANGED pool
     \/ /\ req[r].ssl = r \/ ~StillThere(own, r)
        /\ \E s \in free :
             /\ First(s, free)
             /\ pool' = [pool EXCEPT ![s] = Store(s, Prestarted, r, req[r].ssl)]
             /\ req' = [req EXCEPT ![r] = [Ended(r) EXCEPT !.index = s[2]]]

\* pushPrestartedNodeFromPreconnected(r): the connection moves to the other
\* vector and keeps its owner; the old entry is emptied even if no slot is free.
PushFromPreconnected(r) ==
  LET own == <<Preconnected, req[r].index>>
      owner == pool[own].request
      free == FreeSlots(Prestarted)
  IN \/ /\ ~StillThere(own, r)
        /\ req' = [req EXCEPT ![r] = Ended(r)]
        /\ UNCHANGED pool
     \/ /\ StillThere(own, r) /\ free = {}
        /\ req' = [req EXCEPT ![r] = Ended(r)]
        /\ pool' = [pool EXCEPT ![own] = EmptyEntry]
     \/ /\ StillThere(own, r)
        /\ \E s \in free :
             /\ First(s, free)
             /\ pool' = [pool EXCEPT ![s] = Store(s, Prestarted, owner, req[r].ssl),
                                     ![own] = EmptyEntry]
             /\ req' = [req EXCEPT ![r] = Ended(r), ![owner].index = s[2]]

\* The task ended without TaskFailed: the connection is kept and stored, then
\* Close is delivered.
CompleteTask(r) ==
  /\ Working(r)
  /\ IF req[r].from = Preconnected /\ req[r].ssl # r
     THEN PushFromPreconnected(r) /\ UNCHANGED inited
     ELSE PushPrestarted(r) /\ inited' = TRUE
  /\ UNCHANGED <<idle, starter, release, pc, cursor, linked, deletes>>

\* TaskFailed: curRequestIsAbnormal marks the entry (handlerFrame), then
\* closeConnectNode closes the socket unless it is borrowed.
FailTask(r) ==
  /\ Working(r)
  /\ LET hits == {s \in Stored : SameConn(s, r)}
     IN \/ hits = {} /\ UNCHANGED <<pool, idle>>
        \/ \E s \in hits :
             /\ First(s, hits)
             /\ pool' = [pool EXCEPT ![s].isAbnormal = TRUE]
             /\ idle' = [idle EXCEPT ![s[1]] = Remove(@, s[2])]
  /\ req' = [req EXCEPT ![r] = [Ended(r) EXCEPT !.fd = (req[r].ssl # r)]]
  /\ UNCHANGED <<inited, starter, release, pc, cursor, linked, deletes>>

(***************************************************************************)
(* releaseRequest(): three steps under _mtxReleaseRequestGuard, of which   *)
(* only the first and the last hold the pool's _lock.                      *)
(***************************************************************************)
\* delete of each request of R
Deleted(R) == [x \in Requests |-> IF x \in R /\ deletes[x] < 2
                                 THEN deletes[x] + 1 ELSE deletes[x]]

\* ... and what their nodes are then
Gone(R) == [x \in Requests |-> IF x \in R THEN [req[x] EXCEPT !.life = "gone"]
                               ELSE req[x]]

\* sslBelongToPool
BeginRelease(r) ==
  /\ release.by = NoReq
  /\ req[r].held
  /\ req[r].life = "finished" \/ (CancelRelease /\ req[r].life = "running")
  /\ req' = [req EXCEPT ![r] =
              [@ EXCEPT !.life = "releasing", !.held = FALSE]]
  /\ LET hits == {s \in Stored : SameConn(s, r)}
     IN \/ hits = {} /\ release' = [NoRelease EXCEPT !.by = r]
        \/ \E s \in hits :
             /\ First(s, hits)
             /\ release' = [by |-> r, phase |-> "del", ssl |-> TRUE,
                            abnormal |-> pool[s].isAbnormal,
                            inPool |-> pool[s].request = r]
  /\ UNCHANGED <<inited, pool, idle, starter, pc, cursor, linked, deletes>>

\* mutant of ReleaseDelete: deletes what the pool owns as well
ReleaseDeleteAlways(r) ==
  /\ release.by = r /\ release.phase = "del"
  /\ release' = [release EXCEPT !.phase = "final"]
  /\ deletes' = Deleted({r})
  /\ UNCHANGED <<inited, pool, idle, req, starter, pc, cursor, linked>>

\* delAllEvents, removeRequestFromInfo, delete request
ReleaseDelete(r) ==
  /\ release.by = r /\ release.phase = "del"
  /\ release' = [release EXCEPT !.phase = "final"]
  /\ deletes' = IF release.inPool THEN deletes ELSE Deleted({r})
  /\ UNCHANGED <<inited, pool, idle, req, starter, pc, cursor, linked>>

\* deletePreNodeBySSL: the entry of this connection and its owner go
DeleteBySSL(hits, r) ==
  \/ /\ hits = {}
     /\ req' = [req EXCEPT ![r].life = IF release.inPool THEN "pooled" ELSE "gone"]
     /\ UNCHANGED <<pool, deletes>>
  \/ \E s \in hits :
       /\ First(s, hits)
       /\ pool' = [pool EXCEPT ![s] = EmptyEntry]
       /\ req' = Gone({r, pool[s].request})
       /\ deletes' = Deleted({pool[s].request})

\* finishPushPreNode: both vectors are scanned from the node's index on, and
\* the first entry with this connection becomes available.
FinishPush(r) ==
  LET hits == {s \in Stored : SameConn(s, r) /\ s[2] >= req[r].index}
  IN \/ hits = {} /\ UNCHANGED <<pool, idle>>
     \/ \E s \in hits :
          /\ First(s, hits)
          /\ pool' = [pool EXCEPT ![s] =
                       [@ EXCEPT !.canPick = TRUE, !.cur = NoReq,
                                 !.curInvalid = FALSE]]
          /\ idle' = [idle EXCEPT ![s[1]] = InsertInOrder(@, s[2])]

\* deletePreNodeByRequest: the entry whose owner was just deleted goes
DeleteByRequest(r) ==
  LET hits == {s \in Stored : pool[s].request = r}
  IN \/ hits = {} /\ UNCHANGED pool
     \/ \E s \in hits : First(s, hits) /\ pool' = [pool EXCEPT ![s] = EmptyEntry]

ReleaseFinal(r) ==
  /\ release.by = r /\ release.phase = "final"
  /\ release' = NoRelease
  /\ \/ /\ release.ssl /\ release.abnormal
        /\ DeleteBySSL({s \in Stored : pool[s].conn = req[r].ssl}, r)
        /\ UNCHANGED idle
     \/ /\ release.ssl /\ ~release.abnormal
        /\ FinishPush(r)
        /\ req' = [req EXCEPT ![r].life = IF release.inPool THEN "pooled" ELSE "gone"]
        /\ UNCHANGED deletes
     \/ /\ ~release.ssl
        /\ DeleteByRequest(r)
        /\ req' = [req EXCEPT ![r].life = "gone"]
        /\ UNCHANGED <<idle, deletes>>
  /\ UNCHANGED <<inited, starter, pc, cursor, linked>>

(***************************************************************************)
(* The pool's own thread.                                                  *)
(***************************************************************************)
\* An entry with no current borrower may reach its timeout. Unless LateRelease,
\* users release a finished request sooner than that.
Expirable ==
  {s \in Stored : /\ pool[s].cur = NoReq
                  /\ \/ LateRelease
                     \/ \A r \in Requests : req[r].ssl = pool[s].conn =>
                          req[r].life \notin {"finished", "releasing"}}

Marked == {s \in Slots : pool[s].shouldRelease}

\* the fields timeoutPrestartedNode and timeoutPreconnectedNode reset
Expired(e, again) ==
  [e EXCEPT !.status = "ToBeCreated", !.conn = NoReq, !.canPick = FALSE,
            !.curInvalid = FALSE, !.shouldRelease = TRUE, !.shouldPreconnect = again]

\* Entries of again timed out, entries of token have a token that expired, entries
\* of dead answer no ping.
Expire(again, token, dead) ==
  /\ again \union token \union dead # {}
  /\ again \intersect token = {} /\ dead \intersect (again \union token) = {}
  /\ pool' = [s \in Slots |->
                IF s \in again THEN Expired(pool[s], TRUE)
                ELSE IF s \in token \union dead THEN Expired(pool[s], FALSE)
                ELSE pool[s]]

\* connectPoolEventCallback
Tick ==
  /\ pc = "timer"
  /\ \E again, token \in SUBSET Expirable :
     \E dead \in IF PingFails THEN SUBSET Stored ELSE {{}} : Expire(again, token, dead)
  /\ pc' = "sweep"
  /\ UNCHANGED <<inited, idle, req, starter, release, cursor, linked, deletes>>

\* deleteOrPreconnectNodeShouldReleased looks at the next marked entry
Sweep ==
  /\ pc = "sweep"
  /\ \/ /\ Marked = {}
        /\ pc' = "timer"
        /\ UNCHANGED <<pool, cursor>>
     \/ \E s \in Marked :
          /\ First(s, Marked)
          /\ cursor' = s
          /\ pool' = [pool EXCEPT ![s] =
                       [@ EXCEPT !.shouldRelease = FALSE,
                                 !.shouldPreconnect = FALSE]]
          /\ pc' = IF pool[s].shouldPreconnect THEN "link" ELSE "delete"
  /\ UNCHANGED <<inited, idle, req, starter, release, linked, deletes>>

\* preconnectNodeByRequest with no new request, or with one that cannot be
\* connected and is released again
LinkFails ==
  /\ pc = "link"
  /\ pc' = "delete"
  /\ \/ UNCHANGED <<req, deletes>>
     \/ \E n \in Requests :
          /\ req[n].life = "new" /\ release.by = NoReq
          /\ req' = [req EXCEPT ![n].life = "gone"]
          /\ deletes' = Deleted({n})
  /\ UNCHANGED <<inited, pool, idle, starter, release, cursor, linked>>

\* preconnectNodeByRequest: a new request with the parameters of the old one is
\* created, connected, and stored by pushPreconnectedNode if an entry is free;
\* if not, deletePreNodeBySSL finds no entry to delete either.
Link ==
  /\ pc = "link" /\ starter = NoReq
  /\ \E n \in Requests :
       /\ req[n].life = "new" /\ ParamOf[n] = ParamOf[pool[cursor].request]
       /\ LET free == FreeSlots(Preconnected)
          IN \/ /\ free = {}
                /\ req' = [req EXCEPT ![n] =
                            [@ EXCEPT !.life = "orphan", !.fd = TRUE]]
                /\ pc' = "delete"
                /\ UNCHANGED <<pool, linked>>
             \/ \E s \in free :
                  /\ First(s, free)
                  /\ pool' = [pool EXCEPT ![s] = Store(s, Preconnected, n, n)]
                  /\ req' = [req EXCEPT ![n] =
                              [@ EXCEPT !.life = "pooled", !.fd = TRUE,
                                        !.index = s[2]]]
                  /\ linked' = n
                  /\ pc' = "finish"
  /\ inited' = TRUE
  /\ UNCHANGED <<idle, starter, release, cursor, deletes>>

\* finishPushPreNode for the request Link has just stored
FinishLink ==
  /\ pc = "finish"
  /\ FinishPush(linked)
  /\ linked' = NoReq
  /\ pc' = "delete"
  /\ UNCHANGED <<inited, req, starter, release, cursor, deletes>>

\* the old request is deleted under _mtxReleaseRequestGuard ...
SweepDelete ==
  /\ pc = "delete" /\ release.by = NoReq
  /\ LET old == pool[cursor].request
     IN \/ old = NoReq /\ UNCHANGED <<req, deletes>>
        \/ /\ old # NoReq
           /\ deletes' = Deleted({old})
           /\ req' = [req EXCEPT ![old].life = "gone"]
  /\ pc' = "clear"
  /\ UNCHANGED <<inited, pool, idle, starter, release, cursor, linked>>

\* ... and clearNode() empties the entry with neither lock. Once it has set
\* request = NULL, a push may use the entry ...
SweepClear ==
  /\ pc = "clear"
  /\ \/ /\ pool' = [pool EXCEPT ![cursor] = EmptyEntry]
        /\ pc' = "sweep"
     \/ /\ TornClear
        /\ pool' = [pool EXCEPT ![cursor] =
                     [@ EXCEPT !.status = "ToBeCreated", !.conn = NoReq,
                               !.canPick = FALSE, !.request = NoReq]]
        /\ pc' = "wipe"
  /\ UNCHANGED <<inited, idle, req, starter, release, cursor, linked, deletes>>

\* ... before clearNode() has set the rest.
SweepWipe ==
  /\ pc = "wipe"
  /\ pool' = [pool EXCEPT ![cursor] =
               [@ EXCEPT !.isAbnormal = FALSE, !.cur = NoReq,
                         !.curInvalid = FALSE, !.shouldRelease = FALSE,
                         !.shouldPreconnect = FALSE]]
  /\ pc' = "sweep"
  /\ UNCHANGED <<inited, idle, req, starter, release, cursor, linked, deletes>>

\* releaseInstance: stopConnectedPool, then ~ConnectedPool deletes what is left.
\* The user has released every request by then.
Destroy ==
  /\ pc = "timer"
  /\ \A r \in Requests : ~req[r].held /\ req[r].life # "releasing"
  /\ LET left == {pool[s].request : s \in Slots} \ {NoReq}
     IN /\ deletes' = Deleted(left)
        /\ req' = Gone(left)
  /\ pool' = [s \in Slots |-> EmptyEntry]
  /\ pc' = "stopped"
  /\ UNCHANGED <<inited, idle, starter, release, cursor, linked>>

-----------------------------------------------------------------------------
Init ==
  /\ inited = FALSE
  /\ pool = [s \in Slots |-> EmptyEntry]
  /\ idle = [k \in Kinds |-> [i \in Index |-> 0]]
  /\ req = [r \in Requests |->
              [life |-> "new", ssl |-> r, fd |-> FALSE, from |-> "direct",
               index |-> -1, busy |-> FALSE, held |-> FALSE]]
  /\ starter = NoReq
  /\ release = NoRelease
  /\ pc = "timer" /\ cursor = <<Prestarted, 0>> /\ linked = NoReq
  /\ deletes = [r \in Requests |-> 0]

User(r) == \/ BeginStart(r) \/ PopPrestarted(r) \/ PopPreconnected(r)
           \/ BeginRelease(r) \/ ReleaseDelete(r) \/ ReleaseFinal(r)

Worker(r) == CompleteTask(r) \/ FailTask(r)

PoolThread == \/ Tick \/ Sweep \/ LinkFails \/ Link \/ FinishLink
              \/ SweepDelete \/ SweepClear \/ SweepWipe \/ Destroy

Next == PoolThread \/ \E r \in Requests : User(r) \/ Worker(r)

Spec == Init /\ [][Next]_vars

-----------------------------------------------------------------------------
(***************************************************************************)
(* Properties.                                                             *)
(***************************************************************************)
TypeOK ==
  /\ inited \in BOOLEAN
  /\ pool \in [Slots -> Entry]
  /\ idle \in [Kinds -> [Index -> Nat]]
  /\ req \in [Requests -> Node]
  /\ starter \in ReqOrNull
  /\ release \in Release
  /\ pc \in {"timer", "sweep", "link", "finish", "delete", "clear", "wipe", "stopped"}
  /\ cursor \in Slots
  /\ linked \in ReqOrNull
  /\ deletes \in [Requests -> 0 .. 2]

\* from the pop (or the connect) to the end of releaseRequest
Holder(r) == req[r].life \in {"running", "finished", "releasing"}

\* A connection has one user at a time: between the moment start() takes a
\* connection, from the pool or new, and the end of the request's release no
\* other request has it. (popOnePrestartedNode, popOnePreconnectedNode,
\* finishPushPreNode, pushPrestartedNode.)
ExclusiveUse ==
  \A r, q \in Requests : r # q /\ Holder(r) /\ Holder(q) => req[r].ssl # req[q].ssl

\* A connection is stored once: two entries that store one connection would let
\* two requests borrow it. (pushPrestartedNode, pushPrestartedNodeFromPreconnected,
\* pushPreconnectedNode.)
StoredOnce ==
  \A s, t \in Stored : s # t => pool[s].conn # pool[t].conn

\* An entry offered to start() is not in use, neither by a request nor by a
\* server still busy with the task of a released one. (finishPushPreNode and the
\* comment "SSL is idle" at the two pops.)
PickableIsIdle ==
  \A s \in Stored : pool[s].canPick =>
    \A r \in Requests : req[r].ssl = pool[s].conn =>
      ~Holder(r) /\ ~(req[r].busy /\ req[r].fd)

\* A request keeps the connection its task runs on: the object that owns the SSL
\* is not deleted under it by the timer, the sweep or another release.
ConnectionIsAlive ==
  \A r \in Requests : req[r].life \in {"running", "finished"} =>
                        deletes[req[r].ssl] = 0

\* A request object is deleted at most once, whoever deletes it: its release, a
\* borrower's release, the sweep or the destructor of the pool.
DeletedOnce == \A r \in Requests : deletes[r] <= 1

\* Both: the four who may delete the owner of a connection agree on when, and who does it.
DeletedOnceAndLast == DeletedOnce /\ ConnectionIsAlive

\* The user's request is not deleted before the user releases it.
HeldIsAlive == \A r \in Requests : req[r].held => deletes[r] = 0

\* An entry that stores a connection owns a live request.
EntryIsAlive == \A s \in Stored : deletes[pool[s].request] = 0

\* An available connection with the right parameters is found: the pop of a
\* vector gives up only if the vector has none. (popPrestartedNode and
\* popPreconnectedNode start their scan at the head of the index list.)
PopFindsIdle ==
  [][\A r \in Requests : \A k \in Kinds :
       /\ starter = r /\ req[r].from = k /\ req'[r].from # k
       => \A s \in ActiveSlots(k) :
            ~(pool[s].canPick /\ ParamOf[pool[s].request] = ParamOf[r])]_vars

\* The last step of a release makes the connection available, if the pool still
\* stores it and its task did not fail. (finishPushPreNode.)
ReleaseMakesIdle ==
  [][\A r \in Requests : ReleaseFinal(r) /\ release.ssl /\ ~release.abnormal =>
       \A s \in Stored : SameConn(s, r) => pool'[s].canPick]_vars

\* Every request object is deleted by the time the pool is destroyed.
NothingLeaks ==
  pc = "stopped" =>
    \A r \in Requests : req[r].life # "new" => deletes[r] = 1

(***************************************************************************)
(* The inductive invariant behind ExclusiveUse and StoredOnce.             *)
(***************************************************************************)
\* The owner of a stored connection has it as its own and is at rest.
OwnerHasConn ==
  \A s \in Stored :
    LET o == pool[s].request
    IN o \in Requests /\ req[o].ssl = pool[s].conn /\ req[o].fd /\ ~req[o].busy

\* No request uses a connection that start() may take.
AvailableIsFree ==
  \A s \in Stored : pool[s].canPick =>
    \A r \in Requests : Holder(r) => req[r].ssl # pool[s].conn

\* The connection of a request that has not started is unknown to everyone else.
UnusedIsApart ==
  \A r \in Requests : req[r].life \in {"new", "starting"} =>
    /\ req[r].ssl = r /\ ~req[r].busy
    /\ \A s \in Slots : pool[s].request # r
    /\ \A s \in Stored : pool[s].conn # r
    /\ \A q \in Requests : Holder(q) => req[q].ssl # r

\* The connection of a running task is stored nowhere, or where it was borrowed.
BusyIsWhereBorrowed ==
  \A r \in Requests : Holder(r) /\ req[r].busy =>
    /\ req[r].fd
    /\ \A s \in Stored : pool[s].conn = req[r].ssl =>
         req[r].ssl # r /\ s = <<req[r].from, req[r].index>>

\* start() and releaseRequest() have the request they work on to themselves.
OneAtATime ==
  /\ starter # NoReq => req[starter].life = "starting"
  /\ release.by # NoReq => req[release.by].life = "releasing"
  /\ \A r \in Requests : req[r].life = "releasing" => release.by = r

\* The connection the pool thread has just stored waits for finishPushPreNode.
LinkedIsUnused ==
  pc = "finish" =>
    /\ linked \in Requests
    /\ req[linked].life \notin {"new", "starting"} /\ req[linked].ssl = linked
    /\ \A r \in Requests : Holder(r) => req[r].ssl # linked
    /\ \A s \in Stored : pool[s].conn = linked => ~pool[s].canPick

PoolInvariant ==
  /\ TypeOK
  /\ ExclusiveUse /\ StoredOnce
  /\ OwnerHasConn /\ AvailableIsFree /\ UnusedIsApart
  /\ BusyIsWhereBorrowed /\ OneAtATime /\ LinkedIsUnused

=============================================================================
