------------------------ MODULE ConnectedPool_proofs ------------------------
(***************************************************************************)
(* Proofs about ConnectedPool for every set of requests, every length of   *)
(* the vectors and every freedom of the environment that a theorem does    *)
(* not exclude: type correctness; a connection has one user and is stored  *)
(* once; its owner is deleted once and last; what is available is idle,    *)
(* and a pop finds it.                                                     *)
(*                                                                         *)
(* A step of the pool is described by what it may do to an entry (Keeps,   *)
(* Withholds) and to a request (Settles). Most steps only lose stored      *)
(* connections and only end the work of requests: one lemma (QuietStep)    *)
(* covers them, and a second one (StoreStep) the three pushes. Borrowing,  *)
(* connecting and finishPushPreNode are the steps left.                    *)
(*                                                                         *)
(* The deletions rest on OwnerInvariant: who may still delete the owner of *)
(* an entry at each point of a release and of a sweep. The pops rest on    *)
(* AvailableIsListed: the list of a vector never misses an entry that is   *)
(* available.                                                              *)
(***************************************************************************)
EXTENDS ConnectedPool, TLAPS

USE DEF Prestarted, Preconnected, Kinds, Slots, Index

(***************************************************************************)
(* What a step does to an entry, and to a request.                         *)
(***************************************************************************)
\* The entry stores what it stored, or nothing.
Keeps(t) ==
  /\ pool'[t].request \in {pool[t].request, NoReq}
  /\ t \in Stored' => /\ t \in Stored
                      /\ pool'[t].conn = pool[t].conn
                      /\ pool'[t].request = pool[t].request

\* The entry does not become available.
Withholds(t) == t \in Stored' /\ pool'[t].canPick => t \in Stored /\ pool[t].canPick

\* start() has not got a connection for the request yet.
Fresh(r) == req[r].life \in {"new", "starting"}

\* The request takes no connection and starts no work.
Settles(r) ==
  /\ req'[r].ssl = req[r].ssl
  /\ Holder(r)' => Holder(r)
  /\ Fresh(r)' => Fresh(r)
  /\ req'[r].busy => /\ req[r].busy /\ req'[r].fd = req[r].fd
                     /\ req'[r].from = req[r].from
                     /\ req'[r].index = req[r].index
  /\ req[r].fd /\ ~req[r].busy => req'[r].fd

\* The part of PoolInvariant that is about connections.
Connections ==
  /\ ExclusiveUse /\ StoredOnce
  /\ OwnerHasConn /\ AvailableIsFree /\ UnusedIsApart /\ BusyIsWhereBorrowed

(***************************************************************************)
(* Lemmas about the helpers of the model.                                  *)
(***************************************************************************)
\* An entry stores a connection if its status is the active one of its vector.
LEMMA StoredIs ==
  \A s : /\ s \in Stored <=> s \in Slots /\ pool[s].status = Active(s[1])
         /\ s \in Stored' <=> s \in Slots /\ pool'[s].status = Active(s[1])
  BY SMT DEF Stored, ActiveSlots, Active

\* clearNode() leaves an entry that stores nothing.
LEMMA ClearedIs == \A k : Active(k) # "ToBeCreated"
  BY DEF Active

\* The operations on an IndexList return an IndexList.
LEMMA ListTypes ==
  ASSUME NEW list \in [Index -> Nat], NEW i \in Index, MaxNumber \in Nat
  PROVE  /\ Remove(list, i) \in [Index -> Nat]
         /\ InsertInOrder(list, i) \in [Index -> Nat]
         /\ PopFront(list) \in [Index -> Nat]
<1>1. ASSUME NEW j \in Index
      PROVE  (IF Leads(list, j) THEN list[j] - 1 ELSE list[j]) \in Nat
  BY SMT DEF Leads
<1>2. PopFront(list) \in [Index -> Nat]
  BY <1>1, Zenon DEF PopFront
<1>3. QED
  BY <1>2, SMT DEF Remove, InsertInOrder

\* ListOf returns a vector.
LEMMA ListOfType == \A k \in Kinds : ListOf(k) \in Kinds
  BY DEF ListOf

\* Deleting requests keeps the type of deletes.
LEMMA DeletedType ==
  ASSUME deletes \in [Requests -> 0 .. 2], NEW R
  PROVE  Deleted(R) \in [Requests -> 0 .. 2]
  BY SMT DEF Deleted

\* clearNode() leaves an entry.
LEMMA EmptyType == EmptyEntry \in Entry
  BY Zenon DEF EmptyEntry, Entry, ReqOrNull

\* A push leaves an entry that stores the connection and is not available.
LEMMA StoreType ==
  ASSUME NEW s \in Slots, pool[s] \in Entry, NEW k \in Kinds,
         NEW o \in ReqOrNull, NEW c \in ReqOrNull
  PROVE  /\ Store(s, k, o, c) \in Entry
         /\ Store(s, k, o, c).status = Active(k)
         /\ Store(s, k, o, c).conn = c
         /\ Store(s, k, o, c).request = o
         /\ ~Store(s, k, o, c).canPick
<1>1. Store(s, k, o, c) \in Entry
  BY Zenon DEF Store, Entry, ReqOrNull, Active
<1>2. QED
  BY <1>1, SMT DEF Store, Entry

\* The timer leaves an entry that stores nothing but keeps its request.
LEMMA ExpiredType ==
  ASSUME NEW e \in Entry, NEW b \in BOOLEAN
  PROVE  /\ Expired(e, b) \in Entry
         /\ Expired(e, b).status = "ToBeCreated"
         /\ Expired(e, b).request = e.request
<1>1. Expired(e, b) \in Entry
  BY Zenon DEF Expired, Entry, ReqOrNull
<1>2. QED
  BY <1>1, SMT DEF Expired, Entry

\* The end of a task leaves a node, with its connection.
LEMMA EndedType ==
  ASSUME NEW r \in Requests, req[r] \in Node
  PROVE  /\ Ended(r) \in Node
         /\ Ended(r).ssl = req[r].ssl /\ Ended(r).fd = req[r].fd
         /\ ~Ended(r).busy
         /\ Ended(r).life = IF req[r].life = "running" THEN "finished" ELSE req[r].life
<1>1. Ended(r) \in Node
  BY Zenon DEF Ended, Node
<1>2. QED
  BY <1>1, SMT DEF Ended, Node

(***************************************************************************)
(* Steps that take and store no connection, and steps that store one.      *)
(***************************************************************************)
\* What Connections says is kept while entries and requests only lose.
LEMMA QuietStep ==
  ASSUME Connections,
         \A t \in Slots : Keeps(t),
         \A r \in Requests : Settles(r)
  PROVE  /\ ExclusiveUse' /\ StoredOnce' /\ OwnerHasConn'
         /\ UnusedIsApart' /\ BusyIsWhereBorrowed'
         /\ (\A t \in Slots : Withholds(t)) => AvailableIsFree'
<1>1. ExclusiveUse'
  BY SMT DEF Connections, ExclusiveUse, Settles
<1>2. \A s : (s \in Stored => s \in Slots) /\ (s \in Stored' => s \in Slots)
  BY StoredIs
<1>3. StoredOnce'
  BY <1>2, Zenon DEF Connections, StoredOnce, Keeps
<1>4. OwnerHasConn'
  BY <1>2, SMT DEF Connections, OwnerHasConn, Keeps, Settles
<1>5. UnusedIsApart'
  <2> SUFFICES ASSUME NEW r \in Requests, Fresh(r)'
               PROVE  /\ req'[r].ssl = r /\ ~req'[r].busy
                      /\ \A s \in Slots : pool'[s].request # r
                      /\ \A s \in Stored' : pool'[s].conn # r
                      /\ \A q \in Requests : Holder(q)' => req'[q].ssl # r
    BY Zenon DEF UnusedIsApart, Fresh
  <2>1. /\ req[r].ssl = r /\ ~req[r].busy
        /\ \A s \in Slots : pool[s].request # r
        /\ \A s \in Stored : pool[s].conn # r
        /\ \A q \in Requests : Holder(q) => req[q].ssl # r
    BY Zenon DEF Connections, UnusedIsApart, Fresh, Settles
  <2>2. r # NoReq
    BY PoolAssumption
  <2>3. QED
    BY <2>1, <2>2, <1>2, SMT DEF Keeps, Settles
<1>6. BusyIsWhereBorrowed'
  BY <1>2, SMT DEF Connections, BusyIsWhereBorrowed, Keeps, Settles
<1>7. ASSUME \A t \in Slots : Withholds(t) PROVE AvailableIsFree'
  BY <1>2, <1>7, SMT DEF Connections, AvailableIsFree, Keeps, Withholds, Settles
<1>8. QED
  BY <1>1, <1>3, <1>4, <1>5, <1>6, <1>7

\* A push may store a connection that nobody works on and no other entry has.
LEMMA StoreStep ==
  ASSUME Connections,
         NEW s \in Slots, NEW o \in Requests, NEW c,
         \A r \in Requests : Settles(r),
         \A t \in Slots \ {s} : /\ Keeps(t) /\ Withholds(t)
                                /\ t \in Stored' => pool'[t].conn # c,
         pool'[s].conn = c, pool'[s].request = o, ~pool'[s].canPick,
         req'[o].ssl = c, req'[o].fd, ~req'[o].busy, ~Fresh(o)',
         \A r \in Requests : Fresh(r)' => r # c,
         \A r \in Requests : Holder(r)' /\ req'[r].busy => req'[r].ssl # c
  PROVE  Connections'
<1>1. ExclusiveUse'
  BY SMT DEF Connections, ExclusiveUse, Settles
<1>2. \A t : (t \in Stored => t \in Slots) /\ (t \in Stored' => t \in Slots)
  BY StoredIs
<1>3. StoredOnce'
  BY <1>2, SMT DEF Connections, StoredOnce, Keeps
<1>4. OwnerHasConn'
  BY <1>2, SMT DEF Connections, OwnerHasConn, Keeps, Settles
<1>5. UnusedIsApart'
  <2> SUFFICES ASSUME NEW r \in Requests, Fresh(r)'
               PROVE  /\ req'[r].ssl = r /\ ~req'[r].busy
                      /\ \A t \in Slots : pool'[t].request # r
                      /\ \A t \in Stored' : pool'[t].conn # r
                      /\ \A q \in Requests : Holder(q)' => req'[q].ssl # r
    BY Zenon DEF UnusedIsApart, Fresh
  <2>1. /\ req[r].ssl = r /\ ~req[r].busy
        /\ \A t \in Slots : pool[t].request # r
        /\ \A t \in Stored : pool[t].conn # r
        /\ \A q \in Requests : Holder(q) => req[q].ssl # r
    BY Zenon DEF Connections, UnusedIsApart, Fresh, Settles
  <2>2. r # NoReq
    BY PoolAssumption
  <2>3. QED
    BY <2>1, <2>2, <1>2, SMT DEF Keeps, Settles
<1>6. BusyIsWhereBorrowed'
  BY <1>2, SMT DEF Connections, BusyIsWhereBorrowed, Keeps, Settles
<1>7. AvailableIsFree'
  BY <1>2, SMT DEF Connections, AvailableIsFree, Keeps, Withholds, Settles
<1>8. QED
  BY <1>1, <1>3, <1>4, <1>5, <1>6, <1>7 DEF Connections

\* An entry that is left alone, or cleared, keeps what it stores.
LEMMA KeepsIs ==
  ASSUME NEW t \in Slots,
         \/ pool'[t] = pool[t]
         \/ pool'[t] = EmptyEntry
         \/ /\ pool'[t].status = "ToBeCreated"
            /\ pool'[t].request \in {pool[t].request, NoReq}
         \/ /\ pool'[t].status = pool[t].status
            /\ pool'[t].conn = pool[t].conn
            /\ pool'[t].request = pool[t].request
            /\ pool'[t].canPick => pool[t].canPick
  PROVE  Keeps(t) /\ Withholds(t)
<1>1. EmptyEntry.status = "ToBeCreated" /\ EmptyEntry.request = NoReq
  BY SMT DEF EmptyEntry
<1>2. QED
  BY <1>1, StoredIs, ClearedIs, SMT DEF Keeps, Withholds

\* A request that is left alone settles.
LEMMA SettlesIs ==
  ASSUME NEW r, req'[r] = req[r]
  PROVE  Settles(r)
  BY Zenon DEF Settles, Holder, Fresh

\* LinkedIsUnused is kept unless the entry or the request of linked gain.
LEMMA LinkedStep ==
  ASSUME LinkedIsUnused, pc' = "finish" => pc = "finish", linked' = linked,
         \A t \in Slots : Keeps(t) /\ Withholds(t),
         \A r \in Requests : Settles(r)
  PROVE  LinkedIsUnused'
<1> SUFFICES ASSUME pc = "finish", pc' = "finish"
             PROVE  LinkedIsUnused'
  BY Zenon DEF LinkedIsUnused
<1>1. \A s : (s \in Stored => s \in Slots) /\ (s \in Stored' => s \in Slots)
  BY StoredIs
<1>2. QED
  BY <1>1, SMT DEF LinkedIsUnused, Keeps, Withholds, Settles, Fresh

\* A quiet step keeps the invariant if it keeps the types and the two guards.
LEMMA QuietInvariant ==
  ASSUME PoolInvariant, TypeOK', OneAtATime',
         pc' = "finish" => pc = "finish", linked' = linked,
         \A t \in Slots : Keeps(t) /\ Withholds(t),
         \A r \in Requests : Settles(r)
  PROVE  PoolInvariant'
<1>1. Connections /\ LinkedIsUnused
  BY Zenon DEF PoolInvariant, Connections
<1>2. LinkedIsUnused'
  BY <1>1, LinkedStep
<1>3. QED
  BY <1>1, <1>2, QuietStep, Zenon DEF PoolInvariant

\* A step that leaves every request alone.
LEMMA SameRequests ==
  ASSUME PoolInvariant, UNCHANGED <<req, starter, release>>
  PROVE  OneAtATime' /\ \A r \in Requests : Settles(r)
  BY SettlesIs, Zenon DEF PoolInvariant, OneAtATime

(***************************************************************************)
(* The pool's own thread.                                                  *)
(***************************************************************************)
\* The timer only empties entries.
LEMMA TickStep == PoolInvariant /\ Tick => PoolInvariant'
<1> SUFFICES ASSUME PoolInvariant, Tick PROVE PoolInvariant'
  OBVIOUS
<1>1. PICK again, token, dead : Expire(again, token, dead)
  BY Zenon DEF Tick
<1>2. pool' = [s \in Slots |->
                 IF s \in again THEN Expired(pool[s], TRUE)
                 ELSE IF s \in token \union dead THEN Expired(pool[s], FALSE)
                 ELSE pool[s]]
  BY <1>1 DEF Expire
<1>3. TypeOK
  BY DEF PoolInvariant
<1>4. ASSUME NEW s \in Slots
      PROVE  /\ pool'[s] \in Entry
             /\ \/ pool'[s] = pool[s]
                \/ /\ pool'[s].status = "ToBeCreated"
                   /\ pool'[s].request = pool[s].request
  <2>1. pool[s] \in Entry /\ TRUE \in BOOLEAN /\ FALSE \in BOOLEAN
    BY <1>3, Zenon DEF TypeOK
  <2>2. \/ pool'[s] = Expired(pool[s], TRUE)
        \/ pool'[s] = Expired(pool[s], FALSE)
        \/ pool'[s] = pool[s]
    BY <1>2, Zenon
  <2>3. QED
    BY <2>1, <2>2, ExpiredType, Zenon
<1>5. TypeOK'
  <2>1. pool' \in [Slots -> Entry]
    BY <1>2, <1>4, Zenon
  <2>2. QED
    BY <1>3, <2>1, Zenon DEF TypeOK, Tick, ReqOrNull
<1>6. \A t \in Slots : Keeps(t) /\ Withholds(t)
  BY <1>4, KeepsIs
<1>7. QED
  BY <1>5, <1>6, SameRequests, QuietInvariant, Zenon DEF Tick

\* The sweep unmarks an entry.
LEMMA SweepStep == PoolInvariant /\ Sweep => PoolInvariant'
<1> SUFFICES ASSUME PoolInvariant, Sweep PROVE PoolInvariant'
  OBVIOUS
<1>1. TypeOK
  BY DEF PoolInvariant
<1>2. CASE UNCHANGED pool /\ pc' = "timer" /\ UNCHANGED cursor
  <2>1. TypeOK'
    BY <1>1, <1>2, SMT DEF TypeOK, Sweep
  <2>2. \A t \in Slots : Keeps(t) /\ Withholds(t)
    BY <1>2, KeepsIs
  <2>3. QED
    BY <1>2, <2>1, <2>2, SameRequests, QuietInvariant, Zenon DEF Sweep
<1>3. ASSUME NEW s \in Marked, cursor' = s,
             pool' = [pool EXCEPT ![s] = [@ EXCEPT !.shouldRelease = FALSE,
                                                   !.shouldPreconnect = FALSE]],
             pc' = IF pool[s].shouldPreconnect THEN "link" ELSE "delete"
      PROVE  PoolInvariant'
  <2>1. s \in Slots /\ pool[s] \in Entry /\ pool \in [Slots -> Entry]
    BY <1>1, Zenon DEF Marked, TypeOK
  <2> DEFINE e == [pool[s] EXCEPT !.shouldRelease = FALSE, !.shouldPreconnect = FALSE]
  <2>2. e \in Entry
    BY <2>1, Zenon DEF Entry
  <2>3. /\ e.status = pool[s].status /\ e.conn = pool[s].conn
        /\ e.request = pool[s].request /\ e.canPick = pool[s].canPick
    BY <2>1, SMT DEF Entry
  <2>4. pool' = [pool EXCEPT ![s] = e]
    BY <1>3
  <2> HIDE DEF e
  <2>5. TypeOK'
    <3>1. pool' \in [Slots -> Entry]
      BY <2>1, <2>2, <2>4, Zenon
    <3>2. pc' \in {"link", "delete"} /\ cursor' \in Slots
      BY <1>3, <2>1, Zenon
    <3>3. QED
      BY <1>1, <3>1, <3>2, Zenon DEF TypeOK, Sweep, ReqOrNull
  <2>6. \A t \in Slots : Keeps(t) /\ Withholds(t)
    BY <2>1, <2>3, <2>4, KeepsIs, SMT
  <2>7. pc' # "finish"
    BY <1>3
  <2>8. QED
    BY <2>5, <2>6, <2>7, SameRequests, QuietInvariant, Zenon DEF Sweep
<1>4. QED
  BY <1>2, <1>3, Zenon DEF Sweep

\* A request that is deleted, or given up before it started, settles.
LEMMA LastSettles ==
  ASSUME NEW r \in Requests, req[r] \in Node,
         req'[r] = [req[r] EXCEPT !.life = "gone"]
  PROVE  Settles(r) /\ req'[r] \in Node
<1>1. req'[r] \in Node
  BY Zenon DEF Node
<1>2. QED
  BY <1>1, SMT DEF Settles, Holder, Fresh, Node

\* Deleting requests that neither start nor release keeps the guards.
LEMMA LastGuards ==
  ASSUME PoolInvariant, UNCHANGED <<starter, release>>,
         \A r \in Requests : \/ req'[r] = req[r]
                             \/ /\ req'[r] = [req[r] EXCEPT !.life = "gone"]
                                /\ r # starter /\ r # release.by
  PROVE  OneAtATime'
<1>1. /\ req \in [Requests -> Node] /\ starter \in ReqOrNull
      /\ release.by \in ReqOrNull
  BY SMT DEF PoolInvariant, TypeOK, Release
<1>2. ASSUME NEW r \in Requests, req'[r] = [req[r] EXCEPT !.life = "gone"]
      PROVE  req'[r].life = "gone"
  BY <1>1, <1>2, SMT DEF Node
<1>3. /\ starter # NoReq => req[starter].life = "starting"
      /\ release.by # NoReq => req[release.by].life = "releasing"
      /\ \A r \in Requests : req[r].life = "releasing" => release.by = r
  BY Zenon DEF PoolInvariant, OneAtATime
<1>4. starter # NoReq => req'[starter].life = "starting"
  BY <1>1, <1>3, Zenon DEF ReqOrNull
<1>5. release.by # NoReq => req'[release.by].life = "releasing"
  BY <1>1, <1>3, Zenon DEF ReqOrNull
<1>6. \A r \in Requests : req'[r].life = "releasing" => release.by = r
  <2>1. \A r \in Requests : req'[r] = req[r] \/ req'[r].life = "gone"
    BY <1>2, Zenon
  <2>2. QED
    BY <1>3, <2>1, SMT
<1>7. QED
  BY <1>4, <1>5, <1>6, Zenon DEF OneAtATime

\* One request is deleted, that neither starts nor is being released.
LEMMA DeleteOne ==
  ASSUME PoolInvariant, UNCHANGED <<starter, release>>,
         NEW n \in Requests, n # starter, n # release.by,
         req' = [req EXCEPT ![n].life = "gone"], deletes' = Deleted({n})
  PROVE  /\ req' \in [Requests -> Node] /\ deletes' \in [Requests -> 0 .. 2]
         /\ OneAtATime' /\ \A r \in Requests : Settles(r)
<1>1. TypeOK
  BY DEF PoolInvariant
<1>2. \A r \in Requests : req[r] \in Node
  BY <1>1, Zenon DEF TypeOK
<1>3. \A r \in Requests : \/ req'[r] = req[r]
                          \/ r = n /\ req'[r] = [req[r] EXCEPT !.life = "gone"]
  BY <1>1, SMT DEF TypeOK
<1>4. \A r \in Requests : Settles(r) /\ req'[r] \in Node
  BY <1>2, <1>3, SettlesIs, LastSettles, Zenon
<1>5. req' \in [Requests -> Node]
  <2>1. [req[n] EXCEPT !.life = "gone"] \in Node
    BY <1>2, Zenon DEF Node
  <2>2. req' = [req EXCEPT ![n] = [req[n] EXCEPT !.life = "gone"]]
    OBVIOUS
  <2>3. QED
    BY <1>1, <2>1, <2>2, Zenon DEF TypeOK
<1>6. deletes' \in [Requests -> 0 .. 2]
  BY <1>1, DeletedType DEF TypeOK
<1>7. OneAtATime'
  BY <1>3, LastGuards, Zenon
<1>8. QED
  BY <1>4, <1>5, <1>6, <1>7

\* preconnectNodeByRequest gives up its new request.
LEMMA LinkFailsStep == PoolInvariant /\ LinkFails => PoolInvariant'
<1> SUFFICES ASSUME PoolInvariant, LinkFails PROVE PoolInvariant'
  OBVIOUS
<1>1. TypeOK /\ pool' = pool /\ pc' = "delete"
  BY Zenon DEF PoolInvariant, LinkFails
<1>2. \A t \in Slots : Keeps(t) /\ Withholds(t)
  BY <1>1, KeepsIs
<1>3. CASE UNCHANGED <<req, deletes>>
  <2>1. TypeOK'
    BY <1>1, <1>3, Zenon DEF TypeOK, LinkFails, ReqOrNull
  <2>2. QED
    BY <1>1, <1>2, <1>3, <2>1, SameRequests, QuietInvariant, Zenon DEF LinkFails
<1>4. ASSUME NEW n \in Requests, req[n].life = "new", release.by = NoReq,
             req' = [req EXCEPT ![n].life = "gone"], deletes' = Deleted({n})
      PROVE  PoolInvariant'
  <2>1. n # starter /\ n # release.by
    BY <1>4, PoolAssumption, SMT DEF PoolInvariant, OneAtATime
  <2>2. /\ req' \in [Requests -> Node] /\ deletes' \in [Requests -> 0 .. 2]
        /\ OneAtATime' /\ \A r \in Requests : Settles(r)
    BY <1>4, <2>1, DeleteOne, Zenon DEF LinkFails
  <2>3. TypeOK'
    BY <1>1, <2>2, Zenon DEF TypeOK, LinkFails, ReqOrNull
  <2>4. QED
    BY <1>1, <1>2, <2>2, <2>3, QuietInvariant, Zenon DEF LinkFails
<1>5. QED
  BY <1>3, <1>4, Zenon DEF LinkFails

\* The sweep deletes the old request of its entry.
LEMMA SweepDeleteStep == PoolInvariant /\ SweepDelete => PoolInvariant'
<1> SUFFICES ASSUME PoolInvariant, SweepDelete PROVE PoolInvariant'
  OBVIOUS
<1>1. /\ TypeOK /\ pool' = pool /\ pc' = "clear" /\ cursor \in Slots
      /\ release.by = NoReq
  BY Zenon DEF PoolInvariant, SweepDelete, TypeOK
<1>2. \A t \in Slots : Keeps(t) /\ Withholds(t)
  BY <1>1, KeepsIs
<1>3. CASE UNCHANGED <<req, deletes>>
  <2>1. TypeOK'
    BY <1>1, <1>3, Zenon DEF TypeOK, SweepDelete, ReqOrNull
  <2>2. QED
    BY <1>1, <1>2, <1>3, <2>1, SameRequests, QuietInvariant, Zenon DEF SweepDelete
<1>4. ASSUME NEW old, old = pool[cursor].request, old # NoReq,
             deletes' = Deleted({old}), req' = [req EXCEPT ![old].life = "gone"]
      PROVE  PoolInvariant'
  <2>1. old \in Requests
    BY <1>1, <1>4, SMT DEF TypeOK, Entry, ReqOrNull
  <2>2. old # starter /\ old # release.by
    BY <1>1, <1>4, <2>1, PoolAssumption, SMT
       DEF PoolInvariant, OneAtATime, UnusedIsApart
  <2>3. /\ req' \in [Requests -> Node] /\ deletes' \in [Requests -> 0 .. 2]
        /\ OneAtATime' /\ \A r \in Requests : Settles(r)
    BY <1>4, <2>1, <2>2, DeleteOne, Zenon DEF SweepDelete
  <2>4. TypeOK'
    BY <1>1, <2>3, Zenon DEF TypeOK, SweepDelete, ReqOrNull
  <2>5. QED
    BY <1>1, <1>2, <2>3, <2>4, QuietInvariant, Zenon DEF SweepDelete
<1>5. QED
  BY <1>3, <1>4, Zenon DEF SweepDelete

\* clearNode() of the sweep.
LEMMA SweepClearStep == PoolInvariant /\ SweepClear => PoolInvariant'
<1> SUFFICES ASSUME PoolInvariant, SweepClear PROVE PoolInvariant'
  OBVIOUS
<1>1. TypeOK
  BY DEF PoolInvariant
<1>2. cursor \in Slots /\ pool \in [Slots -> Entry] /\ pool[cursor] \in Entry
  BY <1>1, Zenon DEF TypeOK
<1>3. PICK e : /\ pool' = [pool EXCEPT ![cursor] = e]
               /\ pc' \in {"sweep", "wipe"}
               /\ \/ e = EmptyEntry
                  \/ e = [pool[cursor] EXCEPT !.status = "ToBeCreated",
                            !.conn = NoReq, !.canPick = FALSE, !.request = NoReq]
  BY Zenon DEF SweepClear
<1>4. e \in Entry
  BY <1>2, <1>3, EmptyType, Zenon DEF Entry, ReqOrNull
<1>5. e = EmptyEntry \/ (e.status = "ToBeCreated" /\ e.request = NoReq)
  <2>1. CASE e = [pool[cursor] EXCEPT !.status = "ToBeCreated",
                    !.conn = NoReq, !.canPick = FALSE, !.request = NoReq]
    BY <1>2, <2>1, SMT DEF Entry
  <2>2. CASE e = EmptyEntry
    BY <2>2
  <2>3. QED
    BY <1>3, <2>1, <2>2
<1>6. TypeOK'
  <2>1. pool' \in [Slots -> Entry]
    BY <1>2, <1>3, <1>4, Zenon
  <2>2. QED
    BY <1>1, <1>3, <2>1, Zenon DEF TypeOK, SweepClear, ReqOrNull
<1>7. \A t \in Slots : Keeps(t) /\ Withholds(t)
  <2>1. pool' = [pool EXCEPT ![cursor] = e]
    BY <1>3
  <2>2. \A t \in Slots : pool'[t] = pool[t] \/ (t = cursor /\ pool'[t] = e)
    BY <1>2, <2>1, Zenon
  <2>3. QED
    BY <1>5, <2>2, KeepsIs, Zenon
<1>8. pc' # "finish"
  BY <1>3
<1>9. QED
  BY <1>6, <1>7, <1>8, SameRequests, QuietInvariant, Zenon DEF SweepClear

\* clearNode() of the sweep, the fields it sets last.
LEMMA SweepWipeStep == PoolInvariant /\ SweepWipe => PoolInvariant'
<1> SUFFICES ASSUME PoolInvariant, SweepWipe PROVE PoolInvariant'
  OBVIOUS
<1>1. TypeOK
  BY DEF PoolInvariant
<1>2. cursor \in Slots /\ pool \in [Slots -> Entry] /\ pool[cursor] \in Entry
  BY <1>1, Zenon DEF TypeOK
<1>3. PICK e : /\ pool' = [pool EXCEPT ![cursor] = e]
               /\ e = [pool[cursor] EXCEPT !.isAbnormal = FALSE, !.cur = NoReq,
                         !.curInvalid = FALSE, !.shouldRelease = FALSE,
                         !.shouldPreconnect = FALSE]
  BY Zenon DEF SweepWipe
<1>4. e \in Entry
  BY <1>2, <1>3, Zenon DEF Entry, ReqOrNull
<1>5. /\ e.status = pool[cursor].status /\ e.conn = pool[cursor].conn
      /\ e.request = pool[cursor].request /\ e.canPick = pool[cursor].canPick
  BY <1>2, <1>3, SMT DEF Entry
<1>6. TypeOK'
  <2>1. pool' \in [Slots -> Entry]
    BY <1>2, <1>3, <1>4, Zenon
  <2>2. QED
    BY <1>1, <2>1, Zenon DEF TypeOK, SweepWipe, ReqOrNull
<1>7. \A t \in Slots : Keeps(t) /\ Withholds(t)
  <2>1. pool' = [pool EXCEPT ![cursor] = e]
    BY <1>3
  <2>2. \A t \in Slots : pool'[t] = pool[t] \/ (t = cursor /\ pool'[t] = e)
    BY <1>2, <2>1, Zenon
  <2>3. QED
    BY <1>5, <2>2, KeepsIs, Zenon
<1>8. pc' # "finish"
  BY DEF SweepWipe
<1>9. QED
  BY <1>6, <1>7, <1>8, SameRequests, QuietInvariant, Zenon DEF SweepWipe

\* ~ConnectedPool deletes the owners of all entries.
LEMMA DestroyStep == PoolInvariant /\ Destroy => PoolInvariant'
<1> SUFFICES ASSUME PoolInvariant, Destroy PROVE PoolInvariant'
  OBVIOUS
<1> DEFINE left == {pool[s].request : s \in Slots} \ {NoReq}
<1>1. /\ TypeOK /\ pc' = "stopped"
      /\ req' = [r \in Requests |->
                   IF r \in left THEN [req[r] EXCEPT !.life = "gone"] ELSE req[r]]
      /\ deletes' = Deleted(left)
      /\ pool' = [s \in Slots |-> EmptyEntry]
  BY DEF PoolInvariant, Destroy, Gone
<1>2. \A t \in Slots : Keeps(t) /\ Withholds(t)
  BY <1>1, KeepsIs
<1>3. \A r \in Requests : req[r] \in Node /\ req[r].life # "releasing"
  BY <1>1, SMT DEF TypeOK, Destroy
<1>4. \A r \in Requests : \/ req'[r] = req[r]
                          \/ r \in left /\ req'[r] = [req[r] EXCEPT !.life = "gone"]
  BY <1>1, Zenon
<1>5. \A r \in Requests : Settles(r) /\ req'[r] \in Node
  BY <1>3, <1>4, SettlesIs, LastSettles, Zenon
<1>6. \A r \in Requests : r \in left => r # starter /\ r # release.by
  <2>1. SUFFICES ASSUME NEW s \in Slots, pool[s].request \in Requests
                 PROVE  pool[s].request # starter /\ pool[s].request # release.by
    BY Zenon
  <2>2. QED
    BY <1>3, <2>1, PoolAssumption, SMT DEF PoolInvariant, OneAtATime, UnusedIsApart
<1>7. OneAtATime'
  BY <1>4, <1>6, LastGuards, Zenon DEF Destroy
<1>8. TypeOK'
  <2>1. req' \in [Requests -> Node]
    BY <1>1, <1>5, Zenon
  <2>2. deletes' \in [Requests -> 0 .. 2]
    BY <1>1, DeletedType DEF TypeOK
  <2>3. pool' \in [Slots -> Entry]
    BY <1>1, EmptyType, Zenon
  <2>4. QED
    BY <1>1, <2>1, <2>2, <2>3, Zenon DEF TypeOK, Destroy, ReqOrNull
<1>9. QED
  BY <1>1, <1>2, <1>5, <1>7, <1>8, QuietInvariant, Zenon DEF Destroy

\* One request changes.
LEMMA OneRequest ==
  ASSUME TypeOK, NEW n \in Requests, NEW v \in Node, req' = [req EXCEPT ![n] = v]
  PROVE  /\ req' \in [Requests -> Node]
         /\ \A r \in Requests : IF r = n THEN req'[r] = v ELSE req'[r] = req[r]
  BY Zenon DEF TypeOK

\* One entry changes.
LEMMA OneEntry ==
  ASSUME TypeOK, NEW s \in Slots, NEW e \in Entry, pool' = [pool EXCEPT ![s] = e]
  PROVE  /\ pool' \in [Slots -> Entry]
         /\ \A t \in Slots : IF t = s THEN pool'[t] = e ELSE pool'[t] = pool[t]
  BY Zenon DEF TypeOK

\* preconnectNodeByRequest stores the connection of a new request, or leaves it to
\* nobody.
LEMMA LinkStep == PoolInvariant /\ Link => PoolInvariant'
<1> SUFFICES ASSUME PoolInvariant, Link PROVE PoolInvariant'
  OBVIOUS
<1>1. /\ TypeOK /\ Connections /\ pc = "link" /\ starter = NoReq
      /\ UNCHANGED <<idle, starter, release, cursor, deletes>> /\ inited' = TRUE
  BY Zenon DEF PoolInvariant, Connections, Link
<1>2. PICK n \in Requests :
        /\ req[n].life = "new"
        /\ \/ /\ req' = [req EXCEPT ![n] = [@ EXCEPT !.life = "orphan", !.fd = TRUE]]
              /\ pc' = "delete"
              /\ UNCHANGED <<pool, linked>>
           \/ \E s \in FreeSlots(Preconnected) :
                /\ pool' = [pool EXCEPT ![s] = Store(s, Preconnected, n, n)]
                /\ req' = [req EXCEPT ![n] = [@ EXCEPT !.life = "pooled", !.fd = TRUE,
                                                       !.index = s[2]]]
                /\ linked' = n
                /\ pc' = "finish"
  BY Zenon DEF Link
<1>3. req[n] \in Node /\ req[n].ssl = n /\ ~req[n].busy /\ Fresh(n) /\ n # NoReq
  <2>1. req[n].life = "new"
    BY <1>2
  <2>2. QED
    BY <1>1, <2>1, PoolAssumption, SMT DEF TypeOK, Connections, UnusedIsApart, Fresh
<1>4. ASSUME NEW v \in Node, req' = [req EXCEPT ![n] = v], v.life \in {"orphan", "pooled"},
             v.ssl = n, v.fd, ~v.busy
      PROVE  /\ req' \in [Requests -> Node] /\ req'[n] = v
             /\ \A r \in Requests : Settles(r) /\ (r # n => req'[r] = req[r])
             /\ OneAtATime'
  <2>1. /\ req' \in [Requests -> Node] /\ req'[n] = v
        /\ \A r \in Requests : r # n => req'[r] = req[r]
    BY <1>1, <1>4, OneRequest
  <2>2. Settles(n)
    BY <1>3, <1>4, <2>1, SMT DEF Settles, Holder, Fresh
  <2>3. OneAtATime'
    <3>1. v.life # "releasing" /\ req[n].life # "releasing" /\ starter = NoReq
      BY <1>1, <1>3, <1>4, SMT DEF Fresh
    <3>2. starter' = starter /\ release' = release /\ release.by \in ReqOrNull
      BY <1>1, SMT DEF TypeOK, Release
    <3>3. OneAtATime
      BY DEF PoolInvariant
    <3>4. QED
      BY <2>1, <3>1, <3>2, <3>3, SMT DEF OneAtATime, ReqOrNull
  <2>4. QED
    BY <2>1, <2>2, <2>3, SettlesIs, Zenon
<1>5. ASSUME req' = [req EXCEPT ![n] = [@ EXCEPT !.life = "orphan", !.fd = TRUE]],
             pc' = "delete", UNCHANGED <<pool, linked>>
      PROVE  PoolInvariant'
  <2> DEFINE v == [req[n] EXCEPT !.life = "orphan", !.fd = TRUE]
  <2>1. v \in Node
    BY <1>3, Zenon DEF Node
  <2>2. v.life \in {"orphan", "pooled"} /\ v.ssl = n /\ v.fd /\ ~v.busy
    BY <1>3, SMT DEF Node
  <2>3. req' = [req EXCEPT ![n] = v]
    BY <1>5
  <2> HIDE DEF v
  <2>4. /\ req' \in [Requests -> Node] /\ OneAtATime'
        /\ \A r \in Requests : Settles(r)
    BY <1>4, <2>1, <2>2, <2>3, Zenon
  <2>5. TypeOK'
    BY <1>1, <1>5, <2>4, Zenon DEF TypeOK, ReqOrNull
  <2>6. \A t \in Slots : Keeps(t) /\ Withholds(t)
    BY <1>5, KeepsIs
  <2>7. pc' # "finish"
    BY <1>5
  <2>8. QED
    BY <1>5, <2>4, <2>5, <2>6, <2>7, QuietInvariant, Zenon
<1>6. ASSUME NEW s \in FreeSlots(Preconnected),
             pool' = [pool EXCEPT ![s] = Store(s, Preconnected, n, n)],
             req' = [req EXCEPT ![n] = [@ EXCEPT !.life = "pooled", !.fd = TRUE,
                                                 !.index = s[2]]],
             linked' = n, pc' = "finish"
      PROVE  PoolInvariant'
  <2> DEFINE v == [req[n] EXCEPT !.life = "pooled", !.fd = TRUE, !.index = s[2]]
             e == Store(s, Preconnected, n, n)
  <2>1. s \in Slots /\ s[2] \in Index /\ pool[s] \in Entry /\ n \in ReqOrNull
    BY <1>1, SMT DEF FreeSlots, TypeOK, ReqOrNull
  <2>2. v \in Node
    BY <1>3, <2>1, Zenon DEF Node
  <2>3. v.life = "pooled" /\ v.ssl = n /\ v.fd /\ ~v.busy
    BY <1>3, SMT DEF Node
  <2>4. req' = [req EXCEPT ![n] = v]
    BY <1>6
  <2>5. e \in Entry /\ e.conn = n /\ e.request = n /\ ~e.canPick
    <3>1. Preconnected \in Kinds
      OBVIOUS
    <3>2. QED
      BY <2>1, <3>1, StoreType
  <2>6. pool' = [pool EXCEPT ![s] = e]
    BY <1>6
  <2> HIDE DEF v, e
  <2>7. /\ req' \in [Requests -> Node] /\ OneAtATime' /\ req'[n] = v
        /\ \A r \in Requests : Settles(r) /\ (r # n => req'[r] = req[r])
    BY <1>4, <2>2, <2>3, <2>4, Zenon
  <2>8. /\ pool' \in [Slots -> Entry] /\ pool'[s] = e
        /\ \A t \in Slots : t # s => pool'[t] = pool[t]
    BY <1>1, <2>1, <2>5, <2>6, OneEntry
  <2>9. TypeOK'
    BY <1>1, <1>6, <2>7, <2>8, Zenon DEF TypeOK, ReqOrNull
  <2>10. \A t \in Slots \ {s} : /\ Keeps(t) /\ Withholds(t)
                                /\ t \in Stored' => pool'[t].conn # n
    <3>1. \A t \in Slots \ {s} : Keeps(t) /\ Withholds(t)
      BY <2>8, KeepsIs
    <3>2. \A t \in Stored : pool[t].conn # n
      BY <1>1, <1>3, Zenon DEF Connections, UnusedIsApart, Fresh
    <3>3. QED
      BY <3>1, <3>2, Zenon DEF Keeps
  <2>11. \A r \in Requests : Holder(r)' => req'[r].ssl # n
    <3>1. \A r \in Requests : Holder(r) => req[r].ssl # n
      BY <1>1, <1>3, Zenon DEF Connections, UnusedIsApart, Fresh
    <3>2. QED
      BY <3>1, <2>7, Zenon DEF Settles
  <2>12. ~Fresh(n)' /\ req'[n].ssl = n /\ req'[n].fd /\ ~req'[n].busy
    BY <2>3, <2>7, SMT DEF Fresh
  <2>13. Connections'
    BY <1>1, <2>1, <2>5, <2>7, <2>8, <2>10, <2>11, <2>12, StoreStep, Zenon
  <2>14. LinkedIsUnused'
    BY <1>6, <2>5, <2>8, <2>10, <2>11, <2>12, StoredIs, SMT DEF LinkedIsUnused, Fresh
  <2>15. QED
    BY <2>7, <2>9, <2>13, <2>14, Zenon DEF PoolInvariant, Connections
<1>7. QED
  BY <1>2, <1>5, <1>6, Zenon

\* finishPushPreNode makes at most one entry available, one with r's connection.
LEMMA FinishPushIs ==
  ASSUME TypeOK, NEW r \in Requests, FinishPush(r)
  PROVE  /\ pool' \in [Slots -> Entry] /\ idle' \in [Kinds -> [Index -> Nat]]
         /\ \A t \in Slots : /\ Keeps(t)
                             /\ Withholds(t) \/ pool[t].conn = req[r].ssl
<1>1. CASE UNCHANGED <<pool, idle>>
  BY <1>1, KeepsIs, Zenon DEF TypeOK
<1>2. ASSUME NEW s \in Stored, SameConn(s, r),
             pool' = [pool EXCEPT ![s] = [@ EXCEPT !.canPick = TRUE, !.cur = NoReq,
                                                   !.curInvalid = FALSE]],
             idle' = [idle EXCEPT ![s[1]] = InsertInOrder(@, s[2])]
      PROVE  /\ pool' \in [Slots -> Entry] /\ idle' \in [Kinds -> [Index -> Nat]]
             /\ \A t \in Slots : /\ Keeps(t)
                                 /\ Withholds(t) \/ pool[t].conn = req[r].ssl
  <2> DEFINE e == [pool[s] EXCEPT !.canPick = TRUE, !.cur = NoReq, !.curInvalid = FALSE]
  <2>1. s \in Slots
    BY StoredIs
  <2>2. s[1] \in Kinds /\ s[2] \in Index /\ pool[s] \in Entry
    BY <2>1, SMT DEF TypeOK
  <2>3. e \in Entry
    BY <2>2, Zenon DEF Entry, ReqOrNull
  <2>4. /\ e.status = pool[s].status /\ e.conn = pool[s].conn
        /\ e.request = pool[s].request
    BY <2>2, SMT DEF Entry
  <2>5. pool' = [pool EXCEPT ![s] = e]
    BY <1>2
  <2> HIDE DEF e
  <2>6. /\ pool' \in [Slots -> Entry] /\ pool'[s] = e
        /\ \A t \in Slots : t # s => pool'[t] = pool[t]
    BY <2>1, <2>3, <2>5, OneEntry
  <2>7. idle' \in [Kinds -> [Index -> Nat]]
    <3>1. idle[s[1]] \in [Index -> Nat]
      BY <2>2, Zenon DEF TypeOK
    <3>2. InsertInOrder(idle[s[1]], s[2]) \in [Index -> Nat]
      BY <2>2, <3>1, ListTypes, PoolAssumption
    <3>3. QED
      BY <1>2, <2>2, <3>2, Zenon DEF TypeOK
  <2>8. \A t \in Slots : t # s => Keeps(t) /\ Withholds(t)
    BY <2>6, KeepsIs
  <2>9. Keeps(s) /\ pool[s].conn = req[r].ssl
    BY <1>2, <2>1, <2>4, <2>6, StoredIs, SMT DEF Keeps, SameConn
  <2>10. QED
    BY <2>6, <2>7, <2>8, <2>9, Zenon
<1>3. QED
  BY <1>1, <1>2, Zenon DEF FinishPush

\* preconnectNodeByRequest makes the connection it stored available.
LEMMA FinishLinkStep == PoolInvariant /\ FinishLink => PoolInvariant'
<1> SUFFICES ASSUME PoolInvariant, FinishLink PROVE PoolInvariant'
  OBVIOUS
<1>1. TypeOK /\ Connections /\ LinkedIsUnused
  BY Zenon DEF PoolInvariant, Connections
<1>2. /\ pc = "finish" /\ pc' = "delete" /\ FinishPush(linked) /\ linked' = NoReq
      /\ UNCHANGED <<inited, req, starter, release, cursor, deletes>>
  BY DEF FinishLink
<1>3. /\ linked \in Requests /\ req[linked].ssl = linked
      /\ \A r \in Requests : Holder(r) => req[r].ssl # linked
  BY <1>1, <1>2, Zenon DEF LinkedIsUnused
<1>4. /\ pool' \in [Slots -> Entry] /\ idle' \in [Kinds -> [Index -> Nat]]
      /\ \A t \in Slots : Keeps(t) /\ (Withholds(t) \/ pool[t].conn = linked)
  BY <1>1, <1>2, <1>3, FinishPushIs
<1>5. TypeOK'
  BY <1>1, <1>2, <1>4, Zenon DEF TypeOK, ReqOrNull
<1>6. OneAtATime' /\ \A r \in Requests : Settles(r)
  BY <1>2, SameRequests
<1>7. /\ ExclusiveUse' /\ StoredOnce' /\ OwnerHasConn'
      /\ UnusedIsApart' /\ BusyIsWhereBorrowed'
  BY <1>1, <1>4, <1>6, QuietStep
<1>8. AvailableIsFree'
  <2> SUFFICES ASSUME NEW t \in Stored', pool'[t].canPick,
                      NEW r \in Requests, Holder(r)'
               PROVE  req'[r].ssl # pool'[t].conn
    BY Zenon DEF AvailableIsFree
  <2>1. /\ t \in Stored /\ pool'[t].conn = pool[t].conn
        /\ pool[t].canPick \/ pool[t].conn = linked
    BY <1>4, StoredIs, Zenon DEF Keeps, Withholds
  <2>2. Holder(r) /\ req'[r].ssl = req[r].ssl
    BY <1>6, Zenon DEF Settles
  <2>3. QED
    BY <1>1, <1>3, <2>1, <2>2, Zenon DEF Connections, AvailableIsFree
<1>9. LinkedIsUnused'
  BY <1>2 DEF LinkedIsUnused
<1>10. QED
  BY <1>5, <1>6, <1>7, <1>8, <1>9 DEF PoolInvariant

\* What the pool's thread does keeps the invariant.
LEMMA PoolThreadStep == PoolInvariant /\ PoolThread => PoolInvariant'
  BY TickStep, SweepStep, LinkFailsStep, LinkStep, FinishLinkStep, SweepDeleteStep,
     SweepClearStep, SweepWipeStep, DestroyStep, Zenon DEF PoolThread

(***************************************************************************)
(* start().                                                                *)
(***************************************************************************)
\* start() begins with a request that nobody knows.
LEMMA BeginStartStep ==
  ASSUME PoolInvariant, NEW r \in Requests, BeginStart(r)
  PROVE  PoolInvariant'
<1>1. /\ TypeOK /\ Connections /\ OneAtATime /\ starter = NoReq /\ starter' = r
      /\ UNCHANGED <<inited, pool, idle, release, pc, cursor, linked, deletes>>
      /\ req[r].life = "new"
  BY Zenon DEF PoolInvariant, Connections, BeginStart
<1> DEFINE v == [req[r] EXCEPT !.life = "starting", !.from = Prestarted, !.held = TRUE]
<1>2. req[r] \in Node /\ ~req[r].busy
  BY <1>1, SMT DEF TypeOK, Connections, UnusedIsApart
<1>3. v \in Node
  BY <1>2, Zenon DEF Node
<1>4. v.life = "starting" /\ v.ssl = req[r].ssl /\ v.fd = req[r].fd /\ v.busy = req[r].busy
  BY <1>2, SMT DEF Node
<1>5. req' = [req EXCEPT ![r] = v]
  BY DEF BeginStart
<1> HIDE DEF v
<1>6. /\ req' \in [Requests -> Node] /\ req'[r] = v
      /\ \A q \in Requests : q # r => req'[q] = req[q]
  BY <1>1, <1>3, <1>5, OneRequest
<1>7. Settles(r)
  BY <1>1, <1>2, <1>4, <1>6, SMT DEF Settles, Holder, Fresh
<1>8. \A q \in Requests : Settles(q)
  BY <1>6, <1>7, SettlesIs, Zenon
<1>9. \A t \in Slots : Keeps(t) /\ Withholds(t)
  BY <1>1, KeepsIs
<1>10. TypeOK'
  BY <1>1, <1>6, Zenon DEF TypeOK, ReqOrNull
<1>11. OneAtATime'
  <2>1. release.by \in ReqOrNull
    BY <1>1, SMT DEF TypeOK, Release
  <2>2. QED
    BY <1>1, <1>4, <1>6, <2>1, SMT DEF OneAtATime, ReqOrNull
<1>12. QED
  BY <1>1, <1>8, <1>9, <1>10, <1>11, QuietInvariant, Zenon

\* A request that gets a connection c which no other request uses, and which no
\* entry stores but the one that c is taken from, leaves the invariant true.
LEMMA AcquireStep ==
  ASSUME PoolInvariant, TypeOK', NEW r \in Requests, starter = r, starter' = NoReq,
         UNCHANGED <<release, pc, linked>>,
         \A q \in Requests : q # r => req'[q] = req[q],
         NEW c, req'[r].life = "running", req'[r].ssl = c, req'[r].fd, req'[r].busy,
         \A q \in Requests : Holder(q) => req[q].ssl # c,
         \A q \in Requests : Fresh(q) /\ q # r => q # c,
         pc = "finish" => c # linked,
         \A t \in Slots : Keeps(t) /\ Withholds(t),
         \A t \in Stored' : pool'[t].conn = c =>
           c # r /\ ~pool'[t].canPick /\ t = <<req'[r].from, req'[r].index>>
  PROVE  PoolInvariant'
<1>1. TypeOK /\ Connections /\ OneAtATime /\ LinkedIsUnused
  BY Zenon DEF PoolInvariant, Connections
<1>2. req[r].life = "starting" /\ r # NoReq /\ Fresh(r) /\ ~Holder(r) /\ Holder(r)' /\ ~Fresh(r)'
  BY <1>1, PoolAssumption, SMT DEF OneAtATime, Fresh, Holder
<1>3. \A q \in Requests : q # r => (Holder(q)' <=> Holder(q)) /\ (Fresh(q)' <=> Fresh(q))
  BY Zenon DEF Holder, Fresh
<1>4. \A t : (t \in Stored => t \in Slots) /\ (t \in Stored' => t \in Slots)
  BY StoredIs
<1>5. ExclusiveUse'
  BY <1>1, <1>3, SMT DEF Connections, ExclusiveUse
<1>6. StoredOnce'
  BY <1>1, <1>4, SMT DEF Connections, StoredOnce, Keeps
<1>7. OwnerHasConn'
  <2> SUFFICES ASSUME NEW t \in Stored'
               PROVE  LET o == pool'[t].request
                      IN /\ o \in Requests /\ req'[o].ssl = pool'[t].conn
                         /\ req'[o].fd /\ ~req'[o].busy
    BY Zenon DEF OwnerHasConn
  <2>1. /\ t \in Slots /\ t \in Stored /\ pool'[t].conn = pool[t].conn
        /\ pool'[t].request = pool[t].request
    BY <1>4, Zenon DEF Keeps
  <2>2. pool[t].request # r
    BY <1>1, <1>2, <2>1, Zenon DEF Connections, UnusedIsApart, Fresh
  <2>3. QED
    BY <1>1, <2>1, <2>2, SMT DEF Connections, OwnerHasConn
<1>8. AvailableIsFree'
  BY <1>1, <1>3, <1>4, SMT DEF Connections, AvailableIsFree, Keeps, Withholds
<1>9. UnusedIsApart'
  <2> SUFFICES ASSUME NEW q \in Requests, Fresh(q)'
               PROVE  /\ req'[q].ssl = q /\ ~req'[q].busy
                      /\ \A t \in Slots : pool'[t].request # q
                      /\ \A t \in Stored' : pool'[t].conn # q
                      /\ \A p \in Requests : Holder(p)' => req'[p].ssl # q
    BY Zenon DEF UnusedIsApart, Fresh
  <2>1. q # r /\ q # NoReq /\ Fresh(q)
    BY <1>2, <1>3, PoolAssumption
  <2>2. /\ req[q].ssl = q /\ ~req[q].busy
        /\ \A t \in Slots : pool[t].request # q
        /\ \A t \in Stored : pool[t].conn # q
        /\ \A p \in Requests : Holder(p) => req[p].ssl # q
    BY <1>1, <2>1, Zenon DEF Connections, UnusedIsApart, Fresh
  <2>3. QED
    BY <1>3, <1>4, <2>1, <2>2, SMT DEF Keeps
<1>10. BusyIsWhereBorrowed'
  BY <1>1, <1>3, <1>4, SMT DEF Connections, BusyIsWhereBorrowed, Keeps
<1>11. OneAtATime'
  <2>1. release.by \in ReqOrNull /\ release' = release /\ req'[r].life # "releasing"
    BY <1>1, SMT DEF TypeOK, Release
  <2>2. QED
    BY <1>1, <1>2, <2>1, SMT DEF OneAtATime, ReqOrNull
<1>12. LinkedIsUnused'
  BY <1>1, <1>2, <1>3, <1>4, SMT DEF LinkedIsUnused, Keeps, Withholds, Fresh
<1>13. QED
  BY <1>5, <1>6, <1>7, <1>8, <1>9, <1>10, <1>11, <1>12, Zenon DEF PoolInvariant

\* The pop returns true: the connection of an available entry is free, and no
\* other entry stores it.
LEMMA BorrowStep ==
  ASSUME PoolInvariant, NEW r \in Requests, NEW k \in Kinds, NEW s \in Slots,
         starter = r, Borrow(k, r, s), UNCHANGED <<release, pc, cursor, linked, deletes>>
  PROVE  PoolInvariant'
<1>1. TypeOK /\ Connections /\ OneAtATime /\ LinkedIsUnused
  BY Zenon DEF PoolInvariant, Connections
<1> DEFINE c == pool[s].conn
           e == [pool[s] EXCEPT !.canPick = FALSE, !.cur = r, !.curInvalid = FALSE]
           v == [req[r] EXCEPT !.life = "running", !.from = k, !.ssl = c,
                               !.fd = TRUE, !.index = s[2], !.busy = TRUE]
<1>2. s \in Stored /\ s[1] = k /\ s[2] \in Index /\ s = <<k, s[2]>> /\ pool[s].canPick
  BY StoredIs, SMT DEF Borrow, Candidates, ActiveSlots, Active
<1>3. pool[s] \in Entry /\ req[r] \in Node /\ r \in ReqOrNull
  BY <1>1, Zenon DEF TypeOK, ReqOrNull
<1>4. c \in Requests
  BY <1>1, <1>2, SMT DEF Connections, OwnerHasConn, TypeOK, Node
<1>5. e \in Entry
  BY <1>3, Zenon DEF Entry
<1>6. /\ e.status = pool[s].status /\ e.conn = c
      /\ e.request = pool[s].request /\ ~e.canPick
  BY <1>3, SMT DEF Entry
<1>7. v \in Node
  BY <1>2, <1>3, <1>4, Zenon DEF Node
<1>8. /\ v.life = "running" /\ v.ssl = c /\ v.fd /\ v.busy /\ v.from = k
      /\ v.index = s[2]
  BY <1>3, SMT DEF Node
<1>9. /\ pool' = [pool EXCEPT ![s] = e] /\ req' = [req EXCEPT ![r] = v]
      /\ starter' = NoReq /\ inited' = inited
  BY DEF Borrow
<1> HIDE DEF e, v
<1>10. /\ pool' \in [Slots -> Entry] /\ pool'[s] = e
       /\ \A t \in Slots : t # s => pool'[t] = pool[t]
  BY <1>1, <1>5, <1>9, OneEntry
<1>11. /\ req' \in [Requests -> Node] /\ req'[r] = v
       /\ \A q \in Requests : q # r => req'[q] = req[q]
  BY <1>1, <1>7, <1>9, OneRequest
<1>12. idle' \in [Kinds -> [Index -> Nat]]
  <2>1. ListOf(k) \in Kinds /\ idle[ListOf(k)] \in [Index -> Nat]
    BY <1>1, ListOfType, Zenon DEF TypeOK
  <2>2. PopFront(idle[ListOf(k)]) \in [Index -> Nat]
    BY <1>2, <2>1, ListTypes, PoolAssumption
  <2>3. Remove(PopFront(idle[ListOf(k)]), s[2]) \in [Index -> Nat]
    BY <1>2, <2>2, ListTypes, PoolAssumption
  <2>4. idle' = [idle EXCEPT ![ListOf(k)] = Remove(PopFront(@), s[2])]
    BY DEF Borrow
  <2>5. QED
    BY <1>1, <2>1, <2>3, <2>4, Zenon DEF TypeOK
<1>13. TypeOK'
  BY <1>1, <1>9, <1>10, <1>11, <1>12, Zenon DEF TypeOK, ReqOrNull
<1>14. \A t \in Slots : Keeps(t) /\ Withholds(t)
  BY <1>6, <1>10, KeepsIs
<1>15. \A q \in Requests : Holder(q) => req[q].ssl # c
  BY <1>1, <1>2, Zenon DEF Connections, AvailableIsFree
<1>16. \A q \in Requests : Fresh(q) => q # c
  BY <1>1, <1>2, Zenon DEF Connections, UnusedIsApart, Fresh
<1>17. pc = "finish" => c # linked
  BY <1>1, <1>2, Zenon DEF LinkedIsUnused
<1>18. Fresh(r)
  BY <1>1, PoolAssumption, SMT DEF OneAtATime, Fresh
<1>19. \A t \in Stored' : pool'[t].conn = c =>
          c # r /\ ~pool'[t].canPick /\ t = <<req'[r].from, req'[r].index>>
  <2> SUFFICES ASSUME NEW t \in Stored', pool'[t].conn = c
               PROVE  c # r /\ ~pool'[t].canPick /\ t = <<req'[r].from, req'[r].index>>
    OBVIOUS
  <2>1. t \in Stored /\ pool[t].conn = c
    BY <1>14, StoredIs, Zenon DEF Keeps
  <2>2. t = s
    BY <1>1, <1>2, <2>1, Zenon DEF Connections, StoredOnce
  <2>3. QED
    BY <1>2, <1>6, <1>8, <1>10, <1>11, <1>16, <1>18, <2>2, Zenon
<1>20. QED
  <2> HIDE DEF c
  <2>1. req'[r].life = "running" /\ req'[r].ssl = c /\ req'[r].fd /\ req'[r].busy
    BY <1>8, <1>11, Zenon
  <2>2. QED
    BY <1>9, <1>11, <1>13, <1>14, <1>15, <1>16, <1>17, <1>19, <2>1, AcquireStep

\* The pop returns false.
LEMMA NotBorrowedIs ==
  ASSUME TypeOK, NEW r \in Requests, NEW k \in Kinds, NotBorrowed(k, r)
  PROVE  /\ idle' \in [Kinds -> [Index -> Nat]] /\ pool' = pool /\ inited' = TRUE
<1>1. ListOf(k) \in Kinds /\ idle[ListOf(k)] \in [Index -> Nat] /\ 0 \in Index
  BY ListOfType, PoolAssumption, SMT DEF TypeOK
<1>2. PopFront(idle[ListOf(k)]) \in [Index -> Nat]
  BY <1>1, ListTypes, PoolAssumption
<1>3. QED
  BY <1>1, <1>2, Zenon DEF TypeOK, NotBorrowed

\* popPrestartedNode borrows, or sends start() to the other vector.
LEMMA PopPrestartedStep ==
  ASSUME PoolInvariant, NEW r \in Requests, PopPrestarted(r)
  PROVE  PoolInvariant'
<1>1. TypeOK /\ OneAtATime /\ Connections
  BY Zenon DEF PoolInvariant, Connections
<1>2. starter = r /\ UNCHANGED <<release, pc, cursor, linked, deletes>>
  BY DEF PopPrestarted
<1>3. ASSUME NEW s \in Slots, Borrow(Prestarted, r, s)
      PROVE  PoolInvariant'
  <2>1. Prestarted \in Kinds
    OBVIOUS
  <2>2. QED
    BY <1>2, <1>3, <2>1, BorrowStep
<1>4. ASSUME NotBorrowed(Prestarted, r), req' = [req EXCEPT ![r].from = Preconnected],
             UNCHANGED starter
      PROVE  PoolInvariant'
  <2> DEFINE v == [req[r] EXCEPT !.from = Preconnected]
  <2>1. Prestarted \in Kinds
    OBVIOUS
  <2>2. idle' \in [Kinds -> [Index -> Nat]] /\ pool' = pool /\ inited' = TRUE
    BY <1>1, <1>4, <2>1, NotBorrowedIs
  <2>3. req[r] \in Node
    BY <1>1, Zenon DEF TypeOK
  <2>4. v \in Node
    BY <2>3, Zenon DEF Node
  <2>5. /\ v.life = req[r].life /\ v.ssl = req[r].ssl
        /\ v.fd = req[r].fd /\ v.busy = req[r].busy
    BY <2>3, SMT DEF Node
  <2>6. req' = [req EXCEPT ![r] = v]
    BY <1>4
  <2> HIDE DEF v
  <2>7. /\ req' \in [Requests -> Node] /\ req'[r] = v
        /\ \A q \in Requests : q # r => req'[q] = req[q]
    BY <1>1, <2>4, <2>6, OneRequest
  <2>8. Fresh(r) /\ ~req[r].busy
    BY <1>1, <1>2, PoolAssumption, SMT
       DEF OneAtATime, Fresh, Connections, UnusedIsApart
  <2>9. Settles(r)
    BY <2>5, <2>7, <2>8, SMT DEF Settles, Holder, Fresh
  <2>10. \A q \in Requests : Settles(q)
    BY <2>7, <2>9, SettlesIs, Zenon
  <2>11. \A t \in Slots : Keeps(t) /\ Withholds(t)
    BY <2>2, KeepsIs
  <2>12. TypeOK'
    BY <1>1, <1>2, <1>4, <2>2, <2>7, Zenon DEF TypeOK, ReqOrNull
  <2>13. OneAtATime'
    <3>1. release.by \in ReqOrNull /\ release' = release /\ starter' = starter
      BY <1>1, <1>2, <1>4, SMT DEF TypeOK, Release
    <3>2. QED
      BY <1>1, <1>2, <2>5, <2>7, <3>1, SMT DEF OneAtATime, ReqOrNull
  <2>14. QED
    BY <1>2, <2>10, <2>11, <2>12, <2>13, QuietInvariant, Zenon
<1>5. QED
  BY <1>3, <1>4, Zenon DEF PopPrestarted

\* popPreconnectedNode borrows, or start() connects on its own.
LEMMA PopPreconnectedStep ==
  ASSUME PoolInvariant, NEW r \in Requests, PopPreconnected(r)
  PROVE  PoolInvariant'
<1>1. TypeOK /\ OneAtATime /\ Connections /\ LinkedIsUnused
  BY Zenon DEF PoolInvariant, Connections
<1>2. starter = r /\ UNCHANGED <<release, pc, cursor, linked, deletes>>
  BY DEF PopPreconnected
<1>3. ASSUME NEW s \in Slots, Borrow(Preconnected, r, s)
      PROVE  PoolInvariant'
  <2>1. Preconnected \in Kinds
    OBVIOUS
  <2>2. QED
    BY <1>2, <1>3, <2>1, BorrowStep
<1>4. ASSUME NotBorrowed(Preconnected, r), starter' = NoReq,
             req' = [req EXCEPT ![r] = [@ EXCEPT !.life = "running", !.from = "direct",
                                                 !.fd = TRUE, !.busy = TRUE]]
      PROVE  PoolInvariant'
  <2> DEFINE v == [req[r] EXCEPT !.life = "running", !.from = "direct", !.fd = TRUE,
                                 !.busy = TRUE]
  <2>1. Preconnected \in Kinds
    OBVIOUS
  <2>2. idle' \in [Kinds -> [Index -> Nat]] /\ pool' = pool /\ inited' = TRUE
    BY <1>1, <1>4, <2>1, NotBorrowedIs
  <2>3. req[r] \in Node
    BY <1>1, Zenon DEF TypeOK
  <2>4. v \in Node
    BY <2>3, Zenon DEF Node
  <2>5. v.life = "running" /\ v.ssl = req[r].ssl /\ v.fd /\ v.busy
    BY <2>3, SMT DEF Node
  <2>6. req' = [req EXCEPT ![r] = v]
    BY <1>4
  <2> HIDE DEF v
  <2>7. /\ req' \in [Requests -> Node] /\ req'[r] = v
        /\ \A q \in Requests : q # r => req'[q] = req[q]
    BY <1>1, <2>4, <2>6, OneRequest
  <2>8. Fresh(r)
    BY <1>1, <1>2, PoolAssumption, SMT DEF OneAtATime, Fresh
  <2>9. /\ req[r].ssl = r
        /\ \A t \in Stored : pool[t].conn # r
        /\ \A q \in Requests : Holder(q) => req[q].ssl # r
    BY <1>1, <2>8, Zenon DEF Connections, UnusedIsApart, Fresh
  <2>10. \A t \in Slots : Keeps(t) /\ Withholds(t)
    BY <2>2, KeepsIs
  <2>11. TypeOK'
    BY <1>1, <1>2, <1>4, <2>2, <2>7, Zenon DEF TypeOK, ReqOrNull
  <2>12. req'[r].life = "running" /\ req'[r].ssl = r /\ req'[r].fd /\ req'[r].busy
    BY <2>5, <2>7, <2>9, Zenon
  <2>13. pc = "finish" => r # linked
    BY <1>1, <2>8, Zenon DEF LinkedIsUnused, Fresh
  <2>14. \A t \in Stored' : pool'[t].conn # r
    BY <2>9, <2>10, StoredIs, Zenon DEF Keeps
  <2>15. QED
    BY <1>2, <1>4, <2>7, <2>9, <2>10, <2>11, <2>12, <2>13, <2>14, AcquireStep
<1>5. QED
  BY <1>3, <1>4, Zenon DEF PopPreconnected

(***************************************************************************)
(* releaseRequest().                                                       *)
(***************************************************************************)
\* sslBelongToPool only reads.
LEMMA BeginReleaseStep ==
  ASSUME PoolInvariant, NEW r \in Requests, BeginRelease(r)
  PROVE  PoolInvariant'
<1>1. /\ TypeOK /\ OneAtATime /\ release.by = NoReq /\ r # NoReq
      /\ req[r].life \in {"finished", "running"}
      /\ UNCHANGED <<inited, pool, idle, starter, pc, cursor, linked, deletes>>
  BY PoolAssumption, SMT DEF PoolInvariant, BeginRelease
<1> DEFINE v == [req[r] EXCEPT !.life = "releasing", !.held = FALSE]
<1>2. req[r] \in Node
  BY <1>1, Zenon DEF TypeOK
<1>3. v \in Node
  BY <1>2, Zenon DEF Node
<1>4. /\ v.life = "releasing" /\ v.ssl = req[r].ssl /\ v.fd = req[r].fd
      /\ v.busy = req[r].busy /\ v.from = req[r].from /\ v.index = req[r].index
  BY <1>2, SMT DEF Node
<1>5. req' = [req EXCEPT ![r] = v]
  BY DEF BeginRelease
<1> HIDE DEF v
<1>6. /\ req' \in [Requests -> Node] /\ req'[r] = v
      /\ \A q \in Requests : q # r => req'[q] = req[q]
  BY <1>1, <1>3, <1>5, OneRequest
<1>7. Settles(r)
  BY <1>1, <1>4, <1>6, SMT DEF Settles, Holder, Fresh
<1>8. \A q \in Requests : Settles(q)
  BY <1>6, <1>7, SettlesIs, Zenon
<1>9. \A t \in Slots : Keeps(t) /\ Withholds(t)
  BY <1>1, KeepsIs
<1>10. release' \in Release /\ release'.by = r
  <2>1. CASE release' = [NoRelease EXCEPT !.by = r]
    <3>1. release' \in Release
      BY <2>1, Zenon DEF NoRelease, Release, ReqOrNull
    <3>2. release'.by = r
      BY <2>1, SMT DEF NoRelease
    <3>3. QED
      BY <3>1, <3>2
  <2>2. ASSUME NEW s \in Stored,
               release' = [by |-> r, phase |-> "del", ssl |-> TRUE,
                           abnormal |-> pool[s].isAbnormal,
                           inPool |-> (pool[s].request = r)]
        PROVE  release' \in Release /\ release'.by = r
    <3>1. pool[s].isAbnormal \in BOOLEAN
      BY <1>1, StoredIs, SMT DEF TypeOK, Entry
    <3>2. (pool[s].request = r) \in BOOLEAN
      OBVIOUS
    <3>3. release' \in Release
      BY <2>2, <3>1, <3>2, Zenon DEF Release, ReqOrNull
    <3>4. release'.by = r
      BY <2>2
    <3>5. QED
      BY <3>3, <3>4
  <2>3. QED
    BY <2>1, <2>2, Zenon DEF BeginRelease
<1>11. TypeOK'
  BY <1>1, <1>6, <1>10, Zenon DEF TypeOK, ReqOrNull
<1>12. OneAtATime'
  <2>1. \A q \in Requests : req[q].life # "releasing"
    BY <1>1, PoolAssumption, SMT DEF OneAtATime
  <2>2. /\ starter' = starter /\ starter \in ReqOrNull /\ starter # r
        /\ starter # NoReq => req[starter].life = "starting"
    BY <1>1, SMT DEF OneAtATime, TypeOK
  <2>3. starter' # NoReq => req'[starter'].life = "starting"
    BY <1>6, <2>2, Zenon DEF ReqOrNull
  <2>4. \A q \in Requests : req'[q].life = "releasing" => release'.by = q
    BY <1>6, <1>10, <2>1, Zenon
  <2>5. release'.by # NoReq => req'[release'.by].life = "releasing"
    BY <1>4, <1>6, <1>10, Zenon
  <2>6. QED
    BY <2>3, <2>4, <2>5, Zenon DEF OneAtATime
<1>13. QED
  BY <1>1, <1>8, <1>9, <1>11, <1>12, QuietInvariant, Zenon

\* delete request.
LEMMA ReleaseDeleteStep ==
  ASSUME PoolInvariant, NEW r \in Requests, ReleaseDelete(r)
  PROVE  PoolInvariant'
<1>1. /\ TypeOK /\ OneAtATime
      /\ UNCHANGED <<inited, pool, idle, req, starter, pc, cursor, linked>>
      /\ release' = [release EXCEPT !.phase = "final"]
  BY DEF PoolInvariant, ReleaseDelete
<1>2. release \in Release
  BY <1>1 DEF TypeOK
<1>3. release' \in Release
  BY <1>1, <1>2, Zenon DEF Release
<1>4. release'.by = release.by
  BY <1>1, <1>2, SMT DEF Release
<1>5. deletes' \in [Requests -> 0 .. 2]
  <2>1. deletes \in [Requests -> 0 .. 2]
    BY <1>1 DEF TypeOK
  <2>2. deletes' = deletes \/ deletes' = Deleted({r})
    BY DEF ReleaseDelete
  <2>3. QED
    BY <2>1, <2>2, DeletedType, Zenon
<1>6. TypeOK'
  BY <1>1, <1>3, <1>5, Zenon DEF TypeOK, ReqOrNull
<1>7. OneAtATime'
  BY <1>1, <1>4, Zenon DEF OneAtATime
<1>8. \A q \in Requests : Settles(q)
  BY <1>1, SettlesIs
<1>9. \A t \in Slots : Keeps(t) /\ Withholds(t)
  BY <1>1, KeepsIs
<1>10. QED
  BY <1>1, <1>6, <1>7, <1>8, <1>9, QuietInvariant, Zenon

\* The end of a release: the request is deleted or left to the pool, perhaps
\* another one is deleted with it, and an entry with its connection may become
\* available.
LEMMA ReleaseEnds ==
  ASSUME PoolInvariant, TypeOK', NEW r \in Requests,
         release.by = r, release' = NoRelease, UNCHANGED <<starter, pc, linked>>,
         \A q \in Requests : \/ q # r /\ req'[q] = req[q]
                             \/ /\ q # starter
                                /\ \/ req'[q] = [req[q] EXCEPT !.life = "gone"]
                                   \/ req'[q] = [req[q] EXCEPT !.life = "pooled"],
         \A t \in Slots : Keeps(t) /\ (Withholds(t) \/ pool[t].conn = req[r].ssl)
  PROVE  PoolInvariant'
<1>1. TypeOK /\ Connections /\ OneAtATime /\ LinkedIsUnused
  BY Zenon DEF PoolInvariant, Connections
<1>2. \A q \in Requests : req[q] \in Node
  BY <1>1, Zenon DEF TypeOK
<1>3. ASSUME NEW q \in Requests, NEW l \in {"gone", "pooled"},
             req'[q] = [req[q] EXCEPT !.life = l]
      PROVE  Settles(q) /\ req'[q].life = l
  BY <1>2, <1>3, SMT DEF Settles, Holder, Fresh, Node
<1>4. \A q \in Requests : \/ q # r /\ req'[q] = req[q]
                          \/ q # starter /\ Settles(q) /\ req'[q].life \in {"gone", "pooled"}
  BY <1>3, Zenon
<1>5. \A q \in Requests : Settles(q)
  BY <1>4, SettlesIs, Zenon
<1>6. r # NoReq /\ req[r].life = "releasing" /\ Holder(r)
  BY <1>1, PoolAssumption, SMT DEF OneAtATime, Holder
<1>7. OneAtATime'
  <2>1. release'.by = NoReq
    BY SMT DEF NoRelease
  <2>2. starter' = starter /\ starter \in ReqOrNull
    BY <1>1, Zenon DEF TypeOK
  <2>3. starter' # NoReq => req'[starter'].life = "starting"
    BY <1>1, <1>4, <2>2, Zenon DEF OneAtATime, ReqOrNull
  <2>4. \A q \in Requests : req'[q].life # "releasing"
    BY <1>1, <1>4, SMT DEF OneAtATime
  <2>5. QED
    BY <2>1, <2>3, <2>4, Zenon DEF OneAtATime
<1>8. /\ ExclusiveUse' /\ StoredOnce' /\ OwnerHasConn'
      /\ UnusedIsApart' /\ BusyIsWhereBorrowed'
  BY <1>1, <1>5, QuietStep
<1>9. \A q \in Requests : Holder(q)' =>
         Holder(q) /\ req'[q].ssl = req[q].ssl /\ req[q].ssl # req[r].ssl
  <2>1. ~Holder(r)'
    BY <1>4, SMT DEF Holder
  <2>2. QED
    BY <1>1, <1>5, <1>6, <2>1, Zenon DEF Connections, ExclusiveUse, Settles
<1>10. AvailableIsFree'
  <2> SUFFICES ASSUME NEW t \in Stored', pool'[t].canPick,
                      NEW q \in Requests, Holder(q)'
               PROVE  req'[q].ssl # pool'[t].conn
    BY Zenon DEF AvailableIsFree
  <2>1. /\ t \in Stored /\ pool'[t].conn = pool[t].conn
        /\ pool[t].canPick \/ pool[t].conn = req[r].ssl
    BY StoredIs, Zenon DEF Keeps, Withholds
  <2>2. Holder(q) /\ req'[q].ssl = req[q].ssl /\ req[q].ssl # req[r].ssl
    BY <1>9
  <2>3. pool[t].canPick => req[q].ssl # pool[t].conn
    BY <1>1, <2>1, <2>2, Zenon DEF Connections, AvailableIsFree
  <2>4. QED
    BY <2>1, <2>2, <2>3
<1>11. LinkedIsUnused'
  <2> SUFFICES ASSUME pc = "finish" PROVE LinkedIsUnused'
    BY Zenon DEF LinkedIsUnused
  <2>1. /\ linked \in Requests /\ ~Fresh(linked) /\ req[linked].ssl = linked
        /\ \A q \in Requests : Holder(q) => req[q].ssl # linked
        /\ \A t \in Stored : pool[t].conn = linked => ~pool[t].canPick
    BY <1>1, Zenon DEF LinkedIsUnused, Fresh
  <2>2. /\ ~Fresh(linked)' /\ req'[linked].ssl = linked
        /\ \A q \in Requests : Holder(q)' => req'[q].ssl # linked
    BY <1>5, <2>1, Zenon DEF Settles
  <2>3. ASSUME NEW t \in Stored', pool'[t].conn = linked PROVE ~pool'[t].canPick
    <3>1. t \in Stored /\ pool[t].conn = linked /\ Withholds(t)
      BY <1>6, <2>1, <2>3, StoredIs, Zenon DEF Keeps
    <3>2. QED
      BY <2>1, <3>1, Zenon DEF Withholds
  <2>4. QED
    BY <2>1, <2>2, <2>3, Zenon DEF LinkedIsUnused, Fresh
<1>12. QED
  BY <1>7, <1>8, <1>10, <1>11 DEF PoolInvariant

\* deletePreNodeBySSL, finishPushPreNode or deletePreNodeByRequest.
LEMMA ReleaseFinalStep ==
  ASSUME PoolInvariant, NEW r \in Requests, ReleaseFinal(r)
  PROVE  PoolInvariant'
<1>1. TypeOK /\ OneAtATime /\ Connections
  BY Zenon DEF PoolInvariant, Connections
<1>2. /\ release.by = r /\ release' = NoRelease
      /\ UNCHANGED <<inited, starter, pc, cursor, linked>>
  BY DEF ReleaseFinal
<1>3. /\ req \in [Requests -> Node] /\ \A q \in Requests : req[q] \in Node
      /\ deletes \in [Requests -> 0 .. 2] /\ pool \in [Slots -> Entry]
  BY <1>1, Zenon DEF TypeOK
<1>4. release' \in Release
  BY <1>2, Zenon DEF NoRelease, Release, ReqOrNull
<1>5. r # starter
  BY <1>1, <1>2, PoolAssumption, SMT DEF OneAtATime
<1> DEFINE Released == \/ req' = [req EXCEPT ![r].life = "gone"]
                       \/ req' = [req EXCEPT ![r].life = "pooled"]
           Last(q) == /\ q # starter
                      /\ \/ req'[q] = [req[q] EXCEPT !.life = "gone"]
                         \/ req'[q] = [req[q] EXCEPT !.life = "pooled"]
<1>6. ASSUME Released
      PROVE  /\ req' \in [Requests -> Node]
             /\ \A q \in Requests : (q # r /\ req'[q] = req[q]) \/ Last(q)
  <2>1. ASSUME NEW l \in {"gone", "pooled"}, req' = [req EXCEPT ![r].life = l]
        PROVE  /\ req' \in [Requests -> Node]
               /\ req'[r] = [req[r] EXCEPT !.life = l]
               /\ \A q \in Requests : q # r => req'[q] = req[q]
    <3> DEFINE v == [req[r] EXCEPT !.life = l]
    <3>1. v \in Node
      BY <1>3, Zenon DEF Node
    <3>2. req' = [req EXCEPT ![r] = v]
      BY <2>1
    <3> HIDE DEF v
    <3>3. /\ req' \in [Requests -> Node] /\ req'[r] = v
          /\ \A q \in Requests : q # r => req'[q] = req[q]
      BY <1>1, <3>1, <3>2, OneRequest
    <3>4. QED
      BY <3>3 DEF v
  <2>2. QED
    BY <1>5, <1>6, <2>1, Zenon
<1>7. ASSUME req' \in [Requests -> Node], pool' \in [Slots -> Entry],
             idle' \in [Kinds -> [Index -> Nat]], deletes' \in [Requests -> 0 .. 2],
             \A q \in Requests : (q # r /\ req'[q] = req[q]) \/ Last(q),
             \A t \in Slots : Keeps(t) /\ (Withholds(t) \/ pool[t].conn = req[r].ssl)
      PROVE  PoolInvariant'
  <2>1. TypeOK'
    BY <1>1, <1>2, <1>4, <1>7, Zenon DEF TypeOK, ReqOrNull
  <2>2. QED
    BY <1>2, <1>7, <2>1, ReleaseEnds
<1> HIDE DEF Released, Last
<1>8. CASE FinishPush(r) /\ Released /\ UNCHANGED deletes
  <2>1. /\ pool' \in [Slots -> Entry] /\ idle' \in [Kinds -> [Index -> Nat]]
        /\ \A t \in Slots : Keeps(t) /\ (Withholds(t) \/ pool[t].conn = req[r].ssl)
    BY <1>1, <1>8, FinishPushIs
  <2>2. deletes' \in [Requests -> 0 .. 2]
    BY <1>3, <1>8
  <2>3. QED
    BY <1>6, <1>7, <1>8, <2>1, <2>2
<1>9. ASSUME UNCHANGED idle, deletes' \in [Requests -> 0 .. 2], req' \in [Requests -> Node],
             \A q \in Requests : (q # r /\ req'[q] = req[q]) \/ Last(q),
             UNCHANGED pool \/ \E s \in Slots : pool' = [pool EXCEPT ![s] = EmptyEntry]
      PROVE  PoolInvariant'
  <2>1. pool' \in [Slots -> Entry] /\ \A t \in Slots : pool'[t] = pool[t] \/ pool'[t] = EmptyEntry
    BY <1>3, <1>9, EmptyType, Zenon
  <2>2. \A t \in Slots : Keeps(t) /\ Withholds(t)
    BY <2>1, KeepsIs
  <2>3. idle' \in [Kinds -> [Index -> Nat]]
    BY <1>1, <1>9, Zenon DEF TypeOK
  <2>4. QED
    BY <1>7, <1>9, <2>1, <2>2, <2>3
<1>10. CASE DeleteByRequest(r) /\ Released /\ UNCHANGED <<idle, deletes>>
  <2>1. UNCHANGED pool \/ \E s \in Slots : pool' = [pool EXCEPT ![s] = EmptyEntry]
    BY <1>10, StoredIs, Zenon DEF DeleteByRequest
  <2>2. deletes' \in [Requests -> 0 .. 2]
    BY <1>3, <1>10
  <2>3. QED
    BY <1>6, <1>9, <1>10, <2>1, <2>2
<1>11. ASSUME DeleteBySSL({s \in Stored : pool[s].conn = req[r].ssl}, r), UNCHANGED idle
       PROVE  PoolInvariant'
  <2>1. CASE Released /\ UNCHANGED <<pool, deletes>>
    <3>1. deletes' \in [Requests -> 0 .. 2]
      BY <1>3, <2>1
    <3>2. QED
      BY <1>6, <1>9, <1>11, <2>1, <3>1
  <2>2. ASSUME NEW s \in Stored, pool' = [pool EXCEPT ![s] = EmptyEntry],
               req' = Gone({r, pool[s].request}), deletes' = Deleted({pool[s].request})
        PROVE  PoolInvariant'
    <3>1. s \in Slots
      BY StoredIs
    <3>2. starter # NoReq => Fresh(starter)
      BY <1>1, SMT DEF OneAtATime, Fresh
    <3>3. pool[s].request \in Requests /\ pool[s].request # starter
      <4>1. pool[s].request \in Requests
        BY <1>1, Zenon DEF Connections, OwnerHasConn
      <4>2. starter \in Requests => pool[s].request # starter
        BY <1>1, <3>1, <3>2, PoolAssumption, Zenon DEF Connections, UnusedIsApart, Fresh
      <4>3. QED
        BY <4>1, <4>2
    <3>4. \A q \in Requests :
            \/ q # r /\ req'[q] = req[q]
            \/ q # starter /\ req'[q] = [req[q] EXCEPT !.life = "gone"]
      BY <1>5, <2>2, <3>3, Zenon DEF Gone
    <3>5. \A q \in Requests : (q # r /\ req'[q] = req[q]) \/ Last(q)
      BY <3>4, Zenon DEF Last
    <3>6. req' \in [Requests -> Node]
      <4>1. \A q \in Requests : [req[q] EXCEPT !.life = "gone"] \in Node
        BY <1>3, Zenon DEF Node
      <4>2. QED
        BY <1>3, <2>2, <4>1, Zenon DEF Gone
    <3>7. deletes' \in [Requests -> 0 .. 2]
      BY <1>3, <2>2, DeletedType
    <3>8. QED
      BY <1>9, <1>11, <2>2, <3>1, <3>5, <3>6, <3>7, Zenon
  <2>3. QED
    BY <1>11, <2>1, <2>2, Zenon DEF DeleteBySSL, Released
<1>12. QED
  BY <1>8, <1>10, <1>11, Zenon DEF ReleaseFinal, Released

(***************************************************************************)
(* The end of a task.                                                      *)
(***************************************************************************)
\* A request whose task runs uses its connection, and start() is done with it.
LEMMA WorkingIs ==
  ASSUME PoolInvariant, NEW r \in Requests, Working(r)
  PROVE  /\ Holder(r) /\ req[r].busy /\ req[r].fd /\ r # starter
         /\ req[r].life \in {"running", "releasing"} /\ ~Fresh(r)
<1>1. req[r].life \in {"running", "releasing"} /\ req[r].busy /\ r # starter
  BY PoolAssumption, SMT DEF PoolInvariant, OneAtATime, Working
<1>2. Holder(r) /\ ~Fresh(r)
  BY <1>1, SMT DEF Holder, Fresh
<1>3. req[r].fd
  BY <1>1, <1>2, Zenon DEF PoolInvariant, BusyIsWhereBorrowed
<1>4. QED
  BY <1>1, <1>2, <1>3

\* The node of a task that ended holds what it held, and is at rest.
LEMMA EndSettles ==
  ASSUME PoolInvariant, NEW r \in Requests, Working(r), UNCHANGED <<starter, release>>,
         req'[r].ssl = req[r].ssl, ~req'[r].busy,
         req'[r].life = IF req[r].life = "running" THEN "finished" ELSE req[r].life,
         \A q \in Requests : q # r =>
            /\ req'[q].life = req[q].life /\ req'[q].ssl = req[q].ssl
            /\ req'[q].fd = req[q].fd /\ req'[q].busy = req[q].busy
            /\ req'[q].from = req[q].from
            /\ req'[q].index = req[q].index \/ ~req[q].busy
  PROVE  OneAtATime' /\ \A q \in Requests : Settles(q)
<1>1. /\ Holder(r) /\ req[r].busy /\ req[r].fd /\ r # starter
      /\ req[r].life \in {"running", "releasing"} /\ ~Fresh(r)
  BY WorkingIs
<1>2. Settles(r)
  <2>1. req'[r].life \in {"finished", "releasing"}
    BY <1>1
  <2>2. ~Fresh(r)'
    BY <2>1, SMT DEF Fresh
  <2>3. QED
    BY <1>1, <2>2, Zenon DEF Settles
<1>3. ASSUME NEW q \in Requests, q # r PROVE Settles(q)
  BY <1>3, SMT DEF Settles, Holder, Fresh
<1>4. \A q \in Requests :
         \/ req'[q].life = req[q].life
         \/ q = r /\ req[q].life = "running" /\ req'[q].life = "finished"
  BY <1>1, Zenon
<1>5. OneAtATime /\ starter \in ReqOrNull /\ release.by \in ReqOrNull
  BY SMT DEF PoolInvariant, TypeOK, Release
<1>6. OneAtATime'
  BY <1>1, <1>4, <1>5, SMT DEF OneAtATime, ReqOrNull
<1>7. QED
  BY <1>2, <1>3, <1>6, Zenon

\* curRequestIsAbnormal marks an entry, and takes its index from the list.
LEMMA FailTaskStep ==
  ASSUME PoolInvariant, NEW r \in Requests, FailTask(r)
  PROVE  PoolInvariant'
<1>1. /\ TypeOK /\ Working(r)
      /\ UNCHANGED <<inited, starter, release, pc, cursor, linked, deletes>>
  BY DEF PoolInvariant, FailTask
<1> DEFINE v == [Ended(r) EXCEPT !.fd = (req[r].ssl # r)]
<1>2. req[r] \in Node
  BY <1>1, Zenon DEF TypeOK
<1>3. /\ Ended(r) \in Node /\ Ended(r).ssl = req[r].ssl /\ ~Ended(r).busy
      /\ Ended(r).life = IF req[r].life = "running" THEN "finished" ELSE req[r].life
  BY <1>2, EndedType
<1>4. v \in Node
  <2>1. (req[r].ssl # r) \in BOOLEAN
    OBVIOUS
  <2>2. QED
    BY <1>3, <2>1, Zenon DEF Node
<1>5. v.ssl = Ended(r).ssl /\ v.busy = Ended(r).busy /\ v.life = Ended(r).life
  BY <1>3, SMT DEF Node
<1>6. req' = [req EXCEPT ![r] = v]
  BY DEF FailTask
<1> HIDE DEF v
<1>7. /\ req' \in [Requests -> Node] /\ req'[r] = v
      /\ \A q \in Requests : q # r => req'[q] = req[q]
  BY <1>1, <1>4, <1>6, OneRequest
<1>8. OneAtATime' /\ \A q \in Requests : Settles(q)
  BY <1>1, <1>3, <1>5, <1>7, EndSettles
<1>9. /\ pool' \in [Slots -> Entry] /\ idle' \in [Kinds -> [Index -> Nat]]
      /\ \A t \in Slots : Keeps(t) /\ Withholds(t)
  <2>1. CASE UNCHANGED <<pool, idle>>
    BY <1>1, <2>1, KeepsIs, Zenon DEF TypeOK
  <2>2. ASSUME NEW s \in Stored, pool' = [pool EXCEPT ![s].isAbnormal = TRUE],
               idle' = [idle EXCEPT ![s[1]] = Remove(@, s[2])]
        PROVE  /\ pool' \in [Slots -> Entry] /\ idle' \in [Kinds -> [Index -> Nat]]
               /\ \A t \in Slots : Keeps(t) /\ Withholds(t)
    <3> DEFINE e == [pool[s] EXCEPT !.isAbnormal = TRUE]
    <3>1. s \in Slots
      BY StoredIs
    <3>2. s[1] \in Kinds /\ s[2] \in Index /\ pool[s] \in Entry
      BY <1>1, <3>1, SMT DEF TypeOK
    <3>3. e \in Entry
      BY <3>2, Zenon DEF Entry
    <3>4. /\ e.status = pool[s].status /\ e.conn = pool[s].conn
          /\ e.request = pool[s].request /\ e.canPick = pool[s].canPick
      BY <3>2, SMT DEF Entry
    <3>5. pool' = [pool EXCEPT ![s] = e]
      BY <2>2
    <3> HIDE DEF e
    <3>6. /\ pool' \in [Slots -> Entry] /\ pool'[s] = e
          /\ \A t \in Slots : t # s => pool'[t] = pool[t]
      BY <1>1, <3>1, <3>3, <3>5, OneEntry
    <3>7. \A t \in Slots : Keeps(t) /\ Withholds(t)
      BY <3>4, <3>6, KeepsIs
    <3>8. idle[s[1]] \in [Index -> Nat]
      BY <1>1, <3>2, Zenon DEF TypeOK
    <3>9. Remove(idle[s[1]], s[2]) \in [Index -> Nat]
      BY <3>2, <3>8, ListTypes, PoolAssumption
    <3>10. QED
      BY <1>1, <2>2, <3>2, <3>6, <3>7, <3>9, Zenon DEF TypeOK
  <2>3. QED
    BY <2>1, <2>2, Zenon DEF FailTask
<1>10. TypeOK'
  BY <1>1, <1>7, <1>9, Zenon DEF TypeOK, ReqOrNull
<1>11. QED
  BY <1>1, <1>8, <1>9, <1>10, QuietInvariant, Zenon

\* A stored entry with the connection of a running task is the borrowed one, and
\* it is still there.
LEMMA BorrowedIs ==
  ASSUME PoolInvariant, NEW r \in Requests, Working(r),
         NEW t \in Stored, pool[t].conn = req[r].ssl
  PROVE  req[r].ssl # r /\ t = <<req[r].from, req[r].index>> /\ StillThere(t, r)
<1>1. req[r].ssl # r /\ t = <<req[r].from, req[r].index>>
  BY WorkingIs, Zenon DEF PoolInvariant, BusyIsWhereBorrowed
<1>2. StillThere(t, r)
  BY SMT DEF PoolInvariant, OwnerHasConn, StillThere
<1>3. QED
  BY <1>1, <1>2

\* A step that stores the connection of r's task, which ended, for its owner o.
LEMMA KeepConnection ==
  ASSUME PoolInvariant, TypeOK', NEW r \in Requests, Working(r),
         UNCHANGED <<starter, release, pc, linked>>,
         OneAtATime', \A q \in Requests : Settles(q), ~req'[r].busy,
         NEW s \in Slots, NEW o \in Requests,
         \A t \in Slots \ {s} : /\ Keeps(t) /\ Withholds(t)
                                /\ t \in Stored' => pool'[t].conn # req[r].ssl,
         pool'[s].conn = req[r].ssl, pool'[s].request = o, ~pool'[s].canPick,
         ~Fresh(o), req[o].ssl = req[r].ssl, req'[o].fd, ~req'[o].busy
  PROVE  PoolInvariant'
<1> DEFINE c == req[r].ssl
<1>1. Connections /\ LinkedIsUnused /\ Holder(r) /\ TypeOK
  BY WorkingIs, Zenon DEF PoolInvariant, Connections
<1>2. req'[o].ssl = c /\ ~Fresh(o)'
  BY Zenon DEF Settles
<1>3. \A q \in Requests : Fresh(q)' => q # c
  BY <1>1, Zenon DEF Connections, UnusedIsApart, Fresh, Settles
<1>4. \A q \in Requests : Holder(q)' /\ req'[q].busy => req'[q].ssl # c
  <2> SUFFICES ASSUME NEW q \in Requests, Holder(q)', req'[q].busy
               PROVE  req'[q].ssl # c
    OBVIOUS
  <2>1. q # r /\ Holder(q) /\ req'[q].ssl = req[q].ssl
    BY Zenon DEF Settles
  <2>2. QED
    BY <1>1, <2>1, Zenon DEF Connections, ExclusiveUse
<1>5. \A t \in Slots \ {s} : /\ Keeps(t) /\ Withholds(t)
                             /\ t \in Stored' => pool'[t].conn # c
  OBVIOUS
<1>6. pool'[s].conn = c
  OBVIOUS
<1>7. pc = "finish" => c # linked
  BY <1>1, Zenon DEF LinkedIsUnused
<1>8. LinkedIsUnused'
  <2> SUFFICES ASSUME pc = "finish" PROVE LinkedIsUnused'
    BY Zenon DEF LinkedIsUnused
  <2>1. /\ linked \in Requests /\ ~Fresh(linked) /\ req[linked].ssl = linked
        /\ \A q \in Requests : Holder(q) => req[q].ssl # linked
        /\ \A t \in Stored : pool[t].conn = linked => ~pool[t].canPick
    BY <1>1, Zenon DEF LinkedIsUnused, Fresh
  <2>2. /\ ~Fresh(linked)' /\ req'[linked].ssl = linked
        /\ \A q \in Requests : Holder(q)' => req'[q].ssl # linked
    BY <2>1, Zenon DEF Settles
  <2>3. ASSUME NEW t \in Stored', pool'[t].conn = linked PROVE ~pool'[t].canPick
    <3>1. t # s /\ t \in Slots
      BY <1>6, <1>7, <2>3, StoredIs, Zenon
    <3>2. t \in Stored /\ pool[t].conn = linked /\ Withholds(t)
      BY <2>3, <3>1, Zenon DEF Keeps
    <3>3. QED
      BY <2>1, <3>2, Zenon DEF Withholds
  <2>4. QED
    BY <2>1, <2>2, <2>3, Zenon DEF LinkedIsUnused, Fresh
<1>9. Connections'
  <2> HIDE DEF c
  <2>1. QED
    BY <1>1, <1>2, <1>3, <1>4, <1>5, <1>6, StoreStep
<1>10. QED
  BY <1>8, <1>9 DEF PoolInvariant, Connections

\* The task of r ended, and its connection is not stored anew.
LEMMA EndQuietly ==
  ASSUME PoolInvariant, NEW r \in Requests, Working(r),
         UNCHANGED <<idle, starter, release, pc, cursor, linked, deletes>>,
         inited' \in BOOLEAN, pool' \in [Slots -> Entry],
         req' = [req EXCEPT ![r] = Ended(r)],
         \A t \in Slots : Keeps(t) /\ Withholds(t)
  PROVE  PoolInvariant'
<1>1. TypeOK /\ req[r] \in Node
  BY Zenon DEF PoolInvariant, TypeOK
<1>2. /\ Ended(r) \in Node /\ Ended(r).ssl = req[r].ssl /\ ~Ended(r).busy
      /\ Ended(r).life = IF req[r].life = "running" THEN "finished" ELSE req[r].life
  BY <1>1, EndedType
<1>3. /\ req' \in [Requests -> Node] /\ req'[r] = Ended(r)
      /\ \A q \in Requests : q # r => req'[q] = req[q]
  BY <1>1, <1>2, OneRequest
<1>4. OneAtATime' /\ \A q \in Requests : Settles(q)
  BY <1>2, <1>3, EndSettles
<1>5. TypeOK'
  BY <1>1, <1>3, Zenon DEF TypeOK, ReqOrNull
<1>6. QED
  BY <1>4, <1>5, QuietInvariant, Zenon

\* pushPrestartedNode
LEMMA PushPrestartedStep ==
  ASSUME PoolInvariant, NEW r \in Requests, Working(r), PushPrestarted(r),
         inited' \in BOOLEAN, req[r].from # Preconnected \/ req[r].ssl = r,
         UNCHANGED <<idle, starter, release, pc, cursor, linked, deletes>>
  PROVE  PoolInvariant'
<1> DEFINE own == <<Prestarted, req[r].index>>
<1>1. TypeOK /\ pool \in [Slots -> Entry] /\ req[r] \in Node
  BY Zenon DEF PoolInvariant, TypeOK
<1>2. CASE UNCHANGED pool /\ req' = [req EXCEPT ![r] = Ended(r)]
  <2>1. \A t \in Slots : Keeps(t) /\ Withholds(t)
    BY <1>2, KeepsIs
  <2>2. QED
    BY <1>1, <1>2, <2>1, EndQuietly
<1>3. ASSUME StillThere(own, r), req' = [req EXCEPT ![r] = Ended(r)],
             pool' = [pool EXCEPT ![own] = [@ EXCEPT !.canPick = FALSE,
                                                     !.curInvalid = TRUE]]
      PROVE  PoolInvariant'
  <2> DEFINE e == [pool[own] EXCEPT !.canPick = FALSE, !.curInvalid = TRUE]
  <2>1. own \in Slots
    BY <1>3, StoredIs, Zenon DEF StillThere
  <2> HIDE DEF own
  <2>2. pool[own] \in Entry
    BY <1>1, <2>1, Zenon
  <2>3. e \in Entry
    BY <2>2, Zenon DEF Entry
  <2>4. /\ e.status = pool[own].status /\ e.conn = pool[own].conn
        /\ e.request = pool[own].request /\ ~e.canPick
    BY <2>2, SMT DEF Entry
  <2>5. pool' = [pool EXCEPT ![own] = e]
    BY <1>3
  <2> HIDE DEF e
  <2>6. /\ pool' \in [Slots -> Entry] /\ pool'[own] = e
        /\ \A t \in Slots : t # own => pool'[t] = pool[t]
    BY <1>1, <2>1, <2>3, <2>5, OneEntry
  <2>7. \A t \in Slots : Keeps(t) /\ Withholds(t)
    BY <2>4, <2>6, KeepsIs
  <2>8. QED
    BY <1>3, <2>6, <2>7, EndQuietly
<1>4. ASSUME req[r].ssl = r \/ ~StillThere(own, r), NEW s \in FreeSlots(Prestarted),
             pool' = [pool EXCEPT ![s] = Store(s, Prestarted, r, req[r].ssl)],
             req' = [req EXCEPT ![r] = [Ended(r) EXCEPT !.index = s[2]]]
      PROVE  PoolInvariant'
  <2> DEFINE e == Store(s, Prestarted, r, req[r].ssl)
             v == [Ended(r) EXCEPT !.index = s[2]]
  <2>1. /\ s \in Slots /\ s[2] \in Index /\ pool[s] \in Entry /\ Prestarted \in Kinds
        /\ r \in ReqOrNull /\ req[r].ssl \in ReqOrNull
    BY <1>1, SMT DEF FreeSlots, ReqOrNull, Node
  <2>2. e \in Entry /\ e.conn = req[r].ssl /\ e.request = r /\ ~e.canPick
    BY <2>1, StoreType
  <2>3. /\ Ended(r) \in Node /\ Ended(r).ssl = req[r].ssl /\ Ended(r).fd = req[r].fd
        /\ ~Ended(r).busy
        /\ Ended(r).life = IF req[r].life = "running" THEN "finished" ELSE req[r].life
    BY <1>1, EndedType
  <2>4. v \in Node
    BY <2>1, <2>3, Zenon DEF Node
  <2>5. /\ v.ssl = Ended(r).ssl /\ v.fd = Ended(r).fd /\ v.busy = Ended(r).busy
        /\ v.life = Ended(r).life
    BY <2>3, SMT DEF Node
  <2>6. pool' = [pool EXCEPT ![s] = e] /\ req' = [req EXCEPT ![r] = v]
    BY <1>4
  <2> HIDE DEF e, v
  <2>7. /\ pool' \in [Slots -> Entry] /\ pool'[s] = e
        /\ \A t \in Slots : t # s => pool'[t] = pool[t]
    BY <1>1, <2>1, <2>2, <2>6, OneEntry
  <2>8. /\ req' \in [Requests -> Node] /\ req'[r] = v
        /\ \A q \in Requests : q # r => req'[q] = req[q]
    BY <1>1, <2>4, <2>6, OneRequest
  <2>9. OneAtATime' /\ \A q \in Requests : Settles(q)
    BY <2>3, <2>5, <2>8, EndSettles
  <2>10. TypeOK'
    BY <1>1, <2>7, <2>8, Zenon DEF TypeOK, ReqOrNull
  <2>11. \A t \in Slots \ {s} : Keeps(t) /\ Withholds(t)
    BY <2>7, KeepsIs
  <2>12. ASSUME NEW t \in Slots \ {s}, t \in Stored', pool'[t].conn = req[r].ssl
         PROVE  FALSE
    <3>1. t \in Stored /\ pool[t].conn = req[r].ssl /\ t \in Slots
      BY <2>11, <2>12, Zenon DEF Keeps
    <3>2. req[r].ssl # r /\ t = <<req[r].from, req[r].index>> /\ StillThere(t, r)
      BY <3>1, BorrowedIs
    <3>3. req[r].from = Prestarted
      BY <3>1, <3>2, SMT
    <3>4. QED
      BY <1>4, <3>2, <3>3
  <2>13. req[r].fd /\ ~Fresh(r)
    BY WorkingIs
  <2>14. pool'[s].conn = req[r].ssl /\ pool'[s].request = r /\ ~pool'[s].canPick
    BY <2>2, <2>7
  <2>15. req'[r].fd /\ ~req'[r].busy
    BY <2>3, <2>5, <2>8, <2>13, Zenon
  <2>16. \A t \in Slots \ {s} : /\ Keeps(t) /\ Withholds(t)
                                /\ t \in Stored' => pool'[t].conn # req[r].ssl
    BY <2>11, <2>12
  <2>17. QED
    BY <2>1, <2>9, <2>10, <2>13, <2>14, <2>15, <2>16, KeepConnection
<1>5. QED
  BY <1>2, <1>3, <1>4, Zenon DEF PushPrestarted

\* pushPrestartedNodeFromPreconnected
LEMMA PushFromPreconnectedStep ==
  ASSUME PoolInvariant, NEW r \in Requests, Working(r), PushFromPreconnected(r),
         inited' \in BOOLEAN, req[r].from = Preconnected,
         UNCHANGED <<idle, starter, release, pc, cursor, linked, deletes>>
  PROVE  PoolInvariant'
<1> DEFINE own == <<Preconnected, req[r].index>>
           owner == pool[own].request
<1>1. TypeOK /\ pool \in [Slots -> Entry] /\ req[r] \in Node
  BY Zenon DEF PoolInvariant, TypeOK
<1>2. CASE UNCHANGED pool /\ req' = [req EXCEPT ![r] = Ended(r)]
  <2>1. \A t \in Slots : Keeps(t) /\ Withholds(t)
    BY <1>2, KeepsIs
  <2>2. QED
    BY <1>1, <1>2, <2>1, EndQuietly
<1>3. CASE /\ req' = [req EXCEPT ![r] = Ended(r)]
           /\ pool' = [pool EXCEPT ![own] = EmptyEntry]
  <2> HIDE DEF own
  <2>1. /\ pool' \in [Slots -> Entry]
        /\ \A t \in Slots : pool'[t] = pool[t] \/ pool'[t] = EmptyEntry
    BY <1>1, <1>3, EmptyType, Zenon
  <2>2. \A t \in Slots : Keeps(t) /\ Withholds(t)
    BY <2>1, KeepsIs
  <2>3. QED
    BY <1>3, <2>1, <2>2, EndQuietly
<1>4. ASSUME StillThere(own, r), NEW s \in FreeSlots(Prestarted),
             pool' = [pool EXCEPT ![s] = Store(s, Prestarted, owner, req[r].ssl),
                                  ![own] = EmptyEntry],
             req' = [req EXCEPT ![r] = Ended(r), ![owner].index = s[2]]
      PROVE  PoolInvariant'
  <2>1. /\ own \in Stored /\ own \in Slots /\ own[1] = Preconnected
        /\ req[owner].ssl = req[r].ssl
    BY <1>4, StoredIs, SMT DEF StillThere
  <2>2. /\ owner \in Requests /\ req[owner].ssl = pool[own].conn /\ req[owner].fd
        /\ ~req[owner].busy
    BY <2>1, Zenon DEF PoolInvariant, OwnerHasConn
  <2>3. req[r].busy /\ req[r].fd /\ ~Fresh(r)
    BY WorkingIs
  <2>4. owner # r
    BY <2>2, <2>3
  <2>5. ~Fresh(owner)
    BY <2>1, <2>2, Zenon DEF PoolInvariant, UnusedIsApart, Fresh
  <2> HIDE DEF own, owner
  <2> DEFINE e == Store(s, Prestarted, owner, req[r].ssl)
             v == [req[owner] EXCEPT !.index = s[2]]
  <2>6. /\ s \in Slots /\ s[1] = Prestarted /\ s[2] \in Index /\ pool[s] \in Entry
        /\ Prestarted \in Kinds /\ owner \in ReqOrNull /\ req[r].ssl \in ReqOrNull
    BY <1>1, <2>2, SMT DEF FreeSlots, ReqOrNull, Node
  <2>7. e \in Entry /\ e.conn = req[r].ssl /\ e.request = owner /\ ~e.canPick
    BY <2>6, StoreType
  <2>8. s # own
    BY <2>1, <2>6
  <2>9. pool' = [pool EXCEPT ![s] = e, ![own] = EmptyEntry]
    BY <1>4
  <2> HIDE DEF e
  <2>10. /\ pool' \in [Slots -> Entry] /\ pool'[s] = e
         /\ \A t \in Slots : t # s => pool'[t] = pool[t] \/ pool'[t] = EmptyEntry
    BY <1>1, <2>1, <2>6, <2>7, <2>8, <2>9, EmptyType, Zenon
  <2>11. pool'[own] = EmptyEntry
    BY <1>1, <2>1, <2>8, <2>9, Zenon
  <2>12. /\ Ended(r) \in Node /\ Ended(r).ssl = req[r].ssl /\ Ended(r).fd = req[r].fd
         /\ ~Ended(r).busy
         /\ Ended(r).life = IF req[r].life = "running" THEN "finished" ELSE req[r].life
    BY <1>1, EndedType
  <2>13. req[owner] \in Node /\ req \in [Requests -> Node]
    BY <1>1, <2>2, Zenon DEF TypeOK
  <2>14. v \in Node
    BY <2>6, <2>13, Zenon DEF Node
  <2>15. /\ v.life = req[owner].life /\ v.ssl = req[owner].ssl /\ v.fd = req[owner].fd
         /\ v.busy = req[owner].busy /\ v.from = req[owner].from
    BY <2>13, SMT DEF Node
  <2>16. req' = [req EXCEPT ![r] = Ended(r), ![owner] = v]
    BY <1>4, <2>2, <2>4, <2>13, Zenon
  <2> HIDE DEF v
  <2>17. /\ req' \in [Requests -> Node] /\ req'[r] = Ended(r) /\ req'[owner] = v
         /\ \A q \in Requests : q # r /\ q # owner => req'[q] = req[q]
    BY <2>2, <2>4, <2>12, <2>13, <2>14, <2>16, Zenon
  <2>18. OneAtATime' /\ \A q \in Requests : Settles(q)
    <3>1. \A q \in Requests : q # r =>
            /\ req'[q].life = req[q].life /\ req'[q].ssl = req[q].ssl
            /\ req'[q].fd = req[q].fd /\ req'[q].busy = req[q].busy
            /\ req'[q].from = req[q].from
            /\ req'[q].index = req[q].index \/ ~req[q].busy
      BY <2>2, <2>15, <2>17, Zenon
    <3>2. req'[r].ssl = req[r].ssl /\ ~req'[r].busy
      BY <2>12, <2>17, Zenon
    <3>3. req'[r].life = IF req[r].life = "running" THEN "finished" ELSE req[r].life
      BY <2>12, <2>17
    <3>4. QED
      BY <3>1, <3>2, <3>3, EndSettles
  <2>19. TypeOK'
    BY <1>1, <2>10, <2>17, Zenon DEF TypeOK, ReqOrNull
  <2>20. \A t \in Slots \ {s} : Keeps(t) /\ Withholds(t)
    BY <2>10, KeepsIs
  <2>21. ASSUME NEW t \in Slots \ {s}, t \in Stored', pool'[t].conn = req[r].ssl
         PROVE  FALSE
    <3>1. t \in Stored /\ pool[t].conn = req[r].ssl
      BY <2>20, <2>21, Zenon DEF Keeps
    <3>2. t = <<req[r].from, req[r].index>>
      BY <3>1, BorrowedIs
    <3>3. t = own
      BY <3>2 DEF own
    <3>4. EmptyEntry.status = "ToBeCreated"
      BY SMT DEF EmptyEntry
    <3>5. QED
      BY <2>11, <2>21, <3>3, <3>4, StoredIs, ClearedIs, Zenon
  <2>22. pool'[s].conn = req[r].ssl /\ pool'[s].request = owner /\ ~pool'[s].canPick
    BY <2>7, <2>10
  <2>23. ~req'[r].busy /\ req'[owner].fd /\ ~req'[owner].busy
    BY <2>2, <2>12, <2>15, <2>17, Zenon
  <2>24. \A t \in Slots \ {s} : /\ Keeps(t) /\ Withholds(t)
                                /\ t \in Stored' => pool'[t].conn # req[r].ssl
    BY <2>20, <2>21
  <2>25. req[owner].ssl = req[r].ssl
    BY <2>1
  <2>26. QED
    BY <2>2, <2>5, <2>6, <2>18, <2>19, <2>22, <2>23, <2>24, <2>25, KeepConnection
<1>5. QED
  BY <1>2, <1>3, <1>4, Zenon DEF PushFromPreconnected

\* The end of a task that did not fail.
LEMMA CompleteTaskStep ==
  ASSUME PoolInvariant, NEW r \in Requests, CompleteTask(r)
  PROVE  PoolInvariant'
<1>1. /\ Working(r)
      /\ UNCHANGED <<idle, starter, release, pc, cursor, linked, deletes>>
  BY DEF CompleteTask
<1>2. CASE req[r].from = Preconnected /\ req[r].ssl # r
  <2>1. PushFromPreconnected(r) /\ inited' \in BOOLEAN
    BY <1>2, Zenon DEF CompleteTask, PoolInvariant, TypeOK
  <2>2. QED
    BY <1>1, <1>2, <2>1, PushFromPreconnectedStep
<1>3. CASE ~(req[r].from = Preconnected /\ req[r].ssl # r)
  <2>1. PushPrestarted(r) /\ inited' \in BOOLEAN
    BY <1>3, Zenon DEF CompleteTask
  <2>2. QED
    BY <1>1, <1>3, <2>1, PushPrestartedStep
<1>4. QED
  BY <1>2, <1>3

(***************************************************************************)
(* The theorems.                                                           *)
(***************************************************************************)
\* The pool starts empty, and every request is unknown to it.
LEMMA InvariantInit == Init => PoolInvariant
<1> SUFFICES ASSUME Init PROVE PoolInvariant
  OBVIOUS
<1>1. \A s \in Slots : pool[s] = EmptyEntry
  BY Zenon DEF Init
<1>2. \A r \in Requests :
        /\ req[r].life = "new" /\ req[r].ssl = r /\ ~req[r].busy
  <2> SUFFICES ASSUME NEW r \in Requests
               PROVE  req[r].life = "new" /\ req[r].ssl = r /\ ~req[r].busy
    OBVIOUS
  <2>1. req[r] = [life |-> "new", ssl |-> r, fd |-> FALSE, from |-> "direct",
                  index |-> -1, busy |-> FALSE, held |-> FALSE]
    BY Zenon DEF Init
  <2>2. QED
    BY <2>1
<1>3. EmptyEntry.status = "ToBeCreated" /\ EmptyEntry.request = NoReq
  BY SMT DEF EmptyEntry
<1>4. \A s : s \notin Stored
  BY <1>1, <1>3, StoredIs, ClearedIs, Zenon
<1>5. \A r \in Requests : ~Holder(r) /\ r # NoReq
  <2>1. \A r \in Requests : ~Holder(r)
    <3>1. ASSUME NEW r \in Requests, req[r].life = "new" PROVE ~Holder(r)
      BY <3>1, SMT DEF Holder
    <3>2. QED
      BY <1>2, <3>1, Zenon
  <2>2. QED
    BY <2>1, PoolAssumption
<1>6. TypeOK
  <2>1. pool \in [Slots -> Entry]
    BY EmptyType, Zenon DEF Init
  <2>2. -1 \in Index \union {-1}
    OBVIOUS
  <2>3. req \in [Requests -> Node]
    BY <2>2, Zenon DEF Init, Node
  <2>4. release \in Release
    BY Zenon DEF Init, NoRelease, Release, ReqOrNull
  <2>5. /\ cursor \in Slots /\ idle \in [Kinds -> [Index -> Nat]]
        /\ deletes \in [Requests -> 0 .. 2]
    BY PoolAssumption, SMT DEF Init
  <2>6. QED
    BY <2>1, <2>3, <2>4, <2>5, Zenon DEF Init, TypeOK, ReqOrNull
<1>7. ExclusiveUse /\ StoredOnce /\ OwnerHasConn /\ AvailableIsFree /\ BusyIsWhereBorrowed
  BY <1>4, <1>5, Zenon DEF ExclusiveUse, StoredOnce, OwnerHasConn, AvailableIsFree,
     BusyIsWhereBorrowed
<1>8. UnusedIsApart
  BY <1>1, <1>2, <1>3, <1>4, <1>5, Zenon DEF UnusedIsApart
<1>9. OneAtATime
  <2>1. starter = NoReq /\ release.by = NoReq
    BY SMT DEF Init, NoRelease
  <2>2. QED
    BY <1>2, <2>1, SMT DEF OneAtATime
<1>10. LinkedIsUnused
  BY SMT DEF Init, LinkedIsUnused
<1>11. QED
  BY <1>6, <1>7, <1>8, <1>9, <1>10, Zenon DEF PoolInvariant

\* Every step of the pool, the users and the event threads keeps the invariant.
LEMMA InvariantStep == PoolInvariant /\ [Next]_vars => PoolInvariant'
<1> SUFFICES ASSUME PoolInvariant, [Next]_vars PROVE PoolInvariant'
  OBVIOUS
<1>1. CASE UNCHANGED vars
  <2>1. UNCHANGED <<inited, pool, idle, req, starter, release, pc, cursor, linked, deletes>>
    BY <1>1, Zenon DEF vars
  <2>2. TypeOK'
    BY <2>1, Zenon DEF PoolInvariant, TypeOK, ReqOrNull
  <2>3. \A t \in Slots : Keeps(t) /\ Withholds(t)
    BY <2>1, KeepsIs
  <2>4. QED
    BY <2>1, <2>2, <2>3, SameRequests, QuietInvariant, Zenon
<1>2. CASE PoolThread
  BY <1>2, PoolThreadStep
<1>3. ASSUME NEW r \in Requests, User(r) PROVE PoolInvariant'
  BY <1>3, BeginStartStep, PopPrestartedStep, PopPreconnectedStep, BeginReleaseStep,
     ReleaseDeleteStep, ReleaseFinalStep, Zenon DEF User
<1>4. ASSUME NEW r \in Requests, Worker(r) PROVE PoolInvariant'
  BY <1>4, CompleteTaskStep, FailTaskStep, Zenon DEF Worker
<1>5. QED
  BY <1>1, <1>2, <1>3, <1>4, Zenon DEF Next

\* The inductive invariant holds, whatever the users and the servers do.
THEOREM InvariantHolds == Spec => []PoolInvariant
  BY InvariantInit, InvariantStep, PTL DEF Spec

\* The variables have their types: no pop, push, release or sweep leaves an entry,
\* a node or an index list malformed.
THEOREM TypeCorrect == Spec => []TypeOK
<1>1. PoolInvariant => TypeOK
  BY DEF PoolInvariant
<1>2. QED
  BY <1>1, InvariantHolds, PTL

\* No two requests use one connection (popOnePrestartedNode,
\* popOnePreconnectedNode, finishPushPreNode, pushPrestartedNode).
THEOREM ExclusiveUseHolds == Spec => []ExclusiveUse
<1>1. PoolInvariant => ExclusiveUse
  BY DEF PoolInvariant
<1>2. QED
  BY <1>1, InvariantHolds, PTL

\* No two entries store one connection (pushPrestartedNode,
\* pushPrestartedNodeFromPreconnected, pushPreconnectedNode).
THEOREM StoredOnceHolds == Spec => []StoredOnce
<1>1. PoolInvariant => StoredOnce
  BY DEF PoolInvariant
<1>2. QED
  BY <1>1, InvariantHolds, PTL

(***************************************************************************)
(* Deletion. Four may delete the owner of a connection: its own release,   *)
(* that of a borrower whose task failed, the sweep and the destructor.     *)
(* They agree by what they find in the entries: every entry has an owner   *)
(* of its own, and an owner that was deleted is in none.                   *)
(***************************************************************************)
Owner(s) == pool[s].request
Owned == {s \in Slots : Owner(s) # NoReq}

\* Between the delete of a request and the end of its release.
Released(r) == release.by = r /\ release.phase = "final" /\ ~release.inPool

\* A request is deleted once, and from then on nobody works with it.
DeletedIsGone ==
  \A r \in Requests : /\ deletes[r] \in {0, 1}
                      /\ deletes[r] = 1 => req[r].life = "gone" \/ Released(r)

\* A request that runs is worked for, one that has ended is not, and both are their user's.
WorkIsKnown ==
  \A r \in Requests : /\ req[r].life = "running" => req[r].busy
                      /\ req[r].life = "finished" => ~req[r].busy
                      /\ req[r].life \in {"starting", "running", "finished"} => req[r].held

\* An owner has the connection its own node opened, is at rest, and owns one entry.
OwnersAreNative ==
  /\ \A s \in Owned : req[Owner(s)].ssl = Owner(s) /\ ~req[Owner(s)].busy /\ ~Fresh(Owner(s))
  /\ \A s, t \in Owned : Owner(s) = Owner(t) => s = t

\* The owner of an entry is there until the sweep has deleted it and is about to clear the
\* entry, or until its release has and is about to find the entry.
OwnersAreAlive ==
  \A s \in Owned :
    \/ deletes[Owner(s)] = 0
    \/ s = cursor /\ pc = "clear"
    \/ Released(Owner(s)) /\ ~release.ssl

\* An entry that stores nothing and has an owner is the pool thread's alone.
ExpiredIsUnused ==
  \A s \in Owned : s \notin Stored => \A r \in Requests : Holder(r) => req[r].ssl # Owner(s)

Sweeping == pc \in {"link", "finish", "delete", "clear"}

SweepHasOwner ==
  /\ \A s \in Marked : s \in Owned /\ s \notin Stored
  /\ Sweeping => cursor \in Owned /\ cursor \notin Stored
  /\ pc # "wipe"

\* The entry a borrower took its connection from.
Source(r) == <<req[r].from, req[r].index>>
Lent(r) == Working(r) /\ req[r].ssl # r

\* A borrowed connection lies where it was borrowed while its task runs, ...
LentIsThere ==
  \A r \in Requests : Lent(r) =>
    Source(r) \in Stored /\ pool[Source(r)].conn = req[r].ssl /\ pool[Source(r)].cur = r

\* ... and its owner is there as long as the borrower.
LenderIsAlive ==
  \A r \in Requests : Holder(r) /\ req[r].ssl # r =>
    /\ req[req[r].ssl].ssl = req[r].ssl /\ ~Fresh(req[r].ssl)
    /\ deletes[req[r].ssl] = 0

\* A release that found its connection in the entry of another is that of a borrower.
FoundElsewhere ==
  \A r \in Requests : release.by = r /\ release.ssl /\ ~release.inPool => req[r].ssl # r

OwnerInvariant ==
  /\ DeletedIsGone /\ WorkIsKnown
  /\ OwnersAreNative /\ OwnersAreAlive /\ ExpiredIsUnused
  /\ SweepHasOwner /\ LentIsThere /\ LenderIsAlive /\ FoundElsewhere

\* Users release what has ended before the pool's timeout, pings are answered, and
\* nobody stores a connection while clearNode() runs.
Punctual == ~LateRelease /\ ~PingFails /\ ~TornClear

(***************************************************************************)
(* What a step may leave of each part.                                     *)
(***************************************************************************)
\* The entry keeps its owner or loses it.
KeepsOwner(t) == t \in Owned' => t \in Owned /\ Owner(t)' = Owner(t)

\* The entry is as it was, but for what concerns pops.
Rests(t) == /\ Owner(t)' = Owner(t)
            /\ t \in Stored' <=> t \in Stored
            /\ pool'[t].conn = pool[t].conn
            /\ pool'[t].shouldRelease => pool[t].shouldRelease

\* The entry has become empty.
Empties(t) == Owner(t)' = NoReq /\ t \notin Stored' /\ ~pool'[t].shouldRelease

\* The request keeps its connection and begins nothing.
Calms(r) == /\ req'[r].ssl = req[r].ssl
            /\ req'[r].busy => req[r].busy
            /\ Fresh(r)' => Fresh(r)
            /\ Holder(r)' => Holder(r)
            /\ req[r].life = "gone" => req'[r].life = "gone"

\* What runs goes on or ends, and is its user's as before.
Works(r) == /\ req'[r].life = "running" => req[r].life = "running" /\ req'[r].busy = req[r].busy
            /\ req'[r].life = "finished" =>
                 ~req'[r].busy \/ (req[r].life = "finished" /\ req'[r].busy = req[r].busy)
            /\ req'[r].life \in {"starting", "running", "finished"} =>
                 /\ req[r].life \in {"starting", "running", "finished"}
                 /\ req'[r].held = req[r].held

LEMMA OwnersTyped ==
  ASSUME TypeOK
  PROVE  \A s \in Owned : s \in Slots /\ Owner(s) \in Requests
<1>1. \A s \in Slots : Owner(s) \in ReqOrNull
  BY SMT DEF TypeOK, Entry, Owner
<1> QED
  BY <1>1 DEF Owned, ReqOrNull

LEMMA WorkKept ==
  ASSUME WorkIsKnown, \A r \in Requests : Works(r) PROVE WorkIsKnown'
  BY SMT DEF WorkIsKnown, Works

LEMMA NativeKept ==
  ASSUME TypeOK, OwnersAreNative, \A t \in Slots : KeepsOwner(t), \A r \in Requests : Calms(r)
  PROVE  OwnersAreNative'
<1>1. \A s \in Owned' : s \in Slots /\ s \in Owned /\ Owner(s)' = Owner(s)
  BY DEF Owned, KeepsOwner
<1>2. \A s \in Owned : Owner(s) \in Requests
  BY OwnersTyped
<1>3. ASSUME NEW s \in Owned'
      PROVE  req'[Owner(s)'].ssl = Owner(s)' /\ ~req'[Owner(s)'].busy /\ ~Fresh(Owner(s))'
  <2>1. s \in Owned /\ Owner(s)' = Owner(s) /\ Owner(s) \in Requests
    BY <1>1, <1>2, <1>3
  <2>2. PICK o \in Requests : o = Owner(s)
    BY <2>1
  <2>3. req[o].ssl = o /\ ~req[o].busy /\ ~Fresh(o) /\ Calms(o)
    BY <2>1, <2>2 DEF OwnersAreNative
  <2>4. req'[o].ssl = o /\ ~req'[o].busy /\ ~Fresh(o)'
    BY <2>3 DEF Calms
  <2> QED
    BY <2>1, <2>2, <2>4 DEF Fresh
<1> QED
  BY <1>1, <1>3 DEF OwnersAreNative, Fresh

LEMMA ExpiredKept ==
  ASSUME TypeOK, ExpiredIsUnused, \A t \in Slots : Rests(t) \/ Empties(t),
         \A r \in Requests : Calms(r)
  PROVE  ExpiredIsUnused'
<1> SUFFICES ASSUME NEW s \in Owned', s \notin Stored', NEW r \in Requests, Holder(r)'
             PROVE  req'[r].ssl # Owner(s)'
  BY DEF ExpiredIsUnused
<1>1. s \in Slots /\ Owner(s)' # NoReq
  BY DEF Owned
<1>2. s \in Owned /\ s \notin Stored /\ Owner(s)' = Owner(s)
  BY <1>1 DEF Owned, Rests, Empties
<1>3. Holder(r) /\ req'[r].ssl = req[r].ssl
  BY DEF Calms
<1> QED
  BY <1>2, <1>3 DEF ExpiredIsUnused

LEMMA SweepKept ==
  ASSUME SweepHasOwner, \A t \in Slots : Rests(t) \/ Empties(t),
         pc' # "wipe", Sweeping' => Sweeping /\ cursor' = cursor /\ Rests(cursor)
  PROVE  SweepHasOwner'
<1>1. ASSUME NEW s \in Marked' PROVE s \in Owned' /\ s \notin Stored'
  <2>1. s \in Slots /\ pool'[s].shouldRelease
    BY <1>1 DEF Marked
  <2>2. Rests(s)
    BY <2>1 DEF Empties
  <2>3. s \in Owned /\ s \notin Stored
    BY <2>1, <2>2 DEF Rests, SweepHasOwner, Marked
  <2> QED
    BY <2>2, <2>3 DEF Rests, Owned
<1>2. Sweeping' => cursor' \in Owned' /\ cursor' \notin Stored'
  BY DEF SweepHasOwner, Rests, Owned
<1> QED
  BY <1>1, <1>2 DEF SweepHasOwner

\* A worker goes on as it was.
Goes(r) == Lent(r)' => /\ Lent(r) /\ Source(r)' = Source(r) /\ req'[r].ssl = req[r].ssl
                       /\ Rests(Source(r)) /\ pool'[Source(r)].cur = pool[Source(r)].cur

LEMMA LentKept ==
  ASSUME LentIsThere, \A r \in Requests : Goes(r) PROVE LentIsThere'
<1> SUFFICES ASSUME NEW r \in Requests, Lent(r)'
             PROVE  /\ Source(r)' \in Stored' /\ pool'[Source(r)'].conn = req'[r].ssl
                    /\ pool'[Source(r)'].cur = r
  BY DEF LentIsThere
<1>1. /\ Lent(r) /\ Source(r)' = Source(r) /\ req'[r].ssl = req[r].ssl
      /\ Rests(Source(r)) /\ pool'[Source(r)].cur = pool[Source(r)].cur
  BY DEF Goes
<1>2. Source(r) \in Stored /\ pool[Source(r)].conn = req[r].ssl /\ pool[Source(r)].cur = r
  BY <1>1 DEF LentIsThere
<1> QED
  BY <1>1, <1>2 DEF Rests

LEMMA LenderKept ==
  ASSUME TypeOK, LenderIsAlive, \A r \in Requests : Calms(r),
         \A r \in Requests : Holder(r)' /\ req[r].ssl # r => deletes'[req[r].ssl] = deletes[req[r].ssl]
  PROVE  LenderIsAlive'
<1> SUFFICES ASSUME NEW r \in Requests, Holder(r)', req'[r].ssl # r
             PROVE  /\ req'[req'[r].ssl].ssl = req'[r].ssl /\ ~Fresh(req[r].ssl)'
                    /\ deletes'[req'[r].ssl] = 0
  BY DEF LenderIsAlive
<1>1. Holder(r) /\ req'[r].ssl = req[r].ssl
  BY DEF Calms
<1>2. PICK o \in Requests : o = req[r].ssl
  BY SMT DEF TypeOK, Node
<1>3. req[o].ssl = o /\ ~Fresh(o) /\ deletes[o] = 0
  BY <1>1, <1>2 DEF LenderIsAlive
<1>4. req'[o].ssl = o /\ ~Fresh(o)'
  BY <1>3 DEF Calms
<1>5. deletes'[o] = 0
  BY <1>1, <1>2, <1>3
<1> QED
  BY <1>1, <1>2, <1>4, <1>5 DEF Fresh

LEMMA FoundKept ==
  ASSUME FoundElsewhere, \A r \in Requests : Calms(r),
         release'.by # NoReq => release'.by = release.by /\ release'.ssl = release.ssl
                                /\ release'.inPool = release.inPool
  PROVE  FoundElsewhere'
<1>1. \A r \in Requests : r # NoReq
  BY PoolAssumption
<1> QED
  BY <1>1 DEF FoundElsewhere, Calms

LEMMA DeletedKept ==
  ASSUME DeletedIsGone, deletes' = deletes, \A r \in Requests : Calms(r),
         \A r \in Requests : Released(r) => Released(r)' \/ req'[r].life = "gone"
  PROVE  DeletedIsGone'
  BY DEF DeletedIsGone, Calms

LEMMA AliveKept ==
  ASSUME TypeOK, OwnersAreAlive, deletes' = deletes, \A t \in Slots : KeepsOwner(t),
         pc = "clear" /\ cursor \in Owned' => pc' = "clear" /\ cursor' = cursor,
         \A t \in Owned' : Released(Owner(t)) /\ ~release.ssl => Released(Owner(t))' /\ ~release'.ssl
  PROVE  OwnersAreAlive'
<1> SUFFICES ASSUME NEW s \in Owned'
             PROVE  \/ deletes'[Owner(s)'] = 0
                    \/ s = cursor' /\ pc' = "clear"
                    \/ Released(Owner(s))' /\ ~release'.ssl
  BY DEF OwnersAreAlive, Released
<1>1. s \in Slots /\ s \in Owned /\ Owner(s)' = Owner(s)
  BY DEF Owned, KeepsOwner
<1>2. \/ deletes[Owner(s)] = 0
      \/ s = cursor /\ pc = "clear"
      \/ Released(Owner(s)) /\ ~release.ssl
  BY <1>1 DEF OwnersAreAlive
<1> QED
  BY <1>1, <1>2 DEF Released

\* A step that gives no entry an owner, deletes nothing and is no part of a release.
LEMMA OwnersKept ==
  ASSUME PoolInvariant, OwnerInvariant, deletes' = deletes, release' = release,
         \A t \in Slots : Rests(t) \/ Empties(t),
         \A r \in Requests : Calms(r) /\ Goes(r),
         WorkIsKnown',
         pc' # "wipe", Sweeping' => Sweeping /\ cursor' = cursor /\ Rests(cursor),
         pc = "clear" /\ cursor \in Owned' => pc' = "clear" /\ cursor' = cursor
  PROVE  OwnerInvariant'
<1>1. TypeOK
  BY DEF PoolInvariant
<1>2. \A t \in Slots : KeepsOwner(t)
  BY DEF Rests, Empties, KeepsOwner, Owned
<1>3. DeletedIsGone' /\ FoundElsewhere'
  BY DeletedKept, FoundKept DEF OwnerInvariant, Released
<1>4. OwnersAreNative'
  BY <1>1, <1>2, NativeKept DEF OwnerInvariant
<1>5. OwnersAreAlive'
  <2>1. \A t \in Owned' : Released(Owner(t)) /\ ~release.ssl => Released(Owner(t))' /\ ~release'.ssl
    BY <1>2 DEF KeepsOwner, Owned, Released
  <2> QED
    BY <1>1, <1>2, <2>1, AliveKept DEF OwnerInvariant
<1>6. ExpiredIsUnused'
  BY <1>1, ExpiredKept DEF OwnerInvariant
<1>7. SweepHasOwner'
  BY SweepKept DEF OwnerInvariant
<1>8. LentIsThere'
  BY LentKept DEF OwnerInvariant
<1>9. LenderIsAlive'
  BY <1>1, LenderKept DEF OwnerInvariant
<1> QED
  BY <1>3, <1>4, <1>5, <1>6, <1>7, <1>8, <1>9 DEF OwnerInvariant

\* A request that is as it was.
LEMMA SameCalms ==
  ASSUME NEW r, req'[r] = req[r] PROVE Calms(r) /\ Works(r)
  BY DEF Calms, Works, Fresh, Holder

LEMMA SameRests ==
  ASSUME NEW t \in Slots, pool'[t] = pool[t] PROVE Rests(t) /\ pool'[t].cur = pool[t].cur
  BY StoredIs DEF Rests, Owner

LEMMA EmptyEmpties ==
  ASSUME NEW t \in Slots, pool'[t] = EmptyEntry PROVE Empties(t)
<1>1. EmptyEntry.status = "ToBeCreated" /\ EmptyEntry.request = NoReq /\ ~EmptyEntry.shouldRelease
  BY SMT DEF EmptyEntry
<1> QED
  BY <1>1, StoredIs, ClearedIs DEF Empties, Owner

\* Where the connection a worker borrowed is.
LEMMA LentIs ==
  ASSUME PoolInvariant, OwnerInvariant, NEW r \in Requests, Lent(r)
  PROVE  /\ Source(r) \in Slots /\ Source(r) \in Stored
         /\ pool[Source(r)].conn = req[r].ssl /\ pool[Source(r)].cur = r
         /\ Holder(r) /\ req[r].busy /\ req[r].ssl # r
<1>1. Source(r) \in Stored /\ pool[Source(r)].conn = req[r].ssl /\ pool[Source(r)].cur = r
  BY DEF OwnerInvariant, LentIsThere
<1>2. Holder(r)
  <2>1. r # NoReq
    BY PoolAssumption
  <2> QED
    BY <2>1 DEF Lent, Working, Holder, PoolInvariant, OneAtATime
<1> QED
  BY <1>1, <1>2, StoredIs DEF Lent, Working

\* A worker goes on if it is as it was, its release too, and the entry it borrowed from.
LEMMA GoesOn ==
  ASSUME PoolInvariant, OwnerInvariant, NEW r \in Requests, req'[r] = req[r], release' = release,
         \A t \in Slots : t \in Stored /\ pool[t].conn = req[r].ssl /\ Holder(r) /\ req[r].ssl # r
            /\ req[r].busy /\ pool[t].cur = r =>
               Rests(t) /\ pool'[t].cur = pool[t].cur
  PROVE  Goes(r)
<1>1. SUFFICES ASSUME Lent(r)' PROVE Goes(r)
  BY DEF Goes
<1>2. Lent(r)
  BY <1>1 DEF Lent, Working
<1> QED
  BY <1>2, LentIs DEF Goes, Source

\* One that has no worker any more.
LEMMA GoesHome ==
  ASSUME NEW r, ~req'[r].busy \/ ~Working(r)' PROVE Goes(r)
  BY DEF Goes, Lent, Working


(***************************************************************************)
(* Steps that move no owner.                                               *)
(***************************************************************************)
\* start() begins, and looks in the next vector.
LEMMA StartersGo ==
  ASSUME PoolInvariant, OwnerInvariant, NEW r \in Requests, UNCHANGED <<pool, release, deletes>>,
         pc' = pc, cursor' = cursor,
         \A q \in Requests : q # r => req'[q] = req[q],
         Fresh(r), ~req'[r].busy, req'[r].ssl = req[r].ssl, req'[r].life = "starting", req'[r].held
  PROVE  OwnerInvariant'
<1>1. \A t \in Slots : Rests(t) /\ pool'[t].cur = pool[t].cur
  BY SameRests
<1>2. req[r].life # "gone"
  BY DEF Fresh
<1>3. Calms(r)
  BY <1>2 DEF Calms, Fresh, Holder
<1>4. Goes(r)
  BY GoesHome
<1>5. ASSUME NEW q \in Requests, q # r PROVE Calms(q) /\ Works(q) /\ Goes(q)
  <2>1. \A t : t \in Stored => t \in Slots
    BY StoredIs
  <2> QED
    BY <1>1, <1>5, <2>1, SameCalms, GoesOn
<1>6. WorkIsKnown'
  <2>1. WorkIsKnown
    BY DEF OwnerInvariant
  <2> QED
    BY <1>5, <2>1 DEF WorkIsKnown, Works
<1>7. Sweeping' => Sweeping /\ cursor' = cursor /\ Rests(cursor)
  BY <1>1 DEF Sweeping, PoolInvariant, TypeOK
<1>8. pc' # "wipe"
  BY DEF OwnerInvariant, SweepHasOwner
<1> QED
  BY <1>1, <1>3, <1>4, <1>5, <1>6, <1>7, <1>8, OwnersKept

LEMMA BeginStartOwners ==
  ASSUME PoolInvariant, OwnerInvariant, NEW r \in Requests, BeginStart(r) PROVE OwnerInvariant'
<1>1. TypeOK /\ req[r] \in Node /\ req[r].life = "new"
  BY DEF PoolInvariant, TypeOK, BeginStart
<1>2. Fresh(r) /\ ~req[r].busy
  BY <1>1 DEF PoolInvariant, UnusedIsApart, Fresh
<1> DEFINE v == [req[r] EXCEPT !.life = "starting", !.from = Prestarted, !.held = TRUE]
<1>3. v.life = "starting" /\ v.ssl = req[r].ssl /\ v.busy = req[r].busy /\ v.held
  BY <1>1, SMT DEF Node
<1>4. req' = [req EXCEPT ![r] = v]
  BY DEF BeginStart
<1> HIDE DEF v
<1>5. req'[r] = v /\ \A q \in Requests : q # r => req'[q] = req[q]
  BY <1>1, <1>4 DEF TypeOK
<1> QED
  BY <1>2, <1>3, <1>5, StartersGo DEF BeginStart

LEMMA NextVectorOwners ==
  ASSUME PoolInvariant, OwnerInvariant, NEW r \in Requests, starter = r,
         req' = [req EXCEPT ![r].from = Preconnected],
         UNCHANGED <<pool, release, pc, cursor, deletes>>
  PROVE  OwnerInvariant'
<1>1. TypeOK /\ req[r] \in Node /\ req[r].life = "starting"
  BY PoolAssumption DEF PoolInvariant, TypeOK, OneAtATime
<1>2. Fresh(r) /\ ~req[r].busy
  BY <1>1 DEF PoolInvariant, UnusedIsApart, Fresh
<1>3. req[r].held
  BY <1>1 DEF OwnerInvariant, WorkIsKnown
<1> DEFINE v == [req[r] EXCEPT !.from = Preconnected]
<1>4. v.life = "starting" /\ v.ssl = req[r].ssl /\ v.busy = req[r].busy /\ v.held = req[r].held
  BY <1>1, SMT DEF Node
<1>5. req' = [req EXCEPT ![r] = v]
  OBVIOUS
<1> HIDE DEF v
<1>6. req'[r] = v /\ \A q \in Requests : q # r => req'[q] = req[q]
  BY <1>1, <1>5 DEF TypeOK
<1> QED
  BY <1>2, <1>3, <1>4, <1>6, StartersGo

\* The end of a task, for requests: the worker of r goes, the others go on.
LEMMA EndCalms ==
  ASSUME PoolInvariant, OwnerInvariant, NEW r \in Requests, Working(r), release' = release,
         req'[r].ssl = req[r].ssl, ~req'[r].busy, req'[r].held = req[r].held,
         req'[r].life = IF req[r].life = "running" THEN "finished" ELSE req[r].life,
         \A q \in Requests : q # r =>
            /\ req'[q].life = req[q].life /\ req'[q].ssl = req[q].ssl
            /\ req'[q].held = req[q].held /\ req'[q].busy = req[q].busy
            /\ req'[q].from = req[q].from
            /\ req'[q].index = req[q].index \/ ~req[q].busy,
         \A t \in Slots : t \in Stored /\ pool[t].conn # req[r].ssl =>
            Rests(t) /\ pool'[t].cur = pool[t].cur
  PROVE  WorkIsKnown' /\ \A q \in Requests : Calms(q) /\ Goes(q)
<1>1. Holder(r) /\ ~Fresh(r) /\ req[r].life \in {"running", "releasing"}
  BY WorkingIs
<1>2. req'[r].life \in {"finished", "releasing"} /\ req[r].life # "gone"
  BY <1>1
<1>3. Calms(r) /\ Works(r) /\ Goes(r)
  BY <1>1, <1>2, GoesHome DEF Calms, Works, Holder, Fresh
<1>4. ASSUME NEW q \in Requests, q # r PROVE Calms(q) /\ Works(q) /\ Goes(q)
  <2>1. Calms(q) /\ Works(q)
    BY <1>4 DEF Calms, Works, Fresh, Holder
  <2>2. ASSUME Lent(q)' PROVE Goes(q)
    <3>1. Lent(q)
      BY <1>4, <2>2 DEF Lent, Working
    <3>2. /\ Source(q) \in Slots /\ Source(q) \in Stored /\ pool[Source(q)].conn = req[q].ssl
          /\ Holder(q) /\ req[q].busy
      BY <3>1, LentIs
    <3>3. req[q].ssl # req[r].ssl
      BY <1>1, <1>4, <3>2 DEF PoolInvariant, ExclusiveUse
    <3>4. Rests(Source(q)) /\ pool'[Source(q)].cur = pool[Source(q)].cur
      BY <3>2, <3>3
    <3> QED
      BY <1>4, <3>1, <3>2, <3>4 DEF Goes, Source
  <2> QED
    BY <2>1, <2>2 DEF Goes
<1> QED
  BY <1>3, <1>4, WorkKept DEF OwnerInvariant

\* The end of a task that stores nothing new.
LEMMA EndOwners ==
  ASSUME PoolInvariant, OwnerInvariant, NEW r \in Requests, Working(r),
         UNCHANGED <<release, pc, cursor, deletes>>,
         WorkIsKnown', \A q \in Requests : Calms(q) /\ Goes(q),
         \A t \in Slots : Rests(t) \/ (t \in Stored /\ Empties(t))
  PROVE  OwnerInvariant'
<1>1. Sweeping' => Sweeping /\ cursor' = cursor /\ Rests(cursor)
  BY DEF Sweeping, PoolInvariant, TypeOK, OwnerInvariant, SweepHasOwner
<1>2. pc' # "wipe"
  BY DEF OwnerInvariant, SweepHasOwner
<1> QED
  BY <1>1, <1>2, OwnersKept

\* What the node of a task that ended keeps.
LEMMA EndedKeeps ==
  ASSUME NEW r \in Requests, req[r] \in Node
  PROVE  Ended(r).held = req[r].held /\ Ended(r).from = req[r].from /\ Ended(r).index = req[r].index
  BY SMT DEF Ended, Node


LEMMA FailTaskOwners ==
  ASSUME PoolInvariant, OwnerInvariant, NEW r \in Requests, FailTask(r) PROVE OwnerInvariant'
<1>1. /\ TypeOK /\ Working(r) /\ req[r] \in Node
      /\ UNCHANGED <<release, pc, cursor, deletes>>
  BY DEF PoolInvariant, TypeOK, FailTask
<1> DEFINE v == [Ended(r) EXCEPT !.fd = (req[r].ssl # r)]
<1>2. /\ Ended(r) \in Node /\ Ended(r).ssl = req[r].ssl /\ ~Ended(r).busy
      /\ Ended(r).life = IF req[r].life = "running" THEN "finished" ELSE req[r].life
      /\ Ended(r).held = req[r].held
  BY <1>1, EndedType, EndedKeeps
<1>3. v.ssl = Ended(r).ssl /\ v.busy = Ended(r).busy /\ v.life = Ended(r).life /\ v.held = Ended(r).held
  BY <1>2, SMT DEF Node
<1>4. req' = [req EXCEPT ![r] = v]
  BY DEF FailTask
<1> HIDE DEF v
<1>5. req'[r] = v /\ \A q \in Requests : q # r => req'[q] = req[q]
  BY <1>1, <1>4 DEF TypeOK
<1>6. \A t \in Slots : Rests(t) /\ pool'[t].cur = pool[t].cur
  <2>1. CASE UNCHANGED pool
    BY <2>1, SameRests
  <2>2. ASSUME NEW s \in Stored, pool' = [pool EXCEPT ![s].isAbnormal = TRUE]
        PROVE  \A t \in Slots : Rests(t) /\ pool'[t].cur = pool[t].cur
    <3> DEFINE e == [pool[s] EXCEPT !.isAbnormal = TRUE]
    <3>1. s \in Slots /\ pool[s] \in Entry
      BY <1>1, StoredIs DEF TypeOK
    <3>2. /\ e.status = pool[s].status /\ e.conn = pool[s].conn /\ e.cur = pool[s].cur
          /\ e.request = pool[s].request /\ e.shouldRelease = pool[s].shouldRelease
      BY <3>1, SMT DEF Entry
    <3>3. pool' = [pool EXCEPT ![s] = e]
      BY <2>2
    <3> HIDE DEF e
    <3>4. pool'[s] = e /\ \A t \in Slots : t # s => pool'[t] = pool[t]
      BY <1>1, <3>1, <3>3 DEF TypeOK
    <3>5. Rests(s) /\ pool'[s].cur = pool[s].cur
      BY <3>2, <3>4, StoredIs DEF Rests, Owner
    <3> QED
      BY <3>4, <3>5, SameRests
  <2> QED
    BY <2>1, <2>2 DEF FailTask
<1>7. WorkIsKnown' /\ \A q \in Requests : Calms(q) /\ Goes(q)
  BY <1>1, <1>2, <1>3, <1>5, <1>6, EndCalms
<1> QED
  BY <1>1, <1>6, <1>7, EndOwners

\* parseFrame stores nothing, or empties the entry of a connection that has no place.
LEMMA EndsInPlace ==
  ASSUME PoolInvariant, OwnerInvariant, NEW r \in Requests, Working(r),
         UNCHANGED <<release, pc, cursor, deletes>>, req' = [req EXCEPT ![r] = Ended(r)],
         \A t \in Slots : \/ Rests(t) /\ pool'[t].cur = pool[t].cur
                          \/ pool[t].conn = req[r].ssl /\ t \in Stored /\ Empties(t)
  PROVE  OwnerInvariant'
<1>1. req[r] \in Node /\ req \in [Requests -> Node]
  BY DEF PoolInvariant, TypeOK
<1>2. /\ Ended(r) \in Node /\ Ended(r).ssl = req[r].ssl /\ ~Ended(r).busy
      /\ Ended(r).life = IF req[r].life = "running" THEN "finished" ELSE req[r].life
      /\ Ended(r).held = req[r].held
  BY <1>1, EndedType, EndedKeeps
<1>3. req'[r] = Ended(r) /\ \A q \in Requests : q # r => req'[q] = req[q]
  BY <1>1
<1>4. WorkIsKnown' /\ \A q \in Requests : Calms(q) /\ Goes(q)
  BY <1>2, <1>3, EndCalms
<1> QED
  BY <1>4, EndOwners

LEMMA FinishPushRests ==
  ASSUME TypeOK, NEW r \in Requests, FinishPush(r)
  PROVE  \A t \in Slots : Rests(t) /\ (pool[t].conn # req[r].ssl \/ t \notin Stored => pool'[t].cur = pool[t].cur)
<1>1. CASE UNCHANGED pool
  BY <1>1, SameRests
<1>2. ASSUME NEW s \in Stored, SameConn(s, r),
             pool' = [pool EXCEPT ![s] = [@ EXCEPT !.canPick = TRUE, !.cur = NoReq, !.curInvalid = FALSE]]
      PROVE  \A t \in Slots : Rests(t) /\ (pool[t].conn # req[r].ssl \/ t \notin Stored => pool'[t].cur = pool[t].cur)
  <2> DEFINE e == [pool[s] EXCEPT !.canPick = TRUE, !.cur = NoReq, !.curInvalid = FALSE]
  <2>1. s \in Slots /\ pool[s] \in Entry
    BY StoredIs DEF TypeOK
  <2>2. /\ e.status = pool[s].status /\ e.conn = pool[s].conn
        /\ e.request = pool[s].request /\ e.shouldRelease = pool[s].shouldRelease
    BY <2>1, SMT DEF Entry
  <2>3. pool' = [pool EXCEPT ![s] = e]
    BY <1>2
  <2> HIDE DEF e
  <2>4. pool'[s] = e /\ \A t \in Slots : t # s => pool'[t] = pool[t]
    BY <2>1, <2>3 DEF TypeOK
  <2>5. Rests(s) /\ pool[s].conn = req[r].ssl
    BY <1>2, <2>2, <2>4, StoredIs DEF Rests, Owner, SameConn
  <2> QED
    BY <2>4, <2>5, SameRests
<1> QED
  BY <1>1, <1>2 DEF FinishPush

LEMMA FinishLinkOwners ==
  ASSUME PoolInvariant, OwnerInvariant, FinishLink PROVE OwnerInvariant'
<1>1. TypeOK /\ LinkedIsUnused /\ pc = "finish" /\ linked \in Requests /\ FinishPush(linked)
  BY DEF PoolInvariant, LinkedIsUnused, FinishLink
<1>2. /\ UNCHANGED <<req, release, cursor, deletes>> /\ pc' = "delete"
  BY DEF FinishLink
<1>3. \A t \in Slots : Rests(t) /\ (pool[t].conn # req[linked].ssl => pool'[t].cur = pool[t].cur)
  BY <1>1, FinishPushRests
<1>4. ASSUME NEW q \in Requests PROVE Calms(q) /\ Works(q) /\ Goes(q)
  <2>1. Holder(q) => req[q].ssl # req[linked].ssl
    BY <1>1 DEF LinkedIsUnused
  <2> QED
    BY <1>2, <1>3, <2>1, SameCalms, GoesOn
<1>5. WorkIsKnown'
  BY <1>4, WorkKept DEF OwnerInvariant
<1>6. Sweeping' => Sweeping /\ cursor' = cursor /\ Rests(cursor)
  BY <1>1, <1>2, <1>3 DEF Sweeping, TypeOK
<1> QED
  BY <1>1, <1>2, <1>3, <1>4, <1>5, <1>6, OwnersKept

LEMMA SweepClearOwners ==
  ASSUME PoolInvariant, OwnerInvariant, Punctual, SweepClear PROVE OwnerInvariant'
<1>1. /\ TypeOK /\ pc = "clear" /\ pc' = "sweep" /\ pool' = [pool EXCEPT ![cursor] = EmptyEntry]
      /\ UNCHANGED <<req, release, cursor, deletes>>
  BY DEF PoolInvariant, SweepClear, Punctual
<1>2. /\ cursor \in Slots /\ cursor \notin Stored /\ pool'[cursor] = EmptyEntry
      /\ \A t \in Slots : t # cursor => pool'[t] = pool[t]
  BY <1>1 DEF OwnerInvariant, SweepHasOwner, Sweeping, TypeOK
<1>3. \A t \in Slots : \/ Rests(t) /\ pool'[t].cur = pool[t].cur
                       \/ Empties(t) /\ t \notin Stored
  BY <1>2, SameRests, EmptyEmpties
<1>4. ASSUME NEW q \in Requests PROVE Calms(q) /\ Works(q) /\ Goes(q)
  BY <1>1, <1>3, SameCalms, GoesOn
<1>5. WorkIsKnown'
  BY <1>4, WorkKept DEF OwnerInvariant
<1>6. ~Sweeping'
  BY <1>1 DEF Sweeping
<1>7. cursor \notin Owned'
  BY <1>2, EmptyEmpties DEF Empties, Owned
<1> QED
  BY <1>1, <1>3, <1>4, <1>5, <1>6, <1>7, OwnersKept

LEMMA SweepOwners ==
  ASSUME PoolInvariant, OwnerInvariant, Sweep PROVE OwnerInvariant'
<1>1. TypeOK /\ pc = "sweep" /\ UNCHANGED <<req, release, linked, deletes>>
  BY DEF PoolInvariant, Sweep
<1>2. CASE pc' = "timer" /\ UNCHANGED <<pool, cursor>>
  <2>1. \A t \in Slots : Rests(t) /\ pool'[t].cur = pool[t].cur
    BY <1>2, SameRests
  <2>2. ASSUME NEW q \in Requests PROVE Calms(q) /\ Works(q) /\ Goes(q)
    BY <1>1, <2>1, SameCalms, GoesOn
  <2>3. WorkIsKnown'
    BY <2>2, WorkKept DEF OwnerInvariant
  <2>4. ~Sweeping'
    BY <1>2 DEF Sweeping
  <2> QED
    BY <1>1, <1>2, <2>1, <2>2, <2>3, <2>4, OwnersKept
<1>3. ASSUME NEW s \in Marked, cursor' = s, pc' \in {"link", "delete"},
             pool' = [pool EXCEPT ![s] = [@ EXCEPT !.shouldRelease = FALSE, !.shouldPreconnect = FALSE]]
      PROVE  OwnerInvariant'
  <2>1. s \in Slots /\ s \in Owned /\ s \notin Stored /\ pool[s] \in Entry
    BY <1>1 DEF OwnerInvariant, SweepHasOwner, Owned, TypeOK
  <2> DEFINE e == [pool[s] EXCEPT !.shouldRelease = FALSE, !.shouldPreconnect = FALSE]
  <2>2. /\ e.status = pool[s].status /\ e.conn = pool[s].conn /\ e.cur = pool[s].cur
        /\ e.request = pool[s].request /\ ~e.shouldRelease
    BY <2>1, SMT DEF Entry
  <2>3. pool' = [pool EXCEPT ![s] = e]
    BY <1>3
  <2> HIDE DEF e
  <2>4. pool'[s] = e /\ \A t \in Slots : t # s => pool'[t] = pool[t]
    BY <1>1, <2>1, <2>3 DEF TypeOK
  <2>5. Rests(s) /\ pool'[s].cur = pool[s].cur
    BY <2>2, <2>4, StoredIs DEF Rests, Owner
  <2>6. \A t \in Slots : Rests(t) /\ pool'[t].cur = pool[t].cur
    BY <2>4, <2>5, SameRests
  <2>7. ASSUME NEW q \in Requests PROVE Calms(q) /\ Works(q) /\ Goes(q)
    BY <1>1, <2>6, SameCalms, GoesOn
  <2>8. WorkIsKnown' /\ DeletedIsGone' /\ FoundElsewhere' /\ LentIsThere'
    BY <1>1, <2>7, WorkKept, DeletedKept, FoundKept, LentKept DEF OwnerInvariant, Released
  <2>9. \A t \in Slots : KeepsOwner(t)
    BY <2>6 DEF Rests, KeepsOwner, Owned
  <2>10. OwnersAreNative'
    BY <1>1, <2>7, <2>9, NativeKept DEF OwnerInvariant
  <2>11. ExpiredIsUnused' /\ LenderIsAlive'
    BY <1>1, <2>6, <2>7, ExpiredKept, LenderKept DEF OwnerInvariant
  <2>12. \A t \in Owned' : Released(Owner(t)) /\ ~release.ssl => Released(Owner(t))' /\ ~release'.ssl
    BY <1>1, <2>9 DEF KeepsOwner, Owned, Released
  <2>13. OwnersAreAlive'
    BY <1>1, <2>9, <2>12, AliveKept DEF OwnerInvariant
  <2>14. SweepHasOwner'
    <3>1. ASSUME NEW t \in Marked' PROVE t \in Owned' /\ t \notin Stored'
      <4>1. t \in Slots /\ pool'[t].shouldRelease /\ Rests(t)
        BY <2>6, <3>1 DEF Marked
      <4>2. t \in Owned /\ t \notin Stored
        BY <4>1 DEF Rests, OwnerInvariant, SweepHasOwner, Marked
      <4> QED
        BY <4>1, <4>2 DEF Rests, Owned
    <3>2. s \in Owned' /\ s \notin Stored'
      BY <2>1, <2>5 DEF Rests, Owned
    <3> QED
      BY <1>3, <3>1, <3>2 DEF SweepHasOwner
  <2> QED
    BY <2>8, <2>10, <2>11, <2>13, <2>14 DEF OwnerInvariant
<1>4. (pc' = "timer" /\ UNCHANGED <<pool, cursor>>) \/
      \E s \in Marked : /\ cursor' = s /\ pc' \in {"link", "delete"}
                        /\ pool' = [pool EXCEPT ![s] = [@ EXCEPT !.shouldRelease = FALSE, !.shouldPreconnect = FALSE]]
  BY Zenon DEF Sweep
<1> QED
  BY <1>2, <1>3, <1>4


(***************************************************************************)
(* The timer, and deletion.                                                *)
(***************************************************************************)
\* Nobody holds a connection that may expire.
LEMMA ExpirableIsUnused ==
  ASSUME PoolInvariant, OwnerInvariant, Punctual, NEW s \in Expirable
  PROVE  /\ s \in Slots /\ s \in Stored /\ s \in Owned /\ pool[s].cur = NoReq
         /\ \A r \in Requests : Holder(r) => req[r].ssl # Owner(s)
<1>1. s \in Slots /\ s \in Stored /\ pool[s].cur = NoReq
  BY StoredIs DEF Expirable
<1>2. \A r \in Requests : req[r].ssl = pool[s].conn => req[r].life \notin {"finished", "releasing"}
  BY DEF Expirable, Punctual
<1>3. Owner(s) \in Requests /\ req[Owner(s)].ssl = pool[s].conn /\ ~req[Owner(s)].busy
  BY <1>1 DEF PoolInvariant, OwnerHasConn, Owner
<1>4. s \in Owned
  BY <1>1, <1>3, PoolAssumption DEF Owned
<1>5. Owner(s) = pool[s].conn
  BY <1>3, <1>4 DEF OwnerInvariant, OwnersAreNative
<1>6. ASSUME NEW r \in Requests, Holder(r), req[r].ssl = pool[s].conn PROVE FALSE
  <2>1. req[r].life = "running" /\ req[r].busy
    BY <1>2, <1>6 DEF Holder, OwnerInvariant, WorkIsKnown
  <2>2. Working(r)
    BY <2>1 DEF Working
  <2>3. req[r].ssl # r
    BY <1>3, <1>5, <1>6, <2>1
  <2>4. Source(r) \in Stored /\ pool[Source(r)].conn = pool[s].conn /\ pool[Source(r)].cur = r
    BY <1>6, <2>2, <2>3, LentIs DEF Lent
  <2>5. Source(r) = s
    BY <1>1, <2>4 DEF PoolInvariant, StoredOnce
  <2> QED
    BY <1>1, <2>4, <2>5, PoolAssumption
<1> QED
  BY <1>1, <1>4, <1>5, <1>6

LEMMA TickOwners ==
  ASSUME PoolInvariant, OwnerInvariant, Punctual, Tick PROVE OwnerInvariant'
<1>1. TypeOK /\ pc = "timer" /\ pc' = "sweep" /\ UNCHANGED <<req, release, cursor, deletes>>
  BY DEF PoolInvariant, Tick
<1>2. PICK again \in SUBSET Expirable, token \in SUBSET Expirable : Expire(again, token, {})
  BY DEF Tick, Punctual
<1>3. \A t \in Slots : \/ t \in Expirable /\ \E b \in BOOLEAN : pool'[t] = Expired(pool[t], b)
                       \/ pool'[t] = pool[t]
  <2>1. pool' = [s \in Slots |->
                   IF s \in again THEN Expired(pool[s], TRUE)
                   ELSE IF s \in token \union {} THEN Expired(pool[s], FALSE)
                   ELSE pool[s]]
    BY <1>2 DEF Expire
  <2> QED
    BY <2>1, Zenon
<1>4. ASSUME NEW t \in Slots, t \in Expirable, NEW b \in BOOLEAN, pool'[t] = Expired(pool[t], b)
      PROVE  Owner(t)' = Owner(t) /\ t \in Owned /\ t \in Stored /\ t \notin Stored' /\ pool[t].cur = NoReq
  <2>1. pool[t] \in Entry
    BY <1>1 DEF TypeOK
  <2>2. pool'[t].status = "ToBeCreated" /\ pool'[t].request = pool[t].request
    BY <1>4, <2>1, ExpiredType
  <2> QED
    BY <1>4, <2>2, StoredIs, ClearedIs, ExpirableIsUnused DEF Owner
<1>5. \A t \in Slots :
        \/ Rests(t) /\ pool'[t].cur = pool[t].cur
        \/ /\ Owner(t)' = Owner(t) /\ t \in Owned /\ t \in Stored /\ t \notin Stored'
           /\ t \in Expirable /\ pool[t].cur = NoReq
  BY <1>3, <1>4, SameRests
<1>6. \A t \in Slots : KeepsOwner(t)
  BY <1>5 DEF KeepsOwner, Rests, Owned
<1>7. ASSUME NEW q \in Requests PROVE Calms(q) /\ Works(q) /\ Goes(q)
  <2>1. q # NoReq
    BY PoolAssumption
  <2> QED
    BY <1>1, <1>5, <2>1, SameCalms, GoesOn
<1>8. WorkIsKnown' /\ DeletedIsGone' /\ FoundElsewhere' /\ LentIsThere'
  BY <1>1, <1>7, WorkKept, DeletedKept, FoundKept, LentKept DEF OwnerInvariant, Released
<1>9. OwnersAreNative' /\ LenderIsAlive'
  BY <1>1, <1>6, <1>7, NativeKept, LenderKept DEF OwnerInvariant
<1>10. OwnersAreAlive'
  <2>1. \A t \in Owned' : Released(Owner(t)) /\ ~release.ssl => Released(Owner(t))' /\ ~release'.ssl
    BY <1>1, <1>6 DEF KeepsOwner, Owned, Released
  <2> QED
    BY <1>1, <1>6, <2>1, AliveKept DEF OwnerInvariant
<1>11. ExpiredIsUnused'
  <2> SUFFICES ASSUME NEW s \in Owned', s \notin Stored', NEW r \in Requests, Holder(r)
               PROVE  req[r].ssl # Owner(s)
    BY <1>1, <1>6 DEF ExpiredIsUnused, Holder, Owned, KeepsOwner
  <2>1. s \in Slots /\ s \in Owned
    BY <1>6 DEF Owned, KeepsOwner
  <2>2. CASE s \in Expirable
    BY <2>2, ExpirableIsUnused
  <2>3. CASE Rests(s)
    BY <2>1, <2>3 DEF Rests, OwnerInvariant, ExpiredIsUnused
  <2> QED
    BY <1>5, <2>1, <2>2, <2>3
<1>12. SweepHasOwner'
  <2>1. ASSUME NEW s \in Marked' PROVE s \in Owned' /\ s \notin Stored'
    <3>1. s \in Slots /\ pool'[s].shouldRelease
      BY <2>1 DEF Marked
    <3>2. CASE Rests(s)
      BY <3>1, <3>2 DEF Rests, OwnerInvariant, SweepHasOwner, Marked, Owned
    <3> QED
      BY <1>5, <3>1, <3>2 DEF Owned
  <2> QED
    BY <1>1, <2>1 DEF SweepHasOwner, Sweeping
<1> QED
  BY <1>8, <1>9, <1>10, <1>11, <1>12 DEF OwnerInvariant

LEMMA DeletedIs ==
  ASSUME TypeOK, NEW R, deletes' = Deleted(R), \A r \in R : r \in Requests => deletes[r] = 0
  PROVE  \A r \in Requests : deletes'[r] = IF r \in R THEN 1 ELSE deletes[r]
  BY SMT DEF Deleted, TypeOK

LEMMA LinkFailsOwners ==
  ASSUME PoolInvariant, OwnerInvariant, LinkFails PROVE OwnerInvariant'
<1>1. /\ TypeOK /\ pc = "link" /\ pc' = "delete"
      /\ UNCHANGED <<pool, release, cursor, linked>>
  BY DEF PoolInvariant, LinkFails
<1>2. \A t \in Slots : Rests(t) /\ pool'[t].cur = pool[t].cur
  BY <1>1, SameRests
<1>3. Sweeping' /\ Sweeping /\ cursor' = cursor /\ Rests(cursor)
  BY <1>1, <1>2 DEF Sweeping, TypeOK
<1>4. CASE UNCHANGED <<req, deletes>>
  <2>1. ASSUME NEW q \in Requests PROVE Calms(q) /\ Works(q) /\ Goes(q)
    BY <1>1, <1>2, <1>4, SameCalms, GoesOn
  <2>2. WorkIsKnown'
    BY <2>1, WorkKept DEF OwnerInvariant
  <2> QED
    BY <1>1, <1>2, <1>3, <1>4, <2>1, <2>2, OwnersKept
<1>5. ASSUME NEW n \in Requests, req[n].life = "new", release.by = NoReq,
             req' = [req EXCEPT ![n].life = "gone"], deletes' = Deleted({n})
      PROVE  OwnerInvariant'
  <2>1. req[n] \in Node
    BY <1>1 DEF TypeOK
  <2> DEFINE v == [req[n] EXCEPT !.life = "gone"]
  <2>2. v.life = "gone" /\ v.ssl = req[n].ssl /\ v.busy = req[n].busy /\ v.held = req[n].held
    BY <2>1, SMT DEF Node
  <2>3. req' = [req EXCEPT ![n] = v]
    BY <1>5
  <2> HIDE DEF v
  <2>4. req'[n] = v /\ \A q \in Requests : q # n => req'[q] = req[q]
    BY <1>1, <2>3 DEF TypeOK
  <2>5. Fresh(n) /\ ~req[n].busy /\ ~Released(n) /\ deletes[n] = 0
    BY <1>5, PoolAssumption
       DEF Fresh, PoolInvariant, UnusedIsApart, Released, OwnerInvariant, DeletedIsGone
  <2>6. Calms(n) /\ Works(n) /\ Goes(n)
    BY <2>2, <2>4, <2>5, GoesHome DEF Calms, Works, Fresh, Holder
  <2>7. ASSUME NEW q \in Requests, q # n PROVE Calms(q) /\ Works(q) /\ Goes(q)
    BY <1>1, <1>2, <2>4, <2>7, SameCalms, GoesOn
  <2>8. deletes'[n] = 1 /\ \A q \in Requests : q # n => deletes'[q] = deletes[q]
    BY <1>1, <1>5, <2>5, DeletedIs
  <2>9. WorkIsKnown' /\ FoundElsewhere' /\ LentIsThere'
    BY <1>1, <2>6, <2>7, WorkKept, FoundKept, LentKept DEF OwnerInvariant
  <2>10. \A t \in Slots : KeepsOwner(t)
    BY <1>2 DEF KeepsOwner, Rests, Owned
  <2>11. OwnersAreNative' /\ ExpiredIsUnused'
    BY <1>1, <1>2, <2>6, <2>7, <2>10, NativeKept, ExpiredKept DEF OwnerInvariant
  <2>12. SweepHasOwner'
    BY <1>1, <1>2, <1>3, SweepKept DEF OwnerInvariant
  <2>13. DeletedIsGone'
    BY <1>1, <2>2, <2>4, <2>8 DEF DeletedIsGone, OwnerInvariant, Released
  <2>14. LenderIsAlive'
    <3>1. ASSUME NEW r \in Requests, Holder(r)', req[r].ssl # r
          PROVE  deletes'[req[r].ssl] = deletes[req[r].ssl]
      <4>1. PICK o \in Requests : o = req[r].ssl
        BY <1>1 DEF TypeOK, Node
      <4>2. Holder(r)
        BY <2>6, <2>7, <3>1 DEF Calms
      <4>3. o # n
        BY <2>5, <3>1, <4>1, <4>2 DEF OwnerInvariant, LenderIsAlive
      <4> QED
        BY <2>8, <4>1, <4>3
    <3> QED
      BY <1>1, <2>6, <2>7, <3>1, LenderKept DEF OwnerInvariant
  <2>15. OwnersAreAlive'
    <3> SUFFICES ASSUME NEW s \in Owned
                 PROVE  deletes'[Owner(s)] = 0
      BY <1>1 DEF OwnersAreAlive, Owned, Owner
    <3>1. Owner(s) \in Requests /\ Owner(s) # n
      BY <1>1, <2>5, OwnersTyped DEF OwnerInvariant, OwnersAreNative
    <3>2. ~Released(Owner(s))
      BY <1>5, <3>1, PoolAssumption DEF Released
    <3> QED
      BY <1>1, <2>8, <3>1, <3>2 DEF OwnerInvariant, OwnersAreAlive
  <2> QED
    BY <2>9, <2>11, <2>12, <2>13, <2>14, <2>15 DEF OwnerInvariant
<1> QED
  BY <1>4, <1>5 DEF LinkFails


LEMMA SweepDeleteOwners ==
  ASSUME PoolInvariant, OwnerInvariant, SweepDelete PROVE OwnerInvariant'
<1>1. /\ TypeOK /\ pc = "delete" /\ pc' = "clear" /\ release.by = NoReq
      /\ UNCHANGED <<pool, release, cursor>>
  BY DEF PoolInvariant, SweepDelete
<1>2. cursor \in Owned /\ cursor \notin Stored /\ cursor \in Slots
  BY <1>1 DEF OwnerInvariant, SweepHasOwner, Sweeping, Owned
<1>3. PICK old \in Requests : old = Owner(cursor)
  BY <1>1, <1>2, OwnersTyped
<1>4. deletes' = Deleted({old}) /\ req' = [req EXCEPT ![old].life = "gone"]
  BY <1>2, <1>3 DEF SweepDelete, Owned, Owner
<1>5. deletes[old] = 0 /\ req[old].ssl = old /\ ~req[old].busy /\ ~Fresh(old)
  BY <1>1, <1>2, <1>3, PoolAssumption DEF OwnerInvariant, OwnersAreAlive, OwnersAreNative, Released
<1> DEFINE v == [req[old] EXCEPT !.life = "gone"]
<1>6. v.life = "gone" /\ v.ssl = req[old].ssl /\ v.busy = req[old].busy /\ v.held = req[old].held
  <2>1. req[old] \in Node
    BY <1>1 DEF TypeOK
  <2> QED
    BY <2>1, SMT DEF Node
<1>7. req' = [req EXCEPT ![old] = v]
  BY <1>4
<1> HIDE DEF v
<1>8. req'[old] = v /\ \A q \in Requests : q # old => req'[q] = req[q]
  BY <1>1, <1>7 DEF TypeOK
<1>9. deletes'[old] = 1 /\ \A q \in Requests : q # old => deletes'[q] = deletes[q]
  BY <1>1, <1>4, <1>5, DeletedIs
<1>10. \A t \in Slots : Rests(t) /\ pool'[t].cur = pool[t].cur
  BY <1>1, SameRests
<1>11. Calms(old) /\ Works(old) /\ Goes(old)
  BY <1>5, <1>6, <1>8, GoesHome DEF Calms, Works, Fresh, Holder
<1>12. ASSUME NEW q \in Requests, q # old PROVE Calms(q) /\ Works(q) /\ Goes(q)
  BY <1>1, <1>8, <1>10, <1>12, SameCalms, GoesOn
<1>13. WorkIsKnown' /\ FoundElsewhere' /\ LentIsThere'
  BY <1>1, <1>11, <1>12, WorkKept, FoundKept, LentKept DEF OwnerInvariant
<1>14. \A t \in Slots : KeepsOwner(t)
  BY <1>10 DEF KeepsOwner, Rests, Owned
<1>15. OwnersAreNative' /\ ExpiredIsUnused'
  BY <1>1, <1>10, <1>11, <1>12, <1>14, NativeKept, ExpiredKept DEF OwnerInvariant
<1>16. SweepHasOwner'
  <2>1. Sweeping' => Sweeping /\ cursor' = cursor /\ Rests(cursor)
    BY <1>1, <1>2, <1>10 DEF Sweeping
  <2> QED
    BY <1>1, <1>10, <2>1, SweepKept DEF OwnerInvariant
<1>17. DeletedIsGone'
  BY <1>1, <1>6, <1>8, <1>9 DEF DeletedIsGone, OwnerInvariant, Released
<1>18. LenderIsAlive'
  <2>1. ASSUME NEW r \in Requests, Holder(r)', req[r].ssl # r
        PROVE  deletes'[req[r].ssl] = deletes[req[r].ssl]
    <3>1. PICK o \in Requests : o = req[r].ssl
      BY <1>1 DEF TypeOK, Node
    <3>2. Holder(r)
      BY <1>11, <1>12, <2>1 DEF Calms
    <3>3. o # old
      BY <1>2, <1>3, <3>1, <3>2 DEF OwnerInvariant, ExpiredIsUnused
    <3> QED
      BY <1>9, <3>1, <3>3
  <2> QED
    BY <1>1, <1>11, <1>12, <2>1, LenderKept DEF OwnerInvariant
<1>19. OwnersAreAlive'
  <2> SUFFICES ASSUME NEW s \in Owned, s # cursor PROVE deletes'[Owner(s)] = 0
    BY <1>1 DEF OwnersAreAlive, Owned, Owner
  <2>1. Owner(s) \in Requests /\ Owner(s) # old
    BY <1>1, <1>2, <1>3, OwnersTyped DEF OwnerInvariant, OwnersAreNative
  <2>2. ~Released(Owner(s))
    BY <1>1, <2>1, PoolAssumption DEF Released
  <2> QED
    BY <1>1, <1>9, <2>1, <2>2 DEF OwnerInvariant, OwnersAreAlive
<1> QED
  BY <1>13, <1>15, <1>16, <1>17, <1>18, <1>19 DEF OwnerInvariant

LEMMA DestroyOwners ==
  ASSUME PoolInvariant, OwnerInvariant, Destroy PROVE OwnerInvariant'
<1> DEFINE left == {pool[s].request : s \in Slots} \ {NoReq}
<1>1. /\ TypeOK /\ pc = "timer" /\ pc' = "stopped" /\ pool' = [s \in Slots |-> EmptyEntry]
      /\ deletes' = Deleted(left) /\ req' = Gone(left)
      /\ UNCHANGED <<release, cursor>>
  BY DEF PoolInvariant, Destroy
<1>2. ASSUME NEW r \in Requests
      PROVE  /\ ~Holder(r) /\ release.by # r /\ req[r].life # "starting"
             /\ req'[r] \in {req[r], [req[r] EXCEPT !.life = "gone"]}
             /\ r \in left => req'[r] = [req[r] EXCEPT !.life = "gone"]
  <2>1. ~req[r].held /\ req[r].life # "releasing" /\ r # NoReq
    BY PoolAssumption DEF Destroy
  <2>2. release.by # r
    BY <2>1 DEF PoolInvariant, OneAtATime
  <2>3. ~Holder(r) /\ req[r].life # "starting"
    BY <2>1 DEF OwnerInvariant, WorkIsKnown, Holder
  <2>4. req'[r] = IF r \in left THEN [req[r] EXCEPT !.life = "gone"] ELSE req[r]
    BY <1>1 DEF Gone
  <2> QED
    BY <2>2, <2>3, <2>4
<1>3. \A s \in Slots : pool'[s] = EmptyEntry
  BY <1>1
<1>4. \A t \in Slots : Empties(t)
  BY <1>3, EmptyEmpties
<1>5. Owned' = {} /\ Marked' = {}
  BY <1>4 DEF Owned, Empties, Marked
<1>6. \A r \in Requests : r \in left => deletes[r] = 0
  <2> SUFFICES ASSUME NEW r \in Requests, r \in left PROVE deletes[r] = 0
    OBVIOUS
  <2>1. PICK s \in Slots : s \in Owned /\ Owner(s) = r
    BY DEF Owned, Owner
  <2> QED
    BY <1>1, <1>2, <2>1 DEF OwnerInvariant, OwnersAreAlive, Released
<1>7. \A r \in Requests : deletes'[r] = IF r \in left THEN 1 ELSE deletes[r]
  <2>1. \A r \in left : r \in Requests => deletes[r] = 0
    BY <1>6
  <2> HIDE DEF left
  <2> QED
    BY <1>1, <2>1, DeletedIs
<1> HIDE DEF left
<1>8. ASSUME NEW r \in Requests
      PROVE  /\ ~Holder(r)' /\ ~Working(r)' /\ req'[r].life \notin {"running", "starting", "finished"}
             /\ r \in left => req'[r].life = "gone"
             /\ req[r].life = "gone" => req'[r].life = "gone"
  <2>1. req[r] \in Node
    BY <1>1 DEF TypeOK
  <2>2. req'[r].life \in {req[r].life, "gone"} /\ (r \in left => req'[r].life = "gone")
    BY <1>2, <2>1 DEF Node
  <2> QED
    BY <1>1, <1>2, <2>2 DEF Holder, Working
<1>9. DeletedIsGone'
  <2>1. ASSUME NEW r \in Requests
        PROVE  deletes'[r] \in {0, 1} /\ (deletes'[r] = 1 => req'[r].life = "gone")
    <3>1. ~Released(r)
      BY <1>2 DEF Released
    <3>2. deletes[r] \in {0, 1} /\ (deletes[r] = 1 => req[r].life = "gone")
      BY <3>1 DEF OwnerInvariant, DeletedIsGone
    <3> QED
      BY <1>7, <1>8, <3>2
  <2> QED
    BY <2>1 DEF DeletedIsGone
<1>10. WorkIsKnown' /\ LentIsThere' /\ LenderIsAlive'
  BY <1>8 DEF WorkIsKnown, LentIsThere, LenderIsAlive, Lent
<1>11. OwnersAreNative' /\ OwnersAreAlive' /\ ExpiredIsUnused'
  BY <1>5 DEF OwnersAreNative, OwnersAreAlive, ExpiredIsUnused
<1>12. SweepHasOwner'
  BY <1>1, <1>5 DEF SweepHasOwner, Sweeping
<1>13. FoundElsewhere'
  BY <1>1, <1>2 DEF FoundElsewhere
<1> QED
  BY <1>9, <1>10, <1>11, <1>12, <1>13 DEF OwnerInvariant

(***************************************************************************)
(* A request gets a connection.                                            *)
(***************************************************************************)
LEMMA AcquireOwners ==
  ASSUME PoolInvariant, OwnerInvariant, NEW r \in Requests, Fresh(r),
         UNCHANGED <<release, pc, cursor, deletes>>,
         \A q \in Requests : q # r => req'[q] = req[q],
         NEW c \in Requests, req'[r].ssl = c, req'[r].life = "running", req'[r].busy,
         req'[r].held = req[r].held, req[r].life = "starting",
         c = r \/ (req[c].ssl = c /\ ~Fresh(c) /\ deletes[c] = 0),
         \A t \in Slots : Rests(t),
         \A t \in Slots : pool[t].cur # NoReq /\ (t \in Stored => pool[t].conn # c)
                            => pool'[t].cur = pool[t].cur,
         c # r => Source(r)' \in Stored' /\ pool'[Source(r)'].conn = c /\ pool'[Source(r)'].cur = r,
         \A t \in Owned : t \notin Stored => Owner(t) # c,
         \A q \in Requests : Holder(q) => req[q].ssl # c
  PROVE  OwnerInvariant'
<1>1. TypeOK
  BY DEF PoolInvariant
<1>2. \A t \in Slots : KeepsOwner(t) /\ (Owner(t)' = Owner(t))
  BY DEF Rests, KeepsOwner, Owned
<1>3. Owned' = Owned
  BY <1>2 DEF Owned
<1>4. \A s \in Owned : s \in Slots /\ Owner(s) \in Requests /\ Owner(s) # r
  BY <1>1, OwnersTyped DEF OwnerInvariant, OwnersAreNative
<1>5. DeletedIsGone'
  BY DEF OwnerInvariant, DeletedIsGone, Released, Fresh
<1>6. WorkIsKnown'
  BY DEF OwnerInvariant, WorkIsKnown
<1>7. OwnersAreNative'
  BY <1>2, <1>3, <1>4 DEF OwnerInvariant, OwnersAreNative, Fresh
<1>8. OwnersAreAlive'
  BY <1>2, <1>3, <1>4 DEF OwnerInvariant, OwnersAreAlive, Released
<1>9. ExpiredIsUnused'
  <2> SUFFICES ASSUME NEW s \in Owned, s \notin Stored, NEW q \in Requests, Holder(q)'
               PROVE  req'[q].ssl # Owner(s)
    BY <1>2, <1>3, <1>4 DEF ExpiredIsUnused, Rests
  <2>1. CASE q = r
    BY <2>1
  <2>2. CASE q # r
    BY <2>2 DEF OwnerInvariant, ExpiredIsUnused, Holder
  <2> QED
    BY <2>1, <2>2
<1>10. SweepHasOwner'
  <2>1. Sweeping' => Sweeping /\ cursor' = cursor /\ Rests(cursor)
    BY <1>1 DEF Sweeping, TypeOK
  <2>2. pc' # "wipe"
    BY DEF OwnerInvariant, SweepHasOwner
  <2> QED
    BY <2>1, <2>2, SweepKept DEF OwnerInvariant
<1>11. LentIsThere'
  <2> SUFFICES ASSUME NEW q \in Requests, Lent(q)'
               PROVE  /\ Source(q)' \in Stored' /\ pool'[Source(q)'].conn = req'[q].ssl
                      /\ pool'[Source(q)'].cur = q
    BY DEF LentIsThere
  <2>1. CASE q = r
    BY <2>1 DEF Lent
  <2>2. CASE q # r
    <3>1. Lent(q) /\ Source(q)' = Source(q) /\ req'[q].ssl = req[q].ssl
      BY <2>2 DEF Lent, Working, Source
    <3>2. /\ Source(q) \in Slots /\ Source(q) \in Stored /\ pool[Source(q)].conn = req[q].ssl
          /\ pool[Source(q)].cur = q /\ Holder(q)
      BY <3>1, LentIs
    <3>3. pool'[Source(q)].cur = q
      BY <3>2, PoolAssumption
    <3> QED
      BY <3>1, <3>2, <3>3 DEF Rests
  <2> QED
    BY <2>1, <2>2
<1>12. LenderIsAlive'
  <2> SUFFICES ASSUME NEW q \in Requests, Holder(q)', req'[q].ssl # q
               PROVE  /\ req'[req'[q].ssl].ssl = req'[q].ssl /\ ~Fresh(req[q].ssl)'
                      /\ deletes[req'[q].ssl] = 0
    BY DEF LenderIsAlive
  <2>1. PICK o \in Requests : o = req'[q].ssl /\ req[o].ssl = o /\ ~Fresh(o) /\ deletes[o] = 0
    <3>1. CASE q = r
      BY <3>1
    <3>2. CASE q # r
      <4>1. Holder(q) /\ req'[q].ssl = req[q].ssl /\ req[q].ssl \in Requests
        BY <1>1, <3>2 DEF Holder, TypeOK, Node
      <4> QED
        BY <4>1 DEF OwnerInvariant, LenderIsAlive
    <3> QED
      BY <3>1, <3>2
  <2>2. req'[o] = req[o]
    BY <2>1
  <2> QED
    BY <2>1, <2>2 DEF Fresh
<1>13. FoundElsewhere'
  <2>1. release.by # r
    BY PoolAssumption DEF PoolInvariant, OneAtATime, Fresh
  <2> QED
    BY <2>1 DEF OwnerInvariant, FoundElsewhere
<1> QED
  BY <1>5, <1>6, <1>7, <1>8, <1>9, <1>10, <1>11, <1>12, <1>13 DEF OwnerInvariant


LEMMA BorrowOwners ==
  ASSUME PoolInvariant, OwnerInvariant, NEW r \in Requests, NEW k \in Kinds, NEW s \in Slots,
         starter = r, Borrow(k, r, s), UNCHANGED <<release, pc, cursor, deletes>>
  PROVE  OwnerInvariant'
<1>1. TypeOK /\ req[r] \in Node /\ req[r].life = "starting" /\ pool[s] \in Entry
  BY PoolAssumption DEF PoolInvariant, TypeOK, OneAtATime
<1>2. Fresh(r)
  BY <1>1 DEF Fresh
<1>3. s \in Stored /\ s[1] = k /\ s = <<k, s[2]>> /\ pool[s].canPick /\ s[2] \in Index
  BY StoredIs, SMT DEF Borrow, Candidates, ActiveSlots, Active
<1>4. PICK c \in Requests : c = Owner(s) /\ req[c].ssl = pool[s].conn
  BY <1>3 DEF PoolInvariant, OwnerHasConn, Owner
<1>5. s \in Owned
  BY <1>4, PoolAssumption DEF Owned
<1>6. c = pool[s].conn /\ req[c].ssl = c /\ ~Fresh(c) /\ c # r
  BY <1>2, <1>4, <1>5 DEF OwnerInvariant, OwnersAreNative
<1>7. \A q \in Requests : Holder(q) => req[q].ssl # c
  BY <1>3, <1>6 DEF PoolInvariant, AvailableIsFree
<1>8. deletes[c] = 0
  <2>1. ~Released(c)
    BY <1>6, <1>7, PoolAssumption DEF Released, PoolInvariant, OneAtATime, Holder
  <2>2. ~(s = cursor /\ pc = "clear")
    BY <1>3 DEF OwnerInvariant, SweepHasOwner, Sweeping
  <2> QED
    BY <1>4, <1>5, <2>1, <2>2 DEF OwnerInvariant, OwnersAreAlive
<1>9. \A t \in Owned : t \notin Stored => Owner(t) # c
  BY <1>3, <1>4, <1>5 DEF OwnerInvariant, OwnersAreNative
<1> DEFINE e == [pool[s] EXCEPT !.canPick = FALSE, !.cur = r, !.curInvalid = FALSE]
           v == [req[r] EXCEPT !.life = "running", !.from = k, !.ssl = pool[s].conn,
                               !.fd = TRUE, !.index = s[2], !.busy = TRUE]
<1>10. /\ e.status = pool[s].status /\ e.conn = pool[s].conn /\ e.cur = r
       /\ e.request = pool[s].request /\ e.shouldRelease = pool[s].shouldRelease
  BY <1>1, SMT DEF Entry
<1>11. /\ v.life = "running" /\ v.ssl = pool[s].conn /\ v.busy /\ v.from = k /\ v.index = s[2]
       /\ v.held = req[r].held
  BY <1>1, SMT DEF Node
<1>12. pool' = [pool EXCEPT ![s] = e] /\ req' = [req EXCEPT ![r] = v]
  BY DEF Borrow
<1> HIDE DEF e, v
<1>13. /\ pool'[s] = e /\ \A t \in Slots : t # s => pool'[t] = pool[t]
       /\ req'[r] = v /\ \A q \in Requests : q # r => req'[q] = req[q]
  BY <1>1, <1>12 DEF TypeOK
<1>14. Rests(s) /\ pool'[s].cur = r /\ pool'[s].conn = c /\ s \in Stored'
  BY <1>3, <1>6, <1>10, <1>13, StoredIs DEF Rests, Owner
<1>15. \A t \in Slots : Rests(t) /\ (t # s => pool'[t].cur = pool[t].cur)
  BY <1>13, <1>14, SameRests
<1>16. \A t \in Slots : pool[t].cur # NoReq /\ (t \in Stored => pool[t].conn # c)
                          => pool'[t].cur = pool[t].cur
  BY <1>3, <1>6, <1>15
<1>17. Source(r)' = s
  BY <1>3, <1>11, <1>13 DEF Source
<1>18. /\ req'[r].ssl = c /\ req'[r].life = "running" /\ req'[r].busy
       /\ req'[r].held = req[r].held
  BY <1>6, <1>11, <1>13
<1>19. Source(r)' \in Stored' /\ pool'[Source(r)'].conn = c /\ pool'[Source(r)'].cur = r
  BY <1>14, <1>17
<1> QED
  BY <1>1, <1>2, <1>6, <1>7, <1>8, <1>9, <1>13, <1>15, <1>16, <1>18, <1>19, AcquireOwners

LEMMA PopPrestartedOwners ==
  ASSUME PoolInvariant, OwnerInvariant, NEW r \in Requests, PopPrestarted(r) PROVE OwnerInvariant'
<1>1. starter = r /\ UNCHANGED <<release, pc, cursor, deletes>>
  BY DEF PopPrestarted
<1>2. CASE \E s \in Slots : inited /\ Borrow(Prestarted, r, s)
  BY <1>1, <1>2, BorrowOwners
<1>3. CASE NotBorrowed(Prestarted, r) /\ req' = [req EXCEPT ![r].from = Preconnected]
  BY <1>1, <1>3, NextVectorOwners DEF NotBorrowed
<1> QED
  BY <1>2, <1>3 DEF PopPrestarted

LEMMA PopPreconnectedOwners ==
  ASSUME PoolInvariant, OwnerInvariant, NEW r \in Requests, PopPreconnected(r) PROVE OwnerInvariant'
<1>1. starter = r /\ UNCHANGED <<release, pc, cursor, deletes>>
  BY DEF PopPreconnected
<1>2. CASE \E s \in Slots : inited /\ Borrow(Preconnected, r, s)
  BY <1>1, <1>2, BorrowOwners
<1>3. CASE /\ NotBorrowed(Preconnected, r)
           /\ req' = [req EXCEPT ![r] = [@ EXCEPT !.life = "running", !.from = "direct",
                                                  !.fd = TRUE, !.busy = TRUE]]
  <2>1. TypeOK /\ req[r] \in Node /\ req[r].life = "starting" /\ pool' = pool
    BY <1>1, <1>3, PoolAssumption DEF PoolInvariant, TypeOK, OneAtATime, NotBorrowed
  <2>2. Fresh(r) /\ req[r].ssl = r /\ \A q \in Requests : Holder(q) => req[q].ssl # r
    BY <2>1 DEF Fresh, PoolInvariant, UnusedIsApart
  <2> DEFINE v == [req[r] EXCEPT !.life = "running", !.from = "direct", !.fd = TRUE, !.busy = TRUE]
  <2>3. v.life = "running" /\ v.ssl = req[r].ssl /\ v.busy /\ v.held = req[r].held
    BY <2>1, SMT DEF Node
  <2>4. req' = [req EXCEPT ![r] = v]
    BY <1>3
  <2> HIDE DEF v
  <2>5. req'[r] = v /\ \A q \in Requests : q # r => req'[q] = req[q]
    BY <2>1, <2>4 DEF TypeOK
  <2>6. \A t \in Owned : Owner(t) # r
    BY <2>2 DEF OwnerInvariant, OwnersAreNative
  <2>7. \A t \in Slots : Rests(t) /\ pool'[t].cur = pool[t].cur
    BY <2>1, SameRests
  <2>8. req'[r].ssl = r /\ req'[r].life = "running" /\ req'[r].busy /\ req'[r].held = req[r].held
    BY <2>2, <2>3, <2>5
  <2> QED
    BY <1>1, <2>1, <2>2, <2>5, <2>6, <2>7, <2>8, AcquireOwners
<1> QED
  BY <1>2, <1>3 DEF PopPreconnected

(***************************************************************************)
(* A push gives an entry an owner.                                         *)
(***************************************************************************)
LEMMA FreeIs ==
  ASSUME NEW k \in Kinds, NEW s \in FreeSlots(k)
  PROVE  s \in Slots /\ s \notin Owned /\ s \notin Stored /\ ~pool[s].shouldRelease /\ s[1] = k
  BY StoredIs, ClearedIs DEF FreeSlots, Owned, Owner

LEMMA StoreOwners ==
  ASSUME PoolInvariant, OwnerInvariant, deletes' = deletes, release' = release, cursor' = cursor,
         pc' = pc \/ (pc = "link" /\ pc' = "finish"),
         NEW s \in Slots, s \notin Owned, s \notin Stored, s \in Stored', ~pool'[s].shouldRelease,
         NEW o \in Requests, Owner(s)' = o, req'[o].ssl = o, ~req'[o].busy, ~Fresh(o)', deletes[o] = 0,
         \A t \in Slots : t # s => Rests(t) \/ (t \in Stored /\ Empties(t)),
         \A t \in Owned' : t # s => Owner(t) # o,
         \A r \in Requests : Calms(r) /\ Goes(r),
         WorkIsKnown'
  PROVE  OwnerInvariant'
<1>1. TypeOK
  BY DEF PoolInvariant
<1>2. \A t \in Owned' : t \in Slots /\ (t # s => t \in Owned /\ Owner(t)' = Owner(t))
  BY DEF Rests, Empties, Owned
<1>3. DeletedIsGone' /\ FoundElsewhere'
  BY DeletedKept, FoundKept DEF OwnerInvariant, Released
<1>4. LentIsThere' /\ LenderIsAlive'
  BY <1>1, LentKept, LenderKept DEF OwnerInvariant
<1>5. ASSUME NEW t \in Owned', t # s
      PROVE  /\ Owner(t)' \in Requests /\ Owner(t)' # o
             /\ req'[Owner(t)'].ssl = Owner(t)' /\ ~req'[Owner(t)'].busy /\ ~Fresh(Owner(t))'
  <2>1. t \in Owned /\ Owner(t)' = Owner(t) /\ Owner(t) # o
    BY <1>2, <1>5
  <2>2. PICK p \in Requests : p = Owner(t)
    BY <1>1, <2>1, OwnersTyped
  <2>3. req[p].ssl = p /\ ~req[p].busy /\ ~Fresh(p) /\ Calms(p)
    BY <2>1, <2>2 DEF OwnerInvariant, OwnersAreNative
  <2>4. req'[p].ssl = p /\ ~req'[p].busy /\ ~Fresh(p)'
    BY <2>3 DEF Calms
  <2> QED
    BY <2>1, <2>2, <2>4 DEF Fresh
<1>6. OwnersAreNative'
  <2>1. \A t \in Owned' : req'[Owner(t)'].ssl = Owner(t)' /\ ~req'[Owner(t)'].busy /\ ~Fresh(Owner(t))'
    <3>1. ASSUME NEW t \in Owned', t = s
          PROVE  req'[Owner(t)'].ssl = Owner(t)' /\ ~req'[Owner(t)'].busy /\ ~Fresh(Owner(t))'
      BY <3>1 DEF Fresh
    <3> QED
      BY <1>5, <3>1
  <2>2. \A t, u \in Owned' : Owner(t)' = Owner(u)' => t = u
    BY <1>2, <1>5 DEF OwnerInvariant, OwnersAreNative
  <2> QED
    BY <2>1, <2>2 DEF OwnersAreNative, Fresh
<1>7. OwnersAreAlive'
  <2> SUFFICES ASSUME NEW t \in Owned'
               PROVE  \/ deletes[Owner(t)'] = 0
                      \/ t = cursor /\ pc' = "clear"
                      \/ Released(Owner(t))' /\ ~release.ssl
    BY DEF OwnersAreAlive, Released
  <2>1. CASE t = s
    BY <2>1
  <2>2. CASE t # s
    <3>1. t \in Owned /\ Owner(t)' = Owner(t)
      BY <1>2, <2>2
    <3>2. \/ deletes[Owner(t)] = 0
          \/ t = cursor /\ pc = "clear"
          \/ Released(Owner(t)) /\ ~release.ssl
      BY <3>1 DEF OwnerInvariant, OwnersAreAlive
    <3> QED
      BY <3>1, <3>2 DEF Released
  <2> QED
    BY <2>1, <2>2
<1>8. ExpiredIsUnused'
  <2> SUFFICES ASSUME NEW t \in Owned', t \notin Stored', NEW r \in Requests, Holder(r)'
               PROVE  req'[r].ssl # Owner(t)'
    BY DEF ExpiredIsUnused
  <2>1. t # s /\ t \in Owned /\ t \in Slots /\ Owner(t)' = Owner(t)
    BY <1>2
  <2>2. t \notin Stored
    BY <2>1 DEF Rests, Empties, Owned
  <2> QED
    BY <2>1, <2>2 DEF OwnerInvariant, ExpiredIsUnused, Calms
<1>9. SweepHasOwner'
  <2>1. ASSUME NEW t \in Marked' PROVE t \in Owned' /\ t \notin Stored'
    <3>1. t \in Slots /\ pool'[t].shouldRelease /\ t # s
      BY <2>1 DEF Marked
    <3>2. Rests(t)
      BY <3>1 DEF Empties
    <3> QED
      BY <3>1, <3>2 DEF Rests, OwnerInvariant, SweepHasOwner, Marked, Owned
  <2>2. Sweeping' => cursor \in Owned' /\ cursor \notin Stored'
    <3> SUFFICES ASSUME Sweeping' PROVE cursor \in Owned' /\ cursor \notin Stored'
      OBVIOUS
    <3>1. Sweeping
      BY DEF Sweeping
    <3>2. cursor \in Owned /\ cursor \notin Stored /\ cursor \in Slots /\ cursor # s
      BY <3>1 DEF OwnerInvariant, SweepHasOwner, Owned
    <3> QED
      BY <3>2 DEF Rests, Owned
  <2>3. pc' # "wipe"
    BY DEF OwnerInvariant, SweepHasOwner
  <2> QED
    BY <2>1, <2>2, <2>3 DEF SweepHasOwner, Sweeping
<1> QED
  BY <1>3, <1>4, <1>6, <1>7, <1>8, <1>9 DEF OwnerInvariant


\* A push leaves the entry stored, owned and unmarked.
LEMMA StoredBy ==
  ASSUME TypeOK, NEW k \in Kinds, NEW s \in FreeSlots(k), NEW o \in Requests, NEW c \in Requests,
         pool'[s] = Store(s, k, o, c)
  PROVE  Owner(s)' = o /\ s \in Stored' /\ ~pool'[s].shouldRelease
<1>1. s \in Slots /\ s[1] = k /\ ~pool[s].shouldRelease
  BY FreeIs
<1>2. pool[s] \in Entry
  BY <1>1 DEF TypeOK
<1>3. Store(s, k, o, c).shouldRelease = pool[s].shouldRelease
  BY <1>2, SMT DEF Store, Entry
<1>4. Store(s, k, o, c).status = Active(k) /\ Store(s, k, o, c).request = o
  BY <1>1, <1>2, StoreType DEF ReqOrNull
<1> QED
  BY <1>1, <1>3, <1>4, StoredIs DEF Owner

\* A worker is inside its request's life.
LEMMA WorkerLives ==
  ASSUME PoolInvariant, OwnerInvariant, NEW r \in Requests, Working(r)
  PROVE  deletes[r] = 0
<1>1. req[r].life \in {"running", "releasing"}
  BY WorkingIs
<1>2. ~Released(r)
  BY <1>1, PoolAssumption DEF Working, Released, PoolInvariant, OneAtATime
<1> QED
  BY <1>1, <1>2 DEF OwnerInvariant, DeletedIsGone

\* The owner of the entry a worker borrowed from.
LEMMA StillThereIs ==
  ASSUME PoolInvariant, OwnerInvariant, NEW r \in Requests, Lent(r)
  PROVE  /\ StillThere(Source(r), r) /\ Owner(Source(r)) = req[r].ssl
         /\ req[r].ssl \in Requests /\ Source(r) \in Owned
<1>1. /\ Source(r) \in Slots /\ Source(r) \in Stored /\ pool[Source(r)].conn = req[r].ssl
  BY LentIs
<1>2. PICK o \in Requests : o = Owner(Source(r)) /\ req[o].ssl = req[r].ssl /\ req[o].fd
  BY <1>1 DEF PoolInvariant, OwnerHasConn, Owner
<1>3. Source(r) \in Owned
  BY <1>1, <1>2, PoolAssumption DEF Owned
<1>4. req[o].ssl = o
  BY <1>2, <1>3 DEF OwnerInvariant, OwnersAreNative
<1> QED
  BY <1>1, <1>2, <1>3, <1>4 DEF StillThere, Owner

LEMMA PushPrestartedOwners ==
  ASSUME PoolInvariant, OwnerInvariant, NEW r \in Requests, Working(r), PushPrestarted(r),
         ~(req[r].from = Preconnected /\ req[r].ssl # r),
         UNCHANGED <<release, pc, cursor, deletes>>
  PROVE  OwnerInvariant'
<1> DEFINE own == <<Prestarted, req[r].index>>
<1>1. TypeOK /\ req[r] \in Node
  BY DEF PoolInvariant, TypeOK
<1>2. CASE /\ req[r].ssl # r /\ StillThere(own, r)
           /\ pool' = [pool EXCEPT ![own] = [@ EXCEPT !.canPick = FALSE, !.curInvalid = TRUE]]
           /\ req' = [req EXCEPT ![r] = Ended(r)]
  <2>1. PICK o \in Slots : o = own
    BY <1>2, StoredIs DEF StillThere
  <2> DEFINE e == [pool[o] EXCEPT !.canPick = FALSE, !.curInvalid = TRUE]
  <2>2. pool[o] \in Entry
    BY <1>1, <2>1 DEF TypeOK
  <2>3. /\ e.status = pool[o].status /\ e.conn = pool[o].conn /\ e.cur = pool[o].cur
        /\ e.request = pool[o].request /\ e.shouldRelease = pool[o].shouldRelease
    BY <2>2, SMT DEF Entry
  <2>4. pool' = [pool EXCEPT ![o] = e]
    BY <1>2, <2>1
  <2> HIDE DEF e
  <2>5. pool'[o] = e /\ \A t \in Slots : t # o => pool'[t] = pool[t]
    BY <1>1, <2>1, <2>4 DEF TypeOK
  <2>6. /\ pool'[o].status = pool[o].status /\ pool'[o].conn = pool[o].conn
        /\ pool'[o].request = pool[o].request /\ pool'[o].cur = pool[o].cur
        /\ pool'[o].shouldRelease = pool[o].shouldRelease
    BY <2>3, <2>5
  <2>7. o \in Stored' <=> o \in Stored
    BY <2>6, StoredIs
  <2>8. Rests(o) /\ pool'[o].cur = pool[o].cur
    BY <2>6, <2>7 DEF Rests, Owner
  <2>9. \A t \in Slots : Rests(t) /\ pool'[t].cur = pool[t].cur
    BY <2>5, <2>8, SameRests
  <2> QED
    BY <1>2, <2>9, EndsInPlace
<1>3. CASE req' = [req EXCEPT ![r] = Ended(r)] /\ UNCHANGED pool
  <2>1. \A t \in Slots : Rests(t) /\ pool'[t].cur = pool[t].cur
    BY <1>3, SameRests
  <2> QED
    BY <1>3, <2>1, EndsInPlace
<1>4. ASSUME req[r].ssl = r \/ ~StillThere(own, r), NEW s \in FreeSlots(Prestarted),
             pool' = [pool EXCEPT ![s] = Store(s, Prestarted, r, req[r].ssl)],
             req' = [req EXCEPT ![r] = [Ended(r) EXCEPT !.index = s[2]]]
      PROVE  OwnerInvariant'
  <2>1. req[r].ssl = r
    <3>1. SUFFICES ASSUME req[r].ssl # r PROVE FALSE
      OBVIOUS
    <3>2. Lent(r)
      BY <3>1 DEF Lent
    <3>3. StillThere(Source(r), r) /\ Source(r) \in Slots
      BY <3>2, StillThereIs, LentIs
    <3>4. req[r].from = Prestarted
      BY <3>1, <3>3 DEF Source
    <3> QED
      BY <1>4, <3>1, <3>3, <3>4 DEF Source
  <2>2. /\ s \in Slots /\ s \notin Owned /\ s \notin Stored /\ Prestarted \in Kinds
        /\ s[2] \in Index
    BY FreeIs
  <2>3. /\ pool'[s] = Store(s, Prestarted, r, r)
        /\ \A t \in Slots : t # s => pool'[t] = pool[t]
    BY <1>1, <1>4, <2>1, <2>2 DEF TypeOK
  <2>4. Owner(s)' = r /\ s \in Stored' /\ ~pool'[s].shouldRelease
    BY <1>1, <2>2, <2>3, StoredBy
  <2>5. /\ Ended(r) \in Node /\ Ended(r).ssl = r /\ ~Ended(r).busy
        /\ Ended(r).life = IF req[r].life = "running" THEN "finished" ELSE req[r].life
        /\ Ended(r).held = req[r].held
    BY <1>1, <2>1, EndedType, EndedKeeps
  <2> DEFINE v == [Ended(r) EXCEPT !.index = s[2]]
  <2>6. v.ssl = Ended(r).ssl /\ v.busy = Ended(r).busy /\ v.life = Ended(r).life /\ v.held = Ended(r).held
    BY <2>5, SMT DEF Node
  <2>7. req' = [req EXCEPT ![r] = v]
    BY <1>4
  <2> HIDE DEF v
  <2>8. req'[r] = v /\ \A q \in Requests : q # r => req'[q] = req[q]
    BY <1>1, <2>7 DEF TypeOK
  <2>9. \A t \in Slots : t # s => Rests(t) /\ pool'[t].cur = pool[t].cur
    BY <2>3, SameRests
  <2>10. WorkIsKnown' /\ \A q \in Requests : Calms(q) /\ Goes(q)
    BY <2>1, <2>2, <2>5, <2>6, <2>8, <2>9, EndCalms
  <2>11. req[r].busy /\ deletes[r] = 0 /\ req[r].life \in {"running", "releasing"}
    BY WorkerLives, WorkingIs
  <2>12. \A t \in Owned' : t # s => Owner(t) # r
    <3>1. \A t \in Owned' : t # s => t \in Owned
      BY <2>9 DEF Rests, Owned
    <3> QED
      BY <2>11, <3>1 DEF OwnerInvariant, OwnersAreNative
  <2>13. req'[r].ssl = r /\ ~req'[r].busy /\ ~Fresh(r)'
    BY <2>5, <2>6, <2>8, <2>11 DEF Fresh
  <2> QED
    BY <2>2, <2>4, <2>9, <2>10, <2>11, <2>12, <2>13, StoreOwners
<1> QED
  BY <1>2, <1>3, <1>4 DEF PushPrestarted

LEMMA PushFromPreconnectedOwners ==
  ASSUME PoolInvariant, OwnerInvariant, NEW r \in Requests, Working(r), PushFromPreconnected(r),
         req[r].from = Preconnected, req[r].ssl # r,
         UNCHANGED <<release, pc, cursor, deletes>>
  PROVE  OwnerInvariant'
<1>1. TypeOK /\ req[r] \in Node /\ Lent(r)
  BY DEF PoolInvariant, TypeOK, Lent
<1>2. /\ Source(r) \in Slots /\ Source(r) \in Stored /\ pool[Source(r)].conn = req[r].ssl
      /\ StillThere(Source(r), r) /\ Owner(Source(r)) = req[r].ssl /\ Source(r) \in Owned
      /\ Source(r) = <<Preconnected, req[r].index>>
  BY <1>1, LentIs, StillThereIs DEF Source
<1>3. PICK own \in Slots : own = <<Preconnected, req[r].index>>
  BY <1>2
<1>4. PICK o \in Requests : o = req[r].ssl
  BY <1>1, StillThereIs
<1>5. /\ own \in Stored /\ own \in Owned /\ pool[own].conn = o /\ Owner(own) = o
      /\ StillThere(own, r) /\ o # r /\ pool[own].request = o
  BY <1>2, <1>3, <1>4 DEF Owner
<1>6. req[o].ssl = o /\ ~req[o].busy /\ ~Fresh(o) /\ deletes[o] = 0
  <2>1. Holder(r)
    BY <1>1, LentIs
  <2> QED
    BY <1>4, <1>5, <2>1 DEF OwnerInvariant, OwnersAreNative, LenderIsAlive
<1>7. /\ Ended(r) \in Node /\ Ended(r).ssl = req[r].ssl /\ ~Ended(r).busy
      /\ Ended(r).life = IF req[r].life = "running" THEN "finished" ELSE req[r].life
      /\ Ended(r).held = req[r].held
  BY <1>1, EndedType, EndedKeeps
<1>8. CASE req' = [req EXCEPT ![r] = Ended(r)] /\ pool' = [pool EXCEPT ![own] = EmptyEntry]
  <2>1. pool'[own] = EmptyEntry /\ \A t \in Slots : t # own => pool'[t] = pool[t]
    BY <1>1, <1>8 DEF TypeOK
  <2>2. \A t \in Slots : \/ Rests(t) /\ pool'[t].cur = pool[t].cur
                         \/ pool[t].conn = req[r].ssl /\ t \in Stored /\ Empties(t)
    BY <1>4, <1>5, <2>1, SameRests, EmptyEmpties
  <2> QED
    BY <1>8, <2>2, EndsInPlace
<1>9. ASSUME NEW s \in FreeSlots(Prestarted),
             pool' = [pool EXCEPT ![s] = Store(s, Prestarted, o, o), ![own] = EmptyEntry],
             req' = [req EXCEPT ![r] = Ended(r), ![o].index = s[2]]
      PROVE  OwnerInvariant'
  <2>1. /\ s \in Slots /\ s \notin Owned /\ s \notin Stored /\ Prestarted \in Kinds
        /\ s # own
    BY <1>5, FreeIs
  <2>2. /\ pool'[s] = Store(s, Prestarted, o, o) /\ pool'[own] = EmptyEntry
        /\ \A t \in Slots : t # s /\ t # own => pool'[t] = pool[t]
    BY <1>1, <1>9, <2>1 DEF TypeOK
  <2>3. Owner(s)' = o /\ s \in Stored' /\ ~pool'[s].shouldRelease
    BY <1>1, <2>1, <2>2, StoredBy
  <2> DEFINE v == [req[o] EXCEPT !.index = s[2]]
  <2>4. /\ v.ssl = req[o].ssl /\ v.busy = req[o].busy /\ v.life = req[o].life
        /\ v.held = req[o].held /\ v.from = req[o].from
    <3>1. req[o] \in Node
      BY <1>1 DEF TypeOK
    <3> QED
      BY <3>1, SMT DEF Node
  <2>5. req' = [req EXCEPT ![r] = Ended(r), ![o] = v]
    BY <1>1, <1>5, <1>9 DEF TypeOK
  <2> HIDE DEF v
  <2>6. /\ req'[r] = Ended(r) /\ req'[o] = v
        /\ \A q \in Requests : q # r /\ q # o => req'[q] = req[q]
    BY <1>1, <1>5, <2>5 DEF TypeOK
  <2>7. \A t \in Slots : t # s => \/ Rests(t) /\ pool'[t].cur = pool[t].cur
                                  \/ t = own /\ t \in Stored /\ Empties(t)
    BY <1>5, <2>2, SameRests, EmptyEmpties
  <2>8. \A q \in Requests : q # r =>
          /\ req'[q].life = req[q].life /\ req'[q].ssl = req[q].ssl
          /\ req'[q].held = req[q].held /\ req'[q].busy = req[q].busy
          /\ req'[q].from = req[q].from
          /\ req'[q].index = req[q].index \/ ~req[q].busy
    BY <1>6, <2>4, <2>6
  <2>9. WorkIsKnown' /\ \A q \in Requests : Calms(q) /\ Goes(q)
    <3>1. \A t \in Slots : t \in Stored /\ pool[t].conn # req[r].ssl =>
            Rests(t) /\ pool'[t].cur = pool[t].cur
      BY <1>4, <1>5, <2>1, <2>7
    <3> QED
      BY <1>7, <2>6, <2>8, <3>1, EndCalms
  <2>10. \A t \in Owned' : t # s => Owner(t) # o
    <3>1. Owner(own)' = NoReq
      BY <2>2, EmptyEmpties DEF Empties
    <3>2. \A t \in Owned' : t # s => t # own /\ t \in Slots
      BY <3>1 DEF Owned
    <3>3. \A t \in Owned' : t # s => t # own /\ t \in Owned
      BY <2>7, <3>2 DEF Rests, Owned
    <3> QED
      BY <1>5, <3>3 DEF OwnerInvariant, OwnersAreNative
  <2>11. req'[o].ssl = o /\ ~req'[o].busy /\ ~Fresh(o)'
    BY <1>6, <2>4, <2>6 DEF Fresh
  <2> QED
    BY <1>6, <2>1, <2>3, <2>7, <2>9, <2>10, <2>11, StoreOwners
<1> QED
  BY <1>3, <1>4, <1>5, <1>8, <1>9, Zenon DEF PushFromPreconnected

LEMMA CompleteTaskOwners ==
  ASSUME PoolInvariant, OwnerInvariant, NEW r \in Requests, CompleteTask(r) PROVE OwnerInvariant'
BY PushFromPreconnectedOwners, PushPrestartedOwners DEF CompleteTask

LEMMA LinkOwners ==
  ASSUME PoolInvariant, OwnerInvariant, Link PROVE OwnerInvariant'
<1>1. /\ TypeOK /\ pc = "link" /\ UNCHANGED <<release, cursor, deletes>>
  BY DEF PoolInvariant, Link
<1>2. ASSUME NEW n \in Requests, req[n].life = "new"
      PROVE  /\ req[n] \in Node /\ Fresh(n) /\ ~req[n].busy /\ req[n].ssl = n /\ deletes[n] = 0
             /\ \A t \in Owned : Owner(t) # n
  <2>1. Fresh(n)
    BY <1>2 DEF Fresh
  <2>2. ~Released(n)
    BY <1>2, PoolAssumption DEF Released, PoolInvariant, OneAtATime
  <2> QED
    BY <1>1, <1>2, <2>1, <2>2
       DEF TypeOK, PoolInvariant, UnusedIsApart, OwnerInvariant, DeletedIsGone, OwnersAreNative
<1>3. ASSUME NEW n \in Requests, req[n].life = "new", UNCHANGED pool, pc' = "delete",
             req' = [req EXCEPT ![n] = [@ EXCEPT !.life = "orphan", !.fd = TRUE]]
      PROVE  OwnerInvariant'
  <2> DEFINE v == [req[n] EXCEPT !.life = "orphan", !.fd = TRUE]
  <2>1. v.life = "orphan" /\ v.ssl = req[n].ssl /\ v.busy = req[n].busy /\ v.held = req[n].held
    BY <1>2, <1>3, SMT DEF Node
  <2>2. req' = [req EXCEPT ![n] = v]
    BY <1>3
  <2> HIDE DEF v
  <2>3. req'[n] = v /\ \A q \in Requests : q # n => req'[q] = req[q]
    BY <1>1, <2>2 DEF TypeOK
  <2>4. \A t \in Slots : Rests(t) /\ pool'[t].cur = pool[t].cur
    BY <1>3, SameRests
  <2>5. Calms(n) /\ Works(n) /\ Goes(n)
    BY <1>2, <1>3, <2>1, <2>3, GoesHome DEF Calms, Works, Fresh, Holder
  <2>6. ASSUME NEW q \in Requests, q # n PROVE Calms(q) /\ Works(q) /\ Goes(q)
    BY <1>1, <2>3, <2>4, <2>6, SameCalms, GoesOn
  <2>7. WorkIsKnown'
    BY <2>5, <2>6, WorkKept DEF OwnerInvariant
  <2>8. Sweeping' => Sweeping /\ cursor' = cursor /\ Rests(cursor)
    BY <1>1, <2>4 DEF Sweeping, TypeOK
  <2> QED
    BY <1>1, <1>3, <2>4, <2>5, <2>6, <2>7, <2>8, OwnersKept
<1>4. ASSUME NEW n \in Requests, req[n].life = "new", NEW s \in FreeSlots(Preconnected),
             pool' = [pool EXCEPT ![s] = Store(s, Preconnected, n, n)], pc' = "finish",
             req' = [req EXCEPT ![n] = [@ EXCEPT !.life = "pooled", !.fd = TRUE, !.index = s[2]]]
      PROVE  OwnerInvariant'
  <2> DEFINE v == [req[n] EXCEPT !.life = "pooled", !.fd = TRUE, !.index = s[2]]
  <2>1. v.life = "pooled" /\ v.ssl = req[n].ssl /\ v.busy = req[n].busy /\ v.held = req[n].held
    BY <1>2, <1>4, SMT DEF Node
  <2>2. req' = [req EXCEPT ![n] = v]
    BY <1>4
  <2> HIDE DEF v
  <2>3. req'[n] = v /\ \A q \in Requests : q # n => req'[q] = req[q]
    BY <1>1, <2>2 DEF TypeOK
  <2>4. s \in Slots /\ s \notin Owned /\ s \notin Stored /\ Preconnected \in Kinds
    BY FreeIs
  <2>5. /\ pool'[s] = Store(s, Preconnected, n, n)
        /\ \A t \in Slots : t # s => pool'[t] = pool[t]
    BY <1>1, <1>4, <2>4 DEF TypeOK
  <2>6. Owner(s)' = n /\ s \in Stored' /\ ~pool'[s].shouldRelease
    BY <1>1, <2>4, <2>5, StoredBy
  <2>7. \A t \in Slots : t # s => Rests(t) /\ pool'[t].cur = pool[t].cur
    BY <2>5, SameRests
  <2>8. Calms(n) /\ Works(n) /\ Goes(n)
    BY <1>2, <1>4, <2>1, <2>3, GoesHome DEF Calms, Works, Fresh, Holder
  <2>9. ASSUME NEW q \in Requests, q # n PROVE Calms(q) /\ Works(q) /\ Goes(q)
    BY <1>1, <2>3, <2>4, <2>7, <2>9, SameCalms, GoesOn
  <2>10. WorkIsKnown'
    BY <2>8, <2>9, WorkKept DEF OwnerInvariant
  <2>11. \A t \in Owned' : t # s => Owner(t) # n
    <3>1. \A t \in Owned' : t # s => t \in Owned
      BY <2>7 DEF Rests, Owned
    <3> QED
      BY <1>2, <1>4, <3>1
  <2>12. req'[n].ssl = n /\ ~req'[n].busy /\ ~Fresh(n)' /\ deletes[n] = 0
    BY <1>2, <1>4, <2>1, <2>3 DEF Fresh
  <2> QED
    BY <1>1, <1>4, <2>4, <2>6, <2>7, <2>8, <2>9, <2>10, <2>11, <2>12, StoreOwners
<1> QED
  BY <1>3, <1>4 DEF Link

(***************************************************************************)
(* releaseRequest().                                                       *)
(***************************************************************************)
LEMMA BeginReleaseOwners ==
  ASSUME PoolInvariant, OwnerInvariant, NEW r \in Requests, BeginRelease(r) PROVE OwnerInvariant'
<1>1. /\ TypeOK /\ req[r] \in Node /\ release.by = NoReq /\ req[r].life \in {"running", "finished"}
      /\ UNCHANGED <<pool, pc, cursor, deletes>>
  BY DEF PoolInvariant, TypeOK, BeginRelease
<1>2. /\ release'.by = r /\ release'.phase = "del"
      /\ release'.ssl /\ ~release'.inPool =>
           \E s \in Stored : SameConn(s, r) /\ pool[s].request # r
  <2>1. CASE release' = [NoRelease EXCEPT !.by = r]
    BY <2>1, SMT DEF NoRelease
  <2>2. ASSUME NEW s \in Stored, SameConn(s, r),
               release' = [by |-> r, phase |-> "del", ssl |-> TRUE,
                           abnormal |-> pool[s].isAbnormal, inPool |-> pool[s].request = r]
        PROVE  /\ release'.by = r /\ release'.phase = "del"
               /\ release'.ssl /\ ~release'.inPool =>
                    \E t \in Stored : SameConn(t, r) /\ pool[t].request # r
    BY <2>2
  <2>3. \/ release' = [NoRelease EXCEPT !.by = r]
        \/ \E s \in Stored :
             /\ SameConn(s, r)
             /\ release' = [by |-> r, phase |-> "del", ssl |-> TRUE,
                            abnormal |-> pool[s].isAbnormal, inPool |-> pool[s].request = r]
    BY Zenon DEF BeginRelease
  <2> QED
    BY <2>1, <2>2, <2>3
<1> DEFINE v == [req[r] EXCEPT !.life = "releasing", !.held = FALSE]
<1>3. /\ v.life = "releasing" /\ v.ssl = req[r].ssl /\ v.busy = req[r].busy
      /\ v.from = req[r].from /\ v.index = req[r].index
  BY <1>1, SMT DEF Node
<1>4. req' = [req EXCEPT ![r] = v]
  BY DEF BeginRelease
<1> HIDE DEF v
<1>5. req'[r] = v /\ \A q \in Requests : q # r => req'[q] = req[q]
  BY <1>1, <1>4 DEF TypeOK
<1>6. \A t \in Slots : Rests(t) /\ pool'[t].cur = pool[t].cur
  BY <1>1, SameRests
<1>7. Calms(r) /\ Works(r)
  BY <1>1, <1>3, <1>5 DEF Calms, Works, Fresh, Holder
<1>8. Goes(r)
  <2> SUFFICES ASSUME Lent(r)' PROVE Goes(r)
    BY DEF Goes
  <2>1. req[r].busy /\ req[r].ssl # r
    BY <1>3, <1>5 DEF Lent, Working
  <2>2. Lent(r)
    BY <1>1, <2>1 DEF Lent, Working, OwnerInvariant, WorkIsKnown
  <2>3. Source(r) \in Slots
    BY <2>2, LentIs
  <2> QED
    BY <1>3, <1>5, <1>6, <2>2, <2>3 DEF Goes, Source
<1>9. ASSUME NEW q \in Requests, q # r PROVE Calms(q) /\ Works(q) /\ Goes(q)
  <2>1. Calms(q) /\ Works(q)
    BY <1>5, <1>9, SameCalms
  <2>2. ASSUME Lent(q)' PROVE Goes(q)
    <3>1. Lent(q)
      BY <1>2, <1>5, <1>9, <2>2 DEF Lent, Working
    <3>2. Source(q) \in Slots
      BY <3>1, LentIs
    <3> QED
      BY <1>5, <1>6, <1>9, <3>1, <3>2 DEF Goes, Source
  <2> QED
    BY <2>1, <2>2 DEF Goes
<1>10. \A q \in Requests : ~Released(q)
  BY <1>1, PoolAssumption DEF Released
<1>11. DeletedIsGone' /\ WorkIsKnown' /\ LentIsThere'
  BY <1>1, <1>7, <1>8, <1>9, <1>10, DeletedKept, WorkKept, LentKept DEF OwnerInvariant
<1>12. \A t \in Slots : KeepsOwner(t)
  BY <1>6 DEF KeepsOwner, Rests, Owned
<1>13. OwnersAreNative' /\ ExpiredIsUnused' /\ LenderIsAlive'
  BY <1>1, <1>6, <1>7, <1>9, <1>12, NativeKept, ExpiredKept, LenderKept DEF OwnerInvariant
<1>14. OwnersAreAlive'
  <2>1. \A t \in Owned : Owner(t) \in Requests
    BY <1>1, OwnersTyped
  <2> SUFFICES ASSUME NEW t \in Owned
               PROVE  deletes[Owner(t)] = 0 \/ (t = cursor /\ pc = "clear")
    BY <1>1 DEF OwnersAreAlive, Owned, Owner
  <2> QED
    BY <1>10, <2>1 DEF OwnerInvariant, OwnersAreAlive
<1>15. SweepHasOwner'
  <2>1. Sweeping' => Sweeping /\ cursor' = cursor /\ Rests(cursor)
    BY <1>1, <1>6 DEF Sweeping, TypeOK
  <2>2. pc' # "wipe"
    BY <1>1 DEF OwnerInvariant, SweepHasOwner
  <2> QED
    BY <1>6, <2>1, <2>2, SweepKept DEF OwnerInvariant
<1>16. FoundElsewhere'
  <2> SUFFICES ASSUME release'.ssl, ~release'.inPool PROVE req[r].ssl # r
    BY <1>2, <1>3, <1>5 DEF FoundElsewhere
  <2>1. PICK s \in Stored : SameConn(s, r) /\ Owner(s) # r
    BY <1>2 DEF Owner
  <2>2. Owner(s) \in Requests /\ req[Owner(s)].ssl = pool[s].conn /\ s \in Slots
    BY <2>1, StoredIs DEF PoolInvariant, OwnerHasConn, Owner
  <2>3. s \in Owned
    BY <2>2, PoolAssumption DEF Owned
  <2>4. Owner(s) = pool[s].conn
    BY <2>2, <2>3 DEF OwnerInvariant, OwnersAreNative
  <2> QED
    BY <2>1, <2>4 DEF SameConn
<1> QED
  BY <1>11, <1>13, <1>14, <1>15, <1>16 DEF OwnerInvariant

LEMMA ReleaseDeleteOwners ==
  ASSUME PoolInvariant, OwnerInvariant, NEW r \in Requests, ReleaseDelete(r) PROVE OwnerInvariant'
<1>1. /\ TypeOK /\ release.by = r /\ release.phase = "del" /\ r # NoReq /\ req[r].life = "releasing"
      /\ UNCHANGED <<pool, req, pc, cursor>>
  BY PoolAssumption DEF PoolInvariant, OneAtATime, TypeOK, ReleaseDelete
<1>2. /\ release'.by = r /\ release'.phase = "final" /\ release'.ssl = release.ssl
      /\ release'.inPool = release.inPool
  <2>1. release \in Release /\ release' = [release EXCEPT !.phase = "final"]
    BY <1>1 DEF TypeOK, ReleaseDelete
  <2> QED
    BY <1>1, <2>1, SMT DEF Release
<1>3. \A q \in Requests : ~Released(q)
  BY <1>1 DEF Released
<1>4. deletes[r] = 0
  BY <1>1, <1>3 DEF OwnerInvariant, DeletedIsGone
<1>5. \A q \in Requests : deletes'[q] = IF q = r /\ ~release.inPool THEN 1 ELSE deletes[q]
  <2>1. CASE release.inPool
    BY <2>1 DEF ReleaseDelete
  <2>2. CASE ~release.inPool
    <3>1. deletes' = Deleted({r})
      BY <2>2 DEF ReleaseDelete
    <3> QED
      BY <1>1, <1>4, <2>2, <3>1, DeletedIs
  <2> QED
    BY <2>1, <2>2
<1>6. \A t \in Slots : Rests(t) /\ pool'[t].cur = pool[t].cur
  BY <1>1, SameRests
<1>7. ASSUME NEW q \in Requests PROVE Calms(q) /\ Works(q) /\ Goes(q)
  <2>1. Calms(q) /\ Works(q)
    BY <1>1, SameCalms
  <2>2. ASSUME Lent(q)' PROVE Goes(q)
    <3>1. Lent(q)
      BY <1>1, <1>2, <2>2 DEF Lent, Working
    <3>2. Source(q) \in Slots
      BY <3>1, LentIs
    <3> QED
      BY <1>1, <1>6, <3>1, <3>2 DEF Goes, Source
  <2> QED
    BY <2>1, <2>2 DEF Goes
<1>8. WorkIsKnown' /\ LentIsThere' /\ FoundElsewhere'
  BY <1>1, <1>2, <1>7, WorkKept, LentKept, FoundKept DEF OwnerInvariant
<1>9. \A t \in Slots : KeepsOwner(t)
  BY <1>6 DEF KeepsOwner, Rests, Owned
<1>10. OwnersAreNative' /\ ExpiredIsUnused'
  BY <1>1, <1>6, <1>7, <1>9, NativeKept, ExpiredKept DEF OwnerInvariant
<1>11. SweepHasOwner'
  <2>1. Sweeping' => Sweeping /\ cursor' = cursor /\ Rests(cursor)
    BY <1>1, <1>6 DEF Sweeping, TypeOK
  <2>2. pc' # "wipe"
    BY <1>1 DEF OwnerInvariant, SweepHasOwner
  <2> QED
    BY <1>6, <2>1, <2>2, SweepKept DEF OwnerInvariant
<1>12. DeletedIsGone'
  <2>1. ASSUME NEW q \in Requests
        PROVE  deletes'[q] \in {0, 1} /\ (deletes'[q] = 1 => req[q].life = "gone" \/ Released(q)')
    BY <1>2, <1>3, <1>5 DEF OwnerInvariant, DeletedIsGone, Released
  <2> QED
    BY <1>1, <2>1 DEF DeletedIsGone, Released
<1>13. LenderIsAlive'
  <2>1. ASSUME NEW q \in Requests, Holder(q)', req[q].ssl # q
        PROVE  deletes'[req[q].ssl] = deletes[req[q].ssl]
    <3>1. PICK o \in Requests : o = req[q].ssl
      BY <1>1 DEF TypeOK, Node
    <3>2. Holder(q) /\ Holder(r)
      BY <1>1, <1>7, <2>1 DEF Calms, Holder
    <3>3. o # r
      BY <2>1, <3>1, <3>2 DEF OwnerInvariant, LenderIsAlive, PoolInvariant, ExclusiveUse
    <3> QED
      BY <1>5, <3>1, <3>3
  <2> QED
    BY <1>1, <1>7, <2>1, LenderKept DEF OwnerInvariant
<1>14. OwnersAreAlive'
  <2> SUFFICES ASSUME NEW t \in Owned
               PROVE  \/ deletes'[Owner(t)] = 0
                      \/ t = cursor /\ pc = "clear"
                      \/ Released(Owner(t))' /\ ~release.ssl
    BY <1>1, <1>2 DEF OwnersAreAlive, Owned, Owner, Released
  <2>1. Owner(t) \in Requests /\ req[Owner(t)].ssl = Owner(t)
    BY <1>1, OwnersTyped DEF OwnerInvariant, OwnersAreNative
  <2>2. deletes[Owner(t)] = 0 \/ (t = cursor /\ pc = "clear")
    BY <1>3, <2>1 DEF OwnerInvariant, OwnersAreAlive
  <2>3. CASE Owner(t) = r /\ ~release.inPool
    <3>1. ~release.ssl
      BY <1>1, <2>1, <2>3 DEF OwnerInvariant, FoundElsewhere
    <3>2. release'.by = Owner(t) /\ release'.phase = "final" /\ ~release'.inPool
      BY <1>2, <2>3
    <3> QED
      BY <1>1, <3>1, <3>2 DEF Released, Owner
  <2>4. CASE ~(Owner(t) = r /\ ~release.inPool)
    BY <1>5, <2>1, <2>2, <2>4
  <2> QED
    BY <2>3, <2>4
<1> QED
  BY <1>8, <1>10, <1>11, <1>12, <1>13, <1>14 DEF OwnerInvariant

\* The release of r ends: what it had found is emptied or available, and one request may
\* be deleted with its entry.
LEMMA FinalOwners ==
  ASSUME PoolInvariant, OwnerInvariant, NEW r \in Requests, release.by = r,
         release.phase = "final", release'.by = NoReq, UNCHANGED <<pc, cursor>>,
         \A t \in Slots :
            \/ Rests(t) /\ (pool[t].conn # req[r].ssl \/ t \notin Stored => pool'[t].cur = pool[t].cur)
            \/ t \in Stored /\ Empties(t) /\ pool[t].conn = req[r].ssl,
         \A q \in Requests :
            \/ deletes'[q] = deletes[q] /\ (q # r => req'[q] = req[q])
            \/ /\ q = req[r].ssl /\ deletes[q] = 0 /\ deletes'[q] = 1
               /\ req'[q].life = "gone" /\ req'[q].ssl = req[q].ssl /\ req'[q].busy = req[q].busy
               /\ \A t \in Owned' : Owner(t) # q,
         req'[r].ssl = req[r].ssl, req'[r].busy = req[r].busy,
         req'[r].life = "gone" \/ (req'[r].life = "pooled" /\ release.inPool),
         ~release.ssl => \A t \in Owned' : Owner(t) # r
  PROVE  OwnerInvariant'
<1>1. TypeOK /\ r # NoReq /\ req[r].life = "releasing" /\ Holder(r)
  <2>1. r # NoReq
    BY PoolAssumption
  <2>2. req[r].life = "releasing"
    BY <2>1 DEF PoolInvariant, OneAtATime
  <2> QED
    BY <2>1, <2>2 DEF PoolInvariant, Holder
<1>2. \A q \in Requests : ~Released(q) \/ q = r
  BY DEF Released
<1>3. Calms(r) /\ Works(r) /\ Goes(r) /\ ~Holder(r)'
  <2>1. ~Working(r)'
    BY <1>1 DEF Working
  <2> QED
    BY <1>1, <2>1, GoesHome DEF Calms, Works, Fresh, Holder
<1>4. ASSUME NEW q \in Requests, q # r PROVE Calms(q) /\ Works(q) /\ Goes(q)
  <2>1. CASE req'[q].life = "gone" /\ req'[q].ssl = req[q].ssl /\ req'[q].busy = req[q].busy
    <3>1. ~Working(q)'
      BY <2>1, <1>4, PoolAssumption DEF Working
    <3> QED
      BY <2>1, <3>1, GoesHome DEF Calms, Works, Fresh, Holder
  <2>2. CASE req'[q] = req[q]
    <3>1. Calms(q) /\ Works(q)
      BY <2>2, SameCalms
    <3>2. ASSUME Lent(q)' PROVE Goes(q)
      <4>1. Lent(q)
        BY <2>2, <3>2, PoolAssumption DEF Lent, Working
      <4>2. /\ Source(q) \in Slots /\ Source(q) \in Stored /\ pool[Source(q)].conn = req[q].ssl
            /\ Holder(q)
        BY <4>1, LentIs
      <4>3. req[q].ssl # req[r].ssl
        BY <1>1, <1>4, <4>2 DEF PoolInvariant, ExclusiveUse
      <4>4. Rests(Source(q)) /\ pool'[Source(q)].cur = pool[Source(q)].cur
        BY <4>2, <4>3
      <4> QED
        BY <2>2, <4>1, <4>4 DEF Goes, Source
    <3> QED
      BY <3>1, <3>2 DEF Goes
  <2> QED
    BY <1>4, <2>1, <2>2
<1>5. WorkIsKnown' /\ LentIsThere' /\ FoundElsewhere'
  BY <1>3, <1>4, WorkKept, LentKept, FoundKept DEF OwnerInvariant
<1>6. \A t \in Slots : Rests(t) \/ Empties(t)
  OBVIOUS
<1>7. \A t \in Slots : KeepsOwner(t)
  BY <1>6 DEF KeepsOwner, Rests, Empties, Owned
<1>8. OwnersAreNative' /\ ExpiredIsUnused'
  BY <1>1, <1>3, <1>4, <1>6, <1>7, NativeKept, ExpiredKept DEF OwnerInvariant
<1>9. SweepHasOwner'
  <2>1. Sweeping => cursor \in Slots /\ cursor \notin Stored
    BY <1>1 DEF TypeOK, OwnerInvariant, SweepHasOwner
  <2>2. Sweeping' => Sweeping /\ cursor' = cursor /\ Rests(cursor)
    BY <2>1 DEF Sweeping
  <2>3. pc' # "wipe"
    BY DEF OwnerInvariant, SweepHasOwner
  <2> QED
    BY <1>6, <2>2, <2>3, SweepKept DEF OwnerInvariant
<1>10. DeletedIsGone'
  <2>1. ASSUME NEW q \in Requests
        PROVE  deletes'[q] \in {0, 1} /\ (deletes'[q] = 1 => req'[q].life = "gone")
    <3>1. deletes[q] \in {0, 1} /\ (deletes[q] = 1 => req[q].life = "gone" \/ Released(q))
      BY DEF OwnerInvariant, DeletedIsGone
    <3>2. CASE deletes'[q] = deletes[q] /\ (q # r => req'[q] = req[q])
      BY <1>1, <1>2, <3>1, <3>2 DEF Released
    <3> QED
      BY <3>2
  <2> QED
    BY <2>1 DEF DeletedIsGone
<1>11. LenderIsAlive'
  <2>1. ASSUME NEW q \in Requests, Holder(q)', req[q].ssl # q
        PROVE  deletes'[req[q].ssl] = deletes[req[q].ssl]
    <3>1. PICK o \in Requests : o = req[q].ssl
      BY <1>1 DEF TypeOK, Node
    <3>2. q # r /\ Holder(q)
      BY <1>3, <1>4, <2>1 DEF Calms
    <3>3. o # req[r].ssl
      BY <1>1, <3>1, <3>2 DEF PoolInvariant, ExclusiveUse
    <3> QED
      BY <3>1, <3>3
  <2> QED
    BY <1>1, <1>3, <1>4, <2>1, LenderKept DEF OwnerInvariant
<1>12. OwnersAreAlive'
  <2> SUFFICES ASSUME NEW t \in Owned'
               PROVE  deletes'[Owner(t)'] = 0 \/ (t = cursor /\ pc = "clear")
    BY DEF OwnersAreAlive
  <2>1. t \in Owned /\ Owner(t)' = Owner(t)
    BY <1>7 DEF KeepsOwner, Owned
  <2>2. PICK q \in Requests : q = Owner(t)
    BY <1>1, <2>1, OwnersTyped
  <2>3. deletes'[q] = deletes[q]
    BY <2>2
  <2>4. deletes[q] = 0 \/ (t = cursor /\ pc = "clear") \/ (Released(q) /\ ~release.ssl)
    BY <2>1, <2>2 DEF OwnerInvariant, OwnersAreAlive
  <2>5. ~(Released(q) /\ ~release.ssl)
    BY <1>2, <2>2
  <2> QED
    BY <2>1, <2>2, <2>3, <2>4, <2>5
<1> QED
  BY <1>5, <1>8, <1>9, <1>10, <1>11, <1>12 DEF OwnerInvariant

\* The entry of one connection is emptied.
LEMMA EntryGoes ==
  ASSUME TypeOK, NEW c, NEW s \in Stored, pool[s].conn = c, pool' = [pool EXCEPT ![s] = EmptyEntry]
  PROVE  /\ s \in Slots /\ Empties(s)
         /\ \A t \in Slots : \/ Rests(t) /\ pool'[t].cur = pool[t].cur
                             \/ t \in Stored /\ Empties(t) /\ pool[t].conn = c
<1>1. s \in Slots
  BY StoredIs
<1>2. pool'[s] = EmptyEntry /\ \A t \in Slots : t # s => pool'[t] = pool[t]
  BY <1>1 DEF TypeOK
<1> QED
  BY <1>1, <1>2, SameRests, EmptyEmpties

LEMMA ReleaseFinalOwners ==
  ASSUME PoolInvariant, OwnerInvariant, NEW r \in Requests, ReleaseFinal(r) PROVE OwnerInvariant'
<1>1. /\ TypeOK /\ req[r] \in Node /\ release.by = r /\ release.phase = "final"
      /\ release' = NoRelease /\ UNCHANGED <<pc, cursor>>
  BY DEF PoolInvariant, TypeOK, ReleaseFinal
<1>2. release'.by = NoReq /\ release.inPool \in BOOLEAN
  <2>1. release \in Release
    BY <1>1 DEF TypeOK
  <2> QED
    BY <1>1, <2>1, SMT DEF NoRelease, Release
<1>3. Holder(r)
  <2>1. r # NoReq
    BY PoolAssumption
  <2> QED
    BY <1>1, <2>1 DEF PoolInvariant, OneAtATime, Holder
\* An entry that stores something: its owner is alive unless r is that owner.
<1>4. ASSUME NEW s \in Stored, NEW o \in Requests, Owner(s) = o
      PROVE  /\ s \in Slots /\ s \in Owned /\ req[o].ssl = o /\ pool[s].conn = o
             /\ release.ssl => deletes[o] = 0
  <2>1. s \in Slots /\ s \in Owned
    BY <1>4, StoredIs, PoolAssumption DEF Owned
  <2>2. req[o].ssl = o /\ pool[s].conn = o
    BY <1>4, <2>1 DEF OwnerInvariant, OwnersAreNative, PoolInvariant, OwnerHasConn, Owner
  <2>3. ~(s = cursor /\ pc = "clear")
    BY <1>4 DEF OwnerInvariant, SweepHasOwner, Sweeping
  <2> QED
    BY <1>4, <2>1, <2>2, <2>3 DEF OwnerInvariant, OwnersAreAlive
<1>5. ASSUME NEW life \in {"pooled", "gone"}, life = "pooled" => release.inPool,
             req' = [req EXCEPT ![r].life = life]
      PROVE  /\ req'[r].ssl = req[r].ssl /\ req'[r].busy = req[r].busy
             /\ req'[r].life = life
             /\ req'[r].life = "gone" \/ (req'[r].life = "pooled" /\ release.inPool)
             /\ \A q \in Requests : q # r => req'[q] = req[q]
  <2> DEFINE v == [req[r] EXCEPT !.life = life]
  <2>1. v.ssl = req[r].ssl /\ v.busy = req[r].busy /\ v.life = life
    BY <1>1, SMT DEF Node
  <2>2. req' = [req EXCEPT ![r] = v]
    BY <1>5
  <2> HIDE DEF v
  <2>3. req'[r] = v /\ \A q \in Requests : q # r => req'[q] = req[q]
    BY <1>1, <2>2 DEF TypeOK
  <2> QED
    BY <1>5, <2>1, <2>3
<1>6. ASSUME NEW s \in Stored, pool' = [pool EXCEPT ![s] = EmptyEntry],
             pool[s].conn = req[r].ssl, NEW o \in Requests, Owner(s) = o
      PROVE  /\ \A t \in Slots : \/ Rests(t) /\ pool'[t].cur = pool[t].cur
                                 \/ t \in Stored /\ Empties(t) /\ pool[t].conn = req[r].ssl
             /\ \A t \in Owned' : Owner(t) # o
  <2>1. /\ s \in Slots /\ Empties(s)
        /\ \A t \in Slots : \/ Rests(t) /\ pool'[t].cur = pool[t].cur
                            \/ t \in Stored /\ Empties(t) /\ pool[t].conn = req[r].ssl
    BY <1>1, <1>6, EntryGoes
  <2>2. \A t \in Owned' : t \in Owned /\ t # s
    BY <2>1 DEF Rests, Empties, Owned
  <2>3. s \in Owned
    BY <1>4, <1>6
  <2> QED
    BY <1>6, <2>1, <2>2, <2>3 DEF OwnerInvariant, OwnersAreNative
<1>7. CASE release.ssl /\ release.abnormal
           /\ DeleteBySSL({s \in Stored : pool[s].conn = req[r].ssl}, r)
  <2>1. CASE /\ req' = [req EXCEPT ![r].life = IF release.inPool THEN "pooled" ELSE "gone"]
             /\ UNCHANGED <<pool, deletes>>
    <3>1. /\ req'[r].ssl = req[r].ssl /\ req'[r].busy = req[r].busy
          /\ req'[r].life = "gone" \/ (req'[r].life = "pooled" /\ release.inPool)
          /\ \A q \in Requests : q # r => req'[q] = req[q]
      BY <1>2, <1>5, <2>1
    <3>2. \A t \in Slots : Rests(t) /\ pool'[t].cur = pool[t].cur
      BY <2>1, SameRests
    <3> QED
      BY <1>1, <1>2, <1>7, <2>1, <3>1, <3>2, FinalOwners
  <2>2. ASSUME NEW s \in Stored, pool[s].conn = req[r].ssl, pool' = [pool EXCEPT ![s] = EmptyEntry],
               req' = Gone({r, pool[s].request}), deletes' = Deleted({pool[s].request})
        PROVE  OwnerInvariant'
    <3>1. PICK o \in Requests : o = Owner(s) /\ o = pool[s].request
      BY DEF PoolInvariant, OwnerHasConn, Owner
    <3>2. req[o].ssl = o /\ req[r].ssl = o /\ deletes[o] = 0
      BY <1>4, <1>7, <2>2, <3>1
    <3>3. deletes'[o] = 1 /\ \A q \in Requests : q # o => deletes'[q] = deletes[q]
      BY <1>1, <2>2, <3>1, <3>2, DeletedIs
    <3>4. \A q \in Requests : q # r /\ q # o => req'[q] = req[q]
      BY <2>2, <3>1 DEF Gone
    <3>5. ASSUME NEW q \in {r, o}
          PROVE  req'[q].life = "gone" /\ req'[q].ssl = req[q].ssl /\ req'[q].busy = req[q].busy
      <4>1. req'[q] = [req[q] EXCEPT !.life = "gone"] /\ req[q] \in Node
        BY <1>1, <2>2, <3>1 DEF Gone, TypeOK
      <4> QED
        BY <4>1, SMT DEF Node
    <3>6. /\ \A t \in Slots : \/ Rests(t) /\ pool'[t].cur = pool[t].cur
                              \/ t \in Stored /\ Empties(t) /\ pool[t].conn = req[r].ssl
          /\ \A t \in Owned' : Owner(t) # o
      BY <1>6, <2>2, <3>1
    <3> QED
      BY <1>1, <1>2, <1>7, <3>2, <3>3, <3>4, <3>5, <3>6, FinalOwners
  <2> QED
    BY <1>7, <2>1, <2>2 DEF DeleteBySSL
<1>8. CASE /\ release.ssl /\ FinishPush(r) /\ UNCHANGED deletes
           /\ req' = [req EXCEPT ![r].life = IF release.inPool THEN "pooled" ELSE "gone"]
  <2>1. /\ req'[r].ssl = req[r].ssl /\ req'[r].busy = req[r].busy
        /\ req'[r].life = "gone" \/ (req'[r].life = "pooled" /\ release.inPool)
        /\ \A q \in Requests : q # r => req'[q] = req[q]
    BY <1>2, <1>5, <1>8
  <2>2. \A t \in Slots :
          Rests(t) /\ (pool[t].conn # req[r].ssl \/ t \notin Stored => pool'[t].cur = pool[t].cur)
    BY <1>1, <1>8, FinishPushRests
  <2> QED
    BY <1>1, <1>2, <1>8, <2>1, <2>2, FinalOwners
<1>9. CASE /\ ~release.ssl /\ DeleteByRequest(r) /\ UNCHANGED deletes
           /\ req' = [req EXCEPT ![r].life = "gone"]
  <2>1. /\ req'[r].ssl = req[r].ssl /\ req'[r].busy = req[r].busy /\ req'[r].life = "gone"
        /\ \A q \in Requests : q # r => req'[q] = req[q]
    <3>1. "gone" \in {"pooled", "gone"} /\ "gone" # "pooled"
      OBVIOUS
    <3> QED
      BY <1>5, <1>9, <3>1
  <2>2. CASE UNCHANGED pool /\ \A s \in Stored : Owner(s) # r
    <3>1. \A t \in Slots : Rests(t) /\ pool'[t].cur = pool[t].cur
      BY <2>2, SameRests
    <3>2. ASSUME NEW t \in Owned', Owner(t) = r PROVE FALSE
      <4>1. t \in Owned
        BY <3>1 DEF Rests, Owned
      <4>2. t \notin Stored /\ req[r].ssl = r
        BY <2>2, <3>2, <4>1 DEF OwnerInvariant, OwnersAreNative
      <4> QED
        BY <1>3, <3>2, <4>1, <4>2 DEF OwnerInvariant, ExpiredIsUnused
    <3> QED
      BY <1>1, <1>2, <1>9, <2>1, <3>1, <3>2, FinalOwners
  <2>3. ASSUME NEW s \in Stored, Owner(s) = r, pool' = [pool EXCEPT ![s] = EmptyEntry]
        PROVE  OwnerInvariant'
    <3>1. pool[s].conn = req[r].ssl
      BY <1>4, <2>3
    <3>2. /\ \A t \in Slots : \/ Rests(t) /\ pool'[t].cur = pool[t].cur
                              \/ t \in Stored /\ Empties(t) /\ pool[t].conn = req[r].ssl
          /\ \A t \in Owned' : Owner(t) # r
      BY <1>6, <2>3, <3>1
    <3> QED
      BY <1>1, <1>2, <1>9, <2>1, <3>2, FinalOwners
  <2>4. \/ UNCHANGED pool /\ \A s \in Stored : pool[s].request # r
        \/ \E s \in Stored : pool[s].request = r /\ pool' = [pool EXCEPT ![s] = EmptyEntry]
    BY <1>9, Zenon DEF DeleteByRequest
  <2> QED
    BY <2>2, <2>3, <2>4 DEF Owner
<1> QED
  BY <1>7, <1>8, <1>9 DEF ReleaseFinal

(***************************************************************************)
(* Every step, and what follows.                                           *)
(***************************************************************************)
LEMMA OwnerInit == Init => OwnerInvariant
<1> SUFFICES ASSUME Init PROVE OwnerInvariant
  OBVIOUS
<1>1. TypeOK /\ Stored = {}
  BY InvariantInit, StoredIs DEF Init, PoolInvariant, EmptyEntry, Active
<1>2. \A s \in Slots : Owner(s) = NoReq /\ ~pool[s].shouldRelease
  BY SMT DEF Init, EmptyEntry, Owner
<1>3. Owned = {} /\ Marked = {}
  BY <1>2 DEF Owned, Marked
<1>4. ASSUME NEW r \in Requests PROVE req[r].life = "new" /\ deletes[r] = 0
  <2>1. /\ deletes[r] = 0
        /\ req[r] = [life |-> "new", ssl |-> r, fd |-> FALSE, from |-> "direct",
                     index |-> -1, busy |-> FALSE, held |-> FALSE]
    BY Zenon DEF Init
  <2> QED
    BY <2>1
<1>5. \A r \in Requests : release.by # r
  <2>1. NoRelease.by = NoReq
    BY SMT DEF NoRelease
  <2> QED
    BY <2>1, PoolAssumption, Zenon DEF Init
<1>6. pc = "timer"
  BY DEF Init
<1>7. DeletedIsGone /\ WorkIsKnown /\ FoundElsewhere
  BY <1>4, <1>5 DEF DeletedIsGone, WorkIsKnown, FoundElsewhere
<1>8. OwnersAreNative /\ OwnersAreAlive /\ ExpiredIsUnused /\ SweepHasOwner
  BY <1>3, <1>6 DEF OwnersAreNative, OwnersAreAlive, ExpiredIsUnused, SweepHasOwner, Sweeping
<1>9. LentIsThere /\ LenderIsAlive
  BY <1>4, <1>5 DEF LentIsThere, Lent, Working, LenderIsAlive, Holder
<1> QED
  BY <1>7, <1>8, <1>9 DEF OwnerInvariant

LEMMA OwnerStutter ==
  ASSUME PoolInvariant, OwnerInvariant, UNCHANGED vars PROVE OwnerInvariant'
<1>1. /\ pool' = pool /\ req' = req /\ release' = release /\ pc' = pc /\ cursor' = cursor
      /\ deletes' = deletes
  BY DEF vars
<1>2. \A t \in Slots : Rests(t) /\ pool'[t].cur = pool[t].cur
  BY <1>1, SameRests
<1>3. ASSUME NEW q \in Requests PROVE Calms(q) /\ Works(q) /\ Goes(q)
  BY <1>1, <1>2, SameCalms, GoesOn
<1>4. WorkIsKnown'
  BY <1>3, WorkKept DEF OwnerInvariant
<1>5. Sweeping' => Sweeping /\ cursor' = cursor /\ Rests(cursor)
  BY <1>1, <1>2 DEF Sweeping, PoolInvariant, TypeOK
<1>6. pc' # "wipe"
  BY <1>1 DEF OwnerInvariant, SweepHasOwner
<1> QED
  BY <1>1, <1>2, <1>3, <1>4, <1>5, <1>6, OwnersKept

LEMMA OwnerStep ==
  ASSUME PoolInvariant, OwnerInvariant, Punctual, [Next]_vars PROVE OwnerInvariant'
<1>1. CASE UNCHANGED vars
  BY <1>1, OwnerStutter
<1>2. CASE PoolThread
  <2>1. CASE Tick
    BY <2>1, TickOwners
  <2>2. CASE Sweep
    BY <2>2, SweepOwners
  <2>3. CASE LinkFails
    BY <2>3, LinkFailsOwners
  <2>4. CASE Link
    BY <2>4, LinkOwners
  <2>5. CASE FinishLink
    BY <2>5, FinishLinkOwners
  <2>6. CASE SweepDelete
    BY <2>6, SweepDeleteOwners
  <2>7. CASE SweepClear
    BY <2>7, SweepClearOwners
  <2>8. CASE SweepWipe
    BY <2>8 DEF SweepWipe, OwnerInvariant, SweepHasOwner
  <2>9. CASE Destroy
    BY <2>9, DestroyOwners
  <2> QED
    BY <1>2, <2>1, <2>2, <2>3, <2>4, <2>5, <2>6, <2>7, <2>8, <2>9 DEF PoolThread
<1>3. ASSUME NEW r \in Requests, User(r) PROVE OwnerInvariant'
  <2>1. CASE BeginStart(r)
    BY <2>1, BeginStartOwners
  <2>2. CASE PopPrestarted(r)
    BY <2>2, PopPrestartedOwners
  <2>3. CASE PopPreconnected(r)
    BY <2>3, PopPreconnectedOwners
  <2>4. CASE BeginRelease(r)
    BY <2>4, BeginReleaseOwners
  <2>5. CASE ReleaseDelete(r)
    BY <2>5, ReleaseDeleteOwners
  <2>6. CASE ReleaseFinal(r)
    BY <2>6, ReleaseFinalOwners
  <2> QED
    BY <1>3, <2>1, <2>2, <2>3, <2>4, <2>5, <2>6 DEF User
<1>4. ASSUME NEW r \in Requests, Worker(r) PROVE OwnerInvariant'
  BY <1>4, CompleteTaskOwners, FailTaskOwners DEF Worker
<1> QED
  BY <1>1, <1>2, <1>3, <1>4 DEF Next

LEMMA DeletionFollows ==
  ASSUME PoolInvariant, OwnerInvariant PROVE DeletedOnceAndLast
<1>1. ASSUME NEW r \in Requests PROVE deletes[r] <= 1
  <2>1. deletes[r] = 0 \/ deletes[r] = 1
    BY DEF OwnerInvariant, DeletedIsGone
  <2> QED
    BY <2>1
<1>2. ASSUME NEW r \in Requests, req[r].life \in {"running", "finished"}
      PROVE  deletes[req[r].ssl] = 0
  <2>1. CASE req[r].ssl # r
    BY <1>2, <2>1 DEF OwnerInvariant, LenderIsAlive, Holder
  <2>2. CASE req[r].ssl = r
    <3>1. ~Released(r)
      BY <1>2, PoolAssumption DEF Released, PoolInvariant, OneAtATime
    <3> QED
      BY <1>2, <2>2, <3>1 DEF OwnerInvariant, DeletedIsGone
  <2> QED
    BY <2>1, <2>2
<1> QED
  BY <1>1, <1>2 DEF DeletedOnceAndLast, DeletedOnce, ConnectionIsAlive

\* The four who may delete the owner of a connection (its own release, a borrower's release,
\* deleteOrPreconnectNodeShouldReleased and the destructor) agree on when and who, as long as
\* users release a finished request before the pool's timeout and nobody stores a connection
\* while clearNode() runs: every owner is deleted once, and after the last request that uses
\* its connection.
THEOREM DeletionIsOrderly == ASSUME Punctual PROVE Spec => []DeletedOnceAndLast
<1>1. Init => PoolInvariant /\ OwnerInvariant
  BY InvariantInit, OwnerInit
<1>2. PoolInvariant /\ OwnerInvariant /\ [Next]_vars => (PoolInvariant /\ OwnerInvariant)'
  BY InvariantStep, OwnerStep
<1>3. PoolInvariant /\ OwnerInvariant => DeletedOnceAndLast
  BY DeletionFollows
<1> QED
  BY <1>1, <1>2, <1>3, PTL DEF Spec

(***************************************************************************)
(* Pops: what is available is idle, and found.                             *)
(***************************************************************************)
\* start() may take the connection of the entry, and the list of its vector has the entry.
Available(t) == t \in Stored /\ pool[t].canPick
Listed(t) == idle[t[1]][t[2]] > 0

AvailableIsListed ==
  /\ \A t \in Slots : Available(t) => Listed(t)
  /\ ~inited => Stored = {}

OwnersAreIdle == \A s \in Owned : ~req[Owner(s)].busy

BusyIsRunning == \A r \in Requests : req[r].busy => req[r].life = "running"

\* No pop rejects a connection for its parameters.
OneParameter == \A r, q \in Requests : ParamOf[r] = ParamOf[q]

\* The request keeps its connect_type and gets no work, and its task goes on or ends.
Lulls(r) ==
  /\ req'[r].from = req[r].from
  /\ req'[r].busy => /\ req[r].busy
                     /\ req[r].life = "running" => req'[r].life = "running"

\* A push gave the entry an owner at rest.
Fills(t) == ~req'[Owner(t)'].busy /\ ~pool'[t].canPick

\* What most steps do.
Undisturbed ==
  /\ \A r \in Requests : Lulls(r)
  /\ OwnersAreIdle'
  /\ AvailableIsListed => AvailableIsListed'

\* An entry that loses its owner, or keeps one at rest, has none that is busy.
LEMMA IdleKept ==
  ASSUME TypeOK, OwnersAreIdle, \A r \in Requests : req'[r].busy => req[r].busy,
         \A t \in Slots : Keeps(t) \/ ~req'[Owner(t)'].busy
  PROVE  OwnersAreIdle'
<1> SUFFICES ASSUME NEW s \in Owned' PROVE ~req'[Owner(s)'].busy
  BY DEF OwnersAreIdle
<1>1. s \in Slots /\ Owner(s)' # NoReq
  BY DEF Owned
<1>2. CASE Keeps(s)
  <2>1. s \in Owned /\ Owner(s)' = Owner(s)
    BY <1>1, <1>2 DEF Keeps, Owned, Owner
  <2>2. PICK o \in Requests : o = Owner(s)
    BY <2>1, OwnersTyped
  <2> QED
    BY <2>1, <2>2 DEF OwnersAreIdle
<1> QED
  BY <1>1, <1>2

LEMMA UndisturbedIs ==
  ASSUME PoolInvariant, OwnersAreIdle, \A r \in Requests : Lulls(r), idle' = idle,
         inited' = inited \/ inited',
         \A t \in Slots : \/ Keeps(t) /\ Withholds(t)
                          \/ inited' /\ Fills(t)
  PROVE  Undisturbed
<1>1. OwnersAreIdle'
  BY IdleKept DEF PoolInvariant, Lulls, Fills
<1>2. ASSUME AvailableIsListed PROVE AvailableIsListed'
  <2>1. \A t \in Slots : Available(t)' => Listed(t)'
    BY <1>2 DEF AvailableIsListed, Available, Listed, Withholds, Fills
  <2>2. ASSUME ~inited' PROVE Stored' = {}
    <3>1. Stored = {}
      BY <1>2, <2>2 DEF AvailableIsListed
    <3>2. \A t : t \in Stored' => t \in Slots
      BY StoredIs
    <3> QED
      BY <2>2, <3>1, <3>2 DEF Keeps
  <2> QED
    BY <2>1, <2>2 DEF AvailableIsListed
<1> QED
  BY <1>1, <1>2 DEF Undisturbed

LEMMA SameLulls == ASSUME NEW r, req'[r] = req[r] PROVE Lulls(r)
  BY DEF Lulls

\* One node changes.
LEMMA OneLulls ==
  ASSUME TypeOK, NEW r \in Requests, NEW v, req' = [req EXCEPT ![r] = v],
         v.from = req[r].from,
         v.busy => req[r].busy /\ (req[r].life = "running" => v.life = "running")
  PROVE  \A q \in Requests : Lulls(q)
<1>1. req'[r] = v /\ \A q \in Requests : q # r => req'[q] = req[q]
  BY DEF TypeOK
<1>2. Lulls(r)
  BY <1>1 DEF Lulls
<1> QED
  BY <1>1, <1>2, SameLulls

\* A node at rest has another life.
LEMMA LifeLulls ==
  ASSUME TypeOK, NEW r \in Requests, NEW x, req' = [req EXCEPT ![r].life = x],
         ~(req[r].busy /\ req[r].life = "running")
  PROVE  \A q \in Requests : Lulls(q)
<1> DEFINE v == [req[r] EXCEPT !.life = x]
<1>1. req[r] \in Node
  BY DEF TypeOK
<1>2. v.from = req[r].from /\ v.busy = req[r].busy
  BY <1>1, SMT DEF Node
<1>3. req' = [req EXCEPT ![r] = v]
  OBVIOUS
<1> HIDE DEF v
<1> QED
  BY <1>2, <1>3, OneLulls

LEMMA GoneLulls ==
  ASSUME TypeOK, NEW R, req' = Gone(R),
         \A q \in Requests : q \in R => ~(req[q].busy /\ req[q].life = "running")
  PROVE  \A q \in Requests : Lulls(q)
<1> TAKE q \in Requests
<1>1. req[q] \in Node
  BY DEF TypeOK
<1>2. CASE q \in R
  <2>1. req'[q] = [req[q] EXCEPT !.life = "gone"]
    BY <1>2 DEF Gone
  <2>2. req'[q].from = req[q].from /\ req'[q].busy = req[q].busy
    BY <1>1, <2>1, SMT DEF Node
  <2> QED
    BY <1>2, <2>2 DEF Lulls
<1>3. CASE q \notin R
  BY <1>3, SameLulls DEF Gone
<1> QED
  BY <1>2, <1>3

\* The end of a task: r has no work left.
LEMMA EndedLulls ==
  ASSUME TypeOK, NEW r \in Requests, NEW v, req' = [req EXCEPT ![r] = v],
         v.from = Ended(r).from, v.busy = Ended(r).busy
  PROVE  \A q \in Requests : Lulls(q)
<1>1. req[r] \in Node
  BY DEF TypeOK
<1>2. Ended(r).from = req[r].from /\ ~Ended(r).busy
  BY <1>1, EndedKeeps, EndedType
<1> QED
  BY <1>2, OneLulls

\* One entry changes in what is no concern of start().
LEMMA OneKeeps ==
  ASSUME TypeOK, NEW s \in Slots, NEW e, pool' = [pool EXCEPT ![s] = e],
         \/ e = EmptyEntry
         \/ e.status = "ToBeCreated" /\ e.request \in {pool[s].request, NoReq}
         \/ /\ e.status = pool[s].status /\ e.conn = pool[s].conn /\ e.request = pool[s].request
            /\ e.canPick => pool[s].canPick
  PROVE  \A t \in Slots : Keeps(t) /\ Withholds(t)
<1>1. pool'[s] = e /\ \A t \in Slots : t # s => pool'[t] = pool[t]
  BY DEF TypeOK
<1> QED
  BY <1>1, KeepsIs

LEMMA SameKeeps == ASSUME pool' = pool PROVE \A t \in Slots : Keeps(t) /\ Withholds(t)
  BY KeepsIs

\* A push fills one entry.
LEMMA OneFills ==
  ASSUME TypeOK, NEW s \in Slots, NEW k \in Kinds, NEW o \in Requests, NEW c \in Requests,
         pool'[s] = Store(s, k, o, c), ~req'[o].busy
  PROVE  Fills(s)
<1>1. Store(s, k, o, c).request = o /\ ~Store(s, k, o, c).canPick
  BY StoreType DEF TypeOK, ReqOrNull
<1> QED
  BY <1>1 DEF Fills, Owner

LEMMA TickIdles ==
  ASSUME PoolInvariant, OwnersAreIdle, Tick PROVE Undisturbed
<1>1. TypeOK /\ UNCHANGED <<inited, idle, req>>
  BY DEF PoolInvariant, Tick
<1>2. PICK again, token, dead : Expire(again, token, dead)
  BY Zenon DEF Tick
<1>3. pool' = [s \in Slots |->
                 IF s \in again THEN Expired(pool[s], TRUE)
                 ELSE IF s \in token \union dead THEN Expired(pool[s], FALSE)
                 ELSE pool[s]]
  BY <1>2 DEF Expire
<1>4. ASSUME NEW s \in Slots PROVE Keeps(s) /\ Withholds(s)
  <2>1. pool[s] \in Entry /\ TRUE \in BOOLEAN /\ FALSE \in BOOLEAN
    BY <1>1, Zenon DEF TypeOK
  <2>2. \/ pool'[s] = Expired(pool[s], TRUE)
        \/ pool'[s] = Expired(pool[s], FALSE)
        \/ pool'[s] = pool[s]
    BY <1>3, Zenon
  <2> QED
    BY <2>1, <2>2, ExpiredType, KeepsIs
<1> QED
  BY <1>1, <1>4, SameLulls, UndisturbedIs

LEMMA SweepIdles ==
  ASSUME PoolInvariant, OwnersAreIdle, Sweep PROVE Undisturbed
<1>1. TypeOK /\ UNCHANGED <<inited, idle, req>>
  BY DEF PoolInvariant, Sweep
<1>2. CASE UNCHANGED pool
  BY <1>1, <1>2, SameKeeps, SameLulls, UndisturbedIs
<1>3. ASSUME NEW s \in Marked,
             pool' = [pool EXCEPT ![s] = [@ EXCEPT !.shouldRelease = FALSE, !.shouldPreconnect = FALSE]]
      PROVE  Undisturbed
  <2> DEFINE e == [pool[s] EXCEPT !.shouldRelease = FALSE, !.shouldPreconnect = FALSE]
  <2>1. s \in Slots /\ pool[s] \in Entry
    BY <1>1 DEF Marked, TypeOK
  <2>2. /\ e.status = pool[s].status /\ e.conn = pool[s].conn /\ e.request = pool[s].request
        /\ e.canPick = pool[s].canPick
    BY <2>1, SMT DEF Entry
  <2>3. pool' = [pool EXCEPT ![s] = e]
    BY <1>3
  <2> HIDE DEF e
  <2>4. \A t \in Slots : Keeps(t) /\ Withholds(t)
    BY <1>1, <2>1, <2>2, <2>3, OneKeeps
  <2> QED
    BY <1>1, <2>4, SameLulls, UndisturbedIs
<1>4. UNCHANGED pool \/
      \E s \in Marked :
        pool' = [pool EXCEPT ![s] = [@ EXCEPT !.shouldRelease = FALSE, !.shouldPreconnect = FALSE]]
  BY Zenon DEF Sweep
<1> QED
  BY <1>2, <1>3, <1>4

LEMMA LinkFailsIdles ==
  ASSUME PoolInvariant, OwnersAreIdle, LinkFails PROVE Undisturbed
<1>1. TypeOK /\ UNCHANGED <<inited, idle, pool>>
  BY DEF PoolInvariant, LinkFails
<1>2. CASE UNCHANGED req
  BY <1>1, <1>2, SameKeeps, SameLulls, UndisturbedIs
<1>3. ASSUME NEW n \in Requests, req[n].life = "new", req' = [req EXCEPT ![n].life = "gone"]
      PROVE  Undisturbed
  <2>1. \A q \in Requests : Lulls(q)
    BY <1>1, <1>3, LifeLulls
  <2> QED
    BY <1>1, <2>1, SameKeeps, UndisturbedIs
<1> QED
  BY <1>2, <1>3 DEF LinkFails

LEMMA LinkIdles ==
  ASSUME PoolInvariant, OwnersAreIdle, Link PROVE Undisturbed
<1>1. TypeOK /\ inited' /\ UNCHANGED idle
  BY DEF PoolInvariant, Link
<1>2. ASSUME NEW n \in Requests, req[n].life = "new", UNCHANGED pool,
             req' = [req EXCEPT ![n] = [@ EXCEPT !.life = "orphan", !.fd = TRUE]]
      PROVE  Undisturbed
  <2> DEFINE v == [req[n] EXCEPT !.life = "orphan", !.fd = TRUE]
  <2>1. v.from = req[n].from /\ v.busy = req[n].busy
    BY <1>1, SMT DEF Node, TypeOK
  <2>2. req' = [req EXCEPT ![n] = v]
    BY <1>2
  <2> HIDE DEF v
  <2>3. \A q \in Requests : Lulls(q)
    BY <1>1, <1>2, <2>1, <2>2, OneLulls
  <2> QED
    BY <1>1, <1>2, <2>3, SameKeeps, UndisturbedIs
<1>3. ASSUME NEW n \in Requests, req[n].life = "new", NEW s \in FreeSlots(Preconnected),
             pool' = [pool EXCEPT ![s] = Store(s, Preconnected, n, n)],
             req' = [req EXCEPT ![n] = [@ EXCEPT !.life = "pooled", !.fd = TRUE, !.index = s[2]]]
      PROVE  Undisturbed
  <2> DEFINE v == [req[n] EXCEPT !.life = "pooled", !.fd = TRUE, !.index = s[2]]
  <2>1. req[n] \in Node /\ ~req[n].busy
    BY <1>1, <1>3 DEF TypeOK, PoolInvariant, UnusedIsApart
  <2>2. v.from = req[n].from /\ v.busy = req[n].busy
    BY <2>1, SMT DEF Node
  <2>3. req' = [req EXCEPT ![n] = v]
    BY <1>3
  <2> HIDE DEF v
  <2>4. \A q \in Requests : Lulls(q)
    BY <1>1, <1>3, <2>2, <2>3, OneLulls
  <2>5. s \in Slots /\ Preconnected \in Kinds
    BY FreeIs
  <2>6. /\ pool'[s] = Store(s, Preconnected, n, n)
        /\ \A t \in Slots : t # s => pool'[t] = pool[t]
    BY <1>1, <1>3, <2>5 DEF TypeOK
  <2>7. ~req'[n].busy
    BY <1>1, <2>1, <2>2, <2>3 DEF TypeOK
  <2>8. Fills(s) /\ \A t \in Slots : t # s => Keeps(t) /\ Withholds(t)
    BY <1>1, <2>5, <2>6, <2>7, OneFills, KeepsIs
  <2> QED
    BY <1>1, <2>4, <2>8, UndisturbedIs
<1> QED
  BY <1>2, <1>3 DEF Link

LEMMA SlotIs == \A s \in Slots : s[1] \in Kinds /\ s[2] \in Index /\ s = <<s[1], s[2]>>
  BY SMT

LEMMA InsertIs ==
  ASSUME NEW list \in [Index -> Nat], NEW i \in Index
  PROVE  /\ InsertInOrder(list, i)[i] > 0
         /\ \A j \in Index : j # i => InsertInOrder(list, i)[j] = list[j]
  BY SMT DEF InsertInOrder

LEMMA RemoveIs ==
  ASSUME NEW list \in [Index -> Nat], NEW i \in Index
  PROVE  \A j \in Index : j # i => Remove(list, i)[j] = list[j]
  BY DEF Remove

\* The list of one entry changes.
LEMMA OneList ==
  ASSUME TypeOK, NEW s \in Slots, NEW list, idle' = [idle EXCEPT ![s[1]] = list],
         \A j \in Index : j # s[2] => list[j] = idle[s[1]][j]
  PROVE  /\ idle'[s[1]] = list
         /\ \A t \in Slots : t # s => (Listed(t) => Listed(t)')
<1>1. s[1] \in Kinds /\ s[2] \in Index /\ s = <<s[1], s[2]>>
  BY SlotIs
<1>2. idle'[s[1]] = list /\ \A k \in Kinds : k # s[1] => idle'[k] = idle[k]
  BY <1>1 DEF TypeOK
<1>3. ASSUME NEW t \in Slots, t # s PROVE Listed(t) => Listed(t)'
  <2>1. t[1] \in Kinds /\ t[2] \in Index /\ t = <<t[1], t[2]>>
    BY SlotIs
  <2>2. CASE t[1] # s[1]
    BY <1>2, <2>1, <2>2 DEF Listed
  <2>3. CASE t[1] = s[1]
    <3>1. t[2] # s[2]
      BY <1>1, <1>3, <2>1, <2>3
    <3> QED
      BY <1>2, <2>1, <2>3, <3>1 DEF Listed
  <2> QED
    BY <2>2, <2>3
<1> QED
  BY <1>2, <1>3

LEMMA FinishPushIdles ==
  ASSUME PoolInvariant, OwnersAreIdle, NEW r \in Requests, FinishPush(r), inited' = inited,
         \A q \in Requests : Lulls(q)
  PROVE  Undisturbed
<1>1. TypeOK
  BY DEF PoolInvariant
<1>2. CASE UNCHANGED <<pool, idle>>
  BY <1>2, SameKeeps, UndisturbedIs
<1>3. ASSUME NEW s \in Stored, idle' = [idle EXCEPT ![s[1]] = InsertInOrder(@, s[2])],
             pool' = [pool EXCEPT ![s] = [@ EXCEPT !.canPick = TRUE, !.cur = NoReq, !.curInvalid = FALSE]]
      PROVE  Undisturbed
  <2> DEFINE e == [pool[s] EXCEPT !.canPick = TRUE, !.cur = NoReq, !.curInvalid = FALSE]
  <2>1. s \in Slots /\ pool[s] \in Entry
    BY <1>1, StoredIs DEF TypeOK
  <2>2. e.status = pool[s].status /\ e.conn = pool[s].conn /\ e.request = pool[s].request
    BY <2>1, SMT DEF Entry
  <2>3. pool' = [pool EXCEPT ![s] = e]
    BY <1>3
  <2> HIDE DEF e
  <2>4. pool'[s] = e /\ \A t \in Slots : t # s => pool'[t] = pool[t]
    BY <1>1, <2>1, <2>3 DEF TypeOK
  <2>5. Keeps(s)
    BY <2>2, <2>4, StoredIs DEF Keeps
  <2>6. \A t \in Slots : Keeps(t) /\ (t # s => Withholds(t))
    BY <2>4, <2>5, KeepsIs
  <2>7. OwnersAreIdle'
    BY <1>1, <2>6, IdleKept DEF Lulls
  <2> DEFINE list == InsertInOrder(idle[s[1]], s[2])
  <2>8. s[1] \in Kinds /\ s[2] \in Index /\ idle[s[1]] \in [Index -> Nat]
    BY <1>1, <2>1, SlotIs DEF TypeOK
  <2>9. list[s[2]] > 0 /\ \A j \in Index : j # s[2] => list[j] = idle[s[1]][j]
    BY <2>8, InsertIs
  <2>10. idle' = [idle EXCEPT ![s[1]] = list]
    BY <1>3
  <2> HIDE DEF list
  <2>11. idle'[s[1]] = list /\ \A t \in Slots : t # s => (Listed(t) => Listed(t)')
    BY <1>1, <2>1, <2>9, <2>10, OneList
  <2>12. ASSUME AvailableIsListed PROVE AvailableIsListed'
    <3>1. Listed(s)'
      BY <2>9, <2>11 DEF Listed
    <3>2. \A t \in Slots : Available(t)' => Listed(t)'
      BY <2>6, <2>11, <2>12, <3>1 DEF AvailableIsListed, Available, Withholds
    <3>3. inited' /\ inited
      BY <2>12 DEF AvailableIsListed
    <3> QED
      BY <3>2, <3>3 DEF AvailableIsListed
  <2> QED
    BY <2>7, <2>12 DEF Undisturbed
<1>4. UNCHANGED <<pool, idle>> \/
      \E s \in Stored :
        /\ pool' = [pool EXCEPT ![s] = [@ EXCEPT !.canPick = TRUE, !.cur = NoReq, !.curInvalid = FALSE]]
        /\ idle' = [idle EXCEPT ![s[1]] = InsertInOrder(@, s[2])]
  BY Zenon DEF FinishPush
<1> QED
  BY <1>2, <1>3, <1>4

LEMMA FinishLinkIdles ==
  ASSUME PoolInvariant, OwnersAreIdle, FinishLink PROVE Undisturbed
<1>1. linked \in Requests /\ FinishPush(linked) /\ UNCHANGED <<inited, req>>
  BY DEF PoolInvariant, LinkedIsUnused, FinishLink
<1> QED
  BY <1>1, SameLulls, FinishPushIdles

LEMMA SweepDeleteIdles ==
  ASSUME PoolInvariant, OwnersAreIdle, SweepDelete PROVE Undisturbed
<1>1. TypeOK /\ cursor \in Slots /\ UNCHANGED <<inited, idle, pool>>
  BY DEF PoolInvariant, TypeOK, SweepDelete
<1>2. CASE UNCHANGED req
  BY <1>1, <1>2, SameKeeps, SameLulls, UndisturbedIs
<1>3. CASE Owner(cursor) # NoReq /\ req' = [req EXCEPT ![Owner(cursor)].life = "gone"]
  <2>1. PICK old \in Requests : old = Owner(cursor) /\ cursor \in Owned
    BY <1>1, <1>3, OwnersTyped DEF Owned
  <2>2. ~req[old].busy /\ req' = [req EXCEPT ![old].life = "gone"]
    BY <1>3, <2>1 DEF OwnersAreIdle
  <2>3. \A q \in Requests : Lulls(q)
    BY <1>1, <2>2, LifeLulls
  <2> QED
    BY <1>1, <2>3, SameKeeps, UndisturbedIs
<1> QED
  BY <1>2, <1>3 DEF SweepDelete, Owner

LEMMA SweepClearIdles ==
  ASSUME PoolInvariant, OwnersAreIdle, SweepClear PROVE Undisturbed
<1>1. TypeOK /\ cursor \in Slots /\ UNCHANGED <<inited, idle, req>>
  BY DEF PoolInvariant, TypeOK, SweepClear
<1>2. CASE pool' = [pool EXCEPT ![cursor] = EmptyEntry]
  <2>1. \A t \in Slots : Keeps(t) /\ Withholds(t)
    BY <1>1, <1>2, OneKeeps
  <2> QED
    BY <1>1, <2>1, SameLulls, UndisturbedIs
<1>3. CASE pool' = [pool EXCEPT ![cursor] = [@ EXCEPT !.status = "ToBeCreated", !.conn = NoReq,
                                                      !.canPick = FALSE, !.request = NoReq]]
  <2> DEFINE e == [pool[cursor] EXCEPT !.status = "ToBeCreated", !.conn = NoReq,
                                       !.canPick = FALSE, !.request = NoReq]
  <2>1. pool[cursor] \in Entry
    BY <1>1 DEF TypeOK
  <2>2. e.status = "ToBeCreated" /\ e.request = NoReq
    BY <2>1, SMT DEF Entry
  <2>3. pool' = [pool EXCEPT ![cursor] = e]
    BY <1>3
  <2> HIDE DEF e
  <2>4. \A t \in Slots : Keeps(t) /\ Withholds(t)
    BY <1>1, <2>2, <2>3, OneKeeps
  <2> QED
    BY <1>1, <2>4, SameLulls, UndisturbedIs
<1> QED
  BY <1>2, <1>3 DEF SweepClear

LEMMA SweepWipeIdles ==
  ASSUME PoolInvariant, OwnersAreIdle, SweepWipe PROVE Undisturbed
<1>1. TypeOK /\ cursor \in Slots /\ UNCHANGED <<inited, idle, req>>
  BY DEF PoolInvariant, TypeOK, SweepWipe
<1> DEFINE e == [pool[cursor] EXCEPT !.isAbnormal = FALSE, !.cur = NoReq, !.curInvalid = FALSE,
                                     !.shouldRelease = FALSE, !.shouldPreconnect = FALSE]
<1>2. pool[cursor] \in Entry
  BY <1>1 DEF TypeOK
<1>3. /\ e.status = pool[cursor].status /\ e.conn = pool[cursor].conn
      /\ e.request = pool[cursor].request /\ e.canPick = pool[cursor].canPick
  BY <1>2, SMT DEF Entry
<1>4. pool' = [pool EXCEPT ![cursor] = e]
  BY DEF SweepWipe
<1> HIDE DEF e
<1>5. \A t \in Slots : Keeps(t) /\ Withholds(t)
  BY <1>1, <1>3, <1>4, OneKeeps
<1> QED
  BY <1>1, <1>5, SameLulls, UndisturbedIs

LEMMA DestroyIdles ==
  ASSUME PoolInvariant, OwnersAreIdle, Destroy PROVE Undisturbed
<1> DEFINE left == {pool[s].request : s \in Slots} \ {NoReq}
<1>1. /\ TypeOK /\ UNCHANGED <<inited, idle>>
      /\ req' = Gone(left) /\ pool' = [s \in Slots |-> EmptyEntry]
  BY DEF PoolInvariant, Destroy
<1>2. \A q \in Requests : q \in left => ~req[q].busy
  BY DEF OwnersAreIdle, Owned, Owner
<1> HIDE DEF left
<1>3. \A q \in Requests : Lulls(q)
  BY <1>1, <1>2, GoneLulls
<1>4. \A t \in Slots : Keeps(t) /\ Withholds(t)
  BY <1>1, KeepsIs
<1> QED
  BY <1>1, <1>3, <1>4, UndisturbedIs

LEMMA ReleaseDeleteIdles ==
  ASSUME PoolInvariant, OwnersAreIdle, NEW r \in Requests, ReleaseDelete(r) PROVE Undisturbed
<1>1. UNCHANGED <<inited, idle, pool, req>>
  BY DEF ReleaseDelete
<1> QED
  BY <1>1, SameKeeps, SameLulls, UndisturbedIs

\* One entry is emptied.
LEMMA EmptyIdles ==
  ASSUME PoolInvariant, OwnersAreIdle, NEW S, S \subseteq Stored, UNCHANGED <<inited, idle>>,
         UNCHANGED pool \/ \E s \in S : pool' = [pool EXCEPT ![s] = EmptyEntry],
         \A q \in Requests : Lulls(q)
  PROVE  Undisturbed
<1>1. TypeOK
  BY DEF PoolInvariant
<1>2. CASE UNCHANGED pool
  BY <1>2, SameKeeps, UndisturbedIs
<1>3. ASSUME NEW s \in S, pool' = [pool EXCEPT ![s] = EmptyEntry] PROVE Undisturbed
  <2>1. s \in Slots
    BY StoredIs
  <2>2. \A t \in Slots : Keeps(t) /\ Withholds(t)
    BY <1>1, <1>3, <2>1, OneKeeps
  <2> QED
    BY <2>2, UndisturbedIs
<1> QED
  BY <1>2, <1>3

LEMMA ReleaseFinalIdles ==
  ASSUME PoolInvariant, OwnersAreIdle, NEW r \in Requests, ReleaseFinal(r) PROVE Undisturbed
<1>1. TypeOK /\ release.by = r /\ inited' = inited
  BY DEF PoolInvariant, ReleaseFinal
<1>2. req[r].life = "releasing"
  <2>1. r # NoReq
    BY PoolAssumption
  <2> QED
    BY <1>1, <2>1 DEF PoolInvariant, OneAtATime
<1> DEFINE left == IF release.inPool THEN "pooled" ELSE "gone"
           hits == {s \in Stored : pool[s].conn = req[r].ssl}
           own == {s \in Stored : pool[s].request = r}
<1>3. CASE UNCHANGED idle /\ DeleteBySSL(hits, r)
  <2>1. CASE req' = [req EXCEPT ![r].life = left] /\ UNCHANGED pool
    <3>1. \A q \in Requests : Lulls(q)
      BY <1>1, <1>2, <2>1, LifeLulls
    <3> QED
      BY <1>1, <1>3, <2>1, <3>1, SameKeeps, UndisturbedIs
  <2>2. ASSUME NEW s \in hits, pool' = [pool EXCEPT ![s] = EmptyEntry], req' = Gone({r, pool[s].request})
        PROVE  Undisturbed
    <3>1. ~req[pool[s].request].busy
      BY DEF PoolInvariant, OwnerHasConn
    <3>2. \A q \in Requests : Lulls(q)
      BY <1>1, <1>2, <2>2, <3>1, GoneLulls
    <3> QED
      BY <1>1, <1>3, <2>2, <3>2, EmptyIdles
  <2> QED
    BY <1>3, <2>1, <2>2, Zenon DEF DeleteBySSL
<1>4. CASE FinishPush(r) /\ req' = [req EXCEPT ![r].life = left]
  <2>1. \A q \in Requests : Lulls(q)
    BY <1>1, <1>2, <1>4, LifeLulls
  <2> QED
    BY <1>1, <1>4, <2>1, FinishPushIdles
<1>5. CASE UNCHANGED idle /\ DeleteByRequest(r) /\ req' = [req EXCEPT ![r].life = "gone"]
  <2>1. \A q \in Requests : Lulls(q)
    BY <1>1, <1>2, <1>5, LifeLulls
  <2>2. UNCHANGED pool \/ \E s \in own : pool' = [pool EXCEPT ![s] = EmptyEntry]
    BY <1>5, Zenon DEF DeleteByRequest
  <2> QED
    BY <1>1, <1>5, <2>1, <2>2, EmptyIdles
<1> QED
  BY <1>3, <1>4, <1>5, Zenon DEF ReleaseFinal

LEMMA FailTaskIdles ==
  ASSUME PoolInvariant, OwnersAreIdle, NEW r \in Requests, FailTask(r) PROVE Undisturbed
<1>1. TypeOK /\ Holder(r) /\ inited' = inited /\ req[r] \in Node
  BY WorkingIs DEF PoolInvariant, TypeOK, FailTask
<1> DEFINE v == [Ended(r) EXCEPT !.fd = (req[r].ssl # r)]
<1>2. Ended(r) \in Node
  BY <1>1, EndedType
<1>3. v.from = Ended(r).from /\ v.busy = Ended(r).busy
  BY <1>2, SMT DEF Node
<1>4. req' = [req EXCEPT ![r] = v]
  BY DEF FailTask
<1> HIDE DEF v
<1>5. \A q \in Requests : Lulls(q)
  BY <1>1, <1>3, <1>4, EndedLulls
<1>6. CASE UNCHANGED <<pool, idle>>
  BY <1>1, <1>5, <1>6, SameKeeps, UndisturbedIs
<1>7. ASSUME NEW s \in Stored, SameConn(s, r), pool' = [pool EXCEPT ![s].isAbnormal = TRUE],
             idle' = [idle EXCEPT ![s[1]] = Remove(@, s[2])]
      PROVE  Undisturbed
  <2> DEFINE e == [pool[s] EXCEPT !.isAbnormal = TRUE]
  <2>1. s \in Slots /\ pool[s] \in Entry
    BY <1>1, StoredIs DEF TypeOK
  <2>2. /\ e.status = pool[s].status /\ e.conn = pool[s].conn /\ e.request = pool[s].request
        /\ e.canPick = pool[s].canPick
    BY <2>1, SMT DEF Entry
  <2>3. pool' = [pool EXCEPT ![s] = e]
    BY <1>7
  <2> HIDE DEF e
  <2>4. \A t \in Slots : Keeps(t) /\ Withholds(t)
    BY <1>1, <2>1, <2>2, <2>3, OneKeeps
  <2>5. OwnersAreIdle'
    BY <1>1, <1>5, <2>4, IdleKept DEF Lulls
  <2> DEFINE list == Remove(idle[s[1]], s[2])
  <2>6. s[1] \in Kinds /\ s[2] \in Index /\ idle[s[1]] \in [Index -> Nat]
    BY <1>1, <2>1, SlotIs DEF TypeOK
  <2>7. \A j \in Index : j # s[2] => list[j] = idle[s[1]][j]
    BY <2>6, RemoveIs
  <2>8. idle' = [idle EXCEPT ![s[1]] = list]
    BY <1>7
  <2> HIDE DEF list
  <2>9. idle'[s[1]] = list /\ \A t \in Slots : t # s => (Listed(t) => Listed(t)')
    BY <1>1, <2>1, <2>7, <2>8, OneList
  \* curRequestIsAbnormal takes out of the list what no pop may take
  <2>10. ~pool[s].canPick
    BY <1>1, <1>7 DEF PoolInvariant, AvailableIsFree, SameConn
  <2>11. ASSUME AvailableIsListed PROVE AvailableIsListed'
    <3>1. \A t \in Slots : Available(t)' => Listed(t)'
      BY <2>4, <2>9, <2>10, <2>11 DEF AvailableIsListed, Available, Withholds
    <3>2. inited' /\ inited
      BY <1>1, <2>11 DEF AvailableIsListed
    <3> QED
      BY <3>1, <3>2 DEF AvailableIsListed
  <2> QED
    BY <1>5, <2>5, <2>11 DEF Undisturbed
<1>8. UNCHANGED <<pool, idle>> \/
      \E s \in Stored : /\ SameConn(s, r) /\ pool' = [pool EXCEPT ![s].isAbnormal = TRUE]
                        /\ idle' = [idle EXCEPT ![s[1]] = Remove(@, s[2])]
  BY Zenon DEF FailTask
<1> QED
  BY <1>6, <1>7, <1>8

LEMMA PushPrestartedIdles ==
  ASSUME PoolInvariant, OwnersAreIdle, NEW r \in Requests, PushPrestarted(r), inited', UNCHANGED idle
  PROVE  Undisturbed
<1> DEFINE own == <<Prestarted, req[r].index>>
<1>1. TypeOK /\ req[r] \in Node
  BY DEF PoolInvariant, TypeOK
<1>2. CASE /\ StillThere(own, r) /\ req' = [req EXCEPT ![r] = Ended(r)]
           /\ pool' = [pool EXCEPT ![own] = [@ EXCEPT !.canPick = FALSE, !.curInvalid = TRUE]]
  <2>1. PICK o \in Slots : o = own
    BY <1>2, StoredIs DEF StillThere
  <2> DEFINE e == [pool[o] EXCEPT !.canPick = FALSE, !.curInvalid = TRUE]
  <2>2. pool[o] \in Entry
    BY <1>1, <2>1 DEF TypeOK
  <2>3. e.status = pool[o].status /\ e.conn = pool[o].conn /\ e.request = pool[o].request /\ ~e.canPick
    BY <2>2, SMT DEF Entry
  <2>4. pool' = [pool EXCEPT ![o] = e]
    BY <1>2, <2>1
  <2> HIDE DEF e
  <2>5. \A t \in Slots : Keeps(t) /\ Withholds(t)
    BY <1>1, <2>1, <2>3, <2>4, OneKeeps
  <2>6. \A q \in Requests : Lulls(q)
    BY <1>1, <1>2, EndedLulls
  <2> QED
    BY <2>5, <2>6, UndisturbedIs
<1>3. CASE req' = [req EXCEPT ![r] = Ended(r)] /\ UNCHANGED pool
  <2>1. \A q \in Requests : Lulls(q)
    BY <1>1, <1>3, EndedLulls
  <2> QED
    BY <1>3, <2>1, SameKeeps, UndisturbedIs
<1>4. ASSUME NEW s \in FreeSlots(Prestarted),
             pool' = [pool EXCEPT ![s] = Store(s, Prestarted, r, req[r].ssl)],
             req' = [req EXCEPT ![r] = [Ended(r) EXCEPT !.index = s[2]]]
      PROVE  Undisturbed
  <2> DEFINE v == [Ended(r) EXCEPT !.index = s[2]]
  <2>1. Ended(r) \in Node /\ ~Ended(r).busy
    BY <1>1, EndedType
  <2>2. v.from = Ended(r).from /\ v.busy = Ended(r).busy
    BY <2>1, SMT DEF Node
  <2>3. req' = [req EXCEPT ![r] = v]
    BY <1>4
  <2> HIDE DEF v
  <2>4. \A q \in Requests : Lulls(q)
    BY <1>1, <2>2, <2>3, EndedLulls
  <2>5. s \in Slots /\ Prestarted \in Kinds /\ req[r].ssl \in Requests /\ ~req'[r].busy
    BY <1>1, <2>1, <2>2, <2>3, FreeIs DEF TypeOK, Node
  <2>6. /\ pool'[s] = Store(s, Prestarted, r, req[r].ssl)
        /\ \A t \in Slots : t # s => pool'[t] = pool[t]
    BY <1>1, <1>4, <2>5 DEF TypeOK
  <2>7. Fills(s) /\ \A t \in Slots : t # s => Keeps(t) /\ Withholds(t)
    <3>1. PICK c \in Requests : c = req[r].ssl
      BY <2>5
    <3> QED
      BY <1>1, <2>5, <2>6, <3>1, OneFills, KeepsIs
  <2> QED
    BY <2>4, <2>7, UndisturbedIs
<1> QED
  BY <1>2, <1>3, <1>4 DEF PushPrestarted

LEMMA PushFromPreconnectedIdles ==
  ASSUME PoolInvariant, OwnersAreIdle, NEW r \in Requests, Working(r), PushFromPreconnected(r),
         UNCHANGED <<inited, idle>>
  PROVE  Undisturbed
<1>1. TypeOK /\ req[r] \in Node
  BY DEF PoolInvariant, TypeOK
<1>2. CASE UNCHANGED pool /\ req' = [req EXCEPT ![r] = Ended(r)]
  <2>1. \A q \in Requests : Lulls(q)
    BY <1>1, <1>2, EndedLulls
  <2> QED
    BY <1>2, <2>1, SameKeeps, UndisturbedIs
<1>3. ASSUME StillThere(<<Preconnected, req[r].index>>, r) PROVE Undisturbed
  <2>1. PICK own \in Slots : own = <<Preconnected, req[r].index>> /\ own \in Stored
    BY <1>3, StoredIs DEF StillThere
  <2>2. CASE req' = [req EXCEPT ![r] = Ended(r)] /\ pool' = [pool EXCEPT ![own] = EmptyEntry]
    <3>1. \A q \in Requests : Lulls(q)
      BY <1>1, <2>2, EndedLulls
    <3>2. \A t \in Slots : Keeps(t) /\ Withholds(t)
      BY <1>1, <2>2, OneKeeps
    <3> QED
      BY <3>1, <3>2, UndisturbedIs
  <2>3. PICK o \in Requests : o = pool[own].request /\ ~req[o].busy
    BY <2>1 DEF PoolInvariant, OwnerHasConn
  <2>4. ASSUME NEW s \in FreeSlots(Prestarted),
               pool' = [pool EXCEPT ![s] = Store(s, Prestarted, o, req[r].ssl), ![own] = EmptyEntry],
               req' = [req EXCEPT ![r] = Ended(r), ![o].index = s[2]]
        PROVE  Undisturbed
    <3>1. s \in Slots /\ s # own /\ Prestarted \in Kinds
      BY <2>1, FreeIs
    <3>2. PICK c \in Requests : c = req[r].ssl
      BY <1>1 DEF Node
    <3>3. /\ pool'[s] = Store(s, Prestarted, o, c) /\ pool'[own] = EmptyEntry
          /\ \A t \in Slots : t # s /\ t # own => pool'[t] = pool[t]
      BY <1>1, <2>4, <3>1, <3>2 DEF TypeOK
    <3>4. r # o /\ req[r].busy
      BY <2>3 DEF Working
    <3> DEFINE v == [req[o] EXCEPT !.index = s[2]]
    <3>5. v.from = req[o].from /\ v.busy = req[o].busy
      <4>1. req[o] \in Node
        BY <1>1 DEF TypeOK
      <4> QED
        BY <4>1, SMT DEF Node
    <3>6. req' = [req EXCEPT ![r] = Ended(r), ![o] = v]
      BY <1>1, <2>4, <3>4 DEF TypeOK
    <3> HIDE DEF v
    <3>7. /\ req'[r] = Ended(r) /\ req'[o] = v
          /\ \A q \in Requests : q # r /\ q # o => req'[q] = req[q]
      BY <1>1, <3>4, <3>6 DEF TypeOK
    <3>8. Ended(r).from = req[r].from /\ ~Ended(r).busy
      BY <1>1, EndedKeeps, EndedType
    <3>9. Lulls(r) /\ Lulls(o) /\ ~req'[o].busy
      BY <2>3, <3>5, <3>7, <3>8 DEF Lulls
    <3>10. \A q \in Requests : Lulls(q)
      BY <3>7, <3>9, SameLulls
    <3>11. Fills(s)
      BY <1>1, <3>1, <3>3, <3>9, OneFills
    <3>12. \A t \in Slots : t # s => Keeps(t) /\ Withholds(t)
      BY <3>3, KeepsIs
    <3>13. ASSUME ~inited, AvailableIsListed PROVE FALSE
      BY <2>1, <3>13 DEF AvailableIsListed
    <3>14. CASE inited
      BY <3>10, <3>11, <3>12, <3>14, UndisturbedIs
    <3>15. CASE ~inited
      <4>1. OwnersAreIdle'
        BY <1>1, <3>10, <3>11, <3>12, IdleKept DEF Lulls, Fills
      <4> QED
        BY <3>10, <3>13, <3>15, <4>1 DEF Undisturbed
    <3> QED
      BY <3>14, <3>15
  <2> QED
    BY <1>3, <2>1, <2>2, <2>3, <2>4, Zenon DEF PushFromPreconnected
<1> QED
  BY <1>2, <1>3 DEF PushFromPreconnected

LEMMA CompleteTaskIdles ==
  ASSUME PoolInvariant, OwnersAreIdle, NEW r \in Requests, CompleteTask(r) PROVE Undisturbed
<1>1. CASE PushPrestarted(r) /\ inited' = TRUE
  BY <1>1, PushPrestartedIdles DEF CompleteTask
<1>2. CASE PushFromPreconnected(r) /\ UNCHANGED inited
  BY <1>2, PushFromPreconnectedIdles DEF CompleteTask
<1> QED
  BY <1>1, <1>2 DEF CompleteTask

(***************************************************************************)
(* start().                                                                *)
(***************************************************************************)
\* The connect_type and the life of a node change, and its work if no entry has it.
LEMMA StartIdles ==
  ASSUME PoolInvariant, OwnersAreIdle, NEW r \in Requests, NEW v, req' = [req EXCEPT ![r] = v],
         v.busy => v.life = "running", \A t \in Slots : Owner(t) # r,
         \A t \in Slots : Owner(t)' = Owner(t)
  PROVE  OwnersAreIdle' /\ (BusyIsRunning => BusyIsRunning')
<1>1. req'[r] = v /\ \A q \in Requests : q # r => req'[q] = req[q]
  BY DEF PoolInvariant, TypeOK
<1>2. ASSUME NEW s \in Owned' PROVE ~req'[Owner(s)'].busy
  <2>1. s \in Slots /\ s \in Owned /\ Owner(s)' = Owner(s)
    BY DEF Owned
  <2>2. Owner(s) \in Requests /\ Owner(s) # r
    BY <2>1, OwnersTyped DEF PoolInvariant
  <2> QED
    BY <1>1, <2>1, <2>2 DEF OwnersAreIdle
<1>3. ASSUME BusyIsRunning PROVE BusyIsRunning'
  BY <1>1, <1>3 DEF BusyIsRunning
<1> QED
  BY <1>2, <1>3 DEF OwnersAreIdle

LEMMA BeginStartIdles ==
  ASSUME PoolInvariant, OwnersAreIdle, NEW r \in Requests, BeginStart(r)
  PROVE  /\ OwnersAreIdle' /\ (BusyIsRunning => BusyIsRunning')
         /\ UNCHANGED <<inited, pool, idle>> /\ starter = NoReq
<1>1. TypeOK /\ req[r] \in Node /\ req[r].life = "new" /\ UNCHANGED <<inited, pool, idle>> /\ starter = NoReq
  BY DEF PoolInvariant, TypeOK, BeginStart
<1>2. ~req[r].busy /\ \A t \in Slots : Owner(t) # r
  BY <1>1 DEF PoolInvariant, UnusedIsApart, Owner
<1> DEFINE v == [req[r] EXCEPT !.life = "starting", !.from = Prestarted, !.held = TRUE]
<1>3. v.busy = req[r].busy
  BY <1>1, SMT DEF Node
<1>4. req' = [req EXCEPT ![r] = v]
  BY DEF BeginStart
<1> HIDE DEF v
<1>5. \A t \in Slots : Owner(t)' = Owner(t)
  BY <1>1 DEF Owner
<1> QED
  BY <1>1, <1>2, <1>3, <1>4, <1>5, StartIdles

LEMMA BeginReleaseIdles ==
  ASSUME PoolInvariant, OwnersAreIdle, NEW r \in Requests, BeginRelease(r)
  PROVE  /\ OwnersAreIdle' /\ (~CancelRelease /\ BusyIsRunning => BusyIsRunning')
         /\ UNCHANGED <<inited, pool, idle>> /\ \A q \in Requests : req'[q].from = req[q].from
<1>1. /\ TypeOK /\ req[r] \in Node /\ UNCHANGED <<inited, pool, idle>>
      /\ req[r].life = "finished" \/ CancelRelease
  BY DEF PoolInvariant, TypeOK, BeginRelease
<1> DEFINE v == [req[r] EXCEPT !.life = "releasing", !.held = FALSE]
<1>2. v.busy = req[r].busy /\ v.from = req[r].from
  BY <1>1, SMT DEF Node
<1>3. req' = [req EXCEPT ![r] = v]
  BY DEF BeginRelease
<1> HIDE DEF v
<1>4. req'[r] = v /\ \A q \in Requests : q # r => req'[q] = req[q]
  BY <1>1, <1>3 DEF TypeOK
<1>5. \A q \in Requests : req'[q].from = req[q].from /\ (req'[q].busy => req[q].busy)
  BY <1>2, <1>4
<1>6. OwnersAreIdle'
  BY <1>1, <1>5, SameKeeps, IdleKept
<1>7. ASSUME ~CancelRelease, BusyIsRunning PROVE BusyIsRunning'
  <2>1. ~req[r].busy
    BY <1>1, <1>7 DEF BusyIsRunning
  <2> QED
    BY <1>2, <1>4, <1>7, <2>1 DEF BusyIsRunning
<1> QED
  BY <1>1, <1>5, <1>6, <1>7

\* What a pop does to the node and to the owners of entries.
LEMMA PopIdles ==
  ASSUME PoolInvariant, OwnersAreIdle, NEW r \in Requests, PopPrestarted(r) \/ PopPreconnected(r)
  PROVE  OwnersAreIdle' /\ (BusyIsRunning => BusyIsRunning')
<1>1. TypeOK /\ req[r] \in Node /\ req[r].life = "starting"
  BY PoolAssumption DEF PoolInvariant, TypeOK, OneAtATime, PopPrestarted, PopPreconnected
<1>2. ~req[r].busy /\ \A t \in Slots : Owner(t) # r
  BY <1>1 DEF PoolInvariant, UnusedIsApart, Owner
<1>3. ASSUME NEW k \in Kinds, NEW s \in Slots, Borrow(k, r, s)
      PROVE  OwnersAreIdle' /\ (BusyIsRunning => BusyIsRunning')
  <2> DEFINE v == [req[r] EXCEPT !.life = "running", !.from = k, !.ssl = pool[s].conn,
                                 !.fd = TRUE, !.index = s[2], !.busy = TRUE]
             e == [pool[s] EXCEPT !.canPick = FALSE, !.cur = r, !.curInvalid = FALSE]
  <2>1. v.life = "running"
    BY <1>1, SMT DEF Node
  <2>2. e.request = pool[s].request
    <3>1. pool[s] \in Entry
      BY <1>1 DEF TypeOK
    <3> QED
      BY <3>1, SMT DEF Entry
  <2>3. req' = [req EXCEPT ![r] = v] /\ pool' = [pool EXCEPT ![s] = e]
    BY <1>3 DEF Borrow
  <2> HIDE DEF v, e
  <2>4. \A t \in Slots : Owner(t)' = Owner(t)
    BY <1>1, <2>2, <2>3 DEF TypeOK, Owner
  <2> QED
    BY <1>2, <2>1, <2>3, <2>4, StartIdles
<1>4. CASE UNCHANGED pool /\ req' = [req EXCEPT ![r].from = Preconnected]
  <2> DEFINE v == [req[r] EXCEPT !.from = Preconnected]
  <2>1. v.busy = req[r].busy
    BY <1>1, SMT DEF Node
  <2>2. req' = [req EXCEPT ![r] = v]
    BY <1>4
  <2> HIDE DEF v
  <2>3. \A t \in Slots : Owner(t)' = Owner(t)
    BY <1>4 DEF Owner
  <2> QED
    BY <1>2, <2>1, <2>2, <2>3, StartIdles
<1>5. CASE UNCHANGED pool /\ req' = [req EXCEPT ![r] = [@ EXCEPT !.life = "running", !.from = "direct",
                                                                 !.fd = TRUE, !.busy = TRUE]]
  <2> DEFINE v == [req[r] EXCEPT !.life = "running", !.from = "direct", !.fd = TRUE, !.busy = TRUE]
  <2>1. v.life = "running"
    BY <1>1, SMT DEF Node
  <2>2. req' = [req EXCEPT ![r] = v]
    BY <1>5
  <2> HIDE DEF v
  <2>3. \A t \in Slots : Owner(t)' = Owner(t)
    BY <1>5 DEF Owner
  <2> QED
    BY <1>2, <2>1, <2>2, <2>3, StartIdles
<1> QED
  BY <1>3, <1>4, <1>5 DEF PopPrestarted, PopPreconnected, NotBorrowed

\* An available connection is a candidate.
LEMMA AvailableIsFound ==
  ASSUME PoolInvariant, AvailableIsListed, ~Asr, OneParameter, NEW r \in Requests,
         NEW k \in Kinds, NEW t \in Slots, t[1] = k, Available(t)
  PROVE  t \in Candidates(k, r)
<1>1. t \in ActiveSlots(k) /\ pool[t].canPick /\ pool[t].request \in Requests
  BY StoredIs DEF Available, ActiveSlots, PoolInvariant, OwnerHasConn
<1>2. ParamOf[pool[t].request] = ParamOf[r]
  BY <1>1 DEF OneParameter
<1>3. ASSUME NEW i \in Index, Leads(idle[k], i) PROVE t[2] >= i
  <2>1. t[2] \in Index /\ i \in Int /\ t[2] \in Int
    BY SlotIs, PoolAssumption
  <2>2. idle[k][t[2]] > 0
    BY DEF AvailableIsListed, Listed
  <2>3. ~(t[2] < i)
    BY <1>3, <2>1, <2>2 DEF Leads
  <2> QED
    BY <2>1, <2>3
<1>4. ListOf(k) = k
  BY DEF ListOf
<1> QED
  BY <1>1, <1>2, <1>3, <1>4 DEF Candidates

\* Whoever gives up looks in a vector that has nothing for it.
LEMMA NotBorrowedFinds ==
  ASSUME PoolInvariant, AvailableIsListed, ~Asr, OneParameter, NEW r \in Requests,
         NEW k \in Kinds, NotBorrowed(k, r)
  PROVE  AvailableIsListed' /\ \A s \in ActiveSlots(k) : ~pool[s].canPick
<1>1. pool' = pool /\ inited' /\ TypeOK
  BY DEF NotBorrowed, PoolInvariant
<1>2. ASSUME NEW s \in ActiveSlots(k), pool[s].canPick PROVE FALSE
  <2>1. s \in Slots /\ s[1] = k /\ s \in Stored /\ Available(s)
    BY <1>2, StoredIs DEF ActiveSlots, Available
  <2>2. inited /\ NonEmpty(k)
    BY <1>2, <2>1 DEF AvailableIsListed, NonEmpty
  <2>3. Candidates(k, r) = {}
    BY <2>2 DEF NotBorrowed
  <2> QED
    BY <2>1, <2>3, AvailableIsFound
<1>3. ASSUME NEW t \in Slots, Available(t)' PROVE Listed(t)'
  <2>1. Available(t) /\ Listed(t) /\ t[1] \in Kinds
    BY <1>1, <1>3, SlotIs DEF AvailableIsListed, Available, Stored, ActiveSlots
  <2>2. t[1] # k
    BY <1>2, <2>1, StoredIs DEF Available, ActiveSlots
  <2>3. idle'[t[1]] = idle[t[1]]
    <3>1. ListOf(k) = k
      BY DEF ListOf
    <3>2. idle' \in {idle, [idle EXCEPT ![k] = PopFront(@)]}
      BY <3>1 DEF NotBorrowed
    <3> QED
      BY <1>1, <2>1, <2>2, <3>2 DEF TypeOK
  <2> QED
    BY <2>1, <2>3 DEF Listed
<1> QED
  BY <1>1, <1>2, <1>3 DEF AvailableIsListed

LEMMA BorrowListed ==
  ASSUME PoolInvariant, AvailableIsListed, ~Asr, OneParameter, NEW r \in Requests,
         NEW k \in Kinds, NEW s \in Slots, Borrow(k, r, s)
  PROVE  AvailableIsListed'
<1>1. /\ TypeOK /\ s \in Candidates(k, r) /\ First(s, Candidates(k, r)) /\ inited' = inited
      /\ ListOf(k) = k /\ idle' = [idle EXCEPT ![k] = Remove(PopFront(@), s[2])]
  BY DEF PoolInvariant, Borrow, ListOf
<1>2. /\ s[1] = k /\ s \in Stored /\ s[2] \in Index /\ pool[s] \in Entry
      /\ \A i \in Index : Leads(idle[k], i) => s[2] >= i
  BY <1>1, StoredIs, SlotIs DEF Candidates, ActiveSlots, TypeOK
<1> DEFINE e == [pool[s] EXCEPT !.canPick = FALSE, !.cur = r, !.curInvalid = FALSE]
<1>3. ~e.canPick
  BY <1>2, SMT DEF Entry
<1>4. pool' = [pool EXCEPT ![s] = e]
  BY DEF Borrow
<1> HIDE DEF e
<1>5. pool'[s] = e /\ \A t \in Slots : t # s => pool'[t] = pool[t]
  BY <1>1, <1>4 DEF TypeOK
<1>6. ASSUME NEW t \in Slots, Available(t)' PROVE Listed(t)'
  <2>1. t # s
    BY <1>3, <1>5, <1>6 DEF Available
  <2>2. Available(t) /\ Listed(t) /\ t[1] \in Kinds /\ t[2] \in Index
    BY <1>5, <1>6, <2>1, StoredIs, SlotIs DEF Available, AvailableIsListed
  <2>3. CASE t[1] # k
    <3>1. idle'[t[1]] = idle[t[1]]
      BY <1>1, <2>2, <2>3 DEF TypeOK
    <3> QED
      BY <2>2, <3>1 DEF Listed
  <2>4. CASE t[1] = k
    <3>1. t \in Candidates(k, r)
      BY <2>2, <2>4, AvailableIsFound
    <3>2. s[2] <= t[2] /\ s[2] # t[2]
      <4>1. t = <<k, t[2]>> /\ s = <<k, s[2]>>
        BY <1>2, <2>4, SlotIs
      <4>2. s[2] <= t[2]
        BY <1>1, <1>2, <2>4, <3>1 DEF First
      <4> QED
        BY <2>1, <4>1, <4>2
    <3>3. s[2] \in Int /\ t[2] \in Int
      BY <1>2, <2>2, PoolAssumption
    <3>4. ~Leads(idle[k], t[2])
      BY <1>2, <2>2, <3>2, <3>3
    <3>5. PopFront(idle[k])[t[2]] = idle[k][t[2]]
      BY <2>2, <3>4 DEF PopFront
    <3>6. idle'[k] = Remove(PopFront(idle[k]), s[2])
      BY <1>1 DEF TypeOK
    <3>7. PopFront(idle[k]) \in [Index -> Nat]
      BY <1>1, ListTypes, PoolAssumption DEF TypeOK
    <3>8. idle'[k][t[2]] = idle[k][t[2]]
      BY <1>2, <2>2, <3>2, <3>5, <3>6, <3>7, RemoveIs
    <3> QED
      BY <2>2, <2>4, <3>8 DEF Listed
  <2> QED
    BY <2>3, <2>4
<1>7. inited' /\ inited
  BY <1>1, <1>2 DEF AvailableIsListed
<1> QED
  BY <1>6, <1>7 DEF AvailableIsListed

(***************************************************************************)
(* Every step, and what follows.                                           *)
(***************************************************************************)
LEMMA StepIdles ==
  ASSUME PoolInvariant, OwnersAreIdle, [Next]_vars
  PROVE  \/ Undisturbed
         \/ \E r \in Requests : \/ BeginStart(r) \/ BeginRelease(r)
                                \/ PopPrestarted(r) \/ PopPreconnected(r)
<1>1. CASE UNCHANGED vars
  <2>1. UNCHANGED <<inited, idle, pool, req>>
    BY <1>1 DEF vars
  <2> QED
    BY <2>1, SameKeeps, SameLulls, UndisturbedIs
<1>2. CASE PoolThread
  BY <1>2, TickIdles, SweepIdles, LinkFailsIdles, LinkIdles, FinishLinkIdles, SweepDeleteIdles,
     SweepClearIdles, SweepWipeIdles, DestroyIdles DEF PoolThread
<1>3. ASSUME NEW r \in Requests, User(r) \/ Worker(r)
      PROVE  \/ Undisturbed
             \/ BeginStart(r) \/ BeginRelease(r) \/ PopPrestarted(r) \/ PopPreconnected(r)
  BY <1>3, ReleaseDeleteIdles, ReleaseFinalIdles, CompleteTaskIdles, FailTaskIdles DEF User, Worker
<1> QED
  BY <1>1, <1>2, <1>3 DEF Next

LEMMA IdleStep ==
  ASSUME PoolInvariant, OwnersAreIdle, [Next]_vars
  PROVE  OwnersAreIdle' /\ (~CancelRelease /\ BusyIsRunning => BusyIsRunning')
<1>1. CASE Undisturbed
  BY <1>1 DEF Undisturbed, BusyIsRunning, Lulls
<1>2. ASSUME NEW r \in Requests,
             BeginStart(r) \/ BeginRelease(r) \/ PopPrestarted(r) \/ PopPreconnected(r)
      PROVE  OwnersAreIdle' /\ (~CancelRelease /\ BusyIsRunning => BusyIsRunning')
  BY <1>2, BeginStartIdles, BeginReleaseIdles, PopIdles
<1> QED
  BY <1>1, <1>2, StepIdles

\* What PopFindsIdle says of a step.
PopFinds ==
  \A r \in Requests : \A k \in Kinds :
    /\ starter = r /\ req[r].from = k /\ req'[r].from # k
    => \A s \in ActiveSlots(k) :
         ~(pool[s].canPick /\ ParamOf[pool[s].request] = ParamOf[r])

\* A pop borrows, or gives up on a vector that has nothing.
LEMMA PopListed ==
  ASSUME PoolInvariant, AvailableIsListed, ~Asr, OneParameter, NEW r \in Requests,
         PopPrestarted(r) \/ PopPreconnected(r)
  PROVE  AvailableIsListed' /\ PopFinds
<1>1. starter = r /\ req \in [Requests -> Node]
  BY DEF PopPrestarted, PopPreconnected, PoolInvariant, TypeOK
<1>2. PICK k \in Kinds : /\ req[r].from = k
                         /\ (\E s \in Slots : Borrow(k, r, s)) \/ NotBorrowed(k, r)
  BY DEF PopPrestarted, PopPreconnected
<1>3. ASSUME NEW s \in Slots, Borrow(k, r, s) PROVE AvailableIsListed' /\ PopFinds
  <2> DEFINE v == [req[r] EXCEPT !.life = "running", !.from = k, !.ssl = pool[s].conn,
                                 !.fd = TRUE, !.index = s[2], !.busy = TRUE]
  <2>1. v.from = k
    <3>1. req[r] \in Node
      BY <1>1
    <3> QED
      BY <3>1, SMT DEF Node
  <2>2. req' = [req EXCEPT ![r] = v]
    BY <1>3 DEF Borrow
  <2> HIDE DEF v
  <2>3. req'[r].from = k
    BY <1>1, <2>1, <2>2
  <2> QED
    BY <1>1, <1>2, <1>3, <2>3, BorrowListed DEF PopFinds
<1>4. CASE NotBorrowed(k, r)
  BY <1>1, <1>2, <1>4, NotBorrowedFinds DEF PopFinds
<1> QED
  BY <1>2, <1>3, <1>4

LEMMA ListStep ==
  ASSUME PoolInvariant, OwnersAreIdle, AvailableIsListed, ~Asr, OneParameter, [Next]_vars
  PROVE  AvailableIsListed' /\ PopFinds
<1>1. CASE Undisturbed
  BY <1>1 DEF Undisturbed, Lulls, PopFinds
<1>2. ASSUME UNCHANGED <<inited, pool, idle>> PROVE AvailableIsListed'
  BY <1>2 DEF AvailableIsListed, Available, Listed, Stored, ActiveSlots
<1>3. ASSUME NEW r \in Requests, BeginStart(r) PROVE AvailableIsListed' /\ PopFinds
  <2>1. starter = NoReq /\ UNCHANGED <<inited, pool, idle>>
    BY <1>3, BeginStartIdles
  <2> QED
    BY <1>2, <2>1, PoolAssumption DEF PopFinds
<1>4. ASSUME NEW r \in Requests, BeginRelease(r) PROVE AvailableIsListed' /\ PopFinds
  BY <1>2, <1>4, BeginReleaseIdles DEF PopFinds
<1>5. ASSUME NEW r \in Requests, PopPrestarted(r) \/ PopPreconnected(r)
      PROVE  AvailableIsListed' /\ PopFinds
  BY <1>5, PopListed
<1> QED
  BY <1>1, <1>3, <1>4, <1>5, StepIdles

LEMMA IdleInit == Init => OwnersAreIdle /\ BusyIsRunning /\ AvailableIsListed
<1> SUFFICES ASSUME Init PROVE OwnersAreIdle /\ BusyIsRunning /\ AvailableIsListed
  OBVIOUS
<1>1. EmptyEntry.request = NoReq /\ EmptyEntry.status = "ToBeCreated"
  BY SMT DEF EmptyEntry
<1>2. \A s \in Slots : pool[s] = EmptyEntry
  BY Zenon DEF Init
<1>3. Owned = {} /\ Stored = {}
  BY <1>1, <1>2, StoredIs, ClearedIs DEF Owned, Owner
<1>4. ASSUME NEW r \in Requests PROVE ~req[r].busy
  <2>1. req[r] = [life |-> "new", ssl |-> r, fd |-> FALSE, from |-> "direct",
                  index |-> -1, busy |-> FALSE, held |-> FALSE]
    BY Zenon DEF Init
  <2> QED
    BY <2>1
<1> QED
  BY <1>3, <1>4 DEF OwnersAreIdle, BusyIsRunning, AvailableIsListed, Available

\* If users release a request only when its task has ended, an entry offered to start() is
\* used by nobody and no server still works on it (finishPushPreNode, and the comment "SSL is
\* idle" at the two pops).
THEOREM PickableIsIdleHolds == ASSUME ~CancelRelease PROVE Spec => []PickableIsIdle
<1>1. Init => PoolInvariant /\ OwnersAreIdle /\ BusyIsRunning
  BY InvariantInit, IdleInit
<1>2. /\ PoolInvariant /\ OwnersAreIdle /\ BusyIsRunning
      /\ [Next]_vars
      => (PoolInvariant /\ OwnersAreIdle /\ BusyIsRunning)'
  BY InvariantStep, IdleStep
<1>3. PoolInvariant /\ OwnersAreIdle /\ BusyIsRunning => PickableIsIdle
  <2> SUFFICES ASSUME PoolInvariant, BusyIsRunning, NEW s \in Stored, pool[s].canPick,
                      NEW r \in Requests, req[r].ssl = pool[s].conn
               PROVE  ~Holder(r) /\ ~req[r].busy
    BY DEF PickableIsIdle
  <2>1. ~Holder(r)
    BY DEF PoolInvariant, AvailableIsFree
  <2> QED
    BY <2>1 DEF BusyIsRunning, Holder
<1> QED
  BY <1>1, <1>2, <1>3, PTL DEF Spec

\* start() gives up on a vector only if it offers no connection, as long as both pops use the
\* index list of their own vector and no connection is rejected for its parameters
\* (popPrestartedNode, popPreconnectedNode): nothing that is available is ever missing from
\* the list whose head the scan begins at.
THEOREM PopsFind == ASSUME ~Asr, OneParameter PROVE Spec => PopFindsIdle
<1> DEFINE Inv == PoolInvariant /\ OwnersAreIdle /\ AvailableIsListed
<1>1. Init => Inv
  BY InvariantInit, IdleInit
<1>2. Inv /\ [Next]_vars => Inv' /\ PopFinds
  BY InvariantStep, IdleStep, ListStep
<1>3. Spec => [][PopFinds]_vars
  <2> HIDE DEF Inv
  <2> QED
    BY <1>1, <1>2, PTL DEF Spec
<1> QED
  BY <1>3, PTL DEF PopFindsIdle, PopFinds
=============================================================================
