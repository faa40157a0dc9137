--------------------------- MODULE Lifecycle_proofs ---------------------------
(***************************************************************************)
(* Proofs about Lifecycle, for any requests, nodes and clients: nobody     *)
(* follows a pointer to what was deleted, a released request is gone when  *)
(* the call returns, and the system uses the registry as module Registry   *)
(* promises, so that what is shown of that first holds here.               *)
(*                                                                         *)
(* There is no lock between a callback and a release. What keeps them      *)
(* apart is that at any time one thing is under way for a node: an event   *)
(* that is pending, the resolver thread, or a callback that has not yet    *)
(* set up what comes next. The Close callback is made by the last of them, *)
(* and a release that begins after it finds nothing but that callback, for *)
(* which it waits. This is so of requests whose connection goes down with  *)
(* Close, and of waits that do not wake early (troubles = {}): a long      *)
(* connection keeps its read event after Close.                            *)
(***************************************************************************)
EXTENDS Lifecycle, SequenceTheorems, TLAPS

(***************************************************************************)
(* The registry alone. What is registered is never a dangling pointer as   *)
(* long as an object leaves the registry before it is deleted; that needs  *)
(* more than the two maps: no two allocated requests share a node, and a   *)
(* node that belongs to an allocated request holds an object.              *)
(***************************************************************************)
regvars == <<registry, memory>>

\* An allocated request has a node of its own, and an object is in it.
Owned ==
  /\ \A r \in Requests : Allocated(r) => nodes[requests[r]].uuid > 0
  /\ \A r, q \in Requests : Allocated(r) /\ requests[q] = requests[r] => q = r

\* The uuids in memory were drawn, each once.
Drawn ==
  /\ \A n \in Nodes : nodes[n].uuid <= made
  /\ \A n, m \in Nodes : nodes[n].uuid > 0 /\ nodes[m].uuid = nodes[n].uuid => m = n

\* What the maps and the memory keep whatever their callers do, and what they keep
\* because an object leaves the registry before it is deleted.
Consistent == RegistryTypeOK /\ MapsAgree /\ Owned /\ Drawn

RInv == Consistent /\ RegisteredIsAlive

\* What Restrict of the community modules does.
LEMMA RestrictIs ==
  ASSUME NEW f, NEW S
  PROVE  /\ DOMAIN Restrict(f, S) = S
         /\ \A x \in S : Restrict(f, S)[x] = f[x]
BY DEF Restrict

LEMMA InitHolds == RegistryInit => RInv
<1> SUFFICES ASSUME RegistryInit PROVE RInv
  OBVIOUS
<1>1. /\ DOMAIN infoByRequest = {} /\ DOMAIN requestListByNode = {}
      /\ \A r \in Requests : requests[r] = NoNode
      /\ \A n \in Nodes : nodes[n] = Nothing
      /\ made = 0
  BY DEF RegistryInit
<1>2. Nothing \in Objects /\ Nothing.uuid = 0
  BY RegistryAssumption DEF Nothing, Objects
<1>3. RegistryTypeOK
  BY <1>1, <1>2, RegistryAssumption DEF RegistryTypeOK, RegistryInit
<1>4. MapsAgree /\ RegisteredIsAlive
  BY <1>1 DEF MapsAgree, RegisteredIsAlive
<1>5. Owned
  <2>1. \A r \in Requests : ~Allocated(r)
    BY <1>1 DEF Allocated
  <2> QED
    BY <2>1 DEF Owned
<1>6. Drawn
  <2>1. \A n \in Nodes : nodes[n].uuid = 0
    BY <1>1, <1>2
  <2> QED
    BY <2>1, <1>1 DEF Drawn
<1> QED
  BY <1>3, <1>4, <1>5, <1>6 DEF RInv, Consistent

\* A request that leaves takes exactly its node with it.
LEMMA LeaveKeeps ==
  ASSUME Consistent, NEW r \in Requests, Leave(r)
  PROVE  Consistent' /\ (RegisteredIsAlive => RegisteredIsAlive')
<1> USE DEF Leave, Consistent, memory
<1> DEFINE D == DOMAIN infoByRequest \ {r}
           E == DOMAIN requestListByNode \ {infoByRequest[r].node}
<1>1. /\ Registered(r)
      /\ infoByRequest' = Restrict(infoByRequest, D)
      /\ requestListByNode' = Restrict(requestListByNode, E)
      /\ requests' = requests /\ nodes' = nodes /\ made' = made
  BY DEF Remove
<1>2. /\ DOMAIN infoByRequest' = D /\ DOMAIN requestListByNode' = E
      /\ \A q \in D : infoByRequest'[q] = infoByRequest[q]
      /\ \A n \in E : requestListByNode'[n] = requestListByNode[n]
  BY <1>1, RestrictIs
<1> HIDE DEF D, E
<1>3. RegistryTypeOK'
  BY <1>1, <1>2 DEF RegistryTypeOK, D, E
<1>4. MapsAgree'
  <2>1. ASSUME NEW q \in D
        PROVE  infoByRequest[q].node \in E /\ requestListByNode[infoByRequest[q].node] = q
    BY <1>1 DEF MapsAgree, D, E, Registered
  <2>2. ASSUME NEW n \in E
        PROVE  requestListByNode[n] \in D /\ infoByRequest[requestListByNode[n]].node = n
    BY <1>1 DEF MapsAgree, D, E, Registered
  <2> QED
    BY <1>2, <2>1, <2>2 DEF MapsAgree, Registered
<1>5. RegisteredIsAlive => RegisteredIsAlive'
  BY <1>1, <1>2 DEF RegisteredIsAlive, Allocated, D
<1>6. Owned' /\ Drawn'
  BY <1>1 DEF Owned, Drawn, Allocated
<1> QED
  BY <1>3, <1>4, <1>5, <1>6

\* A request that enters was allocated and has a node that knows it. It may be
\* registered already: then with the same node.
LEMMA EnterKeeps ==
  ASSUME RInv, NEW r \in Requests, NEW i \in Instances, Enter(r, i)
  PROVE  RInv'
<1> USE DEF Enter, RInv, Consistent, memory
<1> DEFINE entry == [node |-> requests[r], instance |-> i,
                     uuid |-> nodes[requests[r]].uuid, status |-> "Created"]
           D == DOMAIN infoByRequest \union {r}
           E == DOMAIN requestListByNode \union {requests[r]}
<1>1. /\ Allocated(r) /\ nodes[requests[r]].request = r
      /\ infoByRequest' = [q \in D |-> IF q = r THEN entry ELSE infoByRequest[q]]
      /\ requestListByNode' = [n \in E |-> IF n = requests[r] THEN r ELSE requestListByNode[n]]
      /\ requests' = requests /\ nodes' = nodes /\ made' = made
  BY DEF Add
<1>2. /\ requests[r] \in Nodes /\ nodes[requests[r]].uuid \in 1..MaxMade
  BY <1>1, RegistryAssumption DEF RegistryTypeOK, Owned, Allocated, Objects
<1>3. /\ entry \in NodeInfo
      /\ entry.node = requests[r] /\ entry.uuid = nodes[requests[r]].uuid
  BY <1>2 DEF NodeInfo, NodeStatuses
<1> HIDE DEF entry
<1>4. /\ DOMAIN infoByRequest' = D /\ DOMAIN requestListByNode' = E
      /\ infoByRequest'[r] = entry
      /\ \A q \in D : q # r => infoByRequest'[q] = infoByRequest[q]
      /\ requestListByNode'[requests[r]] = r
      /\ \A n \in E : n # requests[r] => requestListByNode'[n] = requestListByNode[n]
  BY <1>1
<1> HIDE DEF D, E
<1>5. D \subseteq Requests /\ E \subseteq Nodes
  BY <1>2 DEF RegistryTypeOK, D, E
<1>6. ASSUME NEW q \in D, q # r
      PROVE  /\ q \in DOMAIN infoByRequest /\ q \in Requests
             /\ infoByRequest[q].node = requests[q] /\ requests[q] # requests[r]
  BY <1>6, <1>5, <1>1 DEF D, RegisteredIsAlive, Owned
<1>7. RegistryTypeOK'
  <2>1. \A q \in D : infoByRequest'[q] \in NodeInfo
    BY <1>3, <1>4, <1>6 DEF RegistryTypeOK
  <2>2. \A n \in E : requestListByNode'[n] \in Requests
    BY <1>4 DEF RegistryTypeOK, E
  <2> QED
    BY <1>1, <1>4, <1>5, <2>1, <2>2 DEF RegistryTypeOK
<1>8. MapsAgree'
  <2>1. ASSUME NEW q \in D
        PROVE  /\ infoByRequest'[q].node \in E
               /\ requestListByNode'[infoByRequest'[q].node] = q
    <3>1. CASE q = r
      BY <3>1, <1>3, <1>4 DEF E
    <3>2. CASE q # r
      BY <3>2, <1>4, <1>6 DEF E, MapsAgree
    <3> QED
      BY <3>1, <3>2
  <2>2. ASSUME NEW n \in E
        PROVE  /\ requestListByNode'[n] \in D
               /\ infoByRequest'[requestListByNode'[n]].node = n
    <3>1. CASE n = requests[r]
      BY <3>1, <1>3, <1>4 DEF D
    <3>2. CASE n # requests[r]
      <4>1. n \in DOMAIN requestListByNode /\ requestListByNode'[n] = requestListByNode[n]
        BY <3>2, <1>4 DEF E
      <4>2. /\ requestListByNode[n] \in DOMAIN infoByRequest
            /\ infoByRequest[requestListByNode[n]].node = n
        BY <4>1 DEF MapsAgree, Registered
      <4>3. requestListByNode[n] # r
        BY <4>2, <3>2 DEF RegisteredIsAlive
      <4> QED
        BY <4>1, <4>2, <4>3, <1>4 DEF D
    <3> QED
      BY <3>1, <3>2
  <2> QED
    BY <1>4, <2>1, <2>2 DEF MapsAgree, Registered
<1>9. RegisteredIsAlive'
  <2>1. ASSUME NEW q \in D
        PROVE  /\ Allocated(q) /\ requests[q] = infoByRequest'[q].node
               /\ nodes[requests[q]].uuid = infoByRequest'[q].uuid
               /\ nodes[requests[q]].request = q
    <3>1. CASE q = r
      BY <3>1, <1>1, <1>3, <1>4
    <3>2. CASE q # r
      BY <3>2, <1>4, <1>6 DEF RegisteredIsAlive
    <3> QED
      BY <3>1, <3>2
  <2> QED
    BY <1>1, <1>4, <2>1 DEF RegisteredIsAlive, Allocated
<1>10. Owned' /\ Drawn'
  BY <1>1 DEF Owned, Drawn, Allocated
<1> QED
  BY <1>7, <1>8, <1>9, <1>10

\* The status of a node says nothing about memory.
LEMMA SetStatusKeeps ==
  ASSUME Consistent, NEW n \in Nodes, NEW s \in NodeStatuses, SetStatus(n, s)
  PROVE  Consistent' /\ (RegisteredIsAlive => RegisteredIsAlive')
<1> USE DEF SetStatus, Consistent, memory
<1> DEFINE r == nodes[n].request
           old == infoByRequest[r]
           new == [old EXCEPT !.status = s]
<1>1. /\ r \in DOMAIN infoByRequest
      /\ infoByRequest' = [infoByRequest EXCEPT ![r] = new]
      /\ requestListByNode' = requestListByNode
      /\ requests' = requests /\ nodes' = nodes /\ made' = made
  BY DEF Update, NodeExists, Registered
<1>2. old \in NodeInfo
  BY <1>1 DEF RegistryTypeOK
<1>3. new \in NodeInfo
  BY <1>2, Zenon DEF NodeInfo
<1>4. new.node = old.node /\ new.uuid = old.uuid
  BY <1>2 DEF NodeInfo
<1> HIDE DEF r, old, new
<1>5. DOMAIN infoByRequest' = DOMAIN infoByRequest
  BY <1>1
<1>6. ASSUME NEW q \in DOMAIN infoByRequest
      PROVE  /\ infoByRequest'[q] \in NodeInfo
             /\ infoByRequest'[q].node = infoByRequest[q].node
             /\ infoByRequest'[q].uuid = infoByRequest[q].uuid
  <2>1. CASE q = r
    <3>1. infoByRequest'[q] = new /\ infoByRequest[q] = old
      BY <1>1, <2>1 DEF old
    <3> QED
      BY <3>1, <1>3, <1>4
  <2>2. CASE q # r
    <3>1. infoByRequest'[q] = infoByRequest[q]
      BY <1>1, <2>2
    <3> QED
      BY <3>1 DEF RegistryTypeOK
  <2> QED
    BY <2>1, <2>2
<1>7. RegistryTypeOK'
  <2>1. \A q \in DOMAIN infoByRequest' : infoByRequest'[q] \in NodeInfo
    BY <1>5, <1>6
  <2> QED
    BY <1>1, <1>5, <2>1, Zenon DEF RegistryTypeOK
<1>8. MapsAgree'
  <2>1. \A q \in DOMAIN infoByRequest : infoByRequest'[q].node = infoByRequest[q].node
    BY <1>6
  <2>2. /\ requestListByNode' = requestListByNode
        /\ DOMAIN infoByRequest' = DOMAIN infoByRequest
    BY <1>1, <1>5
  <2> QED
    BY <2>1, <2>2 DEF MapsAgree, Registered
<1>9. RegisteredIsAlive => RegisteredIsAlive'
  <2>1. /\ requests' = requests /\ nodes' = nodes
    BY <1>1
  <2> QED
    BY <2>1, <1>5, <1>6 DEF RegisteredIsAlive, Allocated
<1>10. Owned' /\ Drawn'
  BY <1>1 DEF Owned, Drawn, Allocated
<1> QED
  BY <1>7, <1>8, <1>9, <1>10

\* new returns an address that is free, and a new uuid.
LEMMA NewKeeps ==
  ASSUME Consistent, NEW r \in Requests, NEW n \in Nodes, New(r, n)
  PROVE  Consistent' /\ (RegisteredIsAlive => RegisteredIsAlive')
<1> USE DEF New, Consistent, registry
<1> DEFINE obj == [uuid |-> made + 1, request |-> r]
<1>1. /\ ~Allocated(r) /\ nodes[n] = Nothing /\ made < MaxMade
      /\ requests' = [requests EXCEPT ![r] = n]
      /\ nodes' = [nodes EXCEPT ![n] = obj]
      /\ made' = made + 1
      /\ infoByRequest' = infoByRequest /\ requestListByNode' = requestListByNode
  BY DEF Allocate
<1>2. obj \in Objects /\ obj.uuid = made + 1 /\ obj.request = r /\ nodes[n].uuid = 0
  BY <1>1, RegistryAssumption DEF RegistryTypeOK, Objects, Nothing
<1> HIDE DEF obj
<1>3. /\ requests'[r] = n
      /\ \A q \in Requests : q # r => requests'[q] = requests[q]
      /\ nodes'[n] = obj
      /\ \A m \in Nodes : m # n => nodes'[m] = nodes[m]
      /\ made \in Nat
  BY <1>1 DEF RegistryTypeOK
<1>4. ASSUME NEW q \in Requests, Allocated(q)
      PROVE  /\ q # r /\ requests[q] # n /\ requests[q] \in Nodes
             /\ requests'[q] = requests[q] /\ nodes'[requests[q]] = nodes[requests[q]]
  <2>1. q # r
    BY <1>4, <1>1
  <2>2. requests[q] \in Nodes
    BY <1>4 DEF RegistryTypeOK, Allocated
  <2>3. requests[q] # n
    BY <1>4, <1>2 DEF Owned
  <2> QED
    BY <2>1, <2>2, <2>3, <1>3
<1>5. RegistryTypeOK'
  <2>1. requests' \in [Requests -> Nodes \union {NoNode}]
    BY <1>1 DEF RegistryTypeOK
  <2>2. nodes' \in [Nodes -> Objects]
    BY <1>1, <1>2 DEF RegistryTypeOK
  <2>3. made' \in 0..MaxMade
    BY <1>1, RegistryAssumption DEF RegistryTypeOK
  <2> QED
    BY <1>1, <2>1, <2>2, <2>3, Zenon DEF RegistryTypeOK
<1>6. MapsAgree'
  BY <1>1 DEF MapsAgree, Registered
<1>7. ASSUME RegisteredIsAlive PROVE RegisteredIsAlive'
  <2>1. ASSUME NEW q \in DOMAIN infoByRequest
        PROVE  /\ Allocated(q)'
               /\ requests'[q] = infoByRequest[q].node
               /\ nodes'[requests'[q]].uuid = infoByRequest[q].uuid
               /\ nodes'[requests'[q]].request = q
    <3>1. q \in Requests /\ Allocated(q)
      BY <1>7 DEF RegistryTypeOK, RegisteredIsAlive
    <3> QED
      BY <1>7, <3>1, <1>4 DEF RegisteredIsAlive, Allocated
  <2> QED
    BY <2>1, <1>1 DEF RegisteredIsAlive
<1>8. Owned'
  <2>1. ASSUME NEW q \in Requests, Allocated(q)'
        PROVE  nodes'[requests'[q]].uuid > 0
    <3>1. CASE q = r
      BY <3>1, <1>2, <1>3
    <3>2. CASE q # r
      BY <2>1, <3>2, <1>3, <1>4 DEF Allocated, Owned
    <3> QED
      BY <3>1, <3>2
  <2>2. ASSUME NEW p \in Requests, NEW q \in Requests, Allocated(p)', requests'[q] = requests'[p]
        PROVE  q = p
    <3>1. CASE p = r /\ q # r
      <4>1. requests[q] = n
        BY <2>2, <3>1, <1>3
      <4>2. Allocated(q)
        BY <4>1, RegistryAssumption DEF Allocated
      <4> QED
        BY <4>1, <4>2, <1>4
    <3>2. CASE p # r /\ q = r
      <4>1. requests[p] = n
        BY <2>2, <3>2, <1>3
      <4>2. Allocated(p)
        BY <4>1, RegistryAssumption DEF Allocated
      <4> QED
        BY <4>1, <4>2, <1>4
    <3>3. CASE p # r /\ q # r
      BY <2>2, <3>3, <1>3 DEF Owned, Allocated
    <3> QED
      BY <3>1, <3>2, <3>3
  <2> QED
    BY <2>1, <2>2 DEF Owned
<1>9. Drawn'
  <2>1. \A m \in Nodes : nodes[m].uuid \in Nat /\ nodes[m].uuid <= made
    BY DEF RegistryTypeOK, Objects, Drawn
  <2>2. \A m \in Nodes : nodes'[m].uuid <= made'
    BY <2>1, <1>1, <1>2, <1>3
  <2>3. ASSUME NEW m \in Nodes, NEW k \in Nodes, nodes'[m].uuid > 0,
               nodes'[k].uuid = nodes'[m].uuid
        PROVE  k = m
    <3>1. CASE m = n /\ k # n
      BY <2>1, <2>3, <3>1, <1>2, <1>3
    <3>2. CASE m # n /\ k = n
      BY <2>1, <2>3, <3>2, <1>2, <1>3
    <3>3. CASE m # n /\ k # n
      BY <2>3, <3>3, <1>3 DEF Drawn
    <3> QED
      BY <3>1, <3>2, <3>3
  <2> QED
    BY <2>2, <2>3 DEF Drawn
<1> QED
  BY <1>5, <1>6, <1>7, <1>8, <1>9

\* When a request is deleted after it left, the registered ones have other nodes.
LEMMA FreeKeeps ==
  ASSUME Consistent, NEW r \in Requests, Free(r), UNCHANGED registry
  PROVE  Consistent' /\ (RegisteredIsAlive /\ ~Registered(r) => RegisteredIsAlive')
<1> USE DEF Consistent, registry
<1> DEFINE n == requests[r]
<1>1. /\ Allocated(r)
      /\ nodes' = [nodes EXCEPT ![n] = Nothing]
      /\ requests' = [requests EXCEPT ![r] = NoNode]
      /\ made' = made
      /\ infoByRequest' = infoByRequest /\ requestListByNode' = requestListByNode
  BY DEF Free
<1>2. n \in Nodes
  BY <1>1 DEF RegistryTypeOK, Allocated
<1>3. Nothing \in Objects /\ Nothing.uuid = 0
  BY RegistryAssumption DEF Nothing, Objects
<1> HIDE DEF n
<1>4. /\ requests'[r] = NoNode
      /\ \A q \in Requests : q # r => requests'[q] = requests[q]
      /\ nodes'[n] = Nothing
      /\ \A m \in Nodes : m # n => nodes'[m] = nodes[m]
  BY <1>1, <1>2 DEF RegistryTypeOK
<1>5. ASSUME NEW q \in Requests, Allocated(q), q # r
      PROVE  /\ requests'[q] = requests[q] /\ requests[q] \in Nodes
             /\ nodes'[requests[q]] = nodes[requests[q]]
  <2>1. requests[q] \in Nodes /\ requests[q] # n
    BY <1>5, <1>1 DEF RegistryTypeOK, Allocated, Owned, n
  <2> QED
    BY <2>1, <1>4, <1>5
<1>6. RegistryTypeOK'
  <2>1. requests' \in [Requests -> Nodes \union {NoNode}]
    BY <1>1 DEF RegistryTypeOK
  <2>2. nodes' \in [Nodes -> Objects]
    BY <1>1, <1>3 DEF RegistryTypeOK
  <2> QED
    BY <1>1, <2>1, <2>2, Zenon DEF RegistryTypeOK
<1>7. MapsAgree'
  BY <1>1 DEF MapsAgree, Registered
<1>8. ASSUME RegisteredIsAlive, ~Registered(r) PROVE RegisteredIsAlive'
  <2>1. ASSUME NEW q \in DOMAIN infoByRequest
        PROVE  /\ Allocated(q)'
               /\ requests'[q] = infoByRequest[q].node
               /\ nodes'[requests'[q]].uuid = infoByRequest[q].uuid
               /\ nodes'[requests'[q]].request = q
    <3>1. q \in Requests /\ Allocated(q) /\ q # r
      BY <1>1, <1>8 DEF RegistryTypeOK, RegisteredIsAlive, Registered
    <3> QED
      BY <1>8, <3>1, <1>5 DEF RegisteredIsAlive, Allocated
  <2> QED
    BY <2>1, <1>1 DEF RegisteredIsAlive
<1>9. Owned'
  <2>1. ASSUME NEW q \in Requests, Allocated(q)'
        PROVE  q # r /\ Allocated(q) /\ requests'[q] = requests[q]
    BY <2>1, <1>4 DEF Allocated
  <2>2. ASSUME NEW q \in Requests, Allocated(q)'
        PROVE  nodes'[requests'[q]].uuid > 0
    BY <2>1, <2>2, <1>5 DEF Owned
  <2>3. ASSUME NEW p \in Requests, NEW q \in Requests, Allocated(p)', requests'[q] = requests'[p]
        PROVE  q = p
    <3>1. Allocated(q)'
      BY <2>3 DEF Allocated
    <3> QED
      BY <3>1, <2>1, <2>3 DEF Owned
  <2> QED
    BY <2>2, <2>3 DEF Owned
<1>10. Drawn'
  <2>1. \A m \in Nodes : nodes'[m].uuid > 0 => m # n /\ nodes'[m] = nodes[m]
    BY <1>3, <1>4
  <2>2. \A m \in Nodes : nodes'[m].uuid <= made
    <3> TAKE m \in Nodes
    <3>1. CASE m = n
      BY <3>1, <1>3, <1>4, RegistryAssumption DEF RegistryTypeOK
    <3>2. CASE m # n
      BY <3>2, <1>4 DEF Drawn
    <3> QED
      BY <3>1, <3>2
  <2> QED
    BY <2>1, <2>2, <1>1 DEF Drawn
<1> QED
  BY <1>6, <1>7, <1>8, <1>9, <1>10

\* A node forgets a request that is not registered.
LEMMA ForgetKeeps ==
  ASSUME Consistent, NEW n \in Nodes, Forget(n), UNCHANGED registry
  PROVE  Consistent' /\ (RegisteredIsAlive /\ ~Registered(nodes[n].request) => RegisteredIsAlive')
<1> USE DEF Consistent, registry
<1> DEFINE new == [nodes[n] EXCEPT !.request = NoNode]
<1>1. /\ nodes' = [nodes EXCEPT ![n] = new]
      /\ requests' = requests /\ made' = made
      /\ infoByRequest' = infoByRequest /\ requestListByNode' = requestListByNode
  BY DEF Forget
<1>2. nodes[n] \in Objects
  BY DEF RegistryTypeOK
<1>3. new \in Objects
  BY <1>2, Zenon DEF Objects
<1>4. new.uuid = nodes[n].uuid
  BY <1>2 DEF Objects
<1> HIDE DEF new
<1>5. nodes'[n] = new /\ \A m \in Nodes : m # n => nodes'[m] = nodes[m]
  BY <1>1 DEF RegistryTypeOK
<1>6. \A m \in Nodes : nodes'[m].uuid = nodes[m].uuid
  BY <1>4, <1>5
<1>7. RegistryTypeOK'
  <2>1. nodes' \in [Nodes -> Objects]
    BY <1>1, <1>3 DEF RegistryTypeOK
  <2> QED
    BY <1>1, <2>1, Zenon DEF RegistryTypeOK
<1>8. MapsAgree'
  BY <1>1 DEF MapsAgree, Registered
<1>9. ASSUME RegisteredIsAlive, ~Registered(nodes[n].request) PROVE RegisteredIsAlive'
  <2>1. ASSUME NEW q \in DOMAIN infoByRequest
        PROVE  requests[q] \in Nodes /\ requests[q] # n
    <3>1. q \in Requests /\ requests[q] # NoNode /\ nodes[requests[q]].request = q
      BY <1>9 DEF RegistryTypeOK, RegisteredIsAlive, Allocated
    <3> QED
      BY <1>9, <3>1, <1>1 DEF RegistryTypeOK, Registered
  <2> QED
    BY <1>9, <2>1, <1>1, <1>5 DEF RegisteredIsAlive, Allocated
<1>10. Owned'
  <2>1. \A r \in Requests : Allocated(r) => requests[r] \in Nodes
    BY DEF RegistryTypeOK, Allocated
  <2> QED
    BY <2>1, <1>1, <1>6 DEF Owned, Allocated
<1>11. Drawn'
  BY <1>1, <1>6 DEF Drawn
<1> QED
  BY <1>7, <1>8, <1>9, <1>10, <1>11

LEMMA StutterKeeps ==
  ASSUME RInv, UNCHANGED regvars
  PROVE  RInv'
BY DEF RInv, Consistent, regvars, registry, memory, RegistryTypeOK, MapsAgree, RegisteredIsAlive, Owned,
       Drawn, Registered, Allocated

LEMMA StepKeeps == RInv /\ [RegistryNext]_<<registry, memory>> => RInv'
<1> SUFFICES ASSUME RInv, [RegistryNext]_<<registry, memory>> PROVE RInv'
  OBVIOUS
<1>1. ASSUME NEW r \in Requests, NEW n \in Nodes, New(r, n) PROVE RInv'
  BY <1>1, NewKeeps DEF RInv
<1>2. ASSUME NEW r \in Requests, NEW i \in Instances, Enter(r, i) PROVE RInv'
  BY <1>2, EnterKeeps
<1>3. ASSUME NEW r \in Requests, Leave(r) PROVE RInv'
  BY <1>3, LeaveKeeps DEF RInv
<1>4. ASSUME NEW r \in Requests, Delete(r) PROVE RInv'
  BY <1>4, FreeKeeps DEF RInv, Delete
<1>5. ASSUME NEW n \in Nodes, NEW s \in NodeStatuses, SetStatus(n, s) PROVE RInv'
  BY <1>5, SetStatusKeeps DEF RInv
<1>6. ASSUME NEW n \in Nodes, Orphan(n) PROVE RInv'
  BY <1>6, ForgetKeeps DEF RInv, Orphan
<1>7. CASE UNCHANGED <<registry, memory>>
  BY <1>7, StutterKeeps DEF regvars
<1> QED
  BY <1>1, <1>2, <1>3, <1>4, <1>5, <1>6, <1>7 DEF RegistryNext

THEOREM RInvAlways == RegistrySpec => []RInv
BY InitHolds, StepKeeps, PTL DEF RegistrySpec

\* nodeManager.cpp updates its two maps apart; they stay inverse of each other
\* for any number of requests, nodes and clients.
THEOREM MapsAgreeAlways == RegistrySpec => []MapsAgree
<1>1. RInv => MapsAgree
  BY DEF RInv, Consistent
<1> QED
  BY RInvAlways, <1>1, PTL

\* As long as an object leaves the registry before it is deleted, checkNodeExist
\* and checkRequestExist never let a caller follow a dangling pointer.
THEOREM RegisteredIsAliveAlways == RegistrySpec => []RegisteredIsAlive
<1>1. RInv => RegisteredIsAlive
  BY DEF RInv
<1> QED
  BY RInvAlways, <1>1, PTL

\* The uuid tells an object from every other one, also at a reused address: what
\* checkNodeExist and checkRequestExist rely on.
THEOREM OneObjectAlways == RegistrySpec => []OneObject
<1>1. RInv => OneObject
  <2> SUFFICES ASSUME RInv PROVE OneObject
    OBVIOUS
  <2>1. \A r \in Requests : Allocated(r) => requests[r] \in Nodes
    BY DEF RInv, Consistent, RegistryTypeOK, Allocated
  <2> QED
    BY <2>1 DEF RInv, Consistent, Owned, Drawn, OneObject
<1> QED
  BY RInvAlways, <1>1, PTL

(***************************************************************************)
(* What is left of the functions a thread is in.                           *)
(***************************************************************************)
\* The user: a create, a release, a release of the client; with the steps of a
\* release that deletes by force, which only an orderly system does without.
UserProgram(k) ==
  CASE k = 0 -> <<>>
    [] k = 1 -> <<"enter">>
    [] k = 2 -> <<"guard", "exist">>
    [] k = 3 -> <<"exist">>
    [] k = 4 -> <<"invoking", "resolver", "callback", "delevents", "callback", "destroyed",
                  "remove", "unguard">>
    [] k = 5 -> <<"resolver", "callback", "delevents", "callback", "destroyed", "remove",
                  "unguard">>
    [] k = 6 -> <<"callback", "delevents", "callback", "destroyed", "remove", "unguard">>
    [] k = 7 -> <<"delevents", "callback", "destroyed", "remove", "unguard">>
    [] k = 8 -> <<"callback", "destroyed", "remove", "unguard">>
    [] k = 9 -> <<"destroyed", "remove", "unguard">>
    [] k = 10 -> <<"remove", "unguard">>
    [] k = 11 -> <<"callback", "close", "unlist", "free", "unguard">>
    [] k = 12 -> <<"close", "unlist", "free", "unguard">>
    [] k = 13 -> <<"unlist", "free", "unguard">>
    [] k = 14 -> <<"free", "unguard">>
    [] k = 15 -> <<"unguard">>
    [] k = 16 -> <<"sweep">>
    [] k = 17 -> <<"break">>
    [] k = 18 -> <<"join">>
    [] k = 19 -> <<"force">>
    [] k = 20 -> <<"remove", "force">>
    [] k = 21 -> <<"callback", "close", "unlist", "free", "force">>
    [] k = 22 -> <<"close", "unlist", "free", "force">>
    [] k = 23 -> <<"unlist", "free", "force">>
    [] k = 24 -> <<"free", "force">>

\* The event thread in an orderly system: the callback of an event.
EventProgram(k) ==
  CASE k = 0 -> <<>>
    [] k = 1 -> <<"check", "enter", "launch", "leave">>
    [] k = 2 -> <<"enter", "launch", "leave">>
    [] k = 3 -> <<"launch", "leave">>
    [] k = 4 -> <<"enter", "connect", "leave">>
    [] k = 5 -> <<"connect", "leave">>
    [] k = 6 -> <<"check", "enter", "read", "leave">>
    [] k = 7 -> <<"enter", "read", "leave">>
    [] k = 8 -> <<"read", "leave">>
    [] k = 9 -> <<"check", "check", "enter", "resolved", "check", "leave">>
    [] k = 10 -> <<"check", "enter", "resolved", "check", "leave">>
    [] k = 11 -> <<"enter", "resolved", "check", "leave">>
    [] k = 12 -> <<"resolved", "check", "leave">>
    [] k = 13 -> <<"dial", "leave">>
    [] k = 14 -> <<"dial", "check", "leave">>
    [] k = 15 -> <<"destroy", "leave">>
    [] k = 16 -> <<"destroy", "check", "leave">>
    [] k = 17 -> <<"shut", "leave">>
    [] k = 18 -> <<"check", "leave">>
    [] k = 19 -> <<"leave">>

\* It works for the node, and nothing else does; it reads what the node received; it
\* is on its way out; it has set _inEventCallbackNode.
Working(k) == k \in 1..5 \/ k \in 9..16
Reading(k) == k \in 6..8 \/ k = 17
Ending(k) == k \in 15..19
Inside(k) == k \in {3, 5, 8} \/ k \in 12..19

Steps == {"enter", "guard", "exist", "invoking", "resolver", "callback", "delevents",
          "destroyed", "remove", "unguard", "close", "unlist", "free", "sweep", "break",
          "join", "force", "check", "launch", "leave", "connect", "read", "resolved", "dial",
          "destroy", "shut", "forget"}

(***************************************************************************)
(* Nodes.                                                                  *)
(***************************************************************************)
\* A callback, and the resolver thread, are at the node.
Busy(n) == ~Idle("event") /\ Node("event") = n
Resolving(n) == ~Idle("dns") /\ Node("dns") = n

\* The resolver thread of the node will still send an answer.
Answering(n) == cell[n].dns /\ ~(Resolving(n) /\ todo["dns"] = <<"over">>)

Untouched(n) == /\ ~cell[n].launch /\ ~cell[n].connect /\ ~cell[n].reader
                /\ ~cell[n].resolved /\ ~cell[n].dns
                /\ ~Busy(n) /\ ~Resolving(n)

\* A node that was not started is left alone; one whose launch is pending, too.
Fresh(n) ==
  /\ cell[n].status = "Created" => Untouched(n)
  /\ cell[n].launch => /\ cell[n].status = "Invoking" /\ nodes[n].request # NoNode
                       /\ ~cell[n].connect /\ ~cell[n].reader /\ ~cell[n].resolved
                       /\ ~cell[n].dns /\ ~Busy(n) /\ ~Resolving(n)

\* One thing at a time is under way for a node.
Exclusive(n, k) ==
  /\ cell[n].connect => ~cell[n].reader /\ ~cell[n].resolved /\ ~Answering(n)
  /\ cell[n].reader => ~cell[n].resolved /\ ~Answering(n)
  /\ cell[n].resolved => ~Answering(n)
  /\ Busy(n) /\ (Working(k) \/ Reading(k)) =>
       /\ ~cell[n].connect /\ ~cell[n].resolved /\ ~Answering(n)
       /\ cell[n].reader => Reading(k)

\* Nothing will follow for the node but the end of a callback.
Ended(n, k) ==
  /\ ~cell[n].launch /\ ~cell[n].connect /\ ~cell[n].resolved /\ ~Answering(n)
  /\ cell[n].reader => Busy(n) /\ k = 17
  /\ Busy(n) => Ending(k)

NodeInv(n, k) ==
  /\ Exclusive(n, k)
  /\ cell[n].exit # "Cancel"
  /\ nodes[n].uuid = 0 => Untouched(n)
  /\ nodes[n].uuid > 0 => nodes[n].request # NoNode
  /\ nodes[n].uuid \in closed => Ended(n, k) /\ cell[n].status = "Closed"
  /\ cell[n].destroy => Ended(n, k) /\ (Busy(n) => k \in {18, 19})
  /\ Resolving(n) => cell[n].dns /\ nodes[n].uuid = subject["dns"].uuid /\ nodes[n].uuid > 0

(***************************************************************************)
(* What holds in every system.                                             *)
(***************************************************************************)
\* Only a callback of a request has a step that puts it in the list or deletes it.
EventSteps == IF Request("event") \in Requests THEN Steps ELSE Steps \ {"launch", "free"}

DnsPrograms == {<<>>, <<"suspend", "answer", "over">>, <<"answer", "over">>, <<"over">>}

Typed ==
  /\ LifecycleTypeOK
  /\ todo = [t \in Threads |-> todo[t]]
  /\ DOMAIN subject = Threads
  /\ todo["event"] \in Seq(EventSteps)
  /\ todo["dns"] \in DnsPrograms
  /\ ~Idle("event") => Node("event") \in Nodes
  /\ ~Idle("dns") => Node("dns") \in Nodes
  /\ \A u \in closed : u <= made

\* The pointers between a request and its node, and what a thread remembers of them.
Linked ==
  /\ \A n \in Nodes : nodes[n].request # NoNode => requests[nodes[n].request] = n
  /\ \A r \in Requests : Allocated(r) /\ cell[requests[r]].status = "Created" =>
       nodes[requests[r]].request = r
  /\ ~Idle("event") /\ Request("event") \in Requests /\ Allocated(Request("event")) =>
       requests[Request("event")] = Node("event")

\* The user, in program k.
UserKnows(k) ==
  /\ k = 1 => /\ Request("user") \in Requests /\ Allocated(Request("user"))
              /\ cell[requests[Request("user")]].status = "Created"
              /\ ~Registered(Request("user"))
  /\ k \in 2..14 \/ k \in 20..24 => Request("user") \in Requests
  /\ k \in 1..14 \/ k \in 20..24 =>
       (Allocated(Request("user")) => requests[Request("user")] = Node("user"))
  /\ k \in {13, 14, 23, 24} /\ Node("user") \in Nodes => ~cell[Node("user")].launch

\* Before the one request of a system that is not orderly is registered.
Early(k) == made = 0 \/ k = 1
Untried == DOMAIN infoByRequest = {} /\ \A n \in Nodes : cell[n].status = "Created"

SharedInv == /\ Consistent /\ Typed /\ Linked
             /\ \A n \in Nodes : Fresh(n)

(***************************************************************************)
(* What holds in an orderly system.                                        *)
(***************************************************************************)
EventInv(k) ==
  /\ todo["event"] = EventProgram(k)
  /\ k # 0 => /\ nodes[Node("event")].uuid = subject["event"].uuid
              /\ subject["event"].uuid > 0
              /\ Request("event") = nodes[Node("event")].request
              /\ Inside(k) => cell[Node("event")].inside

\* A node that was not started is marked as destroyed only by its release.
Marked(k) == \A n \in Nodes : cell[n].status = "Created" /\ cell[n].destroy /\ nodes[n].uuid > 0 =>
                                k \in 10..14 /\ n = Node("user")

\* The release of a request that was not started, or got its Close.
Releases(k) ==
  LET r == Request("user")
      n == Node("user")
  IN
  /\ k \in 2..14 =>
       /\ r \in Requests /\ Allocated(r) /\ requests[r] = n
       /\ nodes[n].uuid = subject["user"].uuid
       /\ cell[n].status = "Created" \/ nodes[n].uuid \in closed
       /\ k \in 2..10 <=> Registered(r)
       /\ k \in 6..14 => ~cell[n].dns
       /\ k \in 7..14 => ~Busy(n)
       /\ k = 14 => r \notin list
  /\ k = 15 => nodes[n].uuid # subject["user"].uuid
  /\ k = 16 => \A q \in Requests : ~Allocated(q)
  /\ Marked(k)

OrderlyInv ==
  /\ RegisteredIsAlive /\ listBy = "free"
  /\ \A r \in list : Allocated(r)
  /\ \E k \in 0..19 : EventInv(k) /\ \A n \in Nodes : NodeInv(n, k)

UserInv ==
  \E k \in 0..24 : /\ todo["user"] = UserProgram(k)
                   /\ UserKnows(k)
                   /\ ~orderly /\ Early(k) => Untried
                   /\ orderly => k \in 0..18 /\ Releases(k)

LifecycleInv == SharedInv /\ UserInv /\ (orderly => OrderlyInv)

(***************************************************************************)
(* Programs: their first step, and what is left after it.                  *)
(***************************************************************************)
UserOp(k) ==
  CASE k = 1 -> "enter"
    [] k = 2 -> "guard"
    [] k = 3 -> "exist"
    [] k = 4 -> "invoking"
    [] k = 5 -> "resolver"
    [] k \in {6, 8, 11, 21} -> "callback"
    [] k = 7 -> "delevents"
    [] k = 9 -> "destroyed"
    [] k \in {10, 20} -> "remove"
    [] k \in {12, 22} -> "close"
    [] k \in {13, 23} -> "unlist"
    [] k \in {14, 24} -> "free"
    [] k = 15 -> "unguard"
    [] k = 16 -> "sweep"
    [] k = 17 -> "break"
    [] k = 18 -> "join"
    [] k = 19 -> "force"

AfterUser(k) == CASE k \in {1, 3, 15, 16, 17, 18, 19} -> 0
                  [] k \in {2, 4, 5, 6, 7, 8, 9, 11, 12, 13, 14, 21, 22, 23} -> k + 1
                  [] k = 10 -> 15
                  [] k \in {20, 24} -> 19

EventOp(k) ==
  CASE k \in {1, 6, 9, 10, 18} -> "check"
    [] k \in {2, 4, 7, 11} -> "enter"
    [] k = 3 -> "launch"
    [] k = 5 -> "connect"
    [] k = 8 -> "read"
    [] k = 12 -> "resolved"
    [] k \in {13, 14} -> "dial"
    [] k \in {15, 16} -> "destroy"
    [] k = 17 -> "shut"
    [] k = 19 -> "leave"

AfterEvent(k) == CASE k \in {1, 2, 4, 6, 7, 9, 10, 11, 18} -> k + 1
                   [] k \in {3, 5, 8, 13, 15, 17} -> 19
                   [] k \in {12, 14, 16} -> 18
                   [] k = 19 -> 0

\* By what a thread does next one knows how far it is.
LEMMA UserFirst ==
  ASSUME NEW k \in 1..24
  PROVE  /\ UserProgram(k) # <<>> /\ Head(UserProgram(k)) = UserOp(k)
         /\ Tail(UserProgram(k)) = UserProgram(AfterUser(k))
<1>1. CASE k = 1
  BY <1>1 DEF UserProgram, UserOp, AfterUser
<1>2. CASE k = 2
  BY <1>2 DEF UserProgram, UserOp, AfterUser
<1>3. CASE k = 3
  BY <1>3 DEF UserProgram, UserOp, AfterUser
<1>4. CASE k = 4
  BY <1>4 DEF UserProgram, UserOp, AfterUser
<1>5. CASE k = 5
  BY <1>5 DEF UserProgram, UserOp, AfterUser
<1>6. CASE k = 6
  BY <1>6 DEF UserProgram, UserOp, AfterUser
<1>7. CASE k = 7
  BY <1>7 DEF UserProgram, UserOp, AfterUser
<1>8. CASE k = 8
  BY <1>8 DEF UserProgram, UserOp, AfterUser
<1>9. CASE k = 9
  BY <1>9 DEF UserProgram, UserOp, AfterUser
<1>10. CASE k = 10
  BY <1>10 DEF UserProgram, UserOp, AfterUser
<1>11. CASE k = 11
  BY <1>11 DEF UserProgram, UserOp, AfterUser
<1>12. CASE k = 12
  BY <1>12 DEF UserProgram, UserOp, AfterUser
<1>13. CASE k = 13
  BY <1>13 DEF UserProgram, UserOp, AfterUser
<1>14. CASE k = 14
  BY <1>14 DEF UserProgram, UserOp, AfterUser
<1>15. CASE k = 15
  BY <1>15 DEF UserProgram, UserOp, AfterUser
<1>16. CASE k = 16
  BY <1>16 DEF UserProgram, UserOp, AfterUser
<1>17. CASE k = 17
  BY <1>17 DEF UserProgram, UserOp, AfterUser
<1>18. CASE k = 18
  BY <1>18 DEF UserProgram, UserOp, AfterUser
<1>19. CASE k = 19
  BY <1>19 DEF UserProgram, UserOp, AfterUser
<1>20. CASE k = 20
  BY <1>20 DEF UserProgram, UserOp, AfterUser
<1>21. CASE k = 21
  BY <1>21 DEF UserProgram, UserOp, AfterUser
<1>22. CASE k = 22
  BY <1>22 DEF UserProgram, UserOp, AfterUser
<1>23. CASE k = 23
  BY <1>23 DEF UserProgram, UserOp, AfterUser
<1>24. CASE k = 24
  BY <1>24 DEF UserProgram, UserOp, AfterUser
<1> QED
  BY <1>1, <1>2, <1>3, <1>4, <1>5, <1>6, <1>7, <1>8, <1>9,
     <1>10, <1>11, <1>12, <1>13, <1>14, <1>15, <1>16, <1>17, <1>18,
     <1>19, <1>20, <1>21, <1>22, <1>23, <1>24

LEMMA EventFirst ==
  ASSUME NEW k \in 1..19
  PROVE  /\ EventProgram(k) # <<>> /\ Head(EventProgram(k)) = EventOp(k)
         /\ Tail(EventProgram(k)) = EventProgram(AfterEvent(k))
<1>1. CASE k = 1
  BY <1>1 DEF EventProgram, EventOp, AfterEvent
<1>2. CASE k = 2
  BY <1>2 DEF EventProgram, EventOp, AfterEvent
<1>3. CASE k = 3
  BY <1>3 DEF EventProgram, EventOp, AfterEvent
<1>4. CASE k = 4
  BY <1>4 DEF EventProgram, EventOp, AfterEvent
<1>5. CASE k = 5
  BY <1>5 DEF EventProgram, EventOp, AfterEvent
<1>6. CASE k = 6
  BY <1>6 DEF EventProgram, EventOp, AfterEvent
<1>7. CASE k = 7
  BY <1>7 DEF EventProgram, EventOp, AfterEvent
<1>8. CASE k = 8
  BY <1>8 DEF EventProgram, EventOp, AfterEvent
<1>9. CASE k = 9
  BY <1>9 DEF EventProgram, EventOp, AfterEvent
<1>10. CASE k = 10
  BY <1>10 DEF EventProgram, EventOp, AfterEvent
<1>11. CASE k = 11
  BY <1>11 DEF EventProgram, EventOp, AfterEvent
<1>12. CASE k = 12
  BY <1>12 DEF EventProgram, EventOp, AfterEvent
<1>13. CASE k = 13
  BY <1>13 DEF EventProgram, EventOp, AfterEvent
<1>14. CASE k = 14
  BY <1>14 DEF EventProgram, EventOp, AfterEvent
<1>15. CASE k = 15
  BY <1>15 DEF EventProgram, EventOp, AfterEvent
<1>16. CASE k = 16
  BY <1>16 DEF EventProgram, EventOp, AfterEvent
<1>17. CASE k = 17
  BY <1>17 DEF EventProgram, EventOp, AfterEvent
<1>18. CASE k = 18
  BY <1>18 DEF EventProgram, EventOp, AfterEvent
<1>19. CASE k = 19
  BY <1>19 DEF EventProgram, EventOp, AfterEvent
<1> QED
  BY <1>1, <1>2, <1>3, <1>4, <1>5, <1>6, <1>7, <1>8, <1>9,
     <1>10, <1>11, <1>12, <1>13, <1>14, <1>15, <1>16, <1>17, <1>18,
     <1>19

LEMMA Join11 == ASSUME NEW a, NEW b PROVE <<a>> \o <<b>> = <<a, b>>
<1> DEFINE S == {a, b}
<1>1. <<a>> \in Seq(S) /\ <<b>> \in Seq(S) /\ <<a, b>> \in Seq(S)
  OBVIOUS
<1>2. <<a>> \o <<b>> \in Seq(S) /\ Len(<<a>> \o <<b>>) = 2
  BY <1>1
<1>3. (<<a>> \o <<b>>)[1] = a /\ (<<a>> \o <<b>>)[2] = b
  BY <1>1
<1>4. \A i \in 1..2 : (<<a>> \o <<b>>)[i] = <<a, b>>[i]
  BY <1>3
<1> HIDE DEF S
<1> QED
  BY <1>1, <1>2, <1>4, SeqEqual

LEMMA Join12 == ASSUME NEW a, NEW b, NEW c PROVE <<a>> \o <<b, c>> = <<a, b, c>>
<1> DEFINE S == {a, b, c}
<1>1. <<a>> \in Seq(S) /\ <<b, c>> \in Seq(S) /\ <<a, b, c>> \in Seq(S)
  OBVIOUS
<1>2. <<a>> \o <<b, c>> \in Seq(S) /\ Len(<<a>> \o <<b, c>>) = 3
  BY <1>1
<1>3. /\ (<<a>> \o <<b, c>>)[1] = a /\ (<<a>> \o <<b, c>>)[2] = b
      /\ (<<a>> \o <<b, c>>)[3] = c
  BY <1>1
<1>4. \A i \in 1..3 : (<<a>> \o <<b, c>>)[i] = <<a, b, c>>[i]
  BY <1>3
<1> HIDE DEF S
<1> QED
  BY <1>1, <1>2, <1>4, SeqEqual

LEMMA Join41 ==
  ASSUME NEW a, NEW b, NEW c, NEW d, NEW e
  PROVE  <<a, b, c, d>> \o <<e>> = <<a, b, c, d, e>>
<1> DEFINE S == {a, b, c, d, e}
<1>1. <<a, b, c, d>> \in Seq(S) /\ <<e>> \in Seq(S) /\ <<a, b, c, d, e>> \in Seq(S)
  OBVIOUS
<1>2. <<a, b, c, d>> \o <<e>> \in Seq(S) /\ Len(<<a, b, c, d>> \o <<e>>) = 5
  BY <1>1
<1>3. /\ (<<a, b, c, d>> \o <<e>>)[1] = a /\ (<<a, b, c, d>> \o <<e>>)[2] = b
      /\ (<<a, b, c, d>> \o <<e>>)[3] = c /\ (<<a, b, c, d>> \o <<e>>)[4] = d
      /\ (<<a, b, c, d>> \o <<e>>)[5] = e
  BY <1>1
<1>4. \A i \in 1..5 : (<<a, b, c, d>> \o <<e>>)[i] = <<a, b, c, d, e>>[i]
  BY <1>3
<1> HIDE DEF S
<1> QED
  BY <1>1, <1>2, <1>4, SeqEqual

\* What Exist and RemoveIt put before what is left of a release.
LEMMA UserPerforms ==
  /\ Releasing \o UserProgram(0) = UserProgram(4)
  /\ <<"unguard">> \o UserProgram(0) = UserProgram(15)
  /\ Destructor \o UserProgram(15) = UserProgram(11)
  /\ Destructor \o UserProgram(19) = UserProgram(21)
<1>1. Releasing \in Seq(Steps) /\ <<"unguard">> \in Seq(Steps)
  BY DEF Releasing, Steps
<1>2. Releasing = UserProgram(4) /\ <<"unguard">> = UserProgram(15) /\ UserProgram(0) = <<>>
  BY DEF Releasing, UserProgram
<1>3. Releasing \o <<>> = Releasing /\ <<"unguard">> \o <<>> = <<"unguard">>
  BY <1>1, ConcatEmptySeq
<1>4. Destructor \o <<"unguard">> = UserProgram(11) /\ Destructor \o <<"force">> = UserProgram(21)
  BY Join41 DEF Destructor, UserProgram
<1>5. UserProgram(15) = <<"unguard">> /\ UserProgram(19) = <<"force">>
  BY DEF UserProgram
<1> QED
  BY <1>2, <1>3, <1>4, <1>5

\* What Launch, Dial, Connect and Read put before the end of a callback.
LEMMA EventPerforms ==
  /\ <<"dial">> \o EventProgram(19) = EventProgram(13)
  /\ <<"dial">> \o EventProgram(18) = EventProgram(14)
  /\ <<"destroy">> \o EventProgram(19) = EventProgram(15)
  /\ <<"destroy">> \o EventProgram(18) = EventProgram(16)
  /\ <<"shut">> \o EventProgram(19) = EventProgram(17)
BY Join11, Join12 DEF EventProgram

(***************************************************************************)
(* Fields of a node.                                                       *)
(***************************************************************************)
CellFields == {"status", "exit", "destroy", "inside", "releasing", "launch", "connect",
               "reader", "resolved", "dns", "dnsExit"}

FieldType(f) == IF f = "status" THEN Statuses ELSE IF f = "exit" THEN Exits ELSE BOOLEAN

With(c, f, v) == [c EXCEPT ![f] = v]

LEMMA FieldSet ==
  ASSUME NEW c \in Cells, NEW f \in CellFields, NEW v \in FieldType(f)
  PROVE  /\ With(c, f, v) \in Cells
         /\ \A g \in CellFields : With(c, f, v)[g] = IF g = f THEN v ELSE c[g]
<1> USE DEF With
<1>1. \A g \in CellFields : [c EXCEPT ![f] = v][g] = IF g = f THEN v ELSE c[g]
  BY DEF Cells, CellFields
<1>2. ASSUME f = "status" PROVE [c EXCEPT ![f] = v] \in Cells
  <2>1. v \in Statuses
    BY <1>2 DEF FieldType
  <2> QED
    BY <1>2, <2>1, Zenon DEF Cells
<1>3. ASSUME f = "exit" PROVE [c EXCEPT ![f] = v] \in Cells
  <2>1. v \in Exits
    BY <1>3 DEF FieldType
  <2> QED
    BY <1>3, <2>1, Zenon DEF Cells
<1>4. ASSUME f = "destroy" PROVE [c EXCEPT ![f] = v] \in Cells
  <2>1. v \in BOOLEAN
    BY <1>4 DEF FieldType
  <2> QED
    BY <1>4, <2>1, Zenon DEF Cells
<1>5. ASSUME f = "inside" PROVE [c EXCEPT ![f] = v] \in Cells
  <2>1. v \in BOOLEAN
    BY <1>5 DEF FieldType
  <2> QED
    BY <1>5, <2>1, Zenon DEF Cells
<1>6. ASSUME f = "releasing" PROVE [c EXCEPT ![f] = v] \in Cells
  <2>1. v \in BOOLEAN
    BY <1>6 DEF FieldType
  <2> QED
    BY <1>6, <2>1, Zenon DEF Cells
<1>7. ASSUME f = "launch" PROVE [c EXCEPT ![f] = v] \in Cells
  <2>1. v \in BOOLEAN
    BY <1>7 DEF FieldType
  <2> QED
    BY <1>7, <2>1, Zenon DEF Cells
<1>8. ASSUME f = "connect" PROVE [c EXCEPT ![f] = v] \in Cells
  <2>1. v \in BOOLEAN
    BY <1>8 DEF FieldType
  <2> QED
    BY <1>8, <2>1, Zenon DEF Cells
<1>9. ASSUME f = "reader" PROVE [c EXCEPT ![f] = v] \in Cells
  <2>1. v \in BOOLEAN
    BY <1>9 DEF FieldType
  <2> QED
    BY <1>9, <2>1, Zenon DEF Cells
<1>10. ASSUME f = "resolved" PROVE [c EXCEPT ![f] = v] \in Cells
  <2>1. v \in BOOLEAN
    BY <1>10 DEF FieldType
  <2> QED
    BY <1>10, <2>1, Zenon DEF Cells
<1>11. ASSUME f = "dns" PROVE [c EXCEPT ![f] = v] \in Cells
  <2>1. v \in BOOLEAN
    BY <1>11 DEF FieldType
  <2> QED
    BY <1>11, <2>1, Zenon DEF Cells
<1>12. ASSUME f = "dnsExit" PROVE [c EXCEPT ![f] = v] \in Cells
  <2>1. v \in BOOLEAN
    BY <1>12 DEF FieldType
  <2> QED
    BY <1>12, <2>1, Zenon DEF Cells
<1> QED
  BY <1>1, <1>2, <1>3, <1>4, <1>5, <1>6, <1>7, <1>8, <1>9, <1>10, <1>11, <1>12 DEF CellFields

\* Nothing changes but the fields of one node.
OnlyAt(n) == /\ cell' \in [Nodes -> Cells]
             /\ \A m \in Nodes : m # n => cell'[m] = cell[m]

LEMMA CellSet ==
  ASSUME cell \in [Nodes -> Cells], NEW n, NEW c, cell' = [cell EXCEPT ![n] = c],
         n \in Nodes => c \in Cells
  PROVE  OnlyAt(n) /\ (n \in Nodes => cell'[n] = c)
BY DEF OnlyAt

Becomes(n, f, v) == \A g \in CellFields : cell'[n][g] = IF g = f THEN v ELSE cell[n][g]

\* Set of Lifecycle.tla.
LEMMA SetIs ==
  ASSUME cell \in [Nodes -> Cells], NEW n, NEW f \in CellFields, NEW v \in FieldType(f),
         Set(n, f, v)
  PROVE  OnlyAt(n) /\ (n \in Nodes => Becomes(n, f, v))
<1>1. cell' = [cell EXCEPT ![n] = With(cell[n], f, v)]
  BY DEF Set, With
<1>2. ASSUME n \in Nodes
      PROVE  /\ With(cell[n], f, v) \in Cells
             /\ \A g \in CellFields : With(cell[n], f, v)[g] = IF g = f THEN v ELSE cell[n][g]
  <2>1. cell[n] \in Cells
    BY <1>2
  <2> QED
    BY <2>1, FieldSet
<1>3. OnlyAt(n) /\ (n \in Nodes => cell'[n] = With(cell[n], f, v))
  BY <1>1, <1>2, CellSet
<1> QED
  BY <1>2, <1>3 DEF Becomes

(***************************************************************************)
(* What every step of the user has to show; the rest notices nothing.      *)
(***************************************************************************)
LEMMA RunIs ==
  ASSUME DOMAIN todo = Threads, NEW t \in Threads, NEW steps, Run(t, steps)
  PROVE  /\ DOMAIN todo' = Threads /\ todo'[t] = steps
         /\ \A x \in Threads : x # t => todo'[x] = todo[x]
         /\ todo' = [x \in Threads |-> todo'[x]]
BY DEF Run

\* A node that neither its fields nor a thread at it changed.
LEMMA FreshSame ==
  ASSUME NEW n, Fresh(n), cell'[n] = cell[n], nodes'[n] = nodes[n],
         Busy(n)' <=> Busy(n), Resolving(n)' <=> Resolving(n)
  PROVE  Fresh(n)'
BY DEF Fresh, Untouched

LEMMA NodeSame ==
  ASSUME NEW n, NEW i, NEW j, NodeInv(n, i), cell'[n] = cell[n], nodes'[n] = nodes[n],
         Busy(n)' <=> Busy(n), Resolving(n)' <=> Resolving(n),
         Busy(n) => j = i,
         nodes[n].uuid \in closed' => nodes[n].uuid \in closed,
         Resolving(n) => todo'["dns"] = todo["dns"] /\ subject'["dns"] = subject["dns"]
  PROVE  NodeInv(n, j)'
<1>1. Untouched(n)' <=> Untouched(n)
  BY DEF Untouched
<1>2. Answering(n)' <=> Answering(n)
  BY DEF Answering
<1>3. Exclusive(n, j)'
  BY <1>2 DEF NodeInv, Exclusive
<1>4. Ended(n, i) => Ended(n, j)'
  BY <1>2 DEF Ended
<1> QED
  BY <1>1, <1>3, <1>4 DEF NodeInv

UserMoves(k, j) ==
  /\ todo["user"] = UserProgram(k) /\ Run("user", UserProgram(j))
  /\ DOMAIN subject' = Threads
  /\ subject'["event"] = subject["event"] /\ subject'["dns"] = subject["dns"]
  /\ subject'["user"].node \in Nodes \union {NoNode} /\ subject'["user"].kind \in Kinds
  /\ guard' \in Threads \union {"free"} /\ listBy' \in {"free", "user"}
  /\ loop' \in {"running", "broken", "over"}
  /\ list' \subseteq list /\ closed' = closed /\ orderly' = orderly
  /\ cell' \in [Nodes -> Cells]
  /\ made <= made'

\* A node the step does not touch, or leaves as the invariant wants it.
UserLeaves(n) ==
  \/ cell'[n] = cell[n] /\ nodes'[n] = nodes[n]
  \/ /\ Fresh(n)'
     /\ \A i \in 0..19 : orderly /\ EventInv(i) /\ NodeInv(n, i) => NodeInv(n, i)'

\* What the user knows after the step, and what an orderly system is then like.
UserReaches(j) ==
  /\ UserKnows(j)'
  /\ ~orderly /\ Early(j)' => Untried'
  /\ orderly => j \in 0..18 /\ Releases(j)' /\ listBy' = "free"

LEMMA UserKeeps ==
  ASSUME LifecycleInv, NEW k \in 0..24, NEW j \in 0..24, UserMoves(k, j), UserReaches(j),
         Consistent', Linked',
         \A n \in Nodes : UserLeaves(n),
         orderly => /\ RegisteredIsAlive'
                    /\ \A r \in list' : Allocated(r)'
                    /\ ~Idle("event") =>
                         /\ nodes'[Node("event")] = nodes[Node("event")]
                         /\ cell'[Node("event")].inside = cell[Node("event")].inside
  PROVE  LifecycleInv'
<1>1. /\ DOMAIN todo' = Threads /\ todo'["user"] = UserProgram(j)
      /\ todo' = [x \in Threads |-> todo'[x]]
      /\ todo'["event"] = todo["event"] /\ todo'["dns"] = todo["dns"]
      /\ subject'["event"] = subject["event"] /\ subject'["dns"] = subject["dns"]
      /\ closed' = closed /\ orderly' = orderly
  BY RunIs DEF UserMoves, Threads, LifecycleInv, SharedInv, Typed, LifecycleTypeOK
<1>2. Typed'
  <2>1. LifecycleTypeOK'
    <3>1. RegistryTypeOK'
      BY DEF Consistent
    <3>2. \A t \in Threads : subject'[t].node \in Nodes \union {NoNode} /\ subject'[t].kind \in Kinds
      BY DEF LifecycleInv, SharedInv, Typed, LifecycleTypeOK, Threads, UserMoves
    <3>3. list' \subseteq Requests /\ closed' \subseteq 1..MaxMade
      BY DEF LifecycleInv, SharedInv, Typed, LifecycleTypeOK, UserMoves
    <3> QED
      BY <1>1, <3>1, <3>2, <3>3 DEF LifecycleTypeOK, UserMoves
  <2>2. (\A u \in closed : u <= made)'
    <3>1. \A u \in closed : u \in Nat /\ u <= made
      BY RegistryAssumption DEF LifecycleInv, SharedInv, Typed, LifecycleTypeOK
    <3>2. made \in Int /\ made' \in Int
      BY DEF LifecycleInv, SharedInv, Consistent, RegistryTypeOK
    <3> QED
      BY <1>1, <3>1, <3>2 DEF UserMoves
  <2>3. EventSteps' = EventSteps
    BY <1>1 DEF EventSteps, Request
  <2> QED
    BY <1>1, <2>1, <2>2, <2>3 DEF LifecycleInv, SharedInv, Typed, Idle, Node, UserMoves
<1>3. \A n \in Nodes : /\ Busy(n)' <=> Busy(n)
                       /\ Resolving(n)' <=> Resolving(n)
  BY <1>1 DEF Busy, Resolving, Idle, Node
<1>4. \A n \in Nodes : Fresh(n)'
  <2> TAKE n \in Nodes
  <2>1. CASE cell'[n] = cell[n] /\ nodes'[n] = nodes[n]
    <3>1. Fresh(n)
      BY DEF LifecycleInv, SharedInv
    <3> QED
      BY <3>1, <2>1, <1>3, FreshSame
  <2> QED
    BY <2>1 DEF UserLeaves
<1>5. UserInv'
  BY <1>1 DEF UserInv, UserReaches
<1>6. ASSUME orderly PROVE OrderlyInv'
  <2>1. PICK i \in 0..19 : EventInv(i) /\ \A n \in Nodes : NodeInv(n, i)
    BY <1>6 DEF LifecycleInv, OrderlyInv
  <2>2. EventInv(i)'
    <3>1. i # 0 => todo["event"] # <<>>
      <4>1. todo["event"] = EventProgram(i)
        BY <2>1 DEF EventInv
      <4>2. i # 0 => i \in 1..19
        OBVIOUS
      <4> QED
        BY <4>1, <4>2, EventFirst
    <3>2. i # 0 => /\ nodes'[Node("event")] = nodes[Node("event")]
                   /\ cell'[Node("event")].inside = cell[Node("event")].inside
      BY <1>6, <3>1 DEF Idle
    <3> QED
      BY <1>1, <2>1, <3>2 DEF EventInv, Node, Request
  <2>3. \A n \in Nodes : NodeInv(n, i)'
    <3> TAKE n \in Nodes
    <3>1. CASE cell'[n] = cell[n] /\ nodes'[n] = nodes[n]
      <4>1. NodeInv(n, i)
        BY <2>1
      <4> QED
        BY <1>1, <1>3, <3>1, <4>1, NodeSame
    <3> QED
      BY <1>6, <2>1, <3>1 DEF UserLeaves
  <2> QED
    BY <1>6, <2>2, <2>3 DEF OrderlyInv, UserReaches
<1> QED
  BY <1>1, <1>2, <1>4, <1>5, <1>6 DEF LifecycleInv, SharedInv

\* The pointers stay as long as the memory does.
LEMMA LinkedKeeps ==
  ASSUME Linked, UNCHANGED memory, Idle("event") => Idle("event")',
         subject'["event"] = subject["event"], RegistryTypeOK,
         \A n \in Nodes : cell'[n].status = "Created" => cell[n].status = "Created"
  PROVE  Linked'
BY DEF Linked, memory, Allocated, Idle, Node, Request, RegistryTypeOK

\* A step that changes no node, and neither memory nor registry.
LEMMA UserWaits ==
  ASSUME LifecycleInv, NEW k \in 0..24, NEW j \in 0..24, UserMoves(k, j), UserReaches(j),
         UNCHANGED <<registry, memory, cell>>
  PROVE  LifecycleInv'
<1>1. todo'["event"] = todo["event"]
  BY RunIs DEF UserMoves, Threads, LifecycleInv, SharedInv, Typed, LifecycleTypeOK
<1>2. Linked'
  BY <1>1, LinkedKeeps DEF LifecycleInv, SharedInv, Consistent, UserMoves, Idle
<1>3. Consistent' /\ (orderly => RegisteredIsAlive')
  <2>1. Consistent'
    BY DEF LifecycleInv, SharedInv, Consistent, registry, memory, RegistryTypeOK, MapsAgree,
           Owned, Drawn, Registered, Allocated
  <2>2. orderly => RegisteredIsAlive'
    BY DEF LifecycleInv, OrderlyInv, registry, memory, RegisteredIsAlive, Allocated
  <2> QED
    BY <2>1, <2>2
<1>4. orderly => \A r \in list' : Allocated(r)'
  BY DEF LifecycleInv, OrderlyInv, UserMoves, memory, Allocated
<1>5. \A n \in Nodes : UserLeaves(n)
  BY DEF UserLeaves, memory
<1>6. UNCHANGED nodes
  BY DEF memory
<1> QED
  BY <1>2, <1>3, <1>4, <1>5, <1>6, UserKeeps

\* How far the user is, by the step it is at.
UserStands(k) ==
  /\ todo["user"] = UserProgram(k) /\ UserKnows(k)
  /\ ~orderly /\ Early(k) => Untried
  /\ orderly => k \in 0..18 /\ Releases(k)

LEMMA UserAt ==
  ASSUME LifecycleInv, NEW op, At("user", op)
  PROVE  \E k \in 1..24 : /\ UserStands(k) /\ UserOp(k) = op
                          /\ Tail(todo["user"]) = UserProgram(AfterUser(k))
<1>1. PICK k \in 0..24 : UserStands(k)
  BY DEF LifecycleInv, UserInv, UserStands
<1>2. k # 0
  <2>1. UserProgram(0) = <<>>
    BY DEF UserProgram
  <2> QED
    BY <1>1, <2>1 DEF UserStands, At, Idle
<1>3. k \in 1..24
  BY <1>2
<1>4. /\ Head(UserProgram(k)) = UserOp(k)
      /\ Tail(UserProgram(k)) = UserProgram(AfterUser(k))
  BY <1>3, UserFirst
<1> QED
  BY <1>1, <1>3, <1>4 DEF UserStands, At

LEMMA UserIdle ==
  ASSUME LifecycleInv, Idle("user")
  PROVE  UserStands(0)
<1>1. PICK k \in 0..24 : UserStands(k)
  BY DEF LifecycleInv, UserInv, UserStands
<1>2. ASSUME k # 0 PROVE FALSE
  <2>1. k \in 1..24
    BY <1>2
  <2> QED
    BY <1>1, <2>1, UserFirst DEF UserStands, Idle
<1> QED
  BY <1>1, <1>2

\* How far the event thread is, in an orderly system: it is in a callback, and never
\* in a release.
LEMMA EventAt ==
  ASSUME LifecycleInv, orderly, NEW op, At("event", op)
  PROVE  \E k \in 1..19 : /\ EventInv(k) /\ \A n \in Nodes : NodeInv(n, k)
                          /\ EventOp(k) = op
                          /\ Tail(todo["event"]) = EventProgram(AfterEvent(k))
<1>1. PICK k \in 0..19 : EventInv(k) /\ \A n \in Nodes : NodeInv(n, k)
  BY DEF LifecycleInv, OrderlyInv
<1>2. k # 0
  <2>1. EventProgram(0) = <<>>
    BY DEF EventProgram
  <2> QED
    BY <1>1, <2>1 DEF EventInv, At, Idle
<1>3. k \in 1..19
  BY <1>2
<1>4. /\ Head(EventProgram(k)) = EventOp(k)
      /\ Tail(EventProgram(k)) = EventProgram(AfterEvent(k))
  BY <1>3, EventFirst
<1> QED
  BY <1>1, <1>3, <1>4 DEF EventInv, At

CallbackSteps == {"check", "enter", "launch", "connect", "read", "resolved", "dial", "destroy",
                  "shut", "leave"}

LEMMA InCallback ==
  ASSUME LifecycleInv, orderly, NEW op, At("event", op)
  PROVE  op \in CallbackSteps
<1>1. PICK k \in 1..19 : EventOp(k) = op
  BY EventAt
<1> QED
  BY <1>1 DEF EventOp, CallbackSteps

\* The types a step needs.
LEMMA TypesAre ==
  ASSUME LifecycleInv
  PROVE  /\ DOMAIN todo = Threads /\ DOMAIN subject = Threads
         /\ \A t \in Threads : /\ subject[t].node \in Nodes \union {NoNode}
                               /\ subject[t].kind \in Kinds
         /\ guard \in Threads \union {"free"} /\ listBy \in {"free", "user"}
         /\ loop \in {"running", "broken", "over"}
         /\ cell \in [Nodes -> Cells]
         /\ list \subseteq Requests
         /\ made \in Nat /\ MaxMade \in Nat
         /\ requests \in [Requests -> Nodes \union {NoNode}]
         /\ nodes \in [Nodes -> Objects]
BY RegistryAssumption
   DEF LifecycleInv, SharedInv, Typed, LifecycleTypeOK, Consistent, RegistryTypeOK

(***************************************************************************)
(* Steps of the user that change nothing but what it does next.            *)
(***************************************************************************)
LEMMA UserQuiet ==
  ASSUME LifecycleInv, NEW k \in 0..24, NEW j \in 0..24,
         todo["user"] = UserProgram(k), Run("user", UserProgram(j)),
         UNCHANGED <<registry, memory, cell, subject, closed, orderly>>,
         guard' \in Threads \union {"free"}, listBy' \in {"free", "user"},
         loop' \in {"running", "broken", "over"}, list' \subseteq list,
         UserReaches(j)
  PROVE  LifecycleInv'
<1>1. UserMoves(k, j)
  <2>1. made <= made'
    BY TypesAre DEF memory
  <2> QED
    BY <2>1, TypesAre DEF UserMoves, Threads
<1> QED
  BY <1>1, UserWaits

LEMMA TakeGuardKeeps ==
  ASSUME LifecycleInv, TakeGuard("user")
  PROVE  LifecycleInv'
<1>1. PICK k \in 1..24 : /\ UserStands(k) /\ UserOp(k) = "guard"
                        /\ Tail(todo["user"]) = UserProgram(AfterUser(k))
  BY UserAt DEF TakeGuard
<1>2. k = 2 /\ AfterUser(k) = 3
  BY <1>1 DEF UserOp, AfterUser
<1>4. UNCHANGED <<registry, memory, cell, subject, closed, orderly>>
  BY DEF TakeGuard, rest
<1>5. todo["user"] = UserProgram(k) /\ Run("user", UserProgram(AfterUser(k)))
  BY <1>1 DEF TakeGuard, Continue, UserStands
<1>6. /\ guard' \in Threads \union {"free"} /\ listBy' = listBy /\ list' \subseteq list
      /\ loop' \in {"running", "broken", "over"}
  BY TypesAre DEF TakeGuard, rest, Threads
<1>7. UserReaches(AfterUser(k))
  BY <1>1, <1>2, <1>4, <1>6 DEF LifecycleInv,
      UserReaches, UserStands, UserKnows, Early, Releases, Marked, Untried, Request, Node,
      Allocated, Registered, registry, memory, OrderlyInv, Busy, Idle
<1> QED
  BY <1>2, <1>4, <1>5, <1>6, <1>7, TypesAre, UserQuiet

LEMMA UnguardKeeps ==
  ASSUME LifecycleInv, Unguard("user")
  PROVE  LifecycleInv'
<1>1. PICK k \in 1..24 : /\ UserStands(k) /\ UserOp(k) = "unguard"
                        /\ Tail(todo["user"]) = UserProgram(AfterUser(k))
  BY UserAt DEF Unguard
<1>2. k = 15 /\ AfterUser(k) = 0
  BY <1>1 DEF UserOp, AfterUser
<1>4. UNCHANGED <<registry, memory, cell, subject, closed, orderly>>
  BY DEF Unguard, rest
<1>5. todo["user"] = UserProgram(k) /\ Run("user", UserProgram(AfterUser(k)))
  BY <1>1 DEF Unguard, Continue, UserStands
<1>6. /\ guard' \in Threads \union {"free"} /\ listBy' = listBy /\ list' \subseteq list
      /\ loop' \in {"running", "broken", "over"}
  BY TypesAre DEF Unguard, rest, Threads
<1>7. UserReaches(AfterUser(k))
  BY <1>1, <1>2, <1>4, <1>6 DEF LifecycleInv,
      UserReaches, UserStands, UserKnows, Early, Releases, Marked, Untried, Request, Node,
      Allocated, Registered, registry, memory, OrderlyInv, Busy, Idle
<1> QED
  BY <1>2, <1>4, <1>5, <1>6, <1>7, TypesAre, UserQuiet

LEMMA WaitInvokingKeeps ==
  ASSUME LifecycleInv, WaitInvoking
  PROVE  LifecycleInv'
<1>1. PICK k \in 1..24 : /\ UserStands(k) /\ UserOp(k) = "invoking"
                        /\ Tail(todo["user"]) = UserProgram(AfterUser(k))
  BY UserAt DEF WaitInvoking
<1>2. k = 4 /\ AfterUser(k) = 5
  BY <1>1 DEF UserOp, AfterUser
<1>4. UNCHANGED <<registry, memory, cell, subject, closed, orderly>>
  BY DEF WaitInvoking, rest
<1>5. todo["user"] = UserProgram(k) /\ Run("user", UserProgram(AfterUser(k)))
  BY <1>1 DEF WaitInvoking, Continue, UserStands
<1>6. /\ guard' \in Threads \union {"free"} /\ listBy' = listBy /\ list' \subseteq list
      /\ loop' \in {"running", "broken", "over"}
  BY TypesAre DEF WaitInvoking, rest, Threads
<1>7. UserReaches(AfterUser(k))
  BY <1>1, <1>2, <1>4, <1>6 DEF LifecycleInv,
      UserReaches, UserStands, UserKnows, Early, Releases, Marked, Untried, Request, Node,
      Allocated, Registered, registry, memory, OrderlyInv, Busy, Idle
<1> QED
  BY <1>2, <1>4, <1>5, <1>6, <1>7, TypesAre, UserQuiet

LEMMA WaitResolverKeeps ==
  ASSUME LifecycleInv, WaitResolver
  PROVE  LifecycleInv'
<1>1. PICK k \in 1..24 : /\ UserStands(k) /\ UserOp(k) = "resolver"
                        /\ Tail(todo["user"]) = UserProgram(AfterUser(k))
  BY UserAt DEF WaitResolver
<1>2. k = 5 /\ AfterUser(k) = 6
  BY <1>1 DEF UserOp, AfterUser
<1>4. UNCHANGED <<registry, memory, cell, subject, closed, orderly>>
  BY DEF WaitResolver, rest
<1>5. todo["user"] = UserProgram(k) /\ Run("user", UserProgram(AfterUser(k)))
  BY <1>1 DEF WaitResolver, Continue, UserStands
<1>6. /\ guard' \in Threads \union {"free"} /\ listBy' = listBy /\ list' \subseteq list
      /\ loop' \in {"running", "broken", "over"}
  BY TypesAre DEF WaitResolver, rest, Threads
<1>7. UserReaches(AfterUser(k))
  BY <1>1, <1>2, <1>4, <1>6 DEF LifecycleInv,
      UserReaches, UserStands, UserKnows, Early, Releases, Marked, Untried, Request, Node,
      Allocated, Registered, registry, memory, OrderlyInv, Busy, Idle, WaitResolver
<1> QED
  BY <1>2, <1>4, <1>5, <1>6, <1>7, TypesAre, UserQuiet

LEMMA BreakKeeps ==
  ASSUME LifecycleInv, Break
  PROVE  LifecycleInv'
<1>1. PICK k \in 1..24 : /\ UserStands(k) /\ UserOp(k) = "break"
                        /\ Tail(todo["user"]) = UserProgram(AfterUser(k))
  BY UserAt DEF Break
<1>2. k = 17 /\ UserProgram(18) = <<"join">>
  BY <1>1 DEF UserOp, UserProgram
<1>4. UNCHANGED <<registry, memory, cell, subject, closed, orderly>>
  BY DEF Break, rest
<1>5. todo["user"] = UserProgram(k) /\ Run("user", UserProgram(18))
  BY <1>1, <1>2 DEF Break, Continue, UserStands
<1>6. /\ guard' \in Threads \union {"free"} /\ listBy' = listBy /\ list' \subseteq list
      /\ loop' \in {"running", "broken", "over"}
  BY TypesAre DEF Break, rest, Threads
<1>7. UserReaches(18)
  BY <1>1, <1>2, <1>4, <1>6 DEF LifecycleInv,
      UserReaches, UserStands, UserKnows, Early, Releases, Marked, Untried, Request, Node,
      Allocated, Registered, registry, memory, OrderlyInv, Busy, Idle
<1> QED
  BY <1>2, <1>4, <1>5, <1>6, <1>7, TypesAre, UserQuiet

LEMMA JoinKeeps ==
  ASSUME LifecycleInv, Join
  PROVE  LifecycleInv'
<1>1. PICK k \in 1..24 : /\ UserStands(k) /\ UserOp(k) = "join"
                        /\ Tail(todo["user"]) = UserProgram(AfterUser(k))
  BY UserAt DEF Join
<1>2. k = 18 /\ AfterUser(k) = 0
  BY <1>1 DEF UserOp, AfterUser
<1>4. UNCHANGED <<registry, memory, cell, subject, closed, orderly>>
  BY DEF Join, rest
<1>5. todo["user"] = UserProgram(k) /\ Run("user", UserProgram(AfterUser(k)))
  BY <1>1 DEF Join, Continue, UserStands
<1>6. /\ guard' \in Threads \union {"free"} /\ listBy' = listBy /\ list' \subseteq list
      /\ loop' \in {"running", "broken", "over"}
  BY TypesAre DEF Join, rest, Threads
<1>7. UserReaches(AfterUser(k))
  BY <1>1, <1>2, <1>4, <1>6 DEF LifecycleInv,
      UserReaches, UserStands, UserKnows, Early, Releases, Marked, Untried, Request, Node,
      Allocated, Registered, registry, memory, OrderlyInv, Busy, Idle
<1> QED
  BY <1>2, <1>4, <1>5, <1>6, <1>7, TypesAre, UserQuiet

LEMMA UnlistKeeps ==
  ASSUME LifecycleInv, Unlist("user")
  PROVE  LifecycleInv'
<1>1. PICK k \in 1..24 : /\ UserStands(k) /\ UserOp(k) = "unlist"
                        /\ Tail(todo["user"]) = UserProgram(AfterUser(k))
  BY UserAt DEF Unlist
<1>2. k \in {13, 23} /\ AfterUser(k) = k + 1
  BY <1>1 DEF UserOp, AfterUser
<1>4. UNCHANGED <<registry, memory, cell, subject, closed, orderly>>
  BY DEF Unlist, rest
<1>5. todo["user"] = UserProgram(k) /\ Run("user", UserProgram(AfterUser(k)))
  BY <1>1 DEF Unlist, Continue, UserStands
<1>6. /\ guard' \in Threads \union {"free"} /\ listBy' = listBy /\ list' \subseteq list
      /\ loop' \in {"running", "broken", "over"}
  BY TypesAre DEF Unlist, rest, Threads
<1>7. UserReaches(AfterUser(k))
  <2>1. CASE k = 13
    <3>1. Request("user") \notin list' /\ listBy' = "free"
      BY DEF Unlist, rest
    <3>2. orderly => Releases(14)'
      BY <1>1, <1>4, <1>5, <2>1, <3>1 DEF UserStands, Releases, Marked, Request, Node, Allocated, Registered,
         registry, memory, Busy, Idle, Run
    <3> QED
      BY <1>1, <1>2, <1>4, <2>1, <3>1, <3>2 DEF UserReaches, UserStands, UserKnows, Early, Untried,
        Request, Node, Allocated, registry, memory
  <2>2. CASE k = 23
    BY <1>1, <1>2, <1>4, <1>6, <2>2 DEF UserReaches, UserStands, UserKnows, Early, Request, Node,
      Allocated, Untried, registry, memory
  <2> QED
    BY <1>2, <2>1, <2>2
<1> QED
  BY <1>2, <1>4, <1>5, <1>6, <1>7, TypesAre, UserQuiet

\* The user waits for the flag of the callback: that is the callback which ends.
LEMMA CallbackIsOver ==
  ASSUME LifecycleInv, troubles = {}, orderly, WaitCallback("user"), UserStands(6)
  PROVE  ~Busy(Node("user"))
<1> DEFINE n == Node("user")
<1>1. PICK i \in 0..19 : EventInv(i) /\ \A m \in Nodes : NodeInv(m, i)
  BY DEF LifecycleInv, OrderlyInv
<1>2. n \in Nodes /\ (cell[n].status = "Created" \/ nodes[n].uuid \in closed)
  BY TypesAre DEF UserStands, Releases, Allocated
<1>3. ASSUME Busy(n) PROVE FALSE
  <2>1. i \in 1..19
    <3>1. EventProgram(0) = <<>>
      BY DEF EventProgram
    <3> QED
      BY <1>1, <1>3, <3>1 DEF EventInv, Busy, Idle
  <2>2. Fresh(n) /\ NodeInv(n, i)
    BY <1>1, <1>2 DEF LifecycleInv, SharedInv
  <2>3. i \in 15..19
    BY <1>2, <1>3, <2>2 DEF Fresh, Untouched, NodeInv, Ended, Ending
  <2>4. cell[n].inside
    BY <1>1, <1>3, <2>3 DEF EventInv, Inside, Busy
  <2>5. ~At("event", "guard")
    BY InCallback DEF CallbackSteps
  <2> QED
    BY <1>3, <2>4, <2>5 DEF WaitCallback, CallbackExpires, EventWaitsForUser, Busy
<1> QED
  BY <1>3

LEMMA WaitCallbackKeeps ==
  ASSUME LifecycleInv, troubles = {}, WaitCallback("user")
  PROVE  LifecycleInv'
<1>1. PICK k \in 1..24 : /\ UserStands(k) /\ UserOp(k) = "callback"
                        /\ Tail(todo["user"]) = UserProgram(AfterUser(k))
  BY UserAt DEF WaitCallback
<1>2. k \in {6, 8, 11, 21} /\ AfterUser(k) = k + 1
  BY <1>1 DEF UserOp, AfterUser
<1>3. orderly => (k = 6 => ~Busy(Node("user")))
  BY <1>1, CallbackIsOver
<1>4. UNCHANGED <<registry, memory, cell, subject, list, listBy, closed, orderly>>
  BY DEF WaitCallback, rest
<1>5. todo["user"] = UserProgram(k) /\ Run("user", UserProgram(AfterUser(k)))
  BY <1>1 DEF WaitCallback, Continue, UserStands
<1>6. /\ guard' \in Threads \union {"free"} /\ listBy' = listBy /\ list' \subseteq list
      /\ loop' \in {"running", "broken", "over"}
  BY <1>4, TypesAre DEF WaitCallback, rest, Threads
<1>7. Busy(Node("user"))' <=> Busy(Node("user"))
  <2>1. todo'["event"] = todo["event"]
    BY <1>5, RunIs, TypesAre DEF Threads
  <2> QED
    BY <1>4, <2>1 DEF Busy, Idle, Node
<1>8. UserKnows(k + 1)' /\ (~orderly /\ Early(k + 1)' => Untried')
  BY <1>1, <1>2, <1>4 DEF UserStands, UserKnows, Early, Untried, Request, Node, Allocated,
     Registered, registry, memory
<1>9. ASSUME orderly PROVE Releases(k + 1)' /\ k + 1 \in 0..18
  <2>1. k \in {6, 8, 11}
    BY <1>1, <1>2, <1>9 DEF UserStands
  <2>2. /\ requests' = requests /\ nodes' = nodes /\ cell' = cell /\ closed' = closed
        /\ list' = list /\ subject' = subject /\ infoByRequest' = infoByRequest
    BY <1>4 DEF memory, registry
  <2> QED
    BY <1>1, <1>3, <1>7, <1>9, <2>1, <2>2
    DEF UserStands, Releases, Marked, Request, Node, Allocated, Registered
<1>10. UserReaches(k + 1)
  BY <1>4, <1>8, <1>9 DEF UserReaches, LifecycleInv, OrderlyInv
<1> QED
  BY <1>2, <1>4, <1>5, <1>6, <1>10, TypesAre, UserQuiet

\* The list is empty when a client without requests is released.
LEMMA SweepKeeps ==
  ASSUME LifecycleInv, Sweep
  PROVE  LifecycleInv'
<1>1. PICK k \in 1..24 : UserStands(k) /\ UserOp(k) = "sweep"
  BY UserAt DEF Sweep
<1>2. k = 16
  BY <1>1 DEF UserOp
<1>3. UNCHANGED <<registry, memory, cell, subject, guard, closed, loop, orderly>>
  BY DEF Sweep
<1>4. list' \subseteq list
  BY DEF Sweep
<1>5. UserKnows(17)' /\ UserKnows(19)'
  BY DEF UserKnows
<1>6. ~orderly => ~Early(16)' \/ Untried'
  BY <1>1, <1>2, <1>3 DEF UserStands, Early, Untried, registry, memory
<1>7. CASE list' = {} /\ Run("user", <<"break">>) /\ UNCHANGED listBy
  <2>1. UserReaches(17)
    BY <1>1, <1>2, <1>3, <1>5, <1>6, <1>7
    DEF UserStands, UserReaches, Early, Releases, Marked, memory, LifecycleInv, OrderlyInv
  <2>2. todo["user"] = UserProgram(16) /\ Run("user", UserProgram(17))
    BY <1>1, <1>2, <1>7 DEF UserStands, UserProgram
  <2> QED
    BY <1>3, <1>4, <1>7, <2>1, <2>2, TypesAre, UserQuiet
<1>8. CASE list' # {} /\ Run("user", <<"force">>) /\ listBy' = "user"
  <2>1. ~orderly
    BY <1>1, <1>2, <1>4, <1>8, TypesAre DEF UserStands, Releases, Marked, LifecycleInv, OrderlyInv
  <2>2. UserReaches(19)
    BY <1>3, <1>5, <1>6, <2>1 DEF UserReaches, Early
  <2>3. todo["user"] = UserProgram(16) /\ Run("user", UserProgram(19))
    BY <1>1, <1>2, <1>8 DEF UserStands, UserProgram
  <2> QED
    BY <1>3, <1>4, <1>8, <2>2, <2>3, TypesAre, UserQuiet
<1> QED
  BY <1>7, <1>8 DEF Sweep

LEMMA DeleteByForceKeeps ==
  ASSUME LifecycleInv, DeleteByForce
  PROVE  LifecycleInv'
<1>1. PICK k \in 1..24 : UserStands(k) /\ UserOp(k) = "force"
  BY UserAt DEF DeleteByForce
<1>2. k = 19 /\ ~orderly
  <2>1. k = 19
    BY <1>1 DEF UserOp
  <2> QED
    BY <1>1, <2>1 DEF UserStands
<1>3. UNCHANGED <<registry, memory, cell, guard, closed, loop, orderly>>
  BY DEF DeleteByForce
<1>4. todo["user"] = UserProgram(19)
  BY <1>1, <1>2 DEF UserStands
<1>5. ~Early(19)' \/ Untried'
  BY <1>1, <1>2, <1>3 DEF UserStands, Early, Untried, registry, memory
<1>6. CASE /\ list = {} /\ listBy' = "free"
           /\ Run("user", <<"break">>)
           /\ UNCHANGED <<list, subject>>
  <2>1. UserReaches(17)
    BY <1>2, <1>5 DEF UserReaches, Early, UserKnows
  <2>2. Run("user", UserProgram(17))
    BY <1>6 DEF UserProgram
  <2> QED
    BY <1>3, <1>4, <1>6, <2>1, <2>2, TypesAre, UserQuiet
<1>7. ASSUME NEW r \in list, list' = list \ {r}, UNCHANGED listBy,
             Begin("user", <<"remove", "force">>, Subject(r, requests[r], "call"))
      PROVE  LifecycleInv'
  <2>1. r \in Requests /\ requests[r] \in Nodes \union {NoNode}
    BY TypesAre
  <2>2. subject' = [subject EXCEPT !["user"] = Subject(r, requests[r], "call")]
    BY <1>7 DEF Begin
  <2>3. /\ DOMAIN subject' = Threads
        /\ subject'["event"] = subject["event"] /\ subject'["dns"] = subject["dns"]
        /\ subject'["user"].node = requests[r] /\ subject'["user"].request = r
        /\ subject'["user"].kind = "call"
    BY <2>2, TypesAre DEF Threads, Subject
  <2>4. Run("user", UserProgram(20))
    BY <1>7 DEF Begin, UserProgram
  <2>5. UserMoves(19, 20)
    BY <1>3, <1>4, <1>7, <2>1, <2>3, <2>4, TypesAre DEF UserMoves, Kinds, memory
  <2>6. UserReaches(20)
    BY <1>2, <1>3, <1>5, <2>1, <2>3 DEF UserReaches, Early, UserKnows, Request, Node, memory
  <2> QED
    BY <1>3, <2>5, <2>6, UserWaits
<1> QED
  BY <1>6, <1>7 DEF DeleteByForce

(***************************************************************************)
(* Calls of the user.                                                      *)
(***************************************************************************)
LEMMA ReleaseClientKeeps ==
  ASSUME LifecycleInv, ReleaseClient
  PROVE  LifecycleInv'
<1>1. UserStands(0)
  BY UserIdle DEF ReleaseClient
<1>2. UNCHANGED <<registry, memory, cell, list, guard, listBy, closed, loop, orderly>>
  BY DEF ReleaseClient, rest
<1>3. subject' = [subject EXCEPT !["user"] = NoSubject] /\ Run("user", UserProgram(16))
  BY DEF ReleaseClient, Begin, UserProgram
<1>4. /\ DOMAIN subject' = Threads
      /\ subject'["event"] = subject["event"] /\ subject'["dns"] = subject["dns"]
      /\ subject'["user"].node = NoNode /\ subject'["user"].kind = "call"
  BY <1>3, TypesAre DEF Threads, NoSubject
<1>5. UserMoves(0, 16)
  BY <1>1, <1>2, <1>3, <1>4, TypesAre DEF UserMoves, Kinds, memory, UserStands
<1>6. UserReaches(16)
  BY <1>1, <1>2 DEF UserReaches, UserStands, Early, UserKnows, Untried, Releases, Marked, Allocated,
     registry, memory, ReleaseClient, LifecycleInv, OrderlyInv
<1> QED
  BY <1>2, <1>5, <1>6, UserWaits

(***************************************************************************)
(* Steps of the user that change the fields of a node.                     *)
(***************************************************************************)
\* Events are deleted, nothing else that matters.
Calms(n) ==
  /\ cell'[n].launch => cell[n].launch
  /\ cell'[n].connect => cell[n].connect
  /\ cell'[n].reader => cell[n].reader
  /\ cell'[n].resolved => cell[n].resolved
  /\ cell'[n].dns = cell[n].dns /\ cell'[n].inside = cell[n].inside
  /\ cell'[n].status = cell[n].status /\ cell'[n].exit = cell[n].exit

LEMMA CalmFresh ==
  ASSUME NEW n, Fresh(n), Calms(n), nodes'[n] = nodes[n],
         Busy(n)' <=> Busy(n), Resolving(n)' <=> Resolving(n)
  PROVE  Fresh(n)'
BY DEF Fresh, Untouched, Calms

LEMMA CalmNode ==
  ASSUME NEW n, NEW i, NodeInv(n, i), Calms(n), nodes'[n] = nodes[n], closed' = closed,
         todo'["dns"] = todo["dns"], subject'["dns"] = subject["dns"],
         Busy(n)' <=> Busy(n), Resolving(n)' <=> Resolving(n),
         cell'[n].destroy => cell[n].destroy \/ (Ended(n, i) /\ ~Busy(n))
  PROVE  NodeInv(n, i)'
<1>1. Untouched(n) => Untouched(n)'
  BY DEF Untouched, Calms
<1>2. Answering(n)' <=> Answering(n)
  BY DEF Answering, Calms
<1>3. Exclusive(n, i)'
  BY <1>2 DEF NodeInv, Exclusive, Calms
<1>4. Ended(n, i) => Ended(n, i)'
  BY <1>2 DEF Ended, Calms
<1> QED
  BY <1>1, <1>3, <1>4 DEF NodeInv, Calms

LEMMA UserSets ==
  ASSUME LifecycleInv, NEW k \in 0..24, NEW j \in 0..24, UserMoves(k, j), UserReaches(j),
         UNCHANGED <<registry, memory>>, NEW n, OnlyAt(n),
         n \in Nodes => /\ cell'[n].inside = cell[n].inside
                        /\ cell'[n].status = "Created" => cell[n].status = "Created"
                        /\ UserLeaves(n)
  PROVE  LifecycleInv'
<1>1. todo'["event"] = todo["event"] /\ subject'["event"] = subject["event"]
  BY RunIs, TypesAre DEF UserMoves, Threads
<1>2. Linked'
  <2>1. \A m \in Nodes : cell'[m].status = "Created" => cell[m].status = "Created"
    BY DEF OnlyAt
  <2> QED
    BY <1>1, <2>1, LinkedKeeps DEF LifecycleInv, SharedInv, Consistent, Idle
<1>3. Consistent'
  BY DEF LifecycleInv, SharedInv, Consistent, registry, memory, RegistryTypeOK, MapsAgree,
         Owned, Drawn, Registered, Allocated
<1>4. orderly => RegisteredIsAlive'
  BY DEF LifecycleInv, OrderlyInv, registry, memory, RegisteredIsAlive, Allocated
<1>5. orderly => \A r \in list' : Allocated(r)'
  BY DEF LifecycleInv, OrderlyInv, UserMoves, memory, Allocated
<1>6. UNCHANGED nodes
  BY DEF memory
<1>7. \A m \in Nodes : UserLeaves(m)
  BY <1>6 DEF UserLeaves, OnlyAt
<1>8. ~Idle("event") => cell'[Node("event")].inside = cell[Node("event")].inside
  BY DEF OnlyAt, LifecycleInv, SharedInv, Typed
<1> QED
  BY <1>2, <1>3, <1>4, <1>5, <1>6, <1>7, <1>8, UserKeeps

\* Nothing is under way for the node, as far as an orderly system goes.
Spent(n) == \A i \in 0..19 : orderly /\ NodeInv(n, i) => Ended(n, i) /\ ~Busy(n)

\* Of those, the ones that only delete events or raise a flag of the release.
LEMMA UserCalms ==
  ASSUME LifecycleInv, NEW k \in 0..24, NEW j \in 0..24,
         todo["user"] = UserProgram(k), Run("user", UserProgram(j)), UserReaches(j),
         UNCHANGED <<registry, memory, list, guard, subject, listBy, closed, loop, orderly>>,
         NEW n, OnlyAt(n),
         n \in Nodes => Calms(n) /\ (cell'[n].destroy => cell[n].destroy \/ Spent(n))
  PROVE  LifecycleInv'
<1>1. UserMoves(k, j)
  <2>1. made <= made'
    BY TypesAre DEF memory
  <2>2. cell' \in [Nodes -> Cells]
    BY DEF OnlyAt
  <2> QED
    BY <2>1, <2>2, TypesAre DEF UserMoves, Threads
<1>2. todo'["event"] = todo["event"] /\ todo'["dns"] = todo["dns"]
  BY RunIs, TypesAre DEF Threads
<1>3. ASSUME n \in Nodes PROVE UserLeaves(n)
  <2>1. Busy(n)' <=> Busy(n)
    BY <1>2 DEF Busy, Idle, Node
  <2>2. Resolving(n)' <=> Resolving(n)
    BY <1>2 DEF Resolving, Idle, Node
  <2>3. Fresh(n) /\ nodes'[n] = nodes[n] /\ closed' = closed /\ subject' = subject
    BY <1>3 DEF LifecycleInv, SharedInv, memory
  <2>4. Fresh(n)'
    BY <1>3, <2>1, <2>2, <2>3, CalmFresh
  <2>5. ASSUME NEW i \in 0..19, orderly, NodeInv(n, i) PROVE NodeInv(n, i)'
    <3>1. cell'[n].destroy => cell[n].destroy \/ (Ended(n, i) /\ ~Busy(n))
      BY <1>3, <2>5 DEF Spent
    <3>2. subject'["dns"] = subject["dns"] /\ Calms(n)
      BY <1>3, <2>3
    <3> QED
      BY <1>2, <2>1, <2>2, <2>3, <2>5, <3>1, <3>2, CalmNode
  <2> QED
    BY <2>4, <2>5 DEF UserLeaves
<1>4. n \in Nodes => cell'[n].inside = cell[n].inside /\ cell'[n].status = cell[n].status
  BY DEF Calms
<1> QED
  BY <1>1, <1>3, <1>4, UserSets

\* Such a step takes the user on, and what it knew stays.
LEMMA CalmReaches ==
  ASSUME LifecycleInv, NEW k \in 1..24, NEW j \in 1..24, UserStands(k),
         UNCHANGED <<registry, memory, list, subject, listBy, closed, orderly>>,
         todo'["event"] = todo["event"], NEW n, OnlyAt(n), n \in Nodes => Calms(n),
         \/ k \in 2..14 /\ j \in 2..13 /\ (j \in 2..10 <=> k \in 2..10)
         \/ k \in 20..24 /\ j \in 20..23,
         j \in 6..14 /\ Node("user") \in Nodes => k \in 6..14 \/ ~cell[Node("user")].dns,
         j \in 7..14 => k \in 7..14,
         k \in 10..14 => j \in 10..14,
         n \in Nodes /\ cell'[n].destroy => cell[n].destroy \/ (j \in 10..14 /\ n = Node("user")),
         j \in {13, 23} /\ Node("user") \in Nodes => ~cell'[Node("user")].launch
  PROVE  UserReaches(j)
<1> DEFINE m == Node("user")
<1>1. \A x \in Nodes : /\ cell'[x].status = cell[x].status /\ cell'[x].dns = cell[x].dns
                       /\ cell'[x].launch => cell[x].launch
  BY DEF OnlyAt, Calms
<1>2. UserKnows(j)'
  BY DEF UserStands, UserKnows, Request, Node, Allocated, memory
<1>3. ~orderly /\ Early(j)' => Untried'
  BY <1>1 DEF UserStands, Early, Untried, registry, memory
<1>4. ASSUME orderly PROVE j \in 0..18 /\ Releases(j)'
  <2>1. /\ k \in 2..14 /\ j \in 2..13 /\ Releases(k)
    BY <1>4 DEF UserStands
  <2>2. m \in Nodes
    BY <2>1, TypesAre DEF Releases, Allocated
  <2>3. Busy(m)' <=> Busy(m)
    BY DEF Busy, Idle, Node
  <2>4. /\ Request("user")' = Request("user") /\ m' = m
        /\ infoByRequest' = infoByRequest /\ requests' = requests /\ nodes' = nodes
    BY DEF Request, Node, registry, memory
  <2>5. /\ cell'[m].status = cell[m].status /\ cell'[m].dns = cell[m].dns
    BY <1>1, <2>2
  <2>6. Marked(j)'
    <3>1. Marked(k)
      BY <2>1 DEF Releases
    <3>2. \A x \in Nodes : cell'[x].destroy => cell[x].destroy \/ (j \in 10..14 /\ x = m)
      BY DEF OnlyAt
    <3> QED
      BY <1>1, <2>1, <2>4, <3>1, <3>2 DEF Marked
  <2> QED
    BY <2>1, <2>2, <2>3, <2>4, <2>5, <2>6 DEF Releases, Allocated, Registered
<1> QED
  BY <1>2, <1>3, <1>4 DEF UserReaches, LifecycleInv, OrderlyInv

LEMMA DeleteEventsKeeps ==
  ASSUME LifecycleInv, DeleteEvents
  PROVE  LifecycleInv'
<1>1. PICK k \in 1..24 : /\ UserStands(k) /\ UserOp(k) = "delevents"
                        /\ Tail(todo["user"]) = UserProgram(AfterUser(k))
  BY UserAt DEF DeleteEvents
<1>2. k = 7 /\ AfterUser(k) = 8
  BY <1>1 DEF UserOp, AfterUser
<1>3. todo["user"] = UserProgram(7) /\ Run("user", UserProgram(8))
  BY <1>1, <1>2 DEF DeleteEvents, Continue, UserStands
<1>4. UNCHANGED <<registry, memory, list, guard, subject, listBy, closed, loop, orderly>>
  BY DEF DeleteEvents, rest
<1> DEFINE n == Node("user")
           c == [cell[n] EXCEPT !.connect = FALSE, !.reader = FALSE, !.resolved = FALSE]
<1>5. n \in Nodes => c \in Cells
  <2>1. ASSUME NEW x \in Cells
        PROVE  [x EXCEPT !.connect = FALSE, !.reader = FALSE, !.resolved = FALSE] \in Cells
    BY DEF Cells
  <2> QED
    BY <2>1, TypesAre
<1>6. cell' = [cell EXCEPT ![n] = c]
  BY DEF DeleteEvents
<1>7. OnlyAt(n) /\ (n \in Nodes => cell'[n] = c)
  BY <1>5, <1>6, CellSet, TypesAre
<1>8. n \in Nodes => Calms(n) /\ cell'[n].destroy = cell[n].destroy
  <2>1. n \in Nodes => cell[n] \in Cells
    BY TypesAre
  <2> QED
    BY <1>7, <2>1 DEF Calms, Cells
<1>9. todo'["event"] = todo["event"]
  BY <1>3, RunIs, TypesAre DEF Threads
<1> HIDE DEF n, c
<1>10. UserReaches(8)
  BY <1>1, <1>2, <1>4, <1>7, <1>8, <1>9, CalmReaches
<1> QED
  BY <1>3, <1>4, <1>7, <1>8, <1>10, UserCalms

LEMMA CloseKeeps ==
  ASSUME LifecycleInv, Close("user")
  PROVE  LifecycleInv'
<1>1. PICK k \in 1..24 : /\ UserStands(k) /\ UserOp(k) = "close"
                        /\ Tail(todo["user"]) = UserProgram(AfterUser(k))
  BY UserAt DEF Close
<1>2. k \in {12, 22} /\ AfterUser(k) = k + 1
  BY <1>1 DEF UserOp, AfterUser
<1>3. todo["user"] = UserProgram(k) /\ Run("user", UserProgram(k + 1))
  BY <1>1, <1>2 DEF Close, Continue, UserStands
<1>4. UNCHANGED <<registry, memory, list, guard, subject, listBy, closed, loop, orderly>>
  BY DEF Close, rest
<1> DEFINE n == Node("user")
           c == [cell[n] EXCEPT !.launch = FALSE, !.connect = FALSE, !.reader = FALSE,
                                !.resolved = FALSE]
<1>5. n \in Nodes => c \in Cells
  <2>1. ASSUME NEW x \in Cells
        PROVE  [x EXCEPT !.launch = FALSE, !.connect = FALSE, !.reader = FALSE,
                         !.resolved = FALSE] \in Cells
    BY DEF Cells
  <2> QED
    BY <2>1, TypesAre
<1>6. cell' = [cell EXCEPT ![n] = c]
  BY DEF Close
<1>7. OnlyAt(n) /\ (n \in Nodes => cell'[n] = c)
  BY <1>5, <1>6, CellSet, TypesAre
<1>8. n \in Nodes => /\ Calms(n) /\ cell'[n].destroy = cell[n].destroy
                     /\ ~cell'[n].launch
  <2>1. n \in Nodes => cell[n] \in Cells
    BY TypesAre
  <2> QED
    BY <1>7, <2>1 DEF Calms, Cells
<1>9. todo'["event"] = todo["event"]
  BY <1>3, RunIs, TypesAre DEF Threads
<1>10. UserReaches(k + 1)
  <2>1. CASE k = 12
    <3>1. UserReaches(13)
      BY <1>1, <1>4, <1>7, <1>8, <1>9, <2>1, CalmReaches
    <3> QED
      BY <2>1, <3>1
  <2>2. CASE k = 22
    <3>1. UserReaches(23)
      BY <1>1, <1>4, <1>7, <1>8, <1>9, <2>2, CalmReaches
    <3> QED
      BY <2>2, <3>1
  <2> QED
    BY <1>2, <2>1, <2>2
<1> HIDE DEF n, c
<1>11. k \in 0..24 /\ k + 1 \in 0..24
  BY <1>2
<1> QED
  BY <1>3, <1>4, <1>7, <1>8, <1>10, <1>11, UserCalms

\* A node that was not started, or got its Close, and that no callback is at.
LEMMA ReleasedIsSpent ==
  ASSUME LifecycleInv, NEW k \in 7..14, UserStands(k)
  PROVE  Spent(Node("user"))
<1> DEFINE n == Node("user")
<1> SUFFICES ASSUME NEW i \in 0..19, orderly, NodeInv(n, i)
             PROVE  Ended(n, i) /\ ~Busy(n)
  BY DEF Spent
<1>1. /\ ~Busy(n) /\ n \in Nodes
      /\ cell[n].status = "Created" \/ nodes[n].uuid \in closed
  BY TypesAre DEF UserStands, Releases, Allocated
<1>2. Fresh(n)
  BY <1>1 DEF LifecycleInv, SharedInv
<1> QED
  BY <1>1, <1>2 DEF Fresh, Untouched, NodeInv, Ended, Answering

LEMMA DestroyedKeeps ==
  ASSUME LifecycleInv, Destroyed
  PROVE  LifecycleInv'
<1>1. PICK k \in 1..24 : /\ UserStands(k) /\ UserOp(k) = "destroyed"
                        /\ Tail(todo["user"]) = UserProgram(AfterUser(k))
  BY UserAt DEF Destroyed
<1>2. k = 9 /\ AfterUser(k) = 10
  BY <1>1 DEF UserOp, AfterUser
<1>3. todo["user"] = UserProgram(9) /\ Run("user", UserProgram(10))
  BY <1>1, <1>2 DEF Destroyed, Continue, UserStands
<1>4. UNCHANGED <<registry, memory, list, guard, subject, listBy, closed, loop, orderly>>
  BY DEF Destroyed, rest
<1> DEFINE n == Node("user")
<1>5. OnlyAt(n) /\ (n \in Nodes => Calms(n))
  <2>1. "destroy" \in CellFields /\ TRUE \in FieldType("destroy") /\ Set(n, "destroy", TRUE)
    BY DEF CellFields, FieldType, Destroyed
  <2>2. OnlyAt(n) /\ (n \in Nodes => Becomes(n, "destroy", TRUE))
    BY <2>1, SetIs, TypesAre
  <2> QED
    BY <2>2 DEF Becomes, Calms, CellFields
<1>6. todo'["event"] = todo["event"]
  BY <1>3, RunIs, TypesAre DEF Threads
<1>7. UserReaches(10)
  BY <1>1, <1>2, <1>4, <1>5, <1>6, CalmReaches
<1>8. Spent(n)
  BY <1>1, <1>2, ReleasedIsSpent
<1> HIDE DEF n
<1> QED
  BY <1>3, <1>4, <1>5, <1>7, <1>8, UserCalms

LEMMA TellResolverKeeps ==
  ASSUME LifecycleInv, TellResolver
  PROVE  LifecycleInv'
<1>1. PICK k \in 1..24 : /\ UserStands(k) /\ UserOp(k) = "resolver"
                        /\ Tail(todo["user"]) = UserProgram(AfterUser(k))
  BY UserAt DEF TellResolver
<1>2. k = 5 /\ AfterUser(k) = 6
  BY <1>1 DEF UserOp, AfterUser
<1> DEFINE n == Node("user")
<1>3. \/ Run("user", UserProgram(5))
      \/ Run("user", UserProgram(6)) /\ ~cell[n].dns
  <2>1. CASE cell[n].dns
    <3>1. todo' = todo /\ todo["user"] = UserProgram(5)
      BY <1>1, <1>2, <2>1 DEF TellResolver, UserStands
    <3>2. [todo EXCEPT !["user"] = todo["user"]] = todo
      BY DEF LifecycleInv, SharedInv, Typed, Threads
    <3> QED
      BY <3>1, <3>2 DEF Run
  <2>2. CASE ~cell[n].dns
    BY <1>1, <1>2, <2>2 DEF TellResolver, Continue
  <2> QED
    BY <2>1, <2>2
<1>4. UNCHANGED <<registry, memory, list, guard, subject, listBy, closed, loop, orderly>>
  BY DEF TellResolver, rest
<1>5. OnlyAt(n) /\ (n \in Nodes => Calms(n) /\ cell'[n].destroy = cell[n].destroy)
  <2>1. CASE n \in Nodes
    <3>1. cell[n].dns \in BOOLEAN
      BY <2>1, TypesAre DEF Cells
    <3>2. "dnsExit" \in CellFields /\ cell[n].dns \in FieldType("dnsExit")
      BY <3>1 DEF CellFields, FieldType
    <3>3. Set(n, "dnsExit", cell[n].dns)
      BY DEF TellResolver
    <3>4. OnlyAt(n) /\ Becomes(n, "dnsExit", cell[n].dns)
      BY <2>1, <3>2, <3>3, SetIs, TypesAre
    <3> QED
      BY <3>4 DEF Becomes, Calms, CellFields
  <2>2. CASE n \notin Nodes
    BY <2>2, TypesAre DEF TellResolver, Set, OnlyAt
  <2> QED
    BY <2>1, <2>2
<1>6. todo'["event"] = todo["event"]
  BY <1>3, RunIs, TypesAre DEF Threads
<1>7. todo["user"] = UserProgram(5) /\ UserStands(5)
  BY <1>1, <1>2 DEF UserStands
<1>8. CASE Run("user", UserProgram(5))
  <2>1. UserReaches(5)
    BY <1>4, <1>5, <1>6, <1>7, CalmReaches
  <2> HIDE DEF n
  <2> QED
    BY <1>4, <1>5, <1>7, <1>8, <2>1, UserCalms
<1>9. CASE Run("user", UserProgram(6)) /\ ~cell[n].dns
  <2>1. UserReaches(6)
    BY <1>4, <1>5, <1>6, <1>7, <1>9, CalmReaches
  <2> HIDE DEF n
  <2> QED
    BY <1>4, <1>5, <1>7, <1>9, <2>1, UserCalms
<1> QED
  BY <1>3, <1>8, <1>9

(***************************************************************************)
(* Steps of the user that change the registry or the memory.               *)
(***************************************************************************)
LEMMA ExistKeeps ==
  ASSUME LifecycleInv, Exist("user")
  PROVE  LifecycleInv'
<1> DEFINE r == Request("user")
           n == requests[r]
<1>1. PICK k \in 1..24 : /\ UserStands(k) /\ UserOp(k) = "exist"
                        /\ Tail(todo["user"]) = UserProgram(AfterUser(k))
  BY UserAt DEF Exist
<1>2. k = 3 /\ AfterUser(k) = 0 /\ UserStands(3)
  BY <1>1 DEF UserOp, AfterUser
<1>3. todo["user"] = UserProgram(3) /\ r \in Requests
  BY <1>2 DEF UserStands, UserKnows
<1>4. UNCHANGED <<registry, memory, list, guard, subject, listBy, closed, loop, orderly>>
  BY DEF Exist, rest
<1>5. CASE RequestExists(r)
  <2>1. Perform("user", Releasing) /\ Set(n, "releasing", TRUE)
    BY <1>5 DEF Exist
  <2>2. Run("user", UserProgram(4))
    BY <1>1, <1>2, <2>1, UserPerforms DEF Perform
  <2>3. OnlyAt(n) /\ (n \in Nodes => Becomes(n, "releasing", TRUE))
    <3>1. "releasing" \in CellFields /\ TRUE \in FieldType("releasing")
      BY DEF CellFields, FieldType
    <3> QED
      BY <2>1, <3>1, SetIs, TypesAre
  <2>4. n \in Nodes => Calms(n) /\ cell'[n].destroy = cell[n].destroy
    BY <2>3 DEF Becomes, Calms, CellFields
  <2>5. todo'["event"] = todo["event"]
    BY <2>2, RunIs, TypesAre DEF Threads
  <2> HIDE DEF n
  <2>6. UserReaches(4)
    BY <1>2, <1>4, <2>3, <2>4, <2>5, CalmReaches
  <2> QED
    BY <1>3, <1>4, <2>2, <2>3, <2>4, <2>6, UserCalms
<1>6. CASE ~RequestExists(r)
  <2>1. Perform("user", <<"unguard">>) /\ UNCHANGED cell
    BY <1>6 DEF Exist
  <2>2. Run("user", UserProgram(15))
    BY <1>1, <1>2, <2>1, UserPerforms DEF Perform
  <2>3. ~orderly
    <3>1. ASSUME orderly PROVE FALSE
      <4>1. Registered(r)
        BY <1>2, <3>1 DEF UserStands, Releases
      <4> QED
        BY <1>6, <3>1, <4>1 DEF RequestExists, SameObject, Registered, LifecycleInv, OrderlyInv,
           SharedInv, Consistent, RegisteredIsAlive, MapsAgree
    <3> QED
      BY <3>1
  <2>4. UserReaches(15)
    BY <1>2, <1>4, <2>1, <2>3 DEF UserReaches, UserStands, UserKnows, Early, Untried, registry, memory
  <2> QED
    BY <1>3, <1>4, <2>1, <2>2, <2>4, TypesAre, UserQuiet
<1> QED
  BY <1>5, <1>6

\* The request leaves the registry, and nothing else changes.
LEMMA UserRemoves ==
  ASSUME LifecycleInv, NEW k \in 0..24, NEW j \in 0..24, UserMoves(k, j), UserReaches(j),
         Leave(Request("user")), Request("user") \in Requests, UNCHANGED cell
  PROVE  LifecycleInv'
<1>1. Consistent' /\ (orderly => RegisteredIsAlive')
  BY LeaveKeeps DEF LifecycleInv, SharedInv, OrderlyInv
<1>2. UNCHANGED memory
  BY DEF Leave
<1>3. todo'["event"] = todo["event"]
  BY RunIs, TypesAre DEF UserMoves, Threads
<1>4. Linked'
  BY <1>2, <1>3, LinkedKeeps DEF LifecycleInv, SharedInv, Consistent, UserMoves, Idle
<1>5. orderly => \A r \in list' : Allocated(r)'
  BY <1>2 DEF LifecycleInv, OrderlyInv, UserMoves, memory, Allocated
<1>6. UNCHANGED nodes
  BY <1>2 DEF memory
<1>7. \A n \in Nodes : UserLeaves(n)
  BY <1>6 DEF UserLeaves
<1> QED
  BY <1>1, <1>4, <1>5, <1>6, <1>7, UserKeeps

LEMMA RemoveItKeeps ==
  ASSUME LifecycleInv, RemoveIt("user")
  PROVE  LifecycleInv'
<1> DEFINE r == Request("user")
<1>1. PICK k \in 1..24 : /\ UserStands(k) /\ UserOp(k) = "remove"
                        /\ Tail(todo["user"]) = UserProgram(AfterUser(k))
  BY UserAt DEF RemoveIt
<1>2. \/ k = 10 /\ AfterUser(k) = 15
      \/ k = 20 /\ AfterUser(k) = 19
  BY <1>1 DEF UserOp, AfterUser
<1>3. todo["user"] = UserProgram(k) /\ r \in Requests
  BY <1>1, <1>2 DEF UserStands, UserKnows
<1>4. UNCHANGED <<memory, cell, list, guard, subject, listBy, closed, loop, orderly>>
  BY DEF RemoveIt, rest
<1>5. CASE Remove(r) /\ Perform("user", Destructor)
  <2>1. Leave(r) /\ Registered(r)
    BY <1>4, <1>5 DEF Leave, Remove
  <2>2. ~Registered(r)' /\ DOMAIN infoByRequest # {}
    <3>1. /\ infoByRequest' = Restrict(infoByRequest, DOMAIN infoByRequest \ {r})
          /\ r \in DOMAIN infoByRequest /\ r' = r
      BY <1>4, <1>5 DEF Remove, Registered, Request
    <3>2. DOMAIN infoByRequest' = DOMAIN infoByRequest \ {r}
      BY <3>1, RestrictIs
    <3> QED
      BY <3>1, <3>2 DEF Registered
  <2> DEFINE j == IF k = 10 THEN 11 ELSE 21
  <2>4. Run("user", UserProgram(j))
    BY <1>1, <1>2, <1>5, UserPerforms DEF Perform
  <2>5. made = made' /\ made <= made'
    BY <1>4, TypesAre DEF memory
  <2>6. UserMoves(k, j)
    BY <1>3, <1>4, <2>4, <2>5, TypesAre DEF UserMoves, Threads
  <2>7. todo'["event"] = todo["event"]
    BY <2>4, RunIs, TypesAre DEF Threads
  <2>8. UserReaches(j)
    <3>1. CASE k = 10
      <4>1. UserReaches(11)
        <5>1. UserKnows(11)'
          BY <1>1, <1>4, <3>1 DEF UserStands, UserKnows, Request, Node, Allocated, memory
        <5>2. ~orderly => ~Early(11)'
          BY <1>1, <2>2, <2>5, <3>1 DEF UserStands, Early, Untried
        <5>3. orderly => Releases(11)'
          <6>1. orderly => Releases(10)
            BY <1>1, <3>1 DEF UserStands
          <6>2. Busy(Node("user"))' <=> Busy(Node("user"))
            BY <1>4, <2>7 DEF Busy, Idle, Node
          <6> QED
            BY <1>4, <2>2, <6>1, <6>2 DEF Releases, Marked, Request, Node, Allocated, memory
        <5> QED
          BY <1>4, <5>1, <5>2, <5>3 DEF UserReaches, LifecycleInv, OrderlyInv
      <4> QED
        BY <3>1, <4>1
    <3>2. CASE k = 20
      <4>1. UserReaches(21)
        <5>1. UserKnows(21)'
          BY <1>1, <1>4, <3>2 DEF UserStands, UserKnows, Request, Node, Allocated, memory
        <5>2. ~orderly /\ ~Early(21)'
          BY <1>1, <2>2, <2>5, <3>2 DEF UserStands, Early, Untried
        <5> QED
          BY <5>1, <5>2 DEF UserReaches
      <4> QED
        BY <3>2, <4>1
    <3> QED
      BY <1>2, <3>1, <3>2
  <2>9. j \in 0..24 /\ k \in 0..24
    BY <1>2
  <2> HIDE DEF j
  <2> QED
    BY <1>3, <1>4, <2>1, <2>6, <2>8, <2>9, UserRemoves
<1>6. CASE ~Registered(r) /\ Continue("user") /\ UNCHANGED registry
  <2>1. ~orderly
    BY <1>1, <1>2, <1>6 DEF UserStands, Releases
  <2> DEFINE j == IF k = 10 THEN 15 ELSE 19
  <2>3. Run("user", UserProgram(j))
    <3>1. AfterUser(k) = j
      BY <1>2
    <3> QED
      BY <1>1, <1>6, <3>1 DEF Continue
  <2>4. UserReaches(j)
    BY <1>1, <1>2, <1>4, <1>6, <2>1 DEF UserReaches, UserStands, UserKnows, Early, Untried, registry, memory
  <2>5. j \in 0..24 /\ k \in 0..24
    BY <1>2
  <2> HIDE DEF j
  <2> QED
    BY <1>3, <1>4, <1>6, <2>3, <2>4, <2>5, TypesAre, UserQuiet
<1> QED
  BY <1>5, <1>6 DEF RemoveIt

\* delete: the pointers that are left point to what is left.
LEMMA FreeLinks ==
  ASSUME Consistent, Linked, Typed, NEW r \in Requests, Free(r), UNCHANGED cell,
         Idle("event") => Idle("event")', subject'["event"] = subject["event"]
  PROVE  Linked'
<1>1. /\ requests[r] \in Nodes /\ r # NoNode
      /\ nodes' = [nodes EXCEPT ![requests[r]] = Nothing]
      /\ requests' = [requests EXCEPT ![r] = NoNode]
      /\ requests \in [Requests -> Nodes \union {NoNode}] /\ nodes \in [Nodes -> Objects]
  BY RegistryAssumption DEF Free, Allocated, Consistent, RegistryTypeOK
<1>2. ASSUME NEW n \in Nodes, nodes'[n].request # NoNode PROVE requests'[nodes'[n].request] = n
  <2>1. n # requests[r] /\ nodes'[n] = nodes[n]
    BY <1>1, <1>2 DEF Nothing
  <2>2. requests[nodes[n].request] = n /\ nodes[n].request \in Requests
    BY <1>1, <1>2, <2>1 DEF Linked, Objects
  <2> QED
    BY <1>1, <2>1, <2>2
<1>3. ASSUME NEW q \in Requests, Allocated(q)'
      PROVE  q # r /\ requests'[q] = requests[q] /\ nodes'[requests'[q]] = nodes[requests[q]]
  <2>1. q # r /\ requests'[q] = requests[q] /\ Allocated(q)
    BY <1>1, <1>3 DEF Allocated
  <2>2. requests[q] \in Nodes /\ requests[q] # requests[r]
    BY <1>1, <2>1 DEF Allocated, Consistent, Owned
  <2> QED
    BY <1>1, <2>1, <2>2
<1>4. \A q \in Requests : Allocated(q)' => Allocated(q) /\ requests'[q] = requests[q]
  BY <1>3 DEF Allocated
<1>5. \A q \in Requests : Allocated(q)' /\ cell'[requests'[q]].status = "Created" =>
        nodes'[requests'[q]].request = q
  BY <1>3, <1>4 DEF Linked
<1>6. (~Idle("event") /\ Request("event") \in Requests /\ Allocated(Request("event")) =>
        requests[Request("event")] = Node("event"))'
  BY <1>4 DEF Linked, Idle, Request, Node
<1> QED
  BY <1>2, <1>5, <1>6 DEF Linked

\* The destructor frees its request when nothing is left to follow the pointer.
LEMMA UserFrees ==
  ASSUME LifecycleInv, NEW k \in {14, 24}, NEW j \in {15, 19}, UserStands(k), UserMoves(k, j),
         UserReaches(j), Free(Request("user")),
         UNCHANGED <<registry, cell, list, listBy, subject>>
  PROVE  LifecycleInv'
<1>1. PICK r \in Requests, n \in Nodes :
        r = Request("user") /\ n = Node("user") /\ requests[r] = n /\ ~cell[n].launch
  BY TypesAre DEF UserStands, UserKnows, Free, Allocated
<1>2. Consistent'
  BY <1>1, FreeKeeps DEF LifecycleInv, SharedInv
<1>3. orderly => k = 14 /\ Releases(14)
  BY DEF UserStands
<1>4. orderly => RegisteredIsAlive'
  <2>1. orderly => ~Registered(r) /\ RegisteredIsAlive
    BY <1>1, <1>3 DEF Releases, LifecycleInv, OrderlyInv
  <2> QED
    BY <1>1, <2>1, FreeKeeps DEF LifecycleInv, SharedInv
<1>5. /\ todo'["event"] = todo["event"] /\ todo'["dns"] = todo["dns"]
      /\ subject'["event"] = subject["event"] /\ subject'["dns"] = subject["dns"]
  BY RunIs, TypesAre DEF UserMoves, Threads
<1>6. Linked'
  BY <1>1, <1>5, FreeLinks DEF LifecycleInv, SharedInv, Idle
<1>7. /\ nodes' = [nodes EXCEPT ![n] = Nothing] /\ requests' = [requests EXCEPT ![r] = NoNode]
      /\ nodes'[n] = Nothing
  BY <1>1, TypesAre DEF Free
<1>8. orderly => \A q \in list' : Allocated(q)'
  BY <1>1, <1>3, <1>7 DEF LifecycleInv, OrderlyInv, Releases, Allocated
<1>9. orderly /\ ~Idle("event") => /\ nodes'[Node("event")] = nodes[Node("event")]
                                   /\ cell'[Node("event")].inside = cell[Node("event")].inside
  BY <1>1, <1>3, <1>7, TypesAre DEF Releases, Busy
<1>10. UserLeaves(n)
  <2>1. Busy(n)' <=> Busy(n)
    BY <1>5 DEF Busy, Idle, Node
  <2>2. Resolving(n)' <=> Resolving(n)
    BY <1>5 DEF Resolving, Idle, Node
  <2>3. Fresh(n)'
    BY <1>1, <2>1, <2>2 DEF Fresh, Untouched, LifecycleInv, SharedInv
  <2>4. ASSUME NEW i \in 0..19, orderly, EventInv(i), NodeInv(n, i) PROVE NodeInv(n, i)'
    <3>1. Ended(n, i) /\ ~Busy(n) /\ ~cell[n].dns
      <4>1. Spent(n)
        BY <1>1, <1>3, <2>4, ReleasedIsSpent
      <4> QED
        BY <1>1, <1>3, <2>4, <4>1 DEF Spent, Releases
    <3>2. Untouched(n)
      BY <2>4, <3>1 DEF Ended, NodeInv, Untouched
    <3>3. Untouched(n)' /\ ~Resolving(n)' /\ ~Busy(n)' /\ ~Answering(n)'
      BY <2>1, <2>2, <3>2 DEF Untouched, Answering
    <3>4. nodes'[n].uuid = 0 /\ 0 \notin closed' /\ closed' = closed
      BY <1>7 DEF Nothing, UserMoves, LifecycleInv, SharedInv, Typed, LifecycleTypeOK
    <3>5. Ended(n, i)'
      BY <3>3 DEF Ended, Untouched
    <3>6. Exclusive(n, i)'
      BY <3>3 DEF Exclusive, Untouched
    <3> QED
      BY <2>4, <3>3, <3>4, <3>5, <3>6 DEF NodeInv
  <2> QED
    BY <2>3, <2>4 DEF UserLeaves
<1>11. \A m \in Nodes : UserLeaves(m)
  <2> TAKE m \in Nodes
  <2>1. m # n => nodes'[m] = nodes[m]
    BY <1>7, TypesAre
  <2> QED
    BY <1>10, <2>1 DEF UserLeaves
<1>12. j \in 0..24 /\ k \in 0..24
  OBVIOUS
<1> QED
  BY <1>2, <1>4, <1>6, <1>8, <1>9, <1>11, <1>12, UserKeeps

LEMMA FreeItKeeps ==
  ASSUME LifecycleInv, FreeIt("user")
  PROVE  LifecycleInv'
<1> DEFINE r == Request("user")
<1>1. PICK k \in 1..24 : /\ UserStands(k) /\ UserOp(k) = "free"
                        /\ Tail(todo["user"]) = UserProgram(AfterUser(k))
  BY UserAt DEF FreeIt
<1>2. \/ k = 14 /\ AfterUser(k) = 15
      \/ k = 24 /\ AfterUser(k) = 19
  BY <1>1 DEF UserOp, AfterUser
<1> DEFINE j == AfterUser(k)
<1>3. todo["user"] = UserProgram(k) /\ Run("user", UserProgram(j))
  BY <1>1 DEF UserStands, FreeIt, Continue
<1>4. UNCHANGED <<registry, cell, list, guard, subject, listBy, closed, loop, orderly>>
  BY DEF FreeIt, rest
<1>5. ~orderly => ~Early(j)' \/ Untried'
  <2>1. made' = made
    BY DEF FreeIt, Free, memory
  <2> QED
    BY <1>1, <1>2, <1>4, <2>1 DEF UserStands, Early, Untried, registry
<1>6. UserKnows(j)'
  BY <1>2 DEF UserKnows
<1>7. j \in {15, 19} /\ k \in {14, 24} /\ (j = 15 <=> k = 14)
  BY <1>2
<1>8. CASE Free(r)
  <2>1. UserMoves(k, j)
    <3>1. made <= made'
      BY <1>8, TypesAre DEF Free
    <3> QED
      BY <1>3, <1>4, <3>1, TypesAre DEF UserMoves, Threads
  <2>2. ASSUME orderly PROVE Releases(15)' /\ k = 14
    <3>1. k = 14 /\ Releases(14)
      BY <1>1, <1>2, <2>2 DEF UserStands
    <3>2. /\ r \in Requests /\ requests[r] = Node("user") /\ Node("user") \in Nodes
          /\ nodes[Node("user")].uuid > 0
          /\ nodes[Node("user")].uuid = subject["user"].uuid
      BY <1>8, <3>1, TypesAre DEF Releases, Free, Allocated, LifecycleInv, SharedInv, Consistent, Owned
    <3>3. nodes'[Node("user")] = Nothing /\ \A m \in Nodes : m # Node("user") => nodes'[m] = nodes[m]
      BY <1>8, <3>2, TypesAre DEF Free
    <3>4. nodes'[Node("user")].uuid = 0
      BY <3>3 DEF Nothing
    <3>5. Marked(15)'
      BY <1>4, <3>1, <3>3, <3>4 DEF Releases, Marked, Node
    <3> QED
      BY <1>4, <3>1, <3>2, <3>4, <3>5 DEF Releases, Node
  <2>3. UserReaches(j)
    BY <1>4, <1>5, <1>6, <1>7, <2>2 DEF UserReaches, LifecycleInv, OrderlyInv
  <2> HIDE DEF j
  <2> QED
    BY <1>1, <1>4, <1>7, <1>8, <2>1, <2>3, UserFrees
<1>9. CASE ~Allocated(r) /\ UNCHANGED memory
  <2>1. ~orderly
    BY <1>1, <1>2, <1>9 DEF UserStands, Releases
  <2>2. UserReaches(j)
    BY <1>4, <1>5, <1>6, <1>7, <2>1 DEF UserReaches
  <2>3. j \in 0..24 /\ k \in 0..24
    BY <1>7
  <2> HIDE DEF j
  <2> QED
    BY <1>3, <1>4, <1>9, <2>2, <2>3, TypesAre, UserQuiet
<1> QED
  BY <1>8, <1>9 DEF FreeIt

\* An object that was made has a uuid.
LEMMA MadeIsCounted ==
  ASSUME LifecycleInv, NEW r \in Requests, Allocated(r)
  PROVE  /\ requests[r] \in Nodes /\ nodes[requests[r]].uuid > 0
         /\ made \in Nat /\ made # 0
<1>1. requests[r] \in Nodes /\ nodes[requests[r]].uuid > 0 /\ nodes[requests[r]].uuid <= made
  BY TypesAre DEF Allocated, LifecycleInv, SharedInv, Consistent, Owned, Drawn
<1>2. nodes[requests[r]].uuid \in Int /\ made \in Nat
  BY <1>1, TypesAre DEF Objects
<1> QED
  BY <1>1, <1>2

\* The request was made and is not registered: nothing refuses it.
LEMMA EnterRequestKeeps ==
  ASSUME LifecycleInv, EnterRequest
  PROVE  LifecycleInv' /\ Enter(Request("user"), client)
<1>1. PICK r \in Requests : r = Request("user")
  <2>1. PICK k \in 1..24 : UserStands(k) /\ UserOp(k) = "enter"
    BY UserAt DEF EnterRequest
  <2>2. k = 1
    BY <2>1 DEF UserOp
  <2> QED
    BY <2>1, <2>2 DEF UserStands, UserKnows
<1>2. UserStands(1) /\ Tail(todo["user"]) = UserProgram(0)
  <2>1. PICK k \in 1..24 : /\ UserStands(k) /\ UserOp(k) = "enter"
                          /\ Tail(todo["user"]) = UserProgram(AfterUser(k))
    BY UserAt DEF EnterRequest
  <2>2. k = 1 /\ AfterUser(k) = 0
    BY <2>1 DEF UserOp, AfterUser
  <2> QED
    BY <2>1, <2>2
<1>3. /\ todo["user"] = UserProgram(1) /\ Allocated(r) /\ ~Registered(r)
      /\ nodes[requests[r]].request = r
  BY <1>1, <1>2 DEF UserStands, UserKnows, LifecycleInv, SharedInv, Linked
<1>4. Add(r, client) /\ Run("user", UserProgram(0))
  BY <1>1, <1>2, <1>3 DEF EnterRequest, MayAdd, Continue
<1>5. UNCHANGED <<memory, cell, list, guard, subject, listBy, closed, loop, orderly>>
  BY DEF EnterRequest, rest
<1>6. Enter(r, client)
  BY <1>3, <1>4, <1>5 DEF Enter
<1>7. RInv
  <2>1. ~orderly => DOMAIN infoByRequest = {}
    BY <1>2 DEF UserStands, Early, Untried
  <2>2. RegisteredIsAlive
    BY <2>1 DEF RegisteredIsAlive, LifecycleInv, OrderlyInv
  <2> QED
    BY <2>2 DEF RInv, LifecycleInv, SharedInv
<1>8. RInv'
  BY <1>6, <1>7, EnterKeeps, LifecycleAssumption
<1>9. todo'["event"] = todo["event"]
  BY <1>4, RunIs, TypesAre DEF Threads
<1>10. Linked'
  BY <1>5, <1>9, LinkedKeeps DEF LifecycleInv, SharedInv, Consistent, Idle
<1>11. made \in Nat /\ made # 0 /\ made' = made
  BY <1>3, <1>5, MadeIsCounted DEF memory
<1>12. UserMoves(1, 0)
  BY <1>3, <1>4, <1>5, <1>11, TypesAre DEF UserMoves, Threads
<1>13. UserReaches(0)
  <2>1. UserKnows(0)' /\ ~Early(0)'
    BY <1>11 DEF UserKnows, Early
  <2>2. orderly => Releases(0)'
    BY <1>2, <1>5 DEF UserStands, Releases, Marked, memory
  <2> QED
    BY <1>5, <2>1, <2>2 DEF UserReaches, LifecycleInv, OrderlyInv
<1>14. orderly => \A q \in list' : Allocated(q)'
  BY <1>5 DEF LifecycleInv, OrderlyInv, memory, Allocated
<1>15. UNCHANGED nodes
  BY <1>5 DEF memory
<1>16. \A n \in Nodes : UserLeaves(n)
  BY <1>5, <1>15 DEF UserLeaves
<1>17. LifecycleInv'
  BY <1>5, <1>8, <1>10, <1>12, <1>13, <1>14, <1>15, <1>16, UserKeeps DEF RInv
<1> QED
  BY <1>1, <1>6, <1>17

\* What new returns was free, and no thread is at it.
LEMMA FreshMemory ==
  ASSUME LifecycleInv, NEW r \in Requests, NEW n \in Nodes, orderly \/ made = 0,
         Allocate(r, n), UserStands(0)
  PROVE  /\ Untouched(n) /\ ~Registered(r)
         /\ ~Idle("event") => Request("event") # r /\ Node("event") # n
<1>1. nodes[n].uuid = 0 /\ ~Allocated(r)
  BY DEF Allocate, Nothing
<1>2. ~Idle("event") => Node("event") \in Nodes
  BY DEF LifecycleInv, SharedInv, Typed
<1>3. CASE orderly
  <2>1. PICK i \in 0..19 : EventInv(i) /\ \A m \in Nodes : NodeInv(m, i)
    BY <1>3 DEF LifecycleInv, OrderlyInv
  <2>2. Untouched(n)
    BY <1>1, <2>1 DEF NodeInv
  <2>3. ~Registered(r)
    BY <1>1, <1>3 DEF LifecycleInv, OrderlyInv, RegisteredIsAlive, Registered
  <2>4. ASSUME ~Idle("event") PROVE Request("event") # r
    <3>1. i # 0
      <4>1. EventProgram(0) = <<>>
        BY DEF EventProgram
      <4> QED
        BY <2>1, <2>4, <4>1 DEF EventInv, Idle
    <3>2. nodes[Node("event")].uuid > 0 /\ Request("event") = nodes[Node("event")].request
      BY <2>1, <3>1 DEF EventInv
    <3>3. Request("event") # NoNode
      BY <1>2, <2>1, <2>4, <3>2 DEF NodeInv
    <3>4. requests[Request("event")] = Node("event")
      BY <1>2, <2>4, <3>2, <3>3 DEF LifecycleInv, SharedInv, Linked
    <3> QED
      BY <1>1, <1>2, <2>4, <3>4, RegistryAssumption DEF Allocated
  <2> QED
    BY <2>2, <2>3, <2>4 DEF Untouched, Busy
<1>4. CASE ~orderly
  <2>1. Untried
    BY <1>4 DEF UserStands, Early
  <2>2. \A m \in Nodes : Untouched(m)
    BY <2>1 DEF Untried, LifecycleInv, SharedInv, Fresh
  <2>3. Idle("event")
    BY <1>2, <2>2 DEF Untouched, Busy
  <2> QED
    BY <2>1, <2>2, <2>3 DEF Untried, Registered
<1> QED
  BY <1>3, <1>4

LEMMA CreateKeeps ==
  ASSUME LifecycleInv, NEW r \in Requests, NEW n \in Nodes, Create(r, n)
  PROVE  LifecycleInv' /\ New(r, n)
<1>1. UserStands(0)
  BY UserIdle DEF Create
<1>2. /\ Allocate(r, n) /\ cell' = [cell EXCEPT ![n] = NewCell]
      /\ UNCHANGED <<registry, list, guard, listBy, closed, loop, orderly>>
  BY DEF Create, rest
<1>3. New(r, n)
  BY <1>2 DEF New
<1>4. Consistent' /\ (orderly => RegisteredIsAlive')
  BY <1>3, NewKeeps DEF LifecycleInv, SharedInv, OrderlyInv
<1>5. /\ Untouched(n) /\ ~Registered(r)
      /\ ~Idle("event") => Request("event") # r /\ Node("event") # n
  BY <1>1, <1>2, FreshMemory DEF Create, MayLie
<1>6. /\ nodes[n] = Nothing /\ requests[r] = NoNode /\ r # NoNode /\ n # NoNode
      /\ requests' = [requests EXCEPT ![r] = n]
      /\ nodes' = [nodes EXCEPT ![n] = [uuid |-> made + 1, request |-> r]]
      /\ made' = made + 1 /\ made \in Nat
  BY <1>2, TypesAre, RegistryAssumption DEF Allocate, Allocated
<1>7. /\ subject' = [subject EXCEPT !["user"] =
                       [request |-> r, node |-> n, uuid |-> made + 1, kind |-> "call"]]
      /\ Run("user", UserProgram(1))
  BY DEF Create, Begin, UserProgram
<1>8. /\ DOMAIN subject' = Threads
      /\ subject'["event"] = subject["event"] /\ subject'["dns"] = subject["dns"]
      /\ subject'["user"].node = n /\ subject'["user"].kind = "call"
      /\ subject'["user"].request = r
  BY <1>7, TypesAre DEF Threads
<1>9. OnlyAt(n) /\ cell'[n] = NewCell
  <2>1. NewCell \in Cells
    BY DEF NewCell, Cells, Statuses, Exits
  <2> QED
    BY <1>2, <2>1, CellSet, TypesAre
<1>10. todo'["event"] = todo["event"] /\ todo'["dns"] = todo["dns"]
  BY <1>7, RunIs, TypesAre DEF Threads
<1>11. UserMoves(0, 1)
  BY <1>1, <1>2, <1>6, <1>7, <1>8, <1>9, TypesAre DEF UserMoves, Kinds, UserStands, OnlyAt
<1>12. /\ requests'[r] = n /\ nodes'[n].request = r /\ nodes'[n].uuid = made + 1
       /\ \A q \in Requests : q # r => requests'[q] = requests[q]
       /\ \A m \in Nodes : m # n => nodes'[m] = nodes[m]
  BY <1>6, TypesAre
<1>13. \A q \in Requests : requests[q] # n
  <2>1. \A q \in Requests : Allocated(q) => nodes[requests[q]].uuid > 0
    BY DEF LifecycleInv, SharedInv, Consistent, Owned
  <2> QED
    BY <1>6, <2>1 DEF Nothing, Allocated
<1>14. Linked'
  <2>1. ASSUME NEW m \in Nodes, nodes'[m].request # NoNode
        PROVE  requests'[nodes'[m].request] = m
    <3>1. CASE m = n
      BY <1>12, <3>1
    <3>2. CASE m # n
      <4>1. nodes[m].request \in Requests /\ requests[nodes[m].request] = m /\ m # NoNode
        BY <1>12, <2>1, <3>2, TypesAre, RegistryAssumption DEF LifecycleInv, SharedInv, Linked, Objects
      <4> QED
        BY <1>6, <1>12, <3>2, <4>1
    <3> QED
      BY <3>1, <3>2
  <2>2. ASSUME NEW q \in Requests, Allocated(q)', cell'[requests'[q]].status = "Created"
        PROVE  nodes'[requests'[q]].request = q
    <3>1. CASE q = r
      BY <1>12, <3>1
    <3>2. CASE q # r
      <4>1. Allocated(q) /\ requests'[q] = requests[q] /\ requests[q] # n /\ requests[q] \in Nodes
        BY <1>12, <1>13, <2>2, <3>2, TypesAre DEF Allocated
      <4>2. cell'[requests[q]] = cell[requests[q]] /\ nodes'[requests[q]] = nodes[requests[q]]
        BY <1>9, <1>12, <4>1 DEF OnlyAt
      <4> QED
        BY <2>2, <4>1, <4>2 DEF LifecycleInv, SharedInv, Linked
    <3> QED
      BY <3>1, <3>2
  <2>3. (~Idle("event") /\ Request("event") \in Requests /\ Allocated(Request("event")) =>
          requests[Request("event")] = Node("event"))'
    BY <1>5, <1>8, <1>10, <1>12 DEF LifecycleInv, SharedInv, Linked, Idle, Request, Node, Allocated
  <2> QED
    BY <2>1, <2>2, <2>3 DEF Linked
<1>15. UserLeaves(n)
  <2>1. /\ ~Busy(n)' /\ ~Resolving(n)'
    BY <1>5, <1>8, <1>10 DEF Untouched, Busy, Resolving, Idle, Node
  <2>2. Untouched(n)' /\ ~Answering(n)'
    BY <1>9, <2>1 DEF Untouched, NewCell, Answering
  <2>3. Fresh(n)'
    BY <1>9, <2>2 DEF Fresh, NewCell
  <2>4. ASSUME NEW i \in 0..19 PROVE NodeInv(n, i)'
    <3>1. nodes'[n].uuid > 0 /\ nodes'[n].request # NoNode /\ nodes'[n].uuid \notin closed'
      <4>1. \A u \in closed : u <= made /\ u \in Nat
        BY RegistryAssumption DEF LifecycleInv, SharedInv, Typed, LifecycleTypeOK
      <4> QED
        BY <1>2, <1>6, <1>12, <4>1
    <3>2. Exclusive(n, i)'
      BY <2>2 DEF Exclusive, Untouched
    <3>3. cell'[n].exit # "Cancel" /\ ~cell'[n].destroy
      BY <1>9 DEF NewCell
    <3>4. nodes'[n].uuid # 0
      BY <1>6, <1>12
    <3> QED
      BY <2>1, <3>1, <3>2, <3>3, <3>4 DEF NodeInv
  <2> QED
    BY <2>3, <2>4 DEF UserLeaves
<1>16. \A m \in Nodes : UserLeaves(m)
  BY <1>9, <1>12, <1>15 DEF UserLeaves, OnlyAt
<1>17. UserReaches(1)
  <2>1. UserKnows(1)'
    BY <1>2, <1>5, <1>6, <1>8, <1>9, <1>12
    DEF UserKnows, Request, Node, Allocated, NewCell, Registered, registry
  <2>2. ~orderly => Untried'
    <3>1. ~orderly => Untried
      BY <1>1 DEF UserStands, Early, Create, MayLie
    <3> QED
      BY <1>2, <1>9, <3>1 DEF Untried, OnlyAt, NewCell, registry
  <2>3. orderly => Releases(1)'
    <3>1. orderly => Marked(0)
      BY <1>1 DEF UserStands, Releases
    <3>2. orderly => Marked(1)'
      BY <1>9, <1>12, <3>1 DEF Marked, OnlyAt, NewCell
    <3> QED
      BY <3>2 DEF Releases
  <2> QED
    BY <1>2, <2>1, <2>2, <2>3 DEF UserReaches, LifecycleInv, OrderlyInv
<1>18. orderly => \A q \in list' : Allocated(q)'
  BY <1>2, <1>6, <1>12, TypesAre DEF LifecycleInv, OrderlyInv, Allocated
<1>19. ~Idle("event") => /\ nodes'[Node("event")] = nodes[Node("event")]
                         /\ cell'[Node("event")].inside = cell[Node("event")].inside
  BY <1>5, <1>9, <1>12 DEF LifecycleInv, SharedInv, Typed, OnlyAt
<1>20. LifecycleInv'
  BY <1>4, <1>11, <1>14, <1>16, <1>17, <1>18, <1>19, UserKeeps
<1> QED
  BY <1>3, <1>20

\* A request of such a connection is started once: nothing is under way for its node yet.
LEMMA StartKeeps ==
  ASSUME LifecycleInv, troubles = {}, NEW r \in Requests, Start(r)
  PROVE  LifecycleInv'
<1>1. UserStands(0) /\ Allocated(r)
  BY UserIdle DEF Start
<1>2. PICK n \in Nodes : n = requests[r]
  BY <1>1, MadeIsCounted
<1>3. /\ UNCHANGED <<registry, memory, list, guard, todo, subject, listBy, closed, loop, orderly>>
      /\ cell[n].status = "Created"
      /\ cell' = [cell EXCEPT ![n] = [@ EXCEPT !.status = "Invoking", !.launch = TRUE]]
  BY <1>2 DEF Start
<1>4. Untouched(n) /\ nodes[n].request = r /\ r # NoNode /\ nodes[n].uuid > 0 /\ made # 0
  BY <1>1, <1>2, <1>3, MadeIsCounted, RegistryAssumption
  DEF LifecycleInv, SharedInv, Fresh, Linked
<1> DEFINE c == [cell[n] EXCEPT !.status = "Invoking", !.launch = TRUE]
<1>5. c \in Cells
  <2>1. ASSUME NEW x \in Cells PROVE [x EXCEPT !.status = "Invoking", !.launch = TRUE] \in Cells
    BY DEF Cells, Statuses
  <2> QED
    BY <2>1, TypesAre
<1>6. OnlyAt(n) /\ cell'[n] = c
  BY <1>3, <1>5, CellSet, TypesAre
<1>7. /\ cell'[n].status = "Invoking" /\ cell'[n].launch /\ cell'[n].connect = cell[n].connect
      /\ cell'[n].reader = cell[n].reader /\ cell'[n].resolved = cell[n].resolved
      /\ cell'[n].dns = cell[n].dns /\ cell'[n].inside = cell[n].inside
      /\ cell'[n].destroy = cell[n].destroy /\ cell'[n].exit = cell[n].exit
  <2>1. cell[n] \in Cells
    BY TypesAre
  <2> QED
    BY <1>6, <2>1 DEF Cells
<1> HIDE DEF c
<1>8. nodes' = nodes /\ made' = made /\ requests' = requests
  BY <1>3 DEF memory
<1>9. Run("user", UserProgram(0)) /\ todo["user"] = UserProgram(0)
  <2>1. [todo EXCEPT !["user"] = todo["user"]] = todo
    BY DEF LifecycleInv, SharedInv, Typed, Threads
  <2> QED
    BY <1>1, <1>3, <2>1 DEF Run, UserStands
<1>10. UserMoves(0, 0)
  BY <1>3, <1>6, <1>8, <1>9, TypesAre DEF UserMoves, OnlyAt, Threads
<1>11. ~Busy(n)' /\ ~Resolving(n)' /\ ~Answering(n)'
  BY <1>3, <1>4, <1>7 DEF Untouched, Busy, Resolving, Answering, Idle, Node
<1>12. UserLeaves(n)
  <2>1. Fresh(n)'
    BY <1>4, <1>7, <1>8, <1>11 DEF Fresh, Untouched
  <2>2. ASSUME NEW i \in 0..19, orderly, NodeInv(n, i) PROVE NodeInv(n, i)'
    <3>1. ~cell[n].destroy
      BY <1>1, <1>3, <1>4, <2>2 DEF UserStands, Releases, Marked
    <3>2. nodes'[n].uuid # 0 /\ nodes'[n].uuid > 0 /\ nodes'[n].request # NoNode
      BY <1>4, <1>8, TypesAre DEF Objects
    <3>3. nodes'[n].uuid \notin closed'
      BY <1>3, <1>8, <2>2 DEF NodeInv
    <3>4. Exclusive(n, i)'
      BY <1>4, <1>7, <1>11 DEF Exclusive, Untouched
    <3> QED
      BY <1>7, <1>11, <2>2, <3>1, <3>2, <3>3, <3>4 DEF NodeInv
  <2> QED
    BY <2>1, <2>2 DEF UserLeaves
<1>13. UserReaches(0)
  <2>1. UserKnows(0)' /\ ~Early(0)'
    BY <1>4, <1>8 DEF UserKnows, Early
  <2>2. orderly => Marked(0)'
    <3>1. orderly => Marked(0)
      BY <1>1 DEF UserStands, Releases
    <3> QED
      BY <1>6, <1>7, <1>8, <3>1 DEF Marked, OnlyAt
  <2>3. orderly => Releases(0)'
    BY <2>2 DEF Releases
  <2> QED
    BY <1>3, <2>1, <2>3 DEF UserReaches, LifecycleInv, OrderlyInv
<1>14. /\ cell'[n].inside = cell[n].inside
       /\ cell'[n].status = "Created" => cell[n].status = "Created"
       /\ OnlyAt(n) /\ 0 \in 0..24
       /\ UNCHANGED <<registry, memory>>
  BY <1>3, <1>6, <1>7
<1> QED
  BY <1>10, <1>12, <1>13, <1>14, UserSets

LEMMA ReleaseKeeps ==
  ASSUME LifecycleInv, NEW r \in Requests, Release(r)
  PROVE  LifecycleInv'
<1>1. UserStands(0) /\ Allocated(r) /\ (orderly => Ready(r))
  BY UserIdle DEF Release
<1>2. PICK n \in Nodes : n = requests[r]
  BY <1>1, MadeIsCounted
<1>3. UNCHANGED <<registry, memory, list, guard, listBy, closed, loop, orderly>>
  BY DEF Release, rest
<1>4. PICK j \in {0, 2} :
        /\ Run("user", UserProgram(j)) /\ (j = 2 => Registered(r))
        /\ subject' = [subject EXCEPT !["user"] = Subject(r, n, "call")]
  <2>1. CASE RequestBelongsTo(r, client)
    <3>1. Run("user", UserProgram(2))
      BY <2>1 DEF Release, Begin, UserProgram
    <3> QED
      BY <1>2, <2>1, <3>1 DEF Release, Begin, RequestBelongsTo
  <2>2. CASE ~RequestBelongsTo(r, client)
    <3>1. Run("user", UserProgram(0))
      BY <2>2 DEF Release, Begin, UserProgram
    <3> QED
      BY <1>2, <3>1 DEF Release, Begin
  <2> QED
    BY <2>1, <2>2
<1>5. /\ DOMAIN subject' = Threads
      /\ subject'["event"] = subject["event"] /\ subject'["dns"] = subject["dns"]
      /\ subject'["user"].request = r /\ subject'["user"].node = n
      /\ subject'["user"].uuid = nodes[n].uuid /\ subject'["user"].kind = "call"
  BY <1>4, TypesAre DEF Threads, Subject
<1>6. /\ OnlyAt(n)
      /\ Becomes(n, "exit", IF UNCHANGED cell THEN cell[n].exit ELSE "Cancel")
      /\ orderly => UNCHANGED cell
  <2>1. CASE UNCHANGED cell
    BY <2>1, TypesAre DEF OnlyAt, Becomes
  <2>2. CASE ~UNCHANGED cell
    <3>1. /\ Set(n, "exit", "Cancel") /\ cell[n].status \notin {"Created", "Closed"}
      BY <1>2, <2>2 DEF Release
    <3>2. "exit" \in CellFields /\ "Cancel" \in FieldType("exit")
      BY DEF CellFields, FieldType, Exits
    <3>3. OnlyAt(n) /\ Becomes(n, "exit", "Cancel")
      BY <3>1, <3>2, SetIs, TypesAre
    <3>4. ASSUME orderly PROVE FALSE
      <4>1. nodes[n].uuid \in closed
        BY <1>1, <1>2, <3>1, <3>4 DEF Ready
      <4>2. cell[n].status = "Closed"
        BY <3>4, <4>1 DEF LifecycleInv, OrderlyInv, NodeInv
      <4> QED
        BY <3>1, <4>2
    <3> QED
      BY <2>2, <3>3, <3>4
  <2> QED
    BY <2>1, <2>2
<1>7. /\ cell'[n].status = cell[n].status /\ cell'[n].inside = cell[n].inside
      /\ cell'[n].launch = cell[n].launch /\ cell'[n].connect = cell[n].connect
      /\ cell'[n].reader = cell[n].reader /\ cell'[n].resolved = cell[n].resolved
      /\ cell'[n].dns = cell[n].dns /\ cell'[n].destroy = cell[n].destroy
  BY <1>6 DEF Becomes, CellFields
<1>8. nodes' = nodes /\ made' = made /\ requests' = requests /\ infoByRequest' = infoByRequest
  BY <1>3 DEF memory, registry
<1>9. made # 0
  BY <1>1, MadeIsCounted
<1>10. UserMoves(0, j)
  BY <1>1, <1>3, <1>4, <1>5, <1>6, <1>8, TypesAre DEF UserMoves, OnlyAt, Kinds, UserStands
<1>11. todo'["event"] = todo["event"] /\ todo'["dns"] = todo["dns"]
  BY <1>4, RunIs, TypesAre DEF Threads
<1>12. UserLeaves(n)
  <2>1. Busy(n)' <=> Busy(n)
    BY <1>5, <1>11 DEF Busy, Idle, Node
  <2>2. Resolving(n)' <=> Resolving(n)
    BY <1>5, <1>11 DEF Resolving, Idle, Node
  <2>3. Fresh(n)'
    BY <1>7, <1>8, <2>1, <2>2 DEF Fresh, Untouched, LifecycleInv, SharedInv
  <2> QED
    BY <1>6, <1>8, <2>3 DEF UserLeaves
<1>13. UserReaches(j)
  <2>1. ~Early(j)' /\ UserKnows(j)'
    BY <1>1, <1>2, <1>5, <1>8, <1>9 DEF Early, UserKnows, Request, Node
  <2>2. ASSUME orderly PROVE Releases(j)'
    <3>1. Marked(0) /\ cell' = cell
      BY <1>1, <1>6, <2>2 DEF UserStands, Releases
    <3>2. Marked(j)'
      BY <1>8, <3>1 DEF Marked
    <3>3. j = 2 => Registered(r)
      BY <1>4
    <3>4. j \in {0, 2}
      OBVIOUS
    <3>5. CASE j = 0
      BY <3>2, <3>5 DEF Releases
    <3>6. CASE j = 2
      <4>1. /\ Request("user")' = r /\ Node("user")' = n /\ Allocated(r)' /\ Registered(r)'
            /\ cell'[n].status = "Created" \/ nodes'[n].uuid \in closed'
        BY <1>1, <1>2, <1>3, <1>5, <1>8, <2>2, <3>1, <3>3, <3>6
        DEF Ready, Request, Node, Registered, Allocated
      <4> QED
        BY <1>2, <1>5, <1>8, <3>2, <3>6, <4>1 DEF Releases
    <3> QED
      BY <3>4, <3>5, <3>6
  <2> QED
    BY <1>3, <2>1, <2>2 DEF UserReaches, LifecycleInv, OrderlyInv
<1>14. j \in 0..24 /\ 0 \in 0..24
  OBVIOUS
<1>15. /\ cell'[n].inside = cell[n].inside
       /\ cell'[n].status = "Created" => cell[n].status = "Created"
       /\ UNCHANGED <<registry, memory>>
  BY <1>3, <1>7
<1> QED
  BY <1>6, <1>10, <1>12, <1>13, <1>14, <1>15, UserSets

\* Every step of the user.
LEMMA UserStepKeeps ==
  ASSUME LifecycleInv, troubles = {}, UserStep
  PROVE  LifecycleInv'
BY TakeGuardKeeps, UnguardKeeps, ExistKeeps, WaitCallbackKeeps, RemoveItKeeps, CloseKeeps,
   UnlistKeeps, FreeItKeeps, EnterRequestKeeps, WaitInvokingKeeps, TellResolverKeeps,
   WaitResolverKeeps, DeleteEventsKeeps, DestroyedKeeps, SweepKeeps, DeleteByForceKeeps,
   BreakKeeps, JoinKeeps
DEF UserStep, ReleaseStep

LEMMA UserCallKeeps ==
  ASSUME LifecycleInv, troubles = {}, UserCall
  PROVE  LifecycleInv'
BY CreateKeeps, StartKeeps, ReleaseKeeps, ReleaseClientKeeps DEF UserCall


(***************************************************************************)
(* What the user knows stays when another thread takes a step at a node.   *)
(***************************************************************************)
\* The step of another thread at the node n, as far as the user is concerned.
Elsewhere(n) ==
  /\ DOMAIN todo' = Threads /\ todo'["user"] = todo["user"]
  /\ subject'["user"] = subject["user"]
  /\ orderly' = orderly /\ made' = made
  /\ \A r \in Requests : requests'[r] \in {requests[r], NoNode}
  /\ OnlyAt(n) /\ cell[n].status # "Created" /\ cell'[n].status # "Created"
  /\ cell'[n].launch => cell[n].launch
  /\ closed \subseteq closed'

\* In an orderly system: the objects stay, and after its Close nothing begins at the node.
Harmless(n) ==
  /\ UNCHANGED memory /\ DOMAIN infoByRequest' = DOMAIN infoByRequest
  /\ \A m \in Nodes : m # n /\ Busy(m)' => Busy(m)
  /\ list' \subseteq list \union {nodes[n].request}
  /\ nodes[n].uuid \in closed => /\ cell'[n].dns => cell[n].dns
                                 /\ Busy(n)' => Busy(n)
                                 /\ list' \subseteq list

LEMMA ReleaseUnharmed ==
  ASSUME LifecycleInv, orderly, NEW n \in Nodes, Elsewhere(n), Harmless(n), NEW k \in 2..14,
         Releases(k)
  PROVE  Releases(k)'
<1>1. PICK r \in Requests, u \in Nodes :
        /\ r = Request("user") /\ u = Node("user") /\ Allocated(r) /\ requests[r] = u
  BY TypesAre DEF Releases, Allocated
<1>2. /\ Request("user")' = r /\ Node("user")' = u /\ requests' = requests /\ nodes' = nodes
      /\ subject'["user"].uuid = subject["user"].uuid
  BY <1>1 DEF Elsewhere, Harmless, Request, Node, memory
<1>3. /\ nodes[u].uuid = subject["user"].uuid
      /\ cell[u].status = "Created" \/ nodes[u].uuid \in closed
      /\ k \in 2..10 <=> Registered(r)
      /\ k \in 6..14 => ~cell[u].dns
      /\ k \in 7..14 => ~Busy(u)
      /\ k = 14 => r \notin list
      /\ Marked(k)
  BY <1>1 DEF Releases
<1>4. u = n => nodes[n].uuid \in closed
  BY <1>3 DEF Elsewhere
<1>5. cell'[u].status = "Created" \/ nodes[u].uuid \in closed'
  BY <1>3, <1>4 DEF Elsewhere, OnlyAt
<1>6. k \in 6..14 => ~cell'[u].dns
  BY <1>3, <1>4 DEF Harmless, Elsewhere, OnlyAt
<1>7. k \in 7..14 => ~Busy(u)'
  BY <1>3, <1>4 DEF Harmless
<1>8. k = 14 => r \notin list'
  <2>1. CASE u = n
    BY <1>3, <1>4, <2>1 DEF Harmless
  <2>2. CASE u # n
    <3>1. nodes[n].request # r
      <4>1. r # NoNode
        BY RegistryAssumption
      <4> QED
        BY <1>1, <2>2, <4>1 DEF LifecycleInv, SharedInv, Linked
    <3> QED
      BY <1>3, <3>1 DEF Harmless
  <2> QED
    BY <2>1, <2>2
<1>9. Marked(k)'
  BY <1>1, <1>2, <1>3 DEF Marked, Elsewhere, OnlyAt
<1>10. Registered(r)' <=> Registered(r)
  BY DEF Harmless, Registered
<1>11. Allocated(r)' /\ requests'[r] = u
  BY <1>1, <1>2 DEF Allocated
<1> QED
  BY <1>2, <1>3, <1>5, <1>6, <1>7, <1>8, <1>9, <1>10, <1>11 DEF Releases

LEMMA UserUnmoved ==
  ASSUME LifecycleInv, NEW n \in Nodes, Elsewhere(n), orderly => Harmless(n)
  PROVE  UserInv'
<1>1. PICK k \in 0..24 : UserStands(k)
  BY DEF LifecycleInv, UserInv, UserStands
<1>2. UserKnows(k)'
  <2>1. CASE k = 1
    <3>1. orderly
      BY <1>1, <2>1 DEF UserStands, Early, Untried, Elsewhere
    <3>2. PICK r \in Requests : /\ r = Request("user") /\ Allocated(r) /\ ~Registered(r)
                                /\ cell[requests[r]].status = "Created"
                                /\ requests[r] = Node("user")
      BY <1>1, <2>1 DEF UserStands, UserKnows
    <3>3. requests[r] \in Nodes /\ requests[r] # n
      BY <3>2, TypesAre DEF Elsewhere, Allocated
    <3>4. requests' = requests /\ ~Registered(r)'
      BY <3>1, <3>2 DEF Harmless, memory, Registered
    <3>5. /\ Request("user")' = r /\ Node("user")' = Node("user")
          /\ cell'[requests[r]] = cell[requests[r]]
      BY <3>2, <3>3 DEF Elsewhere, OnlyAt, Request, Node
    <3> QED
      BY <2>1, <3>2, <3>4, <3>5 DEF UserKnows, Allocated
  <2>2. CASE k # 1
    <3>1. /\ Request("user")' = Request("user") /\ Node("user")' = Node("user")
          /\ \A m \in Nodes : cell'[m].launch => cell[m].launch
      BY DEF Elsewhere, OnlyAt, Request, Node
    <3>2. k \in 2..14 \/ k \in 20..24 => Request("user") \in Requests
      BY <1>1 DEF UserStands, UserKnows
    <3>3. k \in 2..14 \/ k \in 20..24 =>
            (Allocated(Request("user"))' => requests'[Request("user")] = Node("user"))
      BY <1>1, <3>1, <3>2 DEF UserStands, UserKnows, Elsewhere, Allocated
    <3>4. k \in {13, 14, 23, 24} /\ Node("user") \in Nodes => ~cell'[Node("user")].launch
      BY <1>1, <3>1 DEF UserStands, UserKnows
    <3> QED
      BY <2>2, <3>1, <3>2, <3>3, <3>4 DEF UserKnows
  <2> QED
    BY <2>1, <2>2
<1>3. ~orderly => ~Early(k)'
  BY <1>1 DEF UserStands, Early, Untried, Elsewhere
<1>4. ASSUME orderly PROVE k \in 0..18 /\ Releases(k)'
  <2>1. k \in 0..18 /\ Releases(k) /\ Harmless(n)
    BY <1>1, <1>4 DEF UserStands
  <2>2. CASE k \in 2..14
    BY <1>4, <2>1, <2>2, ReleaseUnharmed
  <2>3. CASE k \notin 2..14
    <3>1. Marked(k)' /\ nodes' = nodes /\ requests' = requests
      BY <2>1 DEF Releases, Marked, Harmless, Elsewhere, OnlyAt, memory, Node
    <3>2. Node("user")' = Node("user") /\ subject'["user"].uuid = subject["user"].uuid
      BY DEF Elsewhere, Node
    <3> QED
      BY <2>1, <2>3, <3>1, <3>2 DEF Releases, Allocated
  <2> QED
    BY <2>2, <2>3
<1>5. todo'["user"] = UserProgram(k) /\ orderly' = orderly
  BY <1>1 DEF UserStands, Elsewhere
<1> QED
  BY <1>2, <1>3, <1>4, <1>5 DEF UserInv

(***************************************************************************)
(* What every step of the event thread has to show.                        *)
(***************************************************************************)
\* It is in a callback of the node n, which was started.
EventMoves(n, steps) ==
  /\ Run("event", steps)
  /\ ~Idle("event") => Node("event") = n
  /\ DOMAIN subject' = Threads /\ subject'["user"] = subject["user"] /\ subject'["dns"] = subject["dns"]
  /\ subject'["event"].node = n /\ subject'["event"].kind \in Kinds
  /\ guard' \in Threads \union {"free"} /\ listBy' = listBy
  /\ loop' = loop /\ orderly' = orderly
  /\ list' \subseteq Requests
  /\ closed \subseteq closed' /\ closed' \subseteq closed \union {nodes[n].uuid} /\ 0 \notin closed'
  /\ made' = made /\ \A r \in Requests : requests'[r] \in {requests[r], NoNode}
  /\ OnlyAt(n) /\ cell[n].status # "Created" /\ cell'[n].status # "Created" /\ ~cell'[n].launch

LEMMA EventTyped ==
  ASSUME LifecycleInv, NEW n \in Nodes, NEW steps, EventMoves(n, steps),
         steps \in Seq(EventSteps'), Consistent'
  PROVE  Typed'
<1>1. /\ DOMAIN todo' = Threads /\ todo'["event"] = steps /\ todo'["user"] = todo["user"]
      /\ todo'["dns"] = todo["dns"] /\ todo' = [x \in Threads |-> todo'[x]]
  BY RunIs, TypesAre DEF EventMoves, Threads
<1>2. LifecycleTypeOK'
  <2>1. RegistryTypeOK' /\ cell' \in [Nodes -> Cells]
    BY DEF Consistent, EventMoves, OnlyAt
  <2>2. \A t \in Threads : subject'[t].node \in Nodes \union {NoNode} /\ subject'[t].kind \in Kinds
    BY TypesAre DEF Threads, EventMoves
  <2>3. closed' \subseteq 1..MaxMade
    <3>1. closed \subseteq 1..MaxMade
      BY DEF LifecycleInv, SharedInv, Typed, LifecycleTypeOK
    <3>2. nodes[n].uuid \in 0..MaxMade
      BY TypesAre DEF Objects
    <3>3. closed' \subseteq closed \union {nodes[n].uuid} /\ 0 \notin closed'
      BY DEF EventMoves
    <3>4. MaxMade \in Nat
      BY RegistryAssumption
    <3>5. \A x \in 0..MaxMade : x # 0 => x \in 1..MaxMade
      BY <3>4
    <3> QED
      BY <3>1, <3>2, <3>3, <3>5, Zenon
  <2> QED
    BY <1>1, <2>1, <2>2, <2>3, TypesAre DEF LifecycleTypeOK, EventMoves
<1>3. (\A u \in closed : u <= made)'
  <2>1. nodes[n].uuid <= made
    BY DEF LifecycleInv, SharedInv, Consistent, Drawn
  <2> QED
    BY <2>1 DEF EventMoves, LifecycleInv, SharedInv, Typed
<1>4. Node("event")' = n /\ Node("dns")' = Node("dns")
  BY DEF Node, EventMoves
<1>5. (~Idle("dns") => Node("dns") \in Nodes)' /\ todo'["dns"] \in DnsPrograms
  BY <1>1, <1>4 DEF LifecycleInv, SharedInv, Typed, Idle
<1> QED
  BY <1>1, <1>2, <1>3, <1>4, <1>5 DEF Typed, EventMoves

LEMMA EventShared ==
  ASSUME LifecycleInv, NEW n \in Nodes, NEW steps, EventMoves(n, steps),
         steps \in Seq(EventSteps'), Consistent', Linked',
         \A m \in Nodes : m # n => nodes'[m] = nodes[m]
  PROVE  /\ SharedInv' /\ Elsewhere(n)
         /\ \A m \in Nodes : m # n => ~Busy(m)' /\ ~Busy(m) /\ (Resolving(m)' <=> Resolving(m))
<1>1. Typed'
  BY EventTyped
<1>2. /\ DOMAIN todo' = Threads /\ todo'["user"] = todo["user"] /\ todo'["dns"] = todo["dns"]
  BY RunIs, TypesAre DEF EventMoves, Threads
<1>3. \A m \in Nodes : m # n => ~Busy(m)' /\ ~Busy(m) /\ (Resolving(m)' <=> Resolving(m))
  BY <1>2 DEF Busy, Resolving, EventMoves, Node, Idle
<1>4. \A m \in Nodes : Fresh(m)'
  <2> TAKE m \in Nodes
  <2>1. CASE m = n
    BY <2>1 DEF Fresh, EventMoves
  <2>2. CASE m # n
    BY <1>3, <2>2, FreshSame DEF EventMoves, OnlyAt, LifecycleInv, SharedInv
  <2> QED
    BY <2>1, <2>2
<1>5. Elsewhere(n)
  BY <1>2 DEF Elsewhere, EventMoves
<1> QED
  BY <1>1, <1>3, <1>4, <1>5 DEF SharedInv

\* What a step shows in an orderly system: the callback is then at j, and the one node
\* it is at is as the invariant wants it.
EventReaches(n, i, j) ==
  /\ EventInv(i) /\ \A m \in Nodes : NodeInv(m, i)
  /\ EventInv(j)' /\ NodeInv(n, j)'
  /\ nodes[n].uuid > 0

LEMMA EventKeeps ==
  ASSUME LifecycleInv, NEW n \in Nodes, NEW steps, EventMoves(n, steps),
         steps \in Seq(EventSteps'), Consistent', Linked',
         \A m \in Nodes : m # n => nodes'[m] = nodes[m],
         orderly => /\ RegisteredIsAlive' /\ Harmless(n)
                    /\ \E i, j \in 0..19 : EventReaches(n, i, j)
  PROVE  LifecycleInv'
<1>1. /\ SharedInv' /\ Elsewhere(n)
      /\ \A m \in Nodes : m # n => ~Busy(m)' /\ ~Busy(m) /\ (Resolving(m)' <=> Resolving(m))
  BY EventShared
<1>2. UserInv'
  BY <1>1, UserUnmoved
<1>3. ASSUME orderly PROVE OrderlyInv'
  <2>1. PICK i \in 0..19, j \in 0..19 : EventReaches(n, i, j)
    BY <1>3
  <2>2. \A m \in Nodes : NodeInv(m, j)'
    <3> TAKE m \in Nodes
    <3>1. CASE m = n
      BY <2>1, <3>1 DEF EventReaches
    <3>2. CASE m # n
      <4>1. NodeInv(m, i)
        BY <2>1 DEF EventReaches
      <4>2. cell'[m] = cell[m] /\ nodes'[m] = nodes[m]
        BY <3>2 DEF EventMoves, OnlyAt
      <4>3. nodes[m].uuid \in closed' => nodes[m].uuid \in closed
        <5>1. nodes[n].uuid > 0 /\ nodes[m].uuid # nodes[n].uuid
          BY <2>1, <3>2 DEF EventReaches, LifecycleInv, SharedInv, Consistent, Drawn
        <5> QED
          BY <5>1 DEF EventMoves
      <4>4. todo'["dns"] = todo["dns"] /\ subject'["dns"] = subject["dns"]
        BY RunIs, TypesAre DEF EventMoves, Threads
      <4> QED
        BY <1>1, <3>2, <4>1, <4>2, <4>3, <4>4, NodeSame
    <3> QED
      BY <3>1, <3>2
  <2>3. \A r \in list' : Allocated(r)'
    <3>1. nodes[n].request # NoNode
      BY <2>1 DEF EventReaches, NodeInv
    <3>2. Allocated(nodes[n].request)
      BY <3>1, RegistryAssumption DEF Allocated, LifecycleInv, SharedInv, Linked
    <3> QED
      BY <1>3, <3>2 DEF Harmless, memory, Allocated, LifecycleInv, OrderlyInv
  <2>4. RegisteredIsAlive' /\ listBy' = "free"
    BY <1>3 DEF EventMoves, LifecycleInv, OrderlyInv
  <2> QED
    BY <2>1, <2>2, <2>3, <2>4 DEF OrderlyInv, EventReaches
<1> QED
  BY <1>1, <1>2, <1>3 DEF LifecycleInv, EventMoves

(***************************************************************************)
(* Steps of a callback.                                                    *)
(***************************************************************************)
LEMMA CallbackIsAt ==
  ASSUME LifecycleInv, NEW op, At("event", op)
  PROVE  \E n \in Nodes :
           /\ n = Node("event") /\ Busy(n) /\ cell[n].status # "Created" /\ ~cell[n].launch
           /\ todo["event"] # <<>> /\ todo["event"] \in Seq(EventSteps)
           /\ op \in EventSteps /\ Tail(todo["event"]) \in Seq(EventSteps)
<1>1. PICK n \in Nodes : n = Node("event")
  BY DEF At, LifecycleInv, SharedInv, Typed
<1>2. Busy(n)
  BY <1>1 DEF At, Busy
<1>3. cell[n].status # "Created" /\ ~cell[n].launch
  BY <1>2 DEF LifecycleInv, SharedInv, Fresh, Untouched
<1>4. todo["event"] # <<>> /\ todo["event"] \in Seq(EventSteps)
  BY DEF At, Idle, LifecycleInv, SharedInv, Typed
<1>5. Head(todo["event"]) \in EventSteps /\ Tail(todo["event"]) \in Seq(EventSteps)
  BY <1>4, HeadTailProperties
<1> QED
  BY <1>1, <1>2, <1>3, <1>4, <1>5 DEF At

\* What the callback does next, and how it leaves the node.
CallbackReaches(n, steps) ==
  \E i \in 1..19, j \in 0..19 :
    /\ EventInv(i) /\ \A m \in Nodes : NodeInv(m, i)
    /\ steps = EventProgram(j) /\ (Inside(j) => cell'[n].inside) /\ NodeInv(n, j)'
    /\ list' \subseteq list \union {nodes[n].request}
    /\ nodes[n].uuid \in closed => (cell'[n].dns => cell[n].dns) /\ list' \subseteq list

LEMMA CallbackKeeps ==
  ASSUME LifecycleInv, NEW op, At("event", op), NEW n \in Nodes, n = Node("event"), NEW steps,
         steps \in Seq(EventSteps), Run("event", steps),
         UNCHANGED <<memory, subject, guard, listBy, loop, orderly>>,
         Consistent', orderly => DOMAIN infoByRequest' = DOMAIN infoByRequest,
         orderly /\ RegisteredIsAlive => RegisteredIsAlive',
         OnlyAt(n), cell'[n].status # "Created", ~cell'[n].launch,
         list' \subseteq Requests,
         \/ closed' = closed
         \/ nodes[n].uuid > 0 /\ closed' = closed \union {nodes[n].uuid},
         orderly => CallbackReaches(n, steps)
  PROVE  LifecycleInv'
<1>1. Busy(n) /\ cell[n].status # "Created" /\ ~Idle("event")
  BY CallbackIsAt DEF At
<1>2. nodes' = nodes /\ requests' = requests /\ made' = made /\ subject' = subject
  BY DEF memory
<1>3. EventMoves(n, steps)
  <2>1. 0 \notin closed' /\ closed \subseteq closed' /\ closed' \subseteq closed \union {nodes[n].uuid}
    BY DEF LifecycleInv, SharedInv, Typed, LifecycleTypeOK
  <2> QED
    BY <1>1, <1>2, <2>1, TypesAre DEF EventMoves, Node, Threads
<1>4. steps \in Seq(EventSteps')
  <2>1. EventSteps' = EventSteps
    BY <1>2 DEF EventSteps, Request
  <2> QED
    BY <2>1
<1>5. Linked'
  <2>1. \A m \in Nodes : cell'[m].status = "Created" => cell[m].status = "Created"
    BY DEF OnlyAt
  <2> QED
    BY <1>1, <1>2, <2>1, LinkedKeeps DEF LifecycleInv, SharedInv, Consistent
<1>6. ASSUME orderly
      PROVE  /\ RegisteredIsAlive' /\ Harmless(n)
             /\ \E i, j \in 0..19 : EventReaches(n, i, j)
  <2>1. PICK i \in 1..19, j \in 0..19 :
          /\ EventInv(i) /\ \A m \in Nodes : NodeInv(m, i)
          /\ steps = EventProgram(j) /\ (Inside(j) => cell'[n].inside) /\ NodeInv(n, j)'
          /\ list' \subseteq list \union {nodes[n].request}
          /\ nodes[n].uuid \in closed => (cell'[n].dns => cell[n].dns) /\ list' \subseteq list
    BY <1>6 DEF CallbackReaches
  <2>2. i # 0 /\ nodes[n].uuid > 0 /\ nodes[n].uuid = subject["event"].uuid
    BY <2>1 DEF EventInv
  <2>3. EventInv(j)'
    <3>1. todo'["event"] = EventProgram(j)
      BY <2>1, RunIs, TypesAre DEF Threads
    <3> QED
      BY <1>2, <2>1, <2>2, <3>1 DEF EventInv, Node, Request
  <2>4. \A m \in Nodes : m # n => ~Busy(m)'
    BY <1>2 DEF Busy, Node
  <2>5. Harmless(n)
    BY <1>1, <1>6, <2>1, <2>4 DEF Harmless
  <2>6. i \in 0..19 /\ EventReaches(n, i, j)
    BY <2>1, <2>2, <2>3 DEF EventReaches
  <2> QED
    BY <1>6, <2>5, <2>6 DEF LifecycleInv, OrderlyInv
<1> QED
  BY <1>2, <1>3, <1>4, <1>5, <1>6, EventKeeps

\* A step that leaves the registry alone.
LEMMA SameRegistry ==
  ASSUME Consistent, UNCHANGED <<registry, memory>>
  PROVE  /\ Consistent' /\ DOMAIN infoByRequest' = DOMAIN infoByRequest
         /\ RegisteredIsAlive => RegisteredIsAlive'
BY DEF Consistent, registry, memory, RegistryTypeOK, MapsAgree, Owned, Drawn, Registered, Allocated,
       RegisteredIsAlive

\* What a step of a callback changes for its node, by what it leaves to do.
LEMMA CallbackNode ==
  ASSUME LifecycleInv, NEW n \in Nodes, n = Node("event"), NEW steps, Run("event", steps),
         UNCHANGED subject
  PROVE  /\ Busy(n)' <=> steps # <<>>
         /\ Resolving(n)' <=> Resolving(n)
         /\ todo'["dns"] = todo["dns"] /\ subject'["dns"] = subject["dns"]
         /\ (cell'[n].dns <=> cell[n].dns) => (Answering(n)' <=> Answering(n))
<1>1. todo'["dns"] = todo["dns"] /\ todo'["event"] = steps
  BY RunIs, TypesAre DEF Threads
<1> QED
  BY <1>1 DEF Busy, Resolving, Answering, Idle, Node

\* Nothing begins, and nothing ends.
Follows(i, j) == j # 0 => /\ Working(j) => Working(i)
                          /\ Reading(j) => Reading(i)
                          /\ Ending(i) => j \in {18, 19}

SameEvents(n) ==
  /\ cell'[n].launch = cell[n].launch /\ cell'[n].connect = cell[n].connect
  /\ cell'[n].reader = cell[n].reader /\ cell'[n].resolved = cell[n].resolved
  /\ cell'[n].dns = cell[n].dns /\ cell'[n].exit = cell[n].exit
  /\ cell'[n].destroy = cell[n].destroy

LEMMA NodeGoesOn ==
  ASSUME NEW n, NEW i \in 1..19, NEW j \in 0..19, NodeInv(n, i), Busy(n), Busy(n)' <=> j # 0,
         Resolving(n)' <=> Resolving(n), Answering(n)' <=> Answering(n),
         todo'["dns"] = todo["dns"], subject'["dns"] = subject["dns"],
         nodes'[n] = nodes[n], closed' = closed, SameEvents(n),
         Ending(i) => cell'[n].status = cell[n].status, i # 17, Follows(i, j)
  PROVE  NodeInv(n, j)'
<1>1. Exclusive(n, j)'
  BY DEF NodeInv, Exclusive, SameEvents, Follows, Working, Reading
<1>2. Ended(n, i) => Ended(n, j)' /\ Ending(i)
  BY DEF Ended, SameEvents, Follows, Ending
<1>3. ~Untouched(n)
  BY DEF Untouched
<1> QED
  BY <1>1, <1>2, <1>3 DEF NodeInv, SameEvents, Follows

LEMMA CheckKeeps ==
  ASSUME LifecycleInv, Check
  PROVE  LifecycleInv'
<1>1. At("event", "check") /\ UNCHANGED <<registry, memory, cell, list, guard, subject, listBy, closed, loop, orderly>>
  BY DEF Check, rest
<1>2. PICK n \in Nodes :
           /\ n = Node("event") /\ Busy(n) /\ cell[n].status # "Created" /\ ~cell[n].launch
           /\ todo["event"] # <<>> /\ todo["event"] \in Seq(EventSteps)
           /\ Tail(todo["event"]) \in Seq(EventSteps)
  BY <1>1, CallbackIsAt
<1>3. PICK steps \in Seq(EventSteps) : /\ Run("event", steps)
                                      /\ steps \in {<<>>, Tail(todo["event"])}
  <2>1. <<>> \in Seq(EventSteps)
    OBVIOUS
  <2> QED
    BY <1>2, <2>1 DEF Check, Continue
<1>4. ASSUME orderly PROVE CallbackReaches(n, steps)
  <2>1. PICK i \in 1..19 : /\ EventInv(i) /\ \A m \in Nodes : NodeInv(m, i)
                           /\ EventOp(i) = "check"
                           /\ Tail(todo["event"]) = EventProgram(AfterEvent(i))
    BY <1>1, <1>4, EventAt
  <2>2. i \in {1, 6, 9, 10, 18} /\ AfterEvent(i) = i + 1
    BY <2>1 DEF EventOp, AfterEvent
  <2>3. PICK j \in {0, i + 1} : steps = EventProgram(j) /\ j \in 0..19
    <3>1. EventProgram(0) = <<>> /\ i + 1 \in 0..19
      BY <2>2 DEF EventProgram
    <3>2. steps = EventProgram(0) \/ steps = EventProgram(i + 1)
      BY <1>3, <2>1, <2>2, <3>1
    <3> QED
      BY <3>1, <3>2
  <2>4. Busy(n)' <=> j # 0
    <3>1. EventProgram(0) = <<>>
      BY DEF EventProgram
    <3>2. j # 0 => j \in 1..19
      BY <2>3
    <3> QED
      BY <1>1, <1>2, <1>3, <2>3, <3>1, <3>2, CallbackNode, EventFirst
  <2>5. SameEvents(n) /\ nodes'[n] = nodes[n] /\ closed' = closed /\ cell' = cell
    BY <1>1 DEF SameEvents, memory
  <2>6. Follows(i, j) /\ i # 17
    BY <2>2, <2>3 DEF Follows, Working, Reading, Ending
  <2>7. NodeInv(n, j)'
    BY <1>1, <1>2, <1>3, <2>1, <2>3, <2>4, <2>5, <2>6, CallbackNode, NodeGoesOn
  <2>8. Inside(j) => cell'[n].inside
    <3>1. Inside(j) => Inside(i)
      BY <2>2, <2>3 DEF Inside
    <3> QED
      BY <1>2, <2>1, <2>5, <3>1 DEF EventInv
  <2> QED
    BY <1>1, <2>1, <2>3, <2>5, <2>7, <2>8 DEF CallbackReaches
<1>5. /\ Consistent' /\ DOMAIN infoByRequest' = DOMAIN infoByRequest
      /\ RegisteredIsAlive => RegisteredIsAlive'
  BY <1>1, SameRegistry DEF LifecycleInv, SharedInv
<1>6. OnlyAt(n) /\ cell'[n] = cell[n] /\ list' \subseteq Requests
  BY <1>1, TypesAre DEF OnlyAt
<1> QED
  BY <1>1, <1>2, <1>3, <1>4, <1>5, <1>6, CallbackKeeps

LEMMA EnterCallbackKeeps ==
  ASSUME LifecycleInv, EnterCallback
  PROVE  LifecycleInv'
<1>1. /\ At("event", "enter") /\ Continue("event")
      /\ UNCHANGED <<registry, memory, list, guard, subject, listBy, closed, loop, orderly>>
  BY DEF EnterCallback, rest
<1>2. PICK n \in Nodes :
           /\ n = Node("event") /\ Busy(n) /\ cell[n].status # "Created" /\ ~cell[n].launch
           /\ Tail(todo["event"]) \in Seq(EventSteps)
  BY <1>1, CallbackIsAt
<1>3. OnlyAt(n) /\ Becomes(n, "inside", TRUE)
  <2>1. "inside" \in CellFields /\ TRUE \in FieldType("inside") /\ Set(n, "inside", TRUE)
    BY <1>2 DEF CellFields, FieldType, EnterCallback
  <2> QED
    BY <2>1, SetIs, TypesAre
<1>4. /\ SameEvents(n) /\ nodes' = nodes /\ closed' = closed /\ (cell'[n].inside <=> TRUE)
      /\ cell'[n].status = cell[n].status
  BY <1>1, <1>3 DEF SameEvents, Becomes, CellFields, memory
<1>5. Run("event", Tail(todo["event"]))
  BY <1>1 DEF Continue
<1>6. ASSUME orderly PROVE CallbackReaches(n, Tail(todo["event"]))
  <2>1. PICK i \in 1..19 : /\ EventInv(i) /\ \A m \in Nodes : NodeInv(m, i)
                           /\ EventOp(i) = "enter"
                           /\ Tail(todo["event"]) = EventProgram(AfterEvent(i))
    BY <1>1, <1>6, EventAt
  <2>2. PICK j \in 0..19 : /\ i \in {2, 4, 7, 11} /\ j = i + 1
                           /\ Tail(todo["event"]) = EventProgram(j)
    <3>1. i \in {2, 4, 7, 11} /\ AfterEvent(i) = i + 1 /\ i + 1 \in 0..19
      BY <2>1 DEF EventOp, AfterEvent
    <3> QED
      BY <2>1, <3>1
  <2>3. Busy(n)' <=> j # 0
    <3>1. EventProgram(0) = <<>> /\ (j # 0 => j \in 1..19)
      BY DEF EventProgram
    <3> QED
      BY <1>1, <1>2, <1>5, <2>2, <3>1, CallbackNode, EventFirst
  <2>4. Follows(i, j) /\ i # 17
    BY <2>2 DEF Follows, Working, Reading, Ending
  <2>5. NodeInv(n, j)'
    BY <1>1, <1>2, <1>4, <1>5, <2>1, <2>3, <2>4, CallbackNode, NodeGoesOn DEF SameEvents
  <2>6. Inside(j) => cell'[n].inside
    BY <1>4, <2>2 DEF Inside
  <2> QED
    BY <1>1, <1>4, <2>1, <2>2, <2>5, <2>6 DEF CallbackReaches, SameEvents
<1>7. /\ Consistent' /\ DOMAIN infoByRequest' = DOMAIN infoByRequest
      /\ RegisteredIsAlive => RegisteredIsAlive'
  BY <1>1, SameRegistry DEF LifecycleInv, SharedInv
<1>8. cell'[n].status # "Created" /\ ~cell'[n].launch /\ list' \subseteq Requests
  BY <1>1, <1>2, <1>4, TypesAre DEF SameEvents
<1> QED
  BY <1>1, <1>2, <1>3, <1>4, <1>5, <1>6, <1>7, <1>8, CallbackKeeps

LEMMA LeaveCallbackKeeps ==
  ASSUME LifecycleInv, LeaveCallback
  PROVE  LifecycleInv'
<1>1. /\ At("event", "leave") /\ Continue("event")
      /\ UNCHANGED <<registry, memory, list, guard, subject, listBy, closed, loop, orderly>>
  BY DEF LeaveCallback, rest
<1>2. PICK n \in Nodes :
           /\ n = Node("event") /\ Busy(n) /\ cell[n].status # "Created" /\ ~cell[n].launch
           /\ Tail(todo["event"]) \in Seq(EventSteps)
  BY <1>1, CallbackIsAt
<1>3. OnlyAt(n) /\ Becomes(n, "inside", FALSE)
  <2>1. "inside" \in CellFields /\ FALSE \in FieldType("inside") /\ Set(n, "inside", FALSE)
    BY <1>2 DEF CellFields, FieldType, LeaveCallback
  <2> QED
    BY <2>1, SetIs, TypesAre
<1>4. /\ SameEvents(n) /\ nodes' = nodes /\ closed' = closed /\ (cell'[n].inside <=> FALSE)
      /\ cell'[n].status = cell[n].status
  BY <1>1, <1>3 DEF SameEvents, Becomes, CellFields, memory
<1>5. Run("event", Tail(todo["event"]))
  BY <1>1 DEF Continue
<1>6. ASSUME orderly PROVE CallbackReaches(n, Tail(todo["event"]))
  <2>1. PICK i \in 1..19 : /\ EventInv(i) /\ \A m \in Nodes : NodeInv(m, i)
                           /\ EventOp(i) = "leave"
                           /\ Tail(todo["event"]) = EventProgram(AfterEvent(i))
    BY <1>1, <1>6, EventAt
  <2>2. PICK j \in 0..19 : /\ i \in {19} /\ j = 0
                           /\ Tail(todo["event"]) = EventProgram(j)
    <3>1. i \in {19} /\ AfterEvent(i) = 0 /\ 0 \in 0..19
      BY <2>1 DEF EventOp, AfterEvent
    <3> QED
      BY <2>1, <3>1
  <2>3. Busy(n)' <=> j # 0
    <3>1. EventProgram(0) = <<>> /\ (j # 0 => j \in 1..19)
      BY DEF EventProgram
    <3> QED
      BY <1>1, <1>2, <1>5, <2>2, <3>1, CallbackNode, EventFirst
  <2>4. Follows(i, j) /\ i # 17
    BY <2>2 DEF Follows, Working, Reading, Ending
  <2>5. NodeInv(n, j)'
    BY <1>1, <1>2, <1>4, <1>5, <2>1, <2>3, <2>4, CallbackNode, NodeGoesOn DEF SameEvents
  <2>6. Inside(j) => cell'[n].inside
    BY <1>4, <2>2 DEF Inside
  <2> QED
    BY <1>1, <1>4, <2>1, <2>2, <2>5, <2>6 DEF CallbackReaches, SameEvents
<1>7. /\ Consistent' /\ DOMAIN infoByRequest' = DOMAIN infoByRequest
      /\ RegisteredIsAlive => RegisteredIsAlive'
  BY <1>1, SameRegistry DEF LifecycleInv, SharedInv
<1>8. cell'[n].status # "Created" /\ ~cell'[n].launch /\ list' \subseteq Requests
  BY <1>1, <1>2, <1>4, TypesAre DEF SameEvents
<1> QED
  BY <1>1, <1>2, <1>3, <1>4, <1>5, <1>6, <1>7, <1>8, CallbackKeeps

\* A callback that works or reads is the one thing that is under way for its node, and
\* its Close was not made.
LEMMA NotEnded ==
  ASSUME NEW n, NEW i \in 1..14, NodeInv(n, i), Busy(n)
  PROVE  /\ ~cell[n].connect /\ ~cell[n].resolved /\ ~Answering(n)
         /\ cell[n].reader => Reading(i)
         /\ nodes[n].uuid \notin closed /\ ~cell[n].destroy /\ cell[n].exit # "Cancel"
         /\ nodes[n].uuid # 0
<1>1. (Working(i) \/ Reading(i)) /\ ~Ending(i)
  BY DEF Working, Reading, Ending
<1> QED
  BY <1>1 DEF NodeInv, Exclusive, Ended, Untouched

\* The step that a callback puts before the rest.
LEMMA Perform1 ==
  ASSUME NEW s \in Seq(EventSteps), NEW op \in {"dial", "destroy", "shut"}
  PROVE  <<op>> \o s \in Seq(EventSteps)
<1>1. op \in EventSteps
  BY DEF EventSteps, Steps
<1>2. <<op>> \in Seq(EventSteps)
  BY <1>1
<1> QED
  BY <1>2, ConcatProperties

LEMMA LaunchKeeps ==
  ASSUME LifecycleInv, Launch
  PROVE  LifecycleInv'
<1>1. /\ At("event", "launch")
      /\ UNCHANGED <<registry, memory, guard, subject, listBy, closed, loop, orderly>>
  BY DEF Launch, rest
<1>2. PICK n \in Nodes :
           /\ n = Node("event") /\ Busy(n) /\ cell[n].status # "Created" /\ ~cell[n].launch
           /\ Tail(todo["event"]) \in Seq(EventSteps) /\ Request("event") \in Requests
  BY <1>1, CallbackIsAt DEF EventSteps
<1>3. OnlyAt(n) /\ Becomes(n, "status", "Invoked")
  <2>1. "status" \in CellFields /\ "Invoked" \in FieldType("status") /\ Set(n, "status", "Invoked")
    BY <1>2 DEF CellFields, FieldType, Launch, Statuses
  <2> QED
    BY <2>1, SetIs, TypesAre
<1>4. /\ SameEvents(n) /\ nodes' = nodes /\ closed' = closed /\ cell'[n].inside = cell[n].inside
      /\ cell'[n].status = "Invoked"
  BY <1>1, <1>3 DEF SameEvents, Becomes, CellFields, memory
<1>5. /\ Consistent' /\ DOMAIN infoByRequest' = DOMAIN infoByRequest
      /\ RegisteredIsAlive => RegisteredIsAlive'
  BY <1>1, SameRegistry DEF LifecycleInv, SharedInv
<1>6. cell'[n].status # "Created" /\ ~cell'[n].launch
  BY <1>2, <1>4 DEF SameEvents
<1> DEFINE steps == <<"dial">> \o Tail(todo["event"])
<1>7. ASSUME orderly
      PROVE  /\ cell[n].exit # "Cancel"
             /\ Run("event", steps) /\ list' = list \union {Request("event")} =>
                  CallbackReaches(n, steps)
  <2>1. PICK i \in 1..19 : /\ EventInv(i) /\ \A m \in Nodes : NodeInv(m, i)
                           /\ EventOp(i) = "launch"
                           /\ Tail(todo["event"]) = EventProgram(AfterEvent(i))
    BY <1>1, <1>7, EventAt
  <2>2. i = 3 /\ AfterEvent(i) = 19
    BY <2>1 DEF EventOp, AfterEvent
  <2>3. steps = EventProgram(13) /\ EventProgram(13) # <<>>
    <3>1. 13 \in 1..19
      OBVIOUS
    <3> QED
      BY <2>1, <2>2, <3>1, EventPerforms, EventFirst
  <2>4. Follows(3, 13) /\ ~Ending(3) /\ Inside(3)
    BY DEF Follows, Working, Reading, Ending, Inside
  <2>5. cell[n].exit # "Cancel" /\ nodes[n].uuid \notin closed
    BY <1>2, <2>1, <2>2, NotEnded
  <2> HIDE DEF steps
  <2>6. ASSUME Run("event", steps), list' = list \union {Request("event")}
        PROVE  CallbackReaches(n, steps)
    <3>1. Busy(n)' <=> 13 # 0
      BY <1>1, <1>2, <2>3, <2>6, CallbackNode
    <3>2. NodeInv(n, 3) /\ 3 \in 1..19 /\ 13 \in 0..19
      BY <2>1, <2>2
    <3>3. NodeInv(n, 13)'
      <4>1. /\ Resolving(n)' <=> Resolving(n)
            /\ Answering(n)' <=> Answering(n)
            /\ todo'["dns"] = todo["dns"] /\ subject'["dns"] = subject["dns"]
        BY <1>1, <1>2, <1>4, <2>6, CallbackNode DEF SameEvents
      <4> QED
        BY <1>2, <1>4, <2>4, <3>1, <3>2, <4>1, NodeGoesOn
    <3>4. cell'[n].inside /\ Request("event") = nodes[n].request
      BY <1>2, <1>4, <2>1, <2>2, <2>4 DEF EventInv
    <3> QED
      BY <1>1, <1>4, <2>1, <2>2, <2>3, <2>5, <2>6, <3>2, <3>3, <3>4 DEF CallbackReaches, SameEvents
  <2> QED
    BY <2>5, <2>6
<1>8. steps \in Seq(EventSteps)
  BY <1>2, Perform1
<1>9. list \subseteq Requests
  BY TypesAre
<1>10. CASE cell[n].exit = "Cancel" /\ Continue("event") /\ UNCHANGED list
  <2>1. Run("event", Tail(todo["event"]))
    BY <1>10 DEF Continue
  <2>2. ~orderly
    BY <1>7, <1>10
  <2> QED
    BY <1>1, <1>2, <1>3, <1>4, <1>5, <1>6, <1>9, <1>10, <2>1, <2>2, CallbackKeeps
<1>11. CASE cell[n].exit # "Cancel" /\ list' = list \union {Request("event")} /\ Run("event", steps)
  <2>1. list' \subseteq Requests
    BY <1>2, <1>9, <1>11
  <2>2. orderly => CallbackReaches(n, steps)
    BY <1>7, <1>11
  <2> HIDE DEF steps
  <2> QED
    BY <1>1, <1>2, <1>3, <1>4, <1>5, <1>6, <1>8, <1>11, <2>1, <2>2, CallbackKeeps
<1> QED
  BY <1>2, <1>10, <1>11 DEF Launch, Perform

\* The callback sets up what comes next, and is then on its way out.
LEMMA NodeSetsUp ==
  ASSUME NEW n, NEW i \in 1..14, NEW j \in 0..19, NodeInv(n, i), Busy(n), nodes'[n] = nodes[n],
         closed' = closed, todo'["dns"] = todo["dns"], subject'["dns"] = subject["dns"],
         Resolving(n)' <=> Resolving(n), cell'[n].exit = cell[n].exit,
         cell'[n].destroy = cell[n].destroy, Resolving(n) => cell'[n].dns, Exclusive(n, j)'
  PROVE  NodeInv(n, j)'
<1>1. /\ nodes[n].uuid \notin closed /\ ~cell[n].destroy /\ cell[n].exit # "Cancel"
      /\ nodes[n].uuid # 0
  BY NotEnded
<1> QED
  BY <1>1 DEF NodeInv

LEMMA ConnectKeeps ==
  ASSUME LifecycleInv, Connect
  PROVE  LifecycleInv'
<1>1. PICK op \in {"connect", "resolved"} :
        /\ At("event", op)
        /\ UNCHANGED <<registry, memory, list, guard, subject, listBy, closed, loop, orderly>>
  BY DEF Connect, rest
<1>2. PICK n \in Nodes :
           /\ n = Node("event") /\ Busy(n) /\ cell[n].status # "Created" /\ ~cell[n].launch
           /\ Tail(todo["event"]) \in Seq(EventSteps)
  BY <1>1, CallbackIsAt
<1>3. /\ Consistent' /\ DOMAIN infoByRequest' = DOMAIN infoByRequest
      /\ RegisteredIsAlive => RegisteredIsAlive'
      /\ list' \subseteq Requests /\ nodes' = nodes
  BY <1>1, SameRegistry, TypesAre DEF LifecycleInv, SharedInv, memory
<1> DEFINE steps == <<"dial">> \o Tail(todo["event"])
<1>4. ASSUME orderly
      PROVE  \E i \in {5, 12}, j \in {18, 19}, d \in {13, 14} :
               /\ EventInv(i) /\ \A m \in Nodes : NodeInv(m, i)
               /\ Tail(todo["event"]) = EventProgram(j) /\ steps = EventProgram(d)
               /\ EventProgram(j) # <<>> /\ EventProgram(d) # <<>> /\ cell[n].inside
  <2>1. PICK i \in 1..19 : /\ EventInv(i) /\ \A m \in Nodes : NodeInv(m, i)
                           /\ EventOp(i) = op
                           /\ Tail(todo["event"]) = EventProgram(AfterEvent(i))
    BY <1>1, <1>4, EventAt
  <2>2. \/ i = 5 /\ AfterEvent(i) = 19
        \/ i = 12 /\ AfterEvent(i) = 18
    BY <2>1 DEF EventOp, AfterEvent
  <2>3. \A x \in {13, 14, 18, 19} : EventProgram(x) # <<>>
    <3>1. \A x \in {13, 14, 18, 19} : x \in 1..19
      OBVIOUS
    <3> QED
      BY <3>1, EventFirst
  <2>4. cell[n].inside
    BY <1>2, <2>1, <2>2 DEF EventInv, Inside
  <2>5. CASE i = 5
    <3>1. Tail(todo["event"]) = EventProgram(19) /\ steps = EventProgram(13)
      <4>1. Tail(todo["event"]) = EventProgram(19)
        BY <2>1, <2>2, <2>5
      <4> QED
        BY <4>1, EventPerforms
    <3> QED
      BY <2>1, <2>3, <2>4, <2>5, <3>1
  <2>6. CASE i = 12
    <3>1. Tail(todo["event"]) = EventProgram(18) /\ steps = EventProgram(14)
      <4>1. Tail(todo["event"]) = EventProgram(18)
        BY <2>1, <2>2, <2>6
      <4> QED
        BY <4>1, EventPerforms
    <3> QED
      BY <2>1, <2>3, <2>4, <2>6, <3>1
  <2> QED
    BY <2>2, <2>5, <2>6
<1>5. steps \in Seq(EventSteps)
  BY <1>2, Perform1
<1>6. ASSUME Continue("event"), OnlyAt(n), cell'[n].status \in {"Started", cell[n].status},
             cell'[n].launch = cell[n].launch, cell'[n].resolved = cell[n].resolved,
             cell'[n].dns = cell[n].dns, cell'[n].exit = cell[n].exit,
             cell'[n].destroy = cell[n].destroy, cell'[n].inside = cell[n].inside,
             \/ cell'[n].connect = cell[n].connect
             \/ cell'[n].reader = cell[n].reader
      PROVE  LifecycleInv'
  <2>1. Run("event", Tail(todo["event"]))
    BY <1>6 DEF Continue
  <2>2. ASSUME orderly PROVE CallbackReaches(n, Tail(todo["event"]))
    <3>1. PICK i \in {5, 12}, j \in {18, 19} :
            /\ EventInv(i) /\ \A m \in Nodes : NodeInv(m, i)
            /\ Tail(todo["event"]) = EventProgram(j) /\ cell[n].inside
      BY <1>4, <2>2
    <3>2. /\ ~cell[n].connect /\ ~cell[n].resolved /\ ~Answering(n) /\ ~cell[n].reader
          /\ nodes[n].uuid \notin closed
      <4>1. i \in 1..14 /\ NodeInv(n, i) /\ ~Reading(i)
        BY <3>1 DEF Reading
      <4> QED
        BY <1>2, <4>1, NotEnded
    <3>3. /\ Resolving(n)' <=> Resolving(n)
          /\ Answering(n)' <=> Answering(n)
          /\ todo'["dns"] = todo["dns"] /\ subject'["dns"] = subject["dns"]
      BY <1>1, <1>2, <1>6, <2>1, CallbackNode
    <3>4. Exclusive(n, j)'
      BY <1>6, <3>2, <3>3 DEF Exclusive, Working, Reading
    <3>5. Resolving(n) => cell'[n].dns
      BY <1>6, <3>1 DEF NodeInv
    <3>6. NodeInv(n, j)'
      <4>1. i \in 1..14 /\ j \in 0..19 /\ NodeInv(n, i) /\ closed' = closed
        BY <1>1, <3>1
      <4> QED
        BY <1>2, <1>3, <1>6, <3>3, <3>4, <3>5, <4>1, NodeSetsUp
    <3>7. i \in 1..19 /\ j \in 0..19 /\ list' = list
      BY <1>1, <3>1
    <3> QED
      BY <1>6, <3>1, <3>2, <3>6, <3>7 DEF CallbackReaches
  <2>3. cell'[n].status # "Created" /\ ~cell'[n].launch
    BY <1>2, <1>6
  <2> QED
    BY <1>1, <1>2, <1>3, <1>6, <2>1, <2>2, <2>3, CallbackKeeps
<1>7. CASE /\ cell' = [cell EXCEPT ![n] = [@ EXCEPT !.status = "Started", !.reader = TRUE]]
           /\ Continue("event")
  <2> DEFINE c == [cell[n] EXCEPT !.status = "Started", !.reader = TRUE]
  <2>1. c \in Cells
    <3>1. ASSUME NEW x \in Cells PROVE [x EXCEPT !.status = "Started", !.reader = TRUE] \in Cells
      BY DEF Cells, Statuses
    <3> QED
      BY <3>1, TypesAre
  <2>2. OnlyAt(n) /\ cell'[n] = c
    BY <1>7, <2>1, CellSet, TypesAre
  <2>3. cell[n] \in Cells
    BY TypesAre
  <2>4. /\ cell'[n].status \in {"Started", cell[n].status}
        /\ cell'[n].launch = cell[n].launch /\ cell'[n].resolved = cell[n].resolved
        /\ cell'[n].dns = cell[n].dns /\ cell'[n].exit = cell[n].exit
        /\ cell'[n].destroy = cell[n].destroy /\ cell'[n].inside = cell[n].inside
        /\ cell'[n].connect = cell[n].connect
    BY <2>2, <2>3 DEF Cells
  <2> QED
    BY <1>6, <1>7, <2>2, <2>4
<1>8. CASE Set(n, "connect", TRUE) /\ Continue("event")
  <2>1. OnlyAt(n) /\ Becomes(n, "connect", TRUE)
    <3>1. "connect" \in CellFields /\ TRUE \in FieldType("connect")
      BY DEF CellFields, FieldType
    <3> QED
      BY <1>8, <3>1, SetIs, TypesAre
  <2>2. /\ cell'[n].status \in {"Started", cell[n].status}
        /\ cell'[n].launch = cell[n].launch /\ cell'[n].resolved = cell[n].resolved
        /\ cell'[n].dns = cell[n].dns /\ cell'[n].exit = cell[n].exit
        /\ cell'[n].destroy = cell[n].destroy /\ cell'[n].inside = cell[n].inside
        /\ cell'[n].reader = cell[n].reader
    BY <2>1 DEF Becomes, CellFields
  <2> QED
    BY <1>6, <1>8, <2>1, <2>2
<1>9. CASE Run("event", steps) /\ UNCHANGED cell
  <2>1. SameEvents(n) /\ OnlyAt(n) /\ cell'[n].status # "Created" /\ ~cell'[n].launch
    BY <1>2, <1>9, TypesAre DEF SameEvents, OnlyAt
  <2>2. ASSUME orderly PROVE CallbackReaches(n, steps)
    <3>1. PICK i \in {5, 12}, d \in {13, 14} :
            /\ EventInv(i) /\ \A m \in Nodes : NodeInv(m, i)
            /\ steps = EventProgram(d) /\ EventProgram(d) # <<>> /\ cell[n].inside
      BY <1>4, <2>2
    <3> HIDE DEF steps
    <3>2. /\ Resolving(n)' <=> Resolving(n)
          /\ Answering(n)' <=> Answering(n)
          /\ Busy(n)' <=> d # 0
          /\ todo'["dns"] = todo["dns"] /\ subject'["dns"] = subject["dns"]
      BY <1>1, <1>2, <1>9, <3>1, CallbackNode
    <3>3. Follows(i, d) /\ ~Ending(i) /\ i # 17 /\ i \in 1..19 /\ d \in 0..19
      BY <3>1 DEF Follows, Working, Reading, Ending
    <3>4. NodeInv(n, d)'
      <4>1. NodeInv(n, i) /\ nodes'[n] = nodes[n] /\ closed' = closed
        BY <1>1, <1>3, <3>1
      <4> QED
        BY <1>2, <2>1, <3>2, <3>3, <4>1, NodeGoesOn
    <3> QED
      BY <1>1, <1>9, <3>1, <3>3, <3>4 DEF CallbackReaches
  <2> HIDE DEF steps
  <2> QED
    BY <1>1, <1>2, <1>3, <1>5, <1>9, <2>1, <2>2, CallbackKeeps
<1> QED
  BY <1>2, <1>7, <1>8, <1>9 DEF Connect, Perform

\* The Close callback is made by what works for the node: nothing else is under way.
LEMMA NodeIsTold ==
  ASSUME NEW n, NEW i \in {8, 13, 14}, NEW j \in {15, 16, 17}, NodeInv(n, i), Busy(n),
         nodes'[n] = nodes[n], Busy(n)', Reading(i) => j = 17,
         Resolving(n)' <=> Resolving(n), Answering(n)' <=> Answering(n),
         todo'["dns"] = todo["dns"], subject'["dns"] = subject["dns"],
         SameEvents(n), ~cell'[n].launch, cell'[n].status = "Closed"
  PROVE  NodeInv(n, j)'
<1>1. /\ ~cell[n].connect /\ ~cell[n].resolved /\ ~Answering(n)
      /\ cell[n].reader => Reading(i)
      /\ ~cell[n].destroy /\ cell[n].exit # "Cancel" /\ nodes[n].uuid # 0
  <2>1. i \in 1..14
    OBVIOUS
  <2> QED
    BY <2>1, NotEnded
<1>2. Ended(n, j)'
  BY <1>1 DEF Ended, Ending, SameEvents
<1>3. Exclusive(n, j)'
  BY <1>1 DEF Exclusive, SameEvents, Working, Reading
<1> QED
  BY <1>1, <1>2, <1>3 DEF NodeInv, SameEvents

\* What TaskFailed and Close change.
LEMMA ToldIs ==
  ASSUME LifecycleInv, NEW n \in Nodes, n = Node("event"), Told(n), Sound("event"),
         NEW op \in {"dial", "read"}, At("event", op)
  PROVE  /\ OnlyAt(n) /\ cell'[n].status = "Closed" /\ SameEvents(n) /\ cell'[n].inside = cell[n].inside
         /\ nodes[n].uuid > 0 /\ closed' = closed \union {nodes[n].uuid}
<1>1. OnlyAt(n) /\ Becomes(n, "status", "Closed")
  <2>1. "status" \in CellFields /\ "Closed" \in FieldType("status") /\ Set(n, "status", "Closed")
    BY DEF CellFields, FieldType, Told, Statuses
  <2> QED
    BY <2>1, SetIs, TypesAre
<1>2. SubjectIsAlive("event")
  BY DEF Sound, At
<1>3. nodes[n].uuid > 0
  BY <1>2, RegistryAssumption DEF SubjectIsAlive, Node
<1> QED
  BY <1>1, <1>3 DEF Told, Becomes, CellFields, SameEvents

LEMMA ReadKeeps ==
  ASSUME LifecycleInv, troubles = {}, Read, Sound("event")
  PROVE  LifecycleInv'
<1>1. /\ At("event", "read")
      /\ UNCHANGED <<registry, memory, list, guard, subject, listBy, loop, orderly>>
  BY DEF Read
<1>2. PICK n \in Nodes :
           /\ n = Node("event") /\ Busy(n) /\ cell[n].status # "Created" /\ ~cell[n].launch
           /\ Tail(todo["event"]) \in Seq(EventSteps)
  BY <1>1, CallbackIsAt
<1>3. /\ Consistent' /\ DOMAIN infoByRequest' = DOMAIN infoByRequest
      /\ RegisteredIsAlive => RegisteredIsAlive'
      /\ list' \subseteq Requests /\ nodes' = nodes
  BY <1>1, SameRegistry, TypesAre DEF LifecycleInv, SharedInv, memory
<1> DEFINE steps == <<"shut">> \o Tail(todo["event"])
<1>4. ASSUME orderly
      PROVE  /\ EventInv(8) /\ \A m \in Nodes : NodeInv(m, 8)
             /\ cell[n].inside /\ cell[n].exit # "Cancel"
             /\ Tail(todo["event"]) = EventProgram(19) /\ steps = EventProgram(17)
             /\ EventProgram(19) # <<>> /\ EventProgram(17) # <<>> /\ EventProgram(0) = <<>>
  <2>1. PICK i \in 1..19 : /\ EventInv(i) /\ \A m \in Nodes : NodeInv(m, i)
                           /\ EventOp(i) = "read"
                           /\ Tail(todo["event"]) = EventProgram(AfterEvent(i))
    BY <1>1, <1>4, EventAt
  <2>2. i = 8 /\ AfterEvent(i) = 19
    BY <2>1 DEF EventOp, AfterEvent
  <2>3. cell[n].inside /\ cell[n].exit # "Cancel"
    BY <1>2, <2>1, <2>2 DEF EventInv, Inside, NodeInv
  <2>4. Tail(todo["event"]) = EventProgram(19)
    BY <2>1, <2>2
  <2>5. steps = EventProgram(17)
    BY <2>4, EventPerforms
  <2>6. EventProgram(0) = <<>> /\ 19 \in 1..19 /\ 17 \in 1..19
    BY DEF EventProgram
  <2> QED
    BY <2>1, <2>2, <2>3, <2>4, <2>5, <2>6, EventFirst
<1>5. steps \in Seq(EventSteps) /\ <<>> \in Seq(EventSteps)
  BY <1>2, Perform1
<1>6. ASSUME UNCHANGED <<cell, closed>>, NEW s \in Seq(EventSteps), Run("event", s),
             orderly => s = <<>> \/ s = Tail(todo["event"])
      PROVE  LifecycleInv'
  <2>1. SameEvents(n) /\ OnlyAt(n) /\ cell'[n].status # "Created" /\ ~cell'[n].launch
    BY <1>2, <1>6, TypesAre DEF SameEvents, OnlyAt
  <2>2. ASSUME orderly PROVE CallbackReaches(n, s)
    <3>1. PICK j \in {0, 19} : s = EventProgram(j) /\ (j # 0 <=> s # <<>>)
      BY <1>4, <1>6, <2>2
    <3>2. /\ Resolving(n)' <=> Resolving(n)
          /\ Answering(n)' <=> Answering(n)
          /\ Busy(n)' <=> j # 0
          /\ todo'["dns"] = todo["dns"] /\ subject'["dns"] = subject["dns"]
      BY <1>1, <1>2, <1>6, <3>1, CallbackNode
    <3>3. Follows(8, j) /\ ~Ending(8) /\ 8 \in 1..19 /\ j \in 0..19
      BY <3>1 DEF Follows, Working, Reading, Ending
    <3>4. NodeInv(n, j)'
      <4>1. NodeInv(n, 8) /\ nodes'[n] = nodes[n] /\ closed' = closed
        BY <1>3, <1>4, <1>6, <2>2
      <4> QED
        BY <1>2, <2>1, <3>2, <3>3, <4>1, NodeGoesOn
    <3> QED
      BY <1>1, <1>4, <1>6, <2>2, <3>1, <3>3, <3>4 DEF CallbackReaches
  <2> QED
    BY <1>1, <1>2, <1>3, <1>6, <2>1, <2>2, CallbackKeeps
<1>7. CASE cell[n].exit = "Cancel" /\ Run("event", steps) /\ UNCHANGED <<cell, closed>>
  <2>1. ~orderly
    BY <1>4, <1>7
  <2> HIDE DEF steps
  <2> QED
    BY <1>5, <1>6, <1>7, <2>1
<1>8. CASE UNCHANGED <<cell, closed>> /\ (Run("event", <<>>) \/ Continue("event"))
  BY <1>2, <1>5, <1>6, <1>8 DEF Continue
<1>9. CASE Told(n) /\ Run("event", steps)
  <2>1. /\ OnlyAt(n) /\ cell'[n].status = "Closed" /\ SameEvents(n) /\ cell'[n].inside = cell[n].inside
        /\ nodes[n].uuid > 0 /\ closed' = closed \union {nodes[n].uuid}
    BY <1>1, <1>2, <1>9, ToldIs
  <2>2. cell'[n].status # "Created" /\ ~cell'[n].launch
    BY <1>2, <2>1 DEF SameEvents
  <2>3. ASSUME orderly PROVE CallbackReaches(n, steps)
    <3> HIDE DEF steps
    <3>1. steps = EventProgram(17) /\ steps # <<>>
      BY <1>4, <2>3
    <3>2. /\ Resolving(n)' <=> Resolving(n)
          /\ Answering(n)' <=> Answering(n)
          /\ Busy(n)'
          /\ todo'["dns"] = todo["dns"] /\ subject'["dns"] = subject["dns"]
      BY <1>1, <1>2, <1>9, <2>1, <3>1, CallbackNode DEF SameEvents
    <3>3. NodeInv(n, 8) /\ nodes'[n] = nodes[n] /\ 8 \in {8, 13, 14} /\ 17 \in {15, 16, 17}
      BY <1>3, <1>4, <2>3
    <3>4. NodeInv(n, 17)'
      BY <1>2, <2>1, <2>2, <3>2, <3>3, NodeIsTold
    <3>5. nodes[n].uuid \notin closed
      <4>1. 8 \in 1..14
        OBVIOUS
      <4> QED
        BY <1>2, <3>3, <4>1, NotEnded
    <3>6. 8 \in 1..19 /\ 17 \in 0..19
      OBVIOUS
    <3> QED
      BY <1>1, <1>4, <2>1, <2>3, <3>1, <3>4, <3>5, <3>6 DEF CallbackReaches
  <2> HIDE DEF steps
  <2> QED
    BY <1>1, <1>2, <1>3, <1>5, <1>9, <2>1, <2>2, <2>3, CallbackKeeps
<1> QED
  BY <1>2, <1>7, <1>8, <1>9 DEF Read, Perform

LEMMA ShutKeeps ==
  ASSUME LifecycleInv, Shut
  PROVE  LifecycleInv'
<1>1. /\ At("event", "shut") /\ Continue("event")
      /\ UNCHANGED <<registry, memory, list, guard, subject, listBy, closed, loop, orderly>>
  BY DEF Shut, rest
<1>2. PICK n \in Nodes :
           /\ n = Node("event") /\ Busy(n) /\ cell[n].status # "Created" /\ ~cell[n].launch
           /\ Tail(todo["event"]) \in Seq(EventSteps)
  BY <1>1, CallbackIsAt
<1>3. /\ Consistent' /\ DOMAIN infoByRequest' = DOMAIN infoByRequest
      /\ RegisteredIsAlive => RegisteredIsAlive'
      /\ list' \subseteq Requests /\ nodes' = nodes
  BY <1>1, SameRegistry, TypesAre DEF LifecycleInv, SharedInv, memory
<1> DEFINE c == [cell[n] EXCEPT !.launch = FALSE, !.connect = FALSE, !.reader = FALSE,
                                !.resolved = FALSE]
<1>4. c \in Cells
  <2>1. ASSUME NEW x \in Cells
        PROVE  [x EXCEPT !.launch = FALSE, !.connect = FALSE, !.reader = FALSE,
                         !.resolved = FALSE] \in Cells
    BY DEF Cells
  <2> QED
    BY <2>1, TypesAre
<1>5. OnlyAt(n) /\ cell'[n] = c
  <2>1. cell' = [cell EXCEPT ![n] = c]
    BY <1>2 DEF Shut
  <2> QED
    BY <1>4, <2>1, CellSet, TypesAre
<1>6. /\ ~cell'[n].launch /\ ~cell'[n].connect /\ ~cell'[n].reader /\ ~cell'[n].resolved
      /\ cell'[n].dns = cell[n].dns /\ cell'[n].exit = cell[n].exit
      /\ cell'[n].destroy = cell[n].destroy /\ cell'[n].inside = cell[n].inside
      /\ cell'[n].status = cell[n].status
  <2>1. cell[n] \in Cells
    BY TypesAre
  <2> QED
    BY <1>5, <2>1 DEF Cells
<1> HIDE DEF c
<1>7. Run("event", Tail(todo["event"]))
  BY <1>1 DEF Continue
<1>8. ASSUME orderly PROVE CallbackReaches(n, Tail(todo["event"]))
  <2>1. PICK i \in 1..19 : /\ EventInv(i) /\ \A m \in Nodes : NodeInv(m, i)
                           /\ EventOp(i) = "shut"
                           /\ Tail(todo["event"]) = EventProgram(AfterEvent(i))
    BY <1>1, <1>8, EventAt
  <2>2. i = 17 /\ AfterEvent(i) = 19
    BY <2>1 DEF EventOp, AfterEvent
  <2>3. /\ EventInv(17) /\ \A m \in Nodes : NodeInv(m, 17)
        /\ Tail(todo["event"]) = EventProgram(19) /\ Tail(todo["event"]) # <<>>
    <3>1. 19 \in 1..19
      OBVIOUS
    <3> QED
      BY <2>1, <2>2, <3>1, EventFirst
  <2>4. cell'[n].inside
    BY <1>2, <1>6, <2>3 DEF EventInv, Inside
  <2>5. /\ Resolving(n)' <=> Resolving(n)
        /\ Answering(n)' <=> Answering(n)
        /\ Busy(n)'
        /\ todo'["dns"] = todo["dns"] /\ subject'["dns"] = subject["dns"]
    BY <1>1, <1>2, <1>6, <1>7, <2>3, CallbackNode
  <2>6. NodeInv(n, 17) /\ ~Untouched(n) /\ closed' = closed /\ nodes'[n] = nodes[n]
    BY <1>1, <1>2, <1>3, <2>3 DEF Untouched
  <2>7. Exclusive(n, 19)'
    BY <1>6 DEF Exclusive, Working, Reading
  <2>8. Ended(n, 17) => Ended(n, 19)'
    BY <1>6, <2>5 DEF Ended, Ending
  <2>9. NodeInv(n, 19)'
    BY <1>6, <2>5, <2>6, <2>7, <2>8 DEF NodeInv
  <2>10. 17 \in 1..19 /\ 19 \in 0..19
    OBVIOUS
  <2> QED
    BY <1>1, <1>6, <2>3, <2>4, <2>9, <2>10 DEF CallbackReaches
<1>9. cell'[n].status # "Created"
  BY <1>2, <1>6
<1> QED
  BY <1>1, <1>2, <1>3, <1>5, <1>6, <1>7, <1>8, <1>9, CallbackKeeps

\* The first call of destroyConnectNode only marks the node.
LEMMA DestroyKeeps ==
  ASSUME LifecycleInv, Destroy
  PROVE  LifecycleInv'
<1>1. /\ At("event", "destroy")
      /\ UNCHANGED <<registry, memory, guard, subject, listBy, closed, loop, orderly>>
  BY DEF Destroy, rest
<1>2. PICK n \in Nodes :
           /\ n = Node("event") /\ Busy(n) /\ cell[n].status # "Created" /\ ~cell[n].launch
           /\ Tail(todo["event"]) \in Seq(EventSteps)
  BY <1>1, CallbackIsAt
<1>3. /\ Consistent' /\ DOMAIN infoByRequest' = DOMAIN infoByRequest
      /\ RegisteredIsAlive => RegisteredIsAlive'
      /\ list' \subseteq Requests /\ list' \subseteq list /\ nodes' = nodes
  BY <1>1, SameRegistry, TypesAre DEF LifecycleInv, SharedInv, memory, Destroy
<1>4. OnlyAt(n) /\ Becomes(n, "destroy", TRUE)
  <2>1. "destroy" \in CellFields /\ TRUE \in FieldType("destroy") /\ Set(n, "destroy", TRUE)
    BY <1>2 DEF CellFields, FieldType, Destroy
  <2> QED
    BY <2>1, SetIs, TypesAre
<1>5. /\ cell'[n].launch = cell[n].launch /\ cell'[n].connect = cell[n].connect
      /\ cell'[n].reader = cell[n].reader /\ cell'[n].resolved = cell[n].resolved
      /\ cell'[n].dns = cell[n].dns /\ cell'[n].exit = cell[n].exit
      /\ cell'[n].inside = cell[n].inside /\ cell'[n].status = cell[n].status
  BY <1>4 DEF Becomes, CellFields
<1>6. cell'[n].status # "Created" /\ ~cell'[n].launch
  BY <1>2, <1>5
<1>7. ASSUME orderly
      PROVE  ~cell[n].destroy /\ (Continue("event") => CallbackReaches(n, Tail(todo["event"])))
  <2>1. PICK i \in 1..19 : /\ EventInv(i) /\ \A m \in Nodes : NodeInv(m, i)
                           /\ EventOp(i) = "destroy"
                           /\ Tail(todo["event"]) = EventProgram(AfterEvent(i))
    BY <1>1, <1>7, EventAt
  <2>2. i \in {15, 16} /\ AfterEvent(i) \in {18, 19}
    BY <2>1 DEF EventOp, AfterEvent
  <2>3. ~cell[n].destroy
    BY <1>2, <2>1, <2>2 DEF NodeInv
  <2>4. PICK j \in {18, 19} : Tail(todo["event"]) = EventProgram(j)
    BY <2>1, <2>2
  <2>5. ASSUME Continue("event") PROVE CallbackReaches(n, Tail(todo["event"]))
    <3>1. Run("event", Tail(todo["event"]))
      BY <2>5 DEF Continue
    <3>2. Tail(todo["event"]) # <<>>
      <4>1. j \in 1..19
        OBVIOUS
      <4> QED
        BY <2>4, <4>1, EventFirst
    <3>3. /\ Resolving(n)' <=> Resolving(n)
          /\ Answering(n)' <=> Answering(n)
          /\ Busy(n)'
          /\ todo'["dns"] = todo["dns"] /\ subject'["dns"] = subject["dns"]
      BY <1>1, <1>2, <1>5, <3>1, <3>2, CallbackNode
    <3>4. /\ ~cell[n].connect /\ ~cell[n].resolved /\ ~Answering(n) /\ ~cell[n].reader
      BY <1>2, <2>1, <2>2 DEF NodeInv, Exclusive, Working, Reading
    <3>5. Exclusive(n, j)'
      BY <1>5, <3>3, <3>4 DEF Exclusive
    <3>6. Ended(n, j)'
      BY <1>5, <1>6, <3>3, <3>4 DEF Ended, Ending
    <3>7. NodeInv(n, j)'
      <4>1. NodeInv(n, i) /\ ~Untouched(n) /\ closed' = closed /\ nodes'[n] = nodes[n]
        BY <1>1, <1>2, <1>3, <2>1 DEF Untouched
      <4> QED
        BY <1>5, <3>3, <3>5, <3>6, <4>1 DEF NodeInv
    <3>8. cell'[n].inside
      BY <1>2, <1>5, <2>1, <2>2 DEF EventInv, Inside
    <3>9. i \in 1..19 /\ j \in 0..19
      OBVIOUS
    <3> QED
      BY <1>1, <1>3, <1>5, <2>1, <2>4, <3>7, <3>8, <3>9 DEF CallbackReaches
  <2> QED
    BY <2>3, <2>5
<1>8. CASE Continue("event")
  <2>1. Run("event", Tail(todo["event"]))
    BY <1>8 DEF Continue
  <2> QED
    BY <1>1, <1>2, <1>3, <1>4, <1>6, <1>7, <1>8, <2>1, CallbackKeeps
<1>9. CASE cell[n].destroy /\ Perform("event", <<"guard", "exist", "forget", "unguard">>)
  <2> DEFINE steps == <<"guard", "exist", "forget", "unguard">> \o Tail(todo["event"])
  <2>1. steps \in Seq(EventSteps)
    <3>1. <<"guard", "exist", "forget", "unguard">> \in Seq(EventSteps)
      <4>1. {"guard", "exist", "forget", "unguard"} \subseteq EventSteps
        BY DEF EventSteps, Steps
      <4> QED
        BY <4>1
    <3> QED
      BY <1>2, <3>1, ConcatProperties
  <2>2. ~orderly /\ Run("event", steps)
    BY <1>7, <1>9 DEF Perform
  <2> HIDE DEF steps
  <2> QED
    BY <1>1, <1>2, <1>3, <1>4, <1>6, <2>1, <2>2, CallbackKeeps
<1> QED
  BY <1>2, <1>8, <1>9 DEF Destroy

LEMMA DialKeeps ==
  ASSUME LifecycleInv, troubles = {}, Dial, Sound("event")
  PROVE  LifecycleInv'
<1>1. /\ At("event", "dial")
      /\ UNCHANGED <<memory, list, guard, subject, listBy, loop, orderly>>
  BY DEF Dial
<1>2. PICK n \in Nodes :
           /\ n = Node("event") /\ Busy(n) /\ cell[n].status # "Created" /\ ~cell[n].launch
           /\ Tail(todo["event"]) \in Seq(EventSteps)
  BY <1>1, CallbackIsAt
<1>3. list' \subseteq Requests /\ list' = list /\ nodes' = nodes
  BY <1>1, TypesAre DEF memory
<1> DEFINE steps == <<"destroy">> \o Tail(todo["event"])
<1>4. ASSUME orderly
      PROVE  \E i \in {13, 14}, j \in {18, 19}, d \in {15, 16} :
               /\ EventInv(i) /\ \A m \in Nodes : NodeInv(m, i)
               /\ Tail(todo["event"]) = EventProgram(j) /\ steps = EventProgram(d)
               /\ EventProgram(j) # <<>> /\ EventProgram(d) # <<>> /\ cell[n].inside
  <2>1. PICK i \in 1..19 : /\ EventInv(i) /\ \A m \in Nodes : NodeInv(m, i)
                           /\ EventOp(i) = "dial"
                           /\ Tail(todo["event"]) = EventProgram(AfterEvent(i))
    BY <1>1, <1>4, EventAt
  <2>2. \/ i = 13 /\ AfterEvent(i) = 19
        \/ i = 14 /\ AfterEvent(i) = 18
    BY <2>1 DEF EventOp, AfterEvent
  <2>3. \A x \in {15, 16, 18, 19} : EventProgram(x) # <<>>
    <3>1. \A x \in {15, 16, 18, 19} : x \in 1..19
      OBVIOUS
    <3> QED
      BY <3>1, EventFirst
  <2>4. cell[n].inside
    BY <1>2, <2>1, <2>2 DEF EventInv, Inside
  <2>5. CASE i = 13
    <3>1. Tail(todo["event"]) = EventProgram(19) /\ steps = EventProgram(15)
      <4>1. Tail(todo["event"]) = EventProgram(19)
        BY <2>1, <2>2, <2>5
      <4> QED
        BY <4>1, EventPerforms
    <3> QED
      BY <2>1, <2>3, <2>4, <2>5, <3>1
  <2>6. CASE i = 14
    <3>1. Tail(todo["event"]) = EventProgram(18) /\ steps = EventProgram(16)
      <4>1. Tail(todo["event"]) = EventProgram(18)
        BY <2>1, <2>2, <2>6
      <4> QED
        BY <4>1, EventPerforms
    <3> QED
      BY <2>1, <2>3, <2>4, <2>6, <3>1
  <2> QED
    BY <2>2, <2>5, <2>6
<1>5. steps \in Seq(EventSteps)
  BY <1>2, Perform1
<1>6. CASE /\ Run("event", steps) /\ UNCHANGED registry
           /\ Told(n) \/ UNCHANGED <<cell, closed>>
  <2>1. /\ Consistent' /\ DOMAIN infoByRequest' = DOMAIN infoByRequest
        /\ RegisteredIsAlive => RegisteredIsAlive'
    BY <1>1, <1>6, SameRegistry DEF LifecycleInv, SharedInv
  <2>2. CASE Told(n)
    <3>1. /\ OnlyAt(n) /\ cell'[n].status = "Closed" /\ SameEvents(n) /\ cell'[n].inside = cell[n].inside
          /\ nodes[n].uuid > 0 /\ closed' = closed \union {nodes[n].uuid}
      BY <1>1, <1>2, <2>2, ToldIs
    <3>2. cell'[n].status # "Created" /\ ~cell'[n].launch
      BY <1>2, <3>1 DEF SameEvents
    <3>3. ASSUME orderly PROVE CallbackReaches(n, steps)
      <4>1. PICK i \in {13, 14}, d \in {15, 16} :
               /\ EventInv(i) /\ \A m \in Nodes : NodeInv(m, i)
               /\ steps = EventProgram(d) /\ EventProgram(d) # <<>> /\ cell[n].inside
        BY <1>4, <3>3
      <4> HIDE DEF steps
      <4>2. /\ Resolving(n)' <=> Resolving(n)
            /\ Answering(n)' <=> Answering(n)
            /\ Busy(n)'
            /\ todo'["dns"] = todo["dns"] /\ subject'["dns"] = subject["dns"]
        BY <1>1, <1>2, <1>6, <3>1, <4>1, CallbackNode DEF SameEvents
      <4>3. /\ NodeInv(n, i) /\ nodes'[n] = nodes[n] /\ i \in {8, 13, 14} /\ d \in {15, 16, 17}
            /\ ~Reading(i) /\ i \in 1..14 /\ i \in 1..19 /\ d \in 0..19
        BY <1>3, <4>1 DEF Reading
      <4>4. NodeInv(n, d)'
        BY <1>2, <3>1, <3>2, <4>2, <4>3, NodeIsTold
      <4> QED
        BY <1>3, <3>1, <4>1, <4>3, <4>4 DEF CallbackReaches, SameEvents
    <3> HIDE DEF steps
    <3> QED
      BY <1>1, <1>2, <1>3, <1>5, <1>6, <2>1, <3>1, <3>2, <3>3, CallbackKeeps
  <2>3. CASE UNCHANGED <<cell, closed>>
    <3>1. SameEvents(n) /\ OnlyAt(n) /\ cell'[n].status # "Created" /\ ~cell'[n].launch
      BY <1>2, <2>3, TypesAre DEF SameEvents, OnlyAt
    <3>2. ASSUME orderly PROVE CallbackReaches(n, steps)
      <4>1. PICK i \in {13, 14}, d \in {15, 16} :
               /\ EventInv(i) /\ \A m \in Nodes : NodeInv(m, i)
               /\ steps = EventProgram(d) /\ EventProgram(d) # <<>> /\ cell[n].inside
        BY <1>4, <3>2
      <4> HIDE DEF steps
      <4>2. /\ Resolving(n)' <=> Resolving(n)
            /\ Answering(n)' <=> Answering(n)
            /\ Busy(n)' <=> d # 0
            /\ todo'["dns"] = todo["dns"] /\ subject'["dns"] = subject["dns"]
        BY <1>1, <1>2, <1>6, <2>3, <4>1, CallbackNode
      <4>3. Follows(i, d) /\ ~Ending(i) /\ i # 17 /\ i \in 1..19 /\ d \in 0..19
        BY <4>1 DEF Follows, Working, Reading, Ending
      <4>4. NodeInv(n, i) /\ nodes'[n] = nodes[n] /\ closed' = closed
        BY <1>3, <2>3, <4>1
      <4>5. NodeInv(n, d)'
        BY <1>2, <3>1, <4>2, <4>3, <4>4, NodeGoesOn
      <4> QED
        BY <1>3, <2>3, <4>1, <4>3, <4>5 DEF CallbackReaches
    <3> HIDE DEF steps
    <3> QED
      BY <1>1, <1>2, <1>3, <1>5, <1>6, <2>1, <2>3, <3>1, <3>2, CallbackKeeps
  <2> QED
    BY <1>6, <2>2, <2>3
<1>7. CASE /\ Update(n, "Connecting") /\ Continue("event") /\ UNCHANGED closed
           /\ \/ cell' = [cell EXCEPT ![n] = [@ EXCEPT !.status = "Connecting", !.connect = TRUE]]
              \/ /\ Idle("dns")
                 /\ cell' = [cell EXCEPT ![n] = [@ EXCEPT !.status = "Connecting", !.dns = TRUE]]
  <2>1. SetStatus(n, "Connecting") /\ "Connecting" \in NodeStatuses
    BY <1>1, <1>7 DEF SetStatus, NodeStatuses
  <2>2. Consistent' /\ (RegisteredIsAlive => RegisteredIsAlive')
    BY <2>1, SetStatusKeeps DEF LifecycleInv, SharedInv
  <2>3. DOMAIN infoByRequest' = DOMAIN infoByRequest
    BY <1>7 DEF Update
  <2>4. OnlyAt(n) /\ \/ cell'[n] = [cell[n] EXCEPT !.status = "Connecting", !.connect = TRUE]
                     \/ /\ Idle("dns")
                        /\ cell'[n] = [cell[n] EXCEPT !.status = "Connecting", !.dns = TRUE]
    <3>1. ASSUME NEW x \in Cells
          PROVE  /\ [x EXCEPT !.status = "Connecting", !.connect = TRUE] \in Cells
                 /\ [x EXCEPT !.status = "Connecting", !.dns = TRUE] \in Cells
      BY DEF Cells, Statuses
    <3>2. cell[n] \in Cells
      BY TypesAre
    <3> QED
      BY <1>7, <3>1, <3>2, CellSet, TypesAre
  <2>5. /\ cell'[n].launch = cell[n].launch /\ cell'[n].reader = cell[n].reader
        /\ cell'[n].resolved = cell[n].resolved
        /\ cell'[n].exit = cell[n].exit /\ cell'[n].destroy = cell[n].destroy
        /\ cell'[n].inside = cell[n].inside /\ cell'[n].status = "Connecting"
        /\ \/ cell'[n].dns = cell[n].dns
           \/ Idle("dns") /\ cell'[n].connect = cell[n].connect /\ cell'[n].dns
    <3>1. cell[n] \in Cells
      BY TypesAre
    <3> QED
      BY <2>4, <3>1 DEF Cells
  <2>6. Run("event", Tail(todo["event"]))
    BY <1>7 DEF Continue
  <2>7. ASSUME orderly PROVE CallbackReaches(n, Tail(todo["event"]))
    <3>1. PICK i \in {13, 14}, j \in {18, 19} :
            /\ EventInv(i) /\ \A m \in Nodes : NodeInv(m, i)
            /\ Tail(todo["event"]) = EventProgram(j) /\ cell[n].inside
      BY <1>4, <2>7
    <3>2. /\ i \in 1..14 /\ NodeInv(n, i) /\ ~Reading(i) /\ i \in 1..19 /\ j \in 0..19
      BY <3>1 DEF Reading
    <3>3. /\ ~cell[n].connect /\ ~cell[n].resolved /\ ~Answering(n) /\ ~cell[n].reader
          /\ nodes[n].uuid \notin closed
      BY <1>2, <3>2, NotEnded
    <3>4. /\ Resolving(n)' <=> Resolving(n)
          /\ (cell'[n].dns <=> cell[n].dns) => (Answering(n)' <=> Answering(n))
          /\ todo'["dns"] = todo["dns"] /\ subject'["dns"] = subject["dns"]
      BY <1>1, <1>2, <2>6, CallbackNode
    <3>5. Exclusive(n, j)'
      BY <2>5, <3>3, <3>4 DEF Exclusive, Working, Reading
    <3>6. Resolving(n) => cell'[n].dns
      BY <2>5, <3>2 DEF NodeInv
    <3>7. NodeInv(n, j)'
      BY <1>2, <1>3, <1>7, <2>5, <3>2, <3>4, <3>5, <3>6, NodeSetsUp
    <3> QED
      BY <1>3, <2>5, <3>1, <3>2, <3>3, <3>7 DEF CallbackReaches
  <2>8. cell'[n].status # "Created" /\ ~cell'[n].launch
    BY <1>2, <2>5
  <2> QED
    BY <1>1, <1>2, <1>3, <1>7, <2>2, <2>3, <2>4, <2>6, <2>7, <2>8, CallbackKeeps
<1> QED
  BY <1>2, <1>6, <1>7 DEF Dial, Up, Perform

(***************************************************************************)
(* Steps of destroyConnectNode when it deletes a request: only in a system *)
(* that is not orderly.                                                    *)
(***************************************************************************)
LEMMA RoughKeeps ==
  ASSUME LifecycleInv, NEW op, At("event", op), op \notin CallbackSteps,
         NEW steps, steps \in Seq(EventSteps), Run("event", steps),
         UNCHANGED <<subject, listBy, closed, loop, orderly>>,
         guard' \in Threads \union {"free"}, list' \subseteq list, made' = made,
         NEW n \in Nodes, n = Node("event"), OnlyAt(n),
         cell'[n].status = cell[n].status, cell'[n].launch => cell[n].launch,
         \A r \in Requests : requests'[r] \in {requests[r], NoNode},
         \A m \in Nodes : m # n => nodes'[m] = nodes[m],
         Consistent', Linked'
  PROVE  LifecycleInv'
<1>1. ~orderly
  BY InCallback
<1>2. cell[n].status # "Created" /\ ~cell[n].launch /\ ~Idle("event")
  BY CallbackIsAt DEF At
<1>3. EventMoves(n, steps)
  <2>1. 0 \notin closed' /\ closed \subseteq closed' /\ closed' \subseteq closed \union {nodes[n].uuid}
    BY DEF LifecycleInv, SharedInv, Typed, LifecycleTypeOK
  <2>2. subject'["event"].node = n /\ list' \subseteq Requests
    BY TypesAre DEF Node
  <2> QED
    BY <1>2, <2>1, <2>2, TypesAre DEF EventMoves, Threads
<1>4. EventSteps' = EventSteps
  BY DEF EventSteps, Request
<1> QED
  BY <1>1, <1>3, <1>4, EventKeeps

\* Of those, the steps that leave the memory alone.
LEMMA RoughStays ==
  ASSUME LifecycleInv, NEW op, At("event", op), op \notin CallbackSteps,
         NEW steps, steps \in Seq(EventSteps), Run("event", steps),
         UNCHANGED <<memory, cell, subject, listBy, closed, loop, orderly>>,
         guard' \in Threads \union {"free"}, list' \subseteq list, Consistent'
  PROVE  LifecycleInv'
<1>1. PICK n \in Nodes : n = Node("event") /\ Busy(n)
  BY CallbackIsAt
<1>2. Linked'
  BY <1>1, LinkedKeeps DEF LifecycleInv, SharedInv, Consistent, Busy
<1>3. made' = made /\ nodes' = nodes /\ requests' = requests /\ OnlyAt(n)
  BY TypesAre DEF memory, OnlyAt
<1> QED
  BY <1>1, <1>2, <1>3, RoughKeeps

LEMMA RoughEvents ==
  ASSUME LifecycleInv,
         \/ TakeGuard("event") \/ Unguard("event") \/ Exist("event") \/ WaitCallback("event")
         \/ RemoveIt("event") \/ Unlist("event")
  PROVE  LifecycleInv'
<1>1. PICK op \in {"guard", "unguard", "exist", "callback", "remove", "unlist"} :
        At("event", op)
  BY DEF TakeGuard, Unguard, Exist, WaitCallback, RemoveIt, Unlist
<1>2. op \notin CallbackSteps
  BY DEF CallbackSteps
<1>3. Tail(todo["event"]) \in Seq(EventSteps)
  BY <1>1, CallbackIsAt
<1>4. UNCHANGED <<memory, cell, subject, listBy, closed, loop, orderly>>
  BY DEF TakeGuard, Unguard, Exist, WaitCallback, RemoveIt, Unlist, rest
<1>5. guard' \in Threads \union {"free"} /\ list' \subseteq list
  BY TypesAre DEF TakeGuard, Unguard, Exist, WaitCallback, RemoveIt, Unlist, rest, Threads
<1>6. Consistent'
  <2>1. CASE UNCHANGED registry
    BY <1>4, <2>1, SameRegistry DEF LifecycleInv, SharedInv
  <2>2. CASE Remove(Request("event"))
    <3>1. Leave(Request("event")) /\ Request("event") \in Requests
      BY <1>4, <2>2 DEF Leave, Remove, Registered, LifecycleInv, SharedInv, Consistent, RegistryTypeOK
    <3> QED
      BY <3>1, LeaveKeeps DEF LifecycleInv, SharedInv
  <2> QED
    BY <2>1, <2>2 DEF TakeGuard, Unguard, Exist, WaitCallback, RemoveIt, Unlist
<1>7. CASE Continue("event")
  <2>1. Run("event", Tail(todo["event"]))
    BY <1>7 DEF Continue
  <2> QED
    BY <1>1, <1>2, <1>3, <1>4, <1>5, <1>6, <2>1, RoughStays
<1>8. CASE Exist("event")
  <2> DEFINE more == IF ~Registered(Request("event")) THEN <<>>
                     ELSE IF RequestExists(Request("event")) THEN <<"remove">> \o Destructor
                     ELSE <<"remove">>
             steps == more \o Tail(todo["event"])
  <2>1. {"remove", "callback", "close", "unlist"} \subseteq EventSteps
    BY DEF EventSteps, Steps
  <2>2. Registered(Request("event")) => "free" \in EventSteps
    BY DEF EventSteps, Steps, Registered, LifecycleInv, SharedInv, Consistent, RegistryTypeOK
  <2>3. <<"remove">> \in Seq(EventSteps) /\ <<>> \in Seq(EventSteps)
    BY <2>1
  <2>4. Registered(Request("event")) => Destructor \in Seq(EventSteps)
    BY <2>1, <2>2 DEF Destructor
  <2>5. more \in Seq(EventSteps)
    BY <2>3, <2>4, ConcatProperties
  <2> HIDE DEF more
  <2>6. steps \in Seq(EventSteps)
    BY <1>3, <2>5, ConcatProperties
  <2>7. Run("event", steps)
    BY <1>8 DEF Exist, Perform, more
  <2> HIDE DEF steps
  <2> QED
    BY <1>1, <1>2, <1>4, <1>5, <1>6, <2>6, <2>7, RoughStays
<1> QED
  BY <1>7, <1>8 DEF TakeGuard, Unguard, Exist, WaitCallback, RemoveIt, Unlist

LEMMA EventCloses ==
  ASSUME LifecycleInv, Close("event")
  PROVE  LifecycleInv'
<1>1. At("event", "close") /\ Run("event", Tail(todo["event"])) /\ "close" \notin CallbackSteps
  BY DEF Close, Continue, CallbackSteps
<1>2. PICK n \in Nodes : n = Node("event") /\ Busy(n) /\ Tail(todo["event"]) \in Seq(EventSteps)
  BY <1>1, CallbackIsAt
<1>3. UNCHANGED <<registry, memory, list, guard, subject, listBy, closed, loop, orderly>>
  BY DEF Close, rest
<1> DEFINE c == [cell[n] EXCEPT !.launch = FALSE, !.connect = FALSE, !.reader = FALSE,
                                !.resolved = FALSE]
<1>4. c \in Cells /\ c.status = cell[n].status /\ ~c.launch
  <2>1. ASSUME NEW x \in Cells
        PROVE  LET y == [x EXCEPT !.launch = FALSE, !.connect = FALSE, !.reader = FALSE,
                                  !.resolved = FALSE]
               IN  y \in Cells /\ y.status = x.status /\ ~y.launch
    BY DEF Cells
  <2> QED
    BY <2>1, TypesAre
<1>5. OnlyAt(n) /\ cell'[n] = c
  <2>1. cell' = [cell EXCEPT ![n] = c]
    BY <1>2 DEF Close
  <2> QED
    BY <1>4, <2>1, CellSet, TypesAre
<1> HIDE DEF c
<1>6. Consistent'
  BY <1>3, SameRegistry DEF LifecycleInv, SharedInv
<1>7. Linked'
  <2>1. \A m \in Nodes : cell'[m].status = "Created" => cell[m].status = "Created"
    BY <1>4, <1>5 DEF OnlyAt
  <2> QED
    BY <1>2, <1>3, <2>1, LinkedKeeps DEF LifecycleInv, SharedInv, Consistent, Busy
<1>8. made' = made /\ nodes' = nodes /\ requests' = requests
  BY <1>3 DEF memory
<1>9. guard' \in Threads \union {"free"} /\ list' \subseteq list
  BY <1>3, TypesAre
<1> QED
  BY <1>1, <1>2, <1>3, <1>4, <1>5, <1>6, <1>7, <1>8, <1>9, RoughKeeps

\* The event thread deletes the request its callback is for, and the node it is at.
LEMMA EventFrees ==
  ASSUME LifecycleInv, FreeIt("event")
  PROVE  LifecycleInv'
<1>1. At("event", "free") /\ Run("event", Tail(todo["event"])) /\ "free" \notin CallbackSteps
  BY DEF FreeIt, Continue, CallbackSteps
<1>2. PICK n \in Nodes : /\ n = Node("event") /\ Busy(n) /\ Tail(todo["event"]) \in Seq(EventSteps)
                         /\ Request("event") \in Requests
  BY <1>1, CallbackIsAt DEF EventSteps
<1>3. UNCHANGED <<registry, cell, list, guard, subject, listBy, closed, loop, orderly>>
  BY DEF FreeIt, rest
<1>4. guard' \in Threads \union {"free"} /\ list' \subseteq list
  BY <1>3, TypesAre
<1>5. CASE ~Allocated(Request("event")) /\ UNCHANGED memory
  <2>1. Consistent'
    BY <1>3, <1>5, SameRegistry DEF LifecycleInv, SharedInv
  <2> QED
    BY <1>1, <1>2, <1>3, <1>4, <1>5, <2>1, RoughStays
<1>6. CASE Free(Request("event"))
  <2>1. Consistent'
    BY <1>2, <1>3, <1>6, FreeKeeps DEF LifecycleInv, SharedInv
  <2>2. Linked'
    BY <1>2, <1>3, <1>6, FreeLinks DEF LifecycleInv, SharedInv, Busy
  <2>3. requests[Request("event")] = n
    BY <1>2, <1>6 DEF Free, Busy, LifecycleInv, SharedInv, Linked
  <2>4. /\ made' = made
        /\ \A m \in Nodes : m # n => nodes'[m] = nodes[m]
        /\ \A r \in Requests : requests'[r] \in {requests[r], NoNode}
    BY <1>2, <1>6, <2>3, TypesAre DEF Free
  <2>5. OnlyAt(n) /\ cell' = cell
    BY <1>3, TypesAre DEF OnlyAt
  <2> QED
    BY <1>1, <1>2, <1>3, <1>4, <2>1, <2>2, <2>4, <2>5, RoughKeeps
<1> QED
  BY <1>5, <1>6 DEF FreeIt

LEMMA ForgetItKeeps ==
  ASSUME LifecycleInv, ForgetIt
  PROVE  LifecycleInv'
<1>1. At("event", "forget") /\ Run("event", Tail(todo["event"])) /\ "forget" \notin CallbackSteps
  BY DEF ForgetIt, Continue, CallbackSteps
<1>2. PICK n \in Nodes : /\ n = Node("event") /\ Busy(n) /\ Tail(todo["event"]) \in Seq(EventSteps)
                         /\ cell[n].status # "Created"
  BY <1>1, CallbackIsAt
<1>3. UNCHANGED <<registry, cell, list, guard, subject, listBy, closed, loop, orderly>>
  BY DEF ForgetIt, rest
<1>4. guard' \in Threads \union {"free"} /\ list' \subseteq list
  BY <1>3, TypesAre
<1>5. CASE UNCHANGED memory
  <2>1. Consistent'
    BY <1>3, <1>5, SameRegistry DEF LifecycleInv, SharedInv
  <2> QED
    BY <1>1, <1>2, <1>3, <1>4, <1>5, <2>1, RoughStays
<1>6. CASE Forget(n)
  <2>1. Consistent'
    BY <1>3, <1>6, ForgetKeeps DEF LifecycleInv, SharedInv
  <2>2. /\ nodes' = [nodes EXCEPT ![n].request = NoNode] /\ requests' = requests /\ made' = made
        /\ nodes'[n].request = NoNode
        /\ \A m \in Nodes : m # n => nodes'[m] = nodes[m]
    BY <1>6, TypesAre DEF Forget, Objects
  <2>3. Linked'
    <3>1. \A m \in Nodes : nodes'[m].request # NoNode => requests'[nodes'[m].request] = m
      BY <2>2 DEF LifecycleInv, SharedInv, Linked
    <3>2. \A r \in Requests : Allocated(r)' /\ cell'[requests'[r]].status = "Created" =>
            nodes'[requests'[r]].request = r
      <4> TAKE r \in Requests
      <4> HAVE Allocated(r)' /\ cell'[requests'[r]].status = "Created"
      <4>1. Allocated(r) /\ requests[r] \in Nodes /\ requests[r] # n
            /\ cell[requests[r]].status = "Created"
        BY <1>2, <1>3, <2>2, TypesAre DEF Allocated
      <4> QED
        BY <2>2, <4>1 DEF LifecycleInv, SharedInv, Linked
    <3>3. (~Idle("event") /\ Request("event") \in Requests /\ Allocated(Request("event")) =>
            requests[Request("event")] = Node("event"))'
      BY <1>2, <1>3, <2>2 DEF LifecycleInv, SharedInv, Linked, Idle, Busy, Request, Node, Allocated
    <3> QED
      BY <3>1, <3>2, <3>3 DEF Linked
  <2>4. OnlyAt(n) /\ cell' = cell /\ \A r \in Requests : requests'[r] \in {requests[r], NoNode}
    BY <1>3, <2>2, TypesAre DEF OnlyAt
  <2> QED
    BY <1>1, <1>2, <1>3, <1>4, <2>1, <2>2, <2>3, <2>4, RoughKeeps
<1> QED
  BY <1>2, <1>5, <1>6 DEF ForgetIt

\* Every step of the event thread.
LEMMA EventStepKeeps ==
  ASSUME LifecycleInv, troubles = {}, Sound("event"), EventStep
  PROVE  LifecycleInv'
BY CheckKeeps, EnterCallbackKeeps, LeaveCallbackKeeps, LaunchKeeps, DialKeeps, ConnectKeeps,
   ReadKeeps, ShutKeeps, DestroyKeeps, RoughEvents, EventCloses, EventFrees, ForgetItKeeps
DEF EventStep, ReleaseStep


(***************************************************************************)
(* The loop calls back.                                                    *)
(***************************************************************************)
\* The event of a kind, and the callback it starts.
Pending(n, kind) == \/ kind = "launch" /\ cell[n].launch
                    \/ kind = "connect" /\ cell[n].connect
                    \/ kind = "read" /\ cell[n].reader
                    \/ kind = "resolved" /\ cell[n].resolved

FirstOf(kind) == CASE kind = "launch" -> 1
                   [] kind = "connect" -> 4
                   [] kind = "read" -> 6
                   [] kind = "resolved" -> 9

LEMMA FiredNode ==
  ASSUME LifecycleInv, NEW n \in Nodes, NEW kind \in Events, Fire(n, kind)
  PROVE  /\ Pending(n, kind) /\ OnlyAt(n) /\ cell[n].status # "Created" /\ ~cell'[n].launch
         /\ kind = "connect" => ~cell'[n].connect
         /\ kind = "resolved" => ~cell'[n].resolved
         /\ cell'[n].status = cell[n].status /\ cell'[n].exit = cell[n].exit
         /\ cell'[n].destroy = cell[n].destroy /\ cell'[n].dns = cell[n].dns
         /\ cell'[n].connect => cell[n].connect
         /\ cell'[n].reader = cell[n].reader
         /\ cell'[n].resolved => cell[n].resolved
<1>1. Pending(n, kind) /\ cell[n].status # "Created"
  BY DEF Fire, Pending, LifecycleInv, SharedInv, Fresh, Untouched
<1>2. \A f \in {"launch", "connect", "resolved"} : f \in CellFields /\ FALSE \in FieldType(f)
  BY DEF CellFields, FieldType
<1>3. ASSUME NEW f \in {"launch", "connect", "resolved"}, Set(n, f, FALSE)
      PROVE  /\ OnlyAt(n) /\ ~cell'[n][f]
             /\ \A g \in CellFields : g # f => cell'[n][g] = cell[n][g]
  <2>1. f \in CellFields /\ FALSE \in FieldType(f) /\ cell \in [Nodes -> Cells]
    BY <1>2, TypesAre
  <2>2. OnlyAt(n) /\ Becomes(n, f, FALSE)
    BY <1>3, <2>1, SetIs
  <2> QED
    BY <2>1, <2>2 DEF Becomes
<1>4. CASE kind = "launch"
  BY <1>1, <1>3, <1>4 DEF Fire, Events, CellFields
<1>5. kind # "launch" => ~cell[n].launch
  BY DEF Fire, Events, LifecycleInv, SharedInv, Fresh
<1>6. CASE kind = "connect"
  BY <1>1, <1>3, <1>5, <1>6 DEF Fire, Events, CellFields
<1>7. CASE kind = "read"
  BY <1>1, <1>5, <1>7, TypesAre DEF Fire, Events, OnlyAt
<1>8. CASE kind = "resolved"
  BY <1>1, <1>3, <1>5, <1>8 DEF Fire, Events, CellFields
<1> QED
  BY <1>4, <1>6, <1>7, <1>8 DEF Events

LEMMA FireMoves ==
  ASSUME LifecycleInv, NEW n \in Nodes, NEW kind \in Events, Fire(n, kind)
  PROVE  /\ EventMoves(n, EventProgram(FirstOf(kind)))
         /\ EventProgram(FirstOf(kind)) \in Seq(EventSteps')
         /\ UNCHANGED <<registry, memory, list, closed>>
         /\ subject'["event"].request = nodes[n].request
         /\ subject'["event"].uuid = nodes[n].uuid
         /\ subject'["event"].node = n
         /\ FirstOf(kind) \in {1, 4, 6, 9}
<1>1. FirstOf(kind) \in {1, 4, 6, 9}
  BY DEF Events, FirstOf
<1>2. Run("event", EventProgram(FirstOf(kind)))
  <2>1. CallbackOf(kind) = EventProgram(FirstOf(kind))
    BY DEF Events, FirstOf, CallbackOf, EventProgram
  <2> QED
    BY <2>1 DEF Fire, Begin
<1>3. UNCHANGED <<registry, memory, list, guard, listBy, closed, loop, orderly>>
  BY DEF Fire, rest
<1>4. subject' = [subject EXCEPT !["event"] = Subject(nodes[n].request, n, kind)]
  BY DEF Fire, Begin
<1>5. /\ DOMAIN subject' = Threads
      /\ subject'["user"] = subject["user"] /\ subject'["dns"] = subject["dns"]
      /\ subject'["event"].request = nodes[n].request /\ subject'["event"].node = n
      /\ subject'["event"].uuid = nodes[n].uuid /\ subject'["event"].kind = kind
  BY <1>4, TypesAre DEF Threads, Subject
<1>6. kind \in Kinds /\ Idle("event")
  BY DEF Events, Kinds, Fire
<1>7. EventMoves(n, EventProgram(FirstOf(kind)))
  <2>1. 0 \notin closed
    BY DEF LifecycleInv, SharedInv, Typed, LifecycleTypeOK
  <2>2. OnlyAt(n) /\ cell[n].status # "Created" /\ cell'[n].status # "Created" /\ ~cell'[n].launch
    BY FiredNode
  <2>3. made' = made /\ requests' = requests
    BY <1>3 DEF memory
  <2> QED
    BY <1>2, <1>3, <1>5, <1>6, <2>1, <2>2, <2>3, TypesAre DEF EventMoves
<1>8. EventProgram(FirstOf(kind)) \in Seq(EventSteps')
  <2>1. kind = "launch" => nodes[n].request \in Requests
    <3>1. kind = "launch" => nodes[n].request # NoNode
      BY DEF Fire, Events, LifecycleInv, SharedInv, Fresh
    <3> QED
      BY <3>1, TypesAre DEF Objects
  <2>2. EventSteps' = IF nodes[n].request \in Requests THEN Steps ELSE Steps \ {"launch", "free"}
    BY <1>5 DEF EventSteps, Request
  <2>3. /\ {"check", "enter", "leave", "connect", "read", "resolved"} \subseteq EventSteps'
        /\ kind = "launch" => "launch" \in EventSteps'
    BY <2>1, <2>2 DEF Steps
  <2>4. CASE kind = "launch"
    <3>1. EventProgram(FirstOf(kind)) = <<"check", "enter", "launch", "leave">>
      BY <2>4 DEF EventProgram, FirstOf
    <3>2. {"check", "enter", "launch", "leave"} \subseteq EventSteps'
      BY <2>3, <2>4
    <3> QED
      BY <3>1, <3>2
  <2>5. CASE kind = "connect"
    <3>1. EventProgram(FirstOf(kind)) = <<"enter", "connect", "leave">>
      BY <2>5 DEF EventProgram, FirstOf
    <3> QED
      BY <2>3, <3>1
  <2>6. CASE kind = "read"
    <3>1. EventProgram(FirstOf(kind)) = <<"check", "enter", "read", "leave">>
      BY <2>6 DEF EventProgram, FirstOf
    <3> QED
      BY <2>3, <3>1
  <2>7. CASE kind = "resolved"
    <3>1. EventProgram(FirstOf(kind)) = <<"check", "check", "enter", "resolved", "check", "leave">>
      BY <2>7 DEF EventProgram, FirstOf
    <3> QED
      BY <2>3, <3>1
  <2> QED
    BY <2>4, <2>5, <2>6, <2>7 DEF Events
<1> QED
  BY <1>1, <1>3, <1>5, <1>7, <1>8

\* An event that is pending is the one thing under way for its node.
LEMMA FiredReaches ==
  ASSUME LifecycleInv, orderly, NEW n \in Nodes, NEW kind \in Events, Fire(n, kind)
  PROVE  EventReaches(n, 0, FirstOf(kind)) /\ nodes[n].uuid \notin closed
<1> DEFINE j == FirstOf(kind)
<1>1. EventInv(0) /\ \A m \in Nodes : NodeInv(m, 0)
  <2>1. PICK k \in 0..19 : EventInv(k) /\ \A m \in Nodes : NodeInv(m, k)
    BY DEF LifecycleInv, OrderlyInv
  <2>2. Idle("event")
    BY DEF Fire
  <2>3. k = 0
    <3>1. k \in 1..19 => EventProgram(k) # <<>>
      BY EventFirst
    <3> QED
      BY <2>1, <2>2, <3>1 DEF EventInv, Idle
  <2> QED
    BY <2>1, <2>3
<1>2. /\ Pending(n, kind) /\ ~Busy(n) /\ NodeInv(n, 0)
  BY <1>1, FiredNode DEF Fire, Busy
<1>3. nodes[n].uuid > 0
  <2>1. nodes[n].uuid \in Nat
    BY TypesAre DEF Objects
  <2>2. nodes[n].uuid # 0
    BY <1>2 DEF NodeInv, Untouched, Pending
  <2> QED
    BY <2>1, <2>2
<1>4. nodes[n].uuid \notin closed /\ ~cell[n].destroy
  BY <1>2 DEF NodeInv, Ended, Pending
<1>5. /\ Run("event", EventProgram(j)) /\ j \in {1, 4, 6, 9}
      /\ nodes' = nodes /\ closed' = closed
      /\ subject'["event"].request = nodes[n].request
      /\ subject'["event"].uuid = nodes[n].uuid
      /\ subject'["event"].node = n
      /\ subject'["dns"] = subject["dns"]
  BY FireMoves DEF EventMoves, memory
<1>6. todo'["event"] = EventProgram(j) /\ todo'["dns"] = todo["dns"]
  BY <1>5, RunIs, TypesAre DEF Threads
<1>7. EventInv(j)'
  BY <1>3, <1>5, <1>6 DEF EventInv, Inside, Node, Request
<1>8. Resolving(n)' <=> Resolving(n)
  BY <1>5, <1>6 DEF Resolving, Idle, Node
<1>9. Answering(n)' <=> Answering(n)
  BY <1>6, <1>8, FiredNode DEF Answering
<1>10. /\ ~cell'[n].connect /\ ~cell'[n].resolved /\ ~Answering(n)
       /\ cell'[n].reader => j = 6
  <2>1. Fresh(n) /\ Exclusive(n, 0)
    BY <1>2 DEF LifecycleInv, SharedInv, NodeInv
  <2>2. CASE kind = "launch"
    BY <2>1, <2>2, <1>2, FiredNode DEF Pending, Fresh, Answering
  <2>3. CASE kind = "connect"
    BY <2>1, <2>3, <1>2, FiredNode DEF Pending, Exclusive
  <2>4. CASE kind = "read"
    BY <2>1, <2>4, <1>2, FiredNode DEF Pending, Exclusive, FirstOf
  <2>5. CASE kind = "resolved"
    BY <2>1, <2>5, <1>2, FiredNode DEF Pending, Exclusive
  <2> QED
    BY <2>2, <2>3, <2>4, <2>5 DEF Events
<1> HIDE DEF j
<1>11. Exclusive(n, j)'
  BY <1>9, <1>10 DEF Exclusive, Reading
<1>12. NodeInv(n, j)'
  BY <1>2, <1>3, <1>4, <1>5, <1>8, <1>11, FiredNode DEF NodeInv
<1> QED
  BY <1>1, <1>3, <1>4, <1>7, <1>12 DEF EventReaches, j

LEMMA FireKeeps ==
  ASSUME LifecycleInv, NEW n \in Nodes, NEW kind \in Events, Fire(n, kind)
  PROVE  LifecycleInv'
<1> DEFINE steps == EventProgram(FirstOf(kind))
<1>1. /\ EventMoves(n, steps) /\ steps \in Seq(EventSteps')
      /\ UNCHANGED <<registry, memory, list, closed>>
      /\ subject'["event"].request = nodes[n].request
      /\ subject'["event"].node = n
      /\ FirstOf(kind) \in {1, 4, 6, 9}
  BY FireMoves
<1>2. nodes' = nodes /\ requests' = requests
  BY <1>1 DEF memory
<1>3. /\ Consistent' /\ DOMAIN infoByRequest' = DOMAIN infoByRequest
      /\ RegisteredIsAlive => RegisteredIsAlive'
  BY <1>1, SameRegistry DEF LifecycleInv, SharedInv
<1>4. Linked'
  <2>1. \A m \in Nodes : cell'[m].status = cell[m].status
    BY FiredNode DEF OnlyAt
  <2>2. \A r \in Requests : Allocated(r) /\ cell[requests[r]].status = "Created" =>
          nodes[requests[r]].request = r
    BY DEF LifecycleInv, SharedInv, Linked
  <2>3. \A r \in Requests : Allocated(r)' => Allocated(r) /\ requests[r] \in Nodes
    BY <1>2, TypesAre DEF Allocated
  <2>4. \A m \in Nodes : nodes[m].request # NoNode => requests[nodes[m].request] = m
    BY DEF LifecycleInv, SharedInv, Linked
  <2>5. nodes[n].request \in Requests => nodes[n].request # NoNode
    BY RegistryAssumption
  <2> QED
    BY <1>1, <1>2, <2>1, <2>2, <2>3, <2>4, <2>5 DEF Linked, Request, Node
<1>5. ASSUME orderly
      PROVE  /\ RegisteredIsAlive' /\ Harmless(n)
             /\ \E i, j \in 0..19 : EventReaches(n, i, j)
  <2>1. EventReaches(n, 0, FirstOf(kind)) /\ nodes[n].uuid \notin closed
    BY <1>5, FiredReaches
  <2>2. FirstOf(kind) \in 0..19 /\ 0 \in 0..19
    BY <1>1
  <2>3. \A m \in Nodes : m # n => ~Busy(m)'
    BY <1>1 DEF Busy, Node
  <2>4. Harmless(n)
    BY <1>1, <1>3, <2>1, <2>3 DEF Harmless
  <2> QED
    BY <1>3, <1>5, <2>1, <2>2, <2>4 DEF LifecycleInv, OrderlyInv
<1> HIDE DEF steps
<1> QED
  BY <1>1, <1>2, <1>3, <1>4, <1>5, EventKeeps

(***************************************************************************)
(* The resolver thread.                                                    *)
(***************************************************************************)
\* It is at the node n, and touches nothing else.
DnsMoves(n, steps) ==
  /\ Run("dns", steps) /\ steps \in DnsPrograms
  /\ ~Idle("dns") => Node("dns") = n
  /\ DOMAIN subject' = Threads
  /\ subject'["user"] = subject["user"] /\ subject'["event"] = subject["event"]
  /\ subject'["dns"].node = n /\ subject'["dns"].kind \in Kinds
  /\ UNCHANGED <<registry, memory, list, guard, listBy, closed, loop, orderly>>
  /\ OnlyAt(n) /\ cell[n].status # "Created" /\ ~cell[n].launch
  /\ cell'[n].status = cell[n].status /\ cell'[n].launch = cell[n].launch
  /\ cell'[n].inside = cell[n].inside /\ cell'[n].connect = cell[n].connect
  /\ cell'[n].reader = cell[n].reader /\ cell'[n].exit = cell[n].exit
  /\ cell'[n].destroy = cell[n].destroy
  /\ cell'[n].dns => cell[n].dns

LEMMA DnsKeeps ==
  ASSUME LifecycleInv, NEW n \in Nodes, NEW steps, DnsMoves(n, steps),
         \A k \in 0..19 : orderly /\ NodeInv(n, k) => NodeInv(n, k)'
  PROVE  LifecycleInv'
<1>1. /\ DOMAIN todo' = Threads /\ todo'["dns"] = steps /\ todo'["user"] = todo["user"]
      /\ todo'["event"] = todo["event"] /\ todo' = [x \in Threads |-> todo'[x]]
  BY RunIs, TypesAre DEF DnsMoves, Threads
<1>2. /\ nodes' = nodes /\ requests' = requests /\ made' = made
      /\ infoByRequest' = infoByRequest /\ closed' = closed
  BY DEF DnsMoves, memory, registry
<1>3. /\ Consistent' /\ DOMAIN infoByRequest' = DOMAIN infoByRequest
      /\ RegisteredIsAlive => RegisteredIsAlive'
  BY SameRegistry DEF LifecycleInv, SharedInv, DnsMoves
<1>4. /\ Idle("event")' <=> Idle("event")
      /\ Node("event")' = Node("event") /\ Request("event")' = Request("event")
      /\ \A m \in Nodes : Busy(m)' <=> Busy(m)
      /\ \A m \in Nodes : m # n => ~Resolving(m)' /\ ~Resolving(m)
  BY <1>1 DEF DnsMoves, Idle, Node, Request, Busy, Resolving
<1>5. Typed'
  <2>1. LifecycleTypeOK'
    <3>1. RegistryTypeOK' /\ cell' \in [Nodes -> Cells]
      BY <1>3 DEF Consistent, DnsMoves, OnlyAt
    <3>2. \A t \in Threads : subject'[t].node \in Nodes \union {NoNode} /\ subject'[t].kind \in Kinds
      BY TypesAre DEF Threads, DnsMoves
    <3>3. closed' \subseteq 1..MaxMade
      BY <1>2 DEF LifecycleInv, SharedInv, Typed, LifecycleTypeOK
    <3> QED
      BY <1>1, <3>1, <3>2, <3>3, TypesAre DEF LifecycleTypeOK, DnsMoves
  <2>2. todo'["event"] \in Seq(EventSteps')
    BY <1>1, <1>4 DEF EventSteps, LifecycleInv, SharedInv, Typed
  <2>3. (~Idle("event") => Node("event") \in Nodes)' /\ (~Idle("dns") => Node("dns") \in Nodes)'
    BY <1>4 DEF LifecycleInv, SharedInv, Typed, DnsMoves, Node
  <2>4. \A u \in closed' : u <= made'
    BY <1>2 DEF LifecycleInv, SharedInv, Typed
  <2> QED
    BY <1>1, <2>1, <2>2, <2>3, <2>4 DEF Typed, DnsMoves
<1>6. Linked'
  <2>1. \A m \in Nodes : cell'[m].status = "Created" => cell[m].status = "Created"
    BY DEF DnsMoves, OnlyAt
  <2> QED
    BY <1>3, <1>4, <2>1, LinkedKeeps DEF DnsMoves, LifecycleInv, SharedInv, Consistent
<1>7. \A m \in Nodes : Fresh(m)'
  <2> TAKE m \in Nodes
  <2>1. CASE m = n
    BY <2>1 DEF Fresh, DnsMoves
  <2>2. CASE m # n
    BY <1>2, <1>4, <2>2, FreshSame DEF DnsMoves, OnlyAt, LifecycleInv, SharedInv
  <2> QED
    BY <2>1, <2>2
<1>8. UserInv'
  <2>1. Elsewhere(n)
    BY <1>1, <1>2 DEF Elsewhere, DnsMoves
  <2>2. Harmless(n)
    BY <1>3, <1>4 DEF Harmless, DnsMoves
  <2> QED
    BY <2>1, <2>2, UserUnmoved
<1>9. ASSUME orderly PROVE OrderlyInv'
  <2>1. PICK k \in 0..19 : EventInv(k) /\ \A m \in Nodes : NodeInv(m, k)
    BY <1>9 DEF LifecycleInv, OrderlyInv
  <2>2. EventInv(k)'
    <3>1. k # 0 => Node("event") \in Nodes
      <4>1. k \in 1..19 => ~Idle("event")
        BY <2>1, EventFirst DEF EventInv, Idle
      <4> QED
        BY <4>1 DEF LifecycleInv, SharedInv, Typed
    <3>2. k # 0 => cell'[Node("event")].inside = cell[Node("event")].inside
      BY <3>1 DEF DnsMoves, OnlyAt
    <3>3. subject'["event"].uuid = subject["event"].uuid
      BY DEF DnsMoves
    <3> QED
      BY <1>1, <1>2, <1>4, <2>1, <3>2, <3>3 DEF EventInv
  <2>3. \A m \in Nodes : NodeInv(m, k)'
    <3> TAKE m \in Nodes
    <3>1. CASE m = n
      BY <1>9, <2>1, <3>1
    <3>2. CASE m # n
      <4>1. NodeInv(m, k) /\ cell'[m] = cell[m]
        BY <2>1, <3>2 DEF DnsMoves, OnlyAt
      <4> QED
        BY <1>2, <1>4, <3>2, <4>1, NodeSame
    <3> QED
      BY <3>1, <3>2
  <2>4. \A r \in list' : Allocated(r)'
    BY <1>2, <1>9 DEF DnsMoves, Allocated, LifecycleInv, OrderlyInv
  <2> QED
    BY <1>3, <1>9, <2>1, <2>2, <2>3, <2>4 DEF OrderlyInv, DnsMoves, LifecycleInv
<1>10. SharedInv'
  BY <1>3, <1>5, <1>6, <1>7 DEF SharedInv
<1> QED
  BY <1>8, <1>9, <1>10 DEF LifecycleInv, DnsMoves

LEMMA ResolverIsAt ==
  ASSUME LifecycleInv, NEW op, At("dns", op)
  PROVE  /\ \E n \in Nodes : /\ n = Node("dns") /\ Resolving(n)
                             /\ cell[n].status # "Created" /\ ~cell[n].launch
         /\ op = "suspend" => /\ todo["dns"] = <<"suspend", "answer", "over">>
                              /\ Tail(todo["dns"]) = <<"answer", "over">>
         /\ op = "answer" => /\ todo["dns"] = <<"answer", "over">>
                             /\ Tail(todo["dns"]) = <<"over">>
         /\ op = "over" => todo["dns"] = <<"over">> /\ Tail(todo["dns"]) = <<>>
<1>1. PICK n \in Nodes : n = Node("dns")
  BY DEF At, LifecycleInv, SharedInv, Typed
<1>2. Resolving(n)
  BY <1>1 DEF At, Resolving
<1>3. cell[n].status # "Created" /\ ~cell[n].launch
  BY <1>2 DEF LifecycleInv, SharedInv, Fresh, Untouched
<1>4. todo["dns"] \in DnsPrograms /\ todo["dns"] # <<>> /\ Head(todo["dns"]) = op
  BY DEF At, Idle, LifecycleInv, SharedInv, Typed
<1>5. CASE todo["dns"] = <<"suspend", "answer", "over">>
  BY <1>1, <1>2, <1>3, <1>4, <1>5
<1>6. CASE todo["dns"] = <<"answer", "over">>
  BY <1>1, <1>2, <1>3, <1>4, <1>6
<1>7. CASE todo["dns"] = <<"over">>
  BY <1>1, <1>2, <1>3, <1>4, <1>7
<1> QED
  BY <1>4, <1>5, <1>6, <1>7 DEF DnsPrograms

LEMMA StartResolverKeeps ==
  ASSUME LifecycleInv, NEW n \in Nodes, StartResolver(n)
  PROVE  LifecycleInv'
<1> DEFINE steps == <<"suspend", "answer", "over">>
<1>1. /\ Idle("dns") /\ cell[n].dns /\ Run("dns", steps)
      /\ subject' = [subject EXCEPT !["dns"] = Subject(nodes[n].request, n, "thread")]
      /\ UNCHANGED <<registry, memory, cell, list, guard, listBy, closed, loop, orderly>>
  BY DEF StartResolver, Begin, rest
<1>2. steps \in DnsPrograms /\ steps # <<"over">> /\ steps # <<>>
  BY DEF DnsPrograms
<1>3. /\ DOMAIN subject' = Threads
      /\ subject'["user"] = subject["user"] /\ subject'["event"] = subject["event"]
      /\ subject'["dns"].node = n /\ subject'["dns"].uuid = nodes[n].uuid
      /\ subject'["dns"].kind = "thread"
  BY <1>1, TypesAre DEF Threads, Subject
<1> HIDE DEF steps
<1>4. cell[n].status # "Created" /\ ~cell[n].launch
  BY <1>1 DEF LifecycleInv, SharedInv, Fresh, Untouched
<1>5. DnsMoves(n, steps)
  BY <1>1, <1>2, <1>3, <1>4, TypesAre DEF DnsMoves, OnlyAt, Kinds
<1>6. \A k \in 0..19 : orderly /\ NodeInv(n, k) => NodeInv(n, k)'
  <2> TAKE k \in 0..19
  <2> HAVE orderly /\ NodeInv(n, k)
  <2>1. todo'["dns"] = steps /\ todo'["event"] = todo["event"]
    BY <1>1, RunIs, TypesAre DEF Threads
  <2>2. Busy(n)' <=> Busy(n)
    BY <1>3, <2>1 DEF Busy, Idle, Node
  <2>3. ~Resolving(n) /\ Resolving(n)'
    BY <1>1, <1>2, <1>3, <2>1 DEF Resolving, Idle, Node
  <2>4. Answering(n) /\ Answering(n)'
    BY <1>1, <1>2, <2>1, <2>3 DEF Answering
  <2>5. nodes' = nodes /\ closed' = closed /\ cell' = cell
    BY <1>1 DEF memory
  <2>6. nodes[n].uuid > 0
    <3>1. nodes[n].uuid \in Nat /\ nodes[n].uuid # 0
      BY <1>1, TypesAre DEF Objects, NodeInv, Untouched
    <3> QED
      BY <3>1
  <2>7. Exclusive(n, k)'
    BY <2>2, <2>4, <2>5 DEF NodeInv, Exclusive
  <2>8. ~Ended(n, k)
    BY <2>4 DEF Ended
  <2> QED
    BY <1>1, <1>3, <2>3, <2>5, <2>6, <2>7, <2>8 DEF NodeInv
<1> QED
  BY <1>5, <1>6, DnsKeeps

\* What the other steps have in common.
LEMMA ResolverMoves ==
  ASSUME LifecycleInv, NEW op, At("dns", op), NEW n \in Nodes, n = Node("dns"), NEW steps,
         Run("dns", steps), steps \in DnsPrograms,
         UNCHANGED <<registry, memory, list, guard, subject, listBy, closed, loop, orderly>>
  PROVE  /\ todo'["dns"] = steps /\ nodes' = nodes /\ closed' = closed
         /\ subject'["dns"] = subject["dns"]
         /\ Busy(n)' <=> Busy(n)
         /\ Resolving(n) /\ (Resolving(n)' <=> steps # <<>>)
<1>1. todo'["dns"] = steps /\ todo'["event"] = todo["event"]
  BY RunIs, TypesAre DEF Threads
<1> QED
  BY <1>1 DEF Busy, Resolving, Idle, Node, At, memory

LEMMA ResolveKeeps ==
  ASSUME LifecycleInv, Resolve
  PROVE  LifecycleInv'
<1>1. At("dns", "suspend") /\ UNCHANGED <<registry, memory, cell, list, guard, subject, listBy, closed, loop, orderly>>
  BY DEF Resolve, rest
<1>2. PICK n \in Nodes : n = Node("dns") /\ cell[n].status # "Created" /\ ~cell[n].launch
  BY <1>1, ResolverIsAt
<1>3. PICK steps \in DnsPrograms : Run("dns", steps) /\ steps # <<>>
  <2>1. Tail(todo["dns"]) = <<"answer", "over">>
    BY <1>1, ResolverIsAt
  <2> QED
    BY <2>1 DEF Resolve, Continue, DnsPrograms
<1>4. DnsMoves(n, steps)
  BY <1>1, <1>2, <1>3, TypesAre DEF DnsMoves, OnlyAt, Node, Threads
<1>5. \A k \in 0..19 : orderly /\ NodeInv(n, k) => NodeInv(n, k)'
  <2> TAKE k \in 0..19
  <2> HAVE orderly /\ NodeInv(n, k)
  <2>1. /\ nodes' = nodes /\ closed' = closed /\ cell' = cell
        /\ subject'["dns"] = subject["dns"]
        /\ Busy(n)' <=> Busy(n)
        /\ Resolving(n) /\ Resolving(n)'
    BY <1>1, <1>2, <1>3, ResolverMoves
  <2>2. Answering(n)
    <3>1. todo["dns"] = <<"suspend", "answer", "over">>
      BY <1>1, ResolverIsAt
    <3> QED
      BY <2>1, <3>1 DEF Answering, NodeInv
  <2>3. Exclusive(n, k)'
    BY <2>1, <2>2 DEF NodeInv, Exclusive
  <2>4. ~Ended(n, k)
    BY <2>2 DEF Ended
  <2> QED
    BY <2>1, <2>3, <2>4 DEF NodeInv
<1> QED
  BY <1>4, <1>5, DnsKeeps

\* The fields of the node that are neither set by the answer nor by the end of the thread.
SameBut(n) ==
  /\ cell'[n].status = cell[n].status /\ cell'[n].launch = cell[n].launch
  /\ cell'[n].inside = cell[n].inside /\ cell'[n].connect = cell[n].connect
  /\ cell'[n].reader = cell[n].reader /\ cell'[n].exit = cell[n].exit
  /\ cell'[n].destroy = cell[n].destroy
SameButResolved(n) == SameBut(n) /\ cell'[n].dns = cell[n].dns
SameButDns(n) == SameBut(n) /\ cell'[n].resolved = cell[n].resolved

LEMMA AnswerKeeps ==
  ASSUME LifecycleInv, Answer
  PROVE  LifecycleInv'
<1>1. /\ At("dns", "answer")
      /\ UNCHANGED <<registry, memory, list, guard, subject, listBy, closed, loop, orderly>>
  BY DEF Answer, rest
<1>2. PICK n \in Nodes : n = Node("dns") /\ cell[n].status # "Created" /\ ~cell[n].launch
  BY <1>1, ResolverIsAt
<1> DEFINE steps == <<"over">>
<1>3. steps \in DnsPrograms /\ Run("dns", steps) /\ steps # <<>>
  <2>1. Tail(todo["dns"]) = <<"over">>
    BY <1>1, ResolverIsAt
  <2> QED
    BY <2>1 DEF Answer, Continue, DnsPrograms
<1>4. OnlyAt(n) /\ Becomes(n, "resolved", TRUE)
  <2>1. "resolved" \in CellFields /\ TRUE \in FieldType("resolved")
    BY DEF CellFields, FieldType
  <2> QED
    BY <1>2, <2>1, SetIs, TypesAre DEF Answer
<1>5. SameButResolved(n) /\ cell'[n].resolved
  BY <1>4 DEF Becomes, CellFields, SameBut, SameButResolved
<1>6. DnsMoves(n, steps)
  BY <1>1, <1>2, <1>3, <1>4, <1>5, TypesAre DEF DnsMoves, Node, Threads, SameBut, SameButResolved
<1>7. \A k \in 0..19 : orderly /\ NodeInv(n, k) => NodeInv(n, k)'
  <2> TAKE k \in 0..19
  <2> HAVE orderly /\ NodeInv(n, k)
  <2>1. /\ nodes' = nodes /\ closed' = closed /\ todo'["dns"] = steps
        /\ subject'["dns"] = subject["dns"]
        /\ Busy(n)' <=> Busy(n)
        /\ Resolving(n) /\ Resolving(n)'
    BY <1>1, <1>2, <1>3, ResolverMoves
  <2>2. Answering(n) /\ ~Answering(n)'
    <3>1. todo["dns"] = <<"answer", "over">>
      BY <1>1, ResolverIsAt
    <3> QED
      BY <2>1, <3>1 DEF Answering, NodeInv
  <2>3. Exclusive(n, k)'
    BY <1>5, <2>1, <2>2 DEF NodeInv, Exclusive, SameBut, SameButResolved
  <2>4. ~Ended(n, k)
    BY <2>2 DEF Ended
  <2> QED
    BY <1>5, <2>1, <2>3, <2>4 DEF NodeInv, SameBut, SameButResolved
<1> HIDE DEF steps
<1> QED
  BY <1>6, <1>7, DnsKeeps

LEMMA ResolverOverKeeps ==
  ASSUME LifecycleInv, ResolverOver
  PROVE  LifecycleInv'
<1>1. /\ At("dns", "over")
      /\ UNCHANGED <<registry, memory, list, guard, subject, listBy, closed, loop, orderly>>
  BY DEF ResolverOver, rest
<1>2. PICK n \in Nodes : n = Node("dns") /\ cell[n].status # "Created" /\ ~cell[n].launch
  BY <1>1, ResolverIsAt
<1> DEFINE steps == <<>>
<1>3. steps \in DnsPrograms /\ Run("dns", steps)
  <2>1. Tail(todo["dns"]) = <<>>
    BY <1>1, ResolverIsAt
  <2> QED
    BY <2>1 DEF ResolverOver, Continue, DnsPrograms
<1>4. OnlyAt(n) /\ Becomes(n, "dns", FALSE)
  <2>1. "dns" \in CellFields /\ FALSE \in FieldType("dns")
    BY DEF CellFields, FieldType
  <2> QED
    BY <1>2, <2>1, SetIs, TypesAre DEF ResolverOver
<1>5. SameButDns(n) /\ ~cell'[n].dns
  BY <1>4 DEF Becomes, CellFields, SameBut, SameButDns
<1>6. DnsMoves(n, steps)
  BY <1>1, <1>2, <1>3, <1>4, <1>5, TypesAre DEF DnsMoves, Node, Threads, SameBut, SameButDns
<1>7. \A k \in 0..19 : orderly /\ NodeInv(n, k) => NodeInv(n, k)'
  <2> TAKE k \in 0..19
  <2> HAVE orderly /\ NodeInv(n, k)
  <2>1. /\ nodes' = nodes /\ closed' = closed
        /\ Busy(n)' <=> Busy(n)
        /\ Resolving(n) /\ ~Resolving(n)'
    BY <1>1, <1>2, <1>3, ResolverMoves
  <2>2. ~Answering(n) /\ ~Answering(n)'
    <3>1. todo["dns"] = <<"over">>
      BY <1>1, ResolverIsAt
    <3> QED
      BY <1>5, <2>1, <3>1 DEF Answering
  <2>3. Exclusive(n, k)'
    BY <1>5, <2>1, <2>2 DEF NodeInv, Exclusive, SameBut, SameButDns
  <2>4. Ended(n, k) => Ended(n, k)'
    BY <1>5, <2>1, <2>2 DEF Ended, SameBut, SameButDns
  <2>5. ~Untouched(n)
    BY <2>1 DEF Untouched
  <2> QED
    BY <1>5, <2>1, <2>3, <2>4, <2>5 DEF NodeInv, SameBut, SameButDns
<1> HIDE DEF steps
<1> QED
  BY <1>6, <1>7, DnsKeeps

\* Every step of the resolver thread.
LEMMA DnsStepKeeps ==
  ASSUME LifecycleInv, DnsStep
  PROVE  LifecycleInv'
BY StartResolverKeeps, ResolveKeeps, AnswerKeeps, ResolverOverKeeps DEF DnsStep

(***************************************************************************)
(* The invariant holds in every state.                                     *)
(***************************************************************************)
LEMMA InitIsGood == LifecycleInit => LifecycleInv
<1> SUFFICES ASSUME LifecycleInit PROVE LifecycleInv
  OBVIOUS
<1>1. RInv /\ RegistryInit
  BY InitHolds DEF LifecycleInit
<1>2. /\ DOMAIN infoByRequest = {} /\ \A r \in Requests : ~Allocated(r)
      /\ \A n \in Nodes : nodes[n].uuid = 0 /\ nodes[n].request = NoNode
  BY <1>1 DEF RegistryInit, Nothing, Allocated
<1>3. /\ cell = [n \in Nodes |-> NewCell] /\ list = {} /\ listBy = "free" /\ guard = "free"
      /\ todo = [t \in Threads |-> <<>>] /\ subject = [t \in Threads |-> NoSubject]
      /\ closed = {} /\ loop = "running" /\ orderly \in BOOLEAN
  BY DEF LifecycleInit
<1>4. /\ Idle("user") /\ Idle("event") /\ Idle("dns")
      /\ \A n \in Nodes : ~Busy(n) /\ ~Resolving(n)
  BY <1>3 DEF Idle, Threads, Busy, Resolving
<1>5. \A n \in Nodes : /\ cell[n].status = "Created" /\ cell[n].exit = "Invalid"
                       /\ ~cell[n].launch /\ ~cell[n].connect /\ ~cell[n].reader
                       /\ ~cell[n].resolved /\ ~cell[n].dns /\ ~cell[n].destroy
  BY <1>3 DEF NewCell
<1>6. \A n \in Nodes : Untouched(n)
  BY <1>4, <1>5 DEF Untouched
<1>7. Typed
  <2>1. LifecycleTypeOK
    <3>1. NewCell \in Cells
      BY DEF NewCell, Cells, Statuses, Exits
    <3>2. cell \in [Nodes -> Cells]
      BY <1>3, <3>1
    <3>3. \A t \in Threads : subject[t].node = NoNode /\ subject[t].kind = "call"
      BY <1>3 DEF NoSubject
    <3> QED
      BY <1>1, <1>3, <3>2, <3>3 DEF LifecycleTypeOK, RInv, Consistent, Kinds
  <2>2. todo["event"] = <<>> /\ todo["dns"] = <<>> /\ <<>> \in Seq(EventSteps)
    BY <1>4 DEF Idle
  <2>3. todo["dns"] \in DnsPrograms
    BY <2>2 DEF DnsPrograms
  <2> QED
    BY <1>3, <1>4, <2>1, <2>2, <2>3 DEF Typed
<1>8. SharedInv
  BY <1>1, <1>2, <1>4, <1>5, <1>6, <1>7 DEF SharedInv, RInv, Linked, Fresh
<1>9. UserInv
  <2>1. todo["user"] = UserProgram(0)
    BY <1>4 DEF Idle, UserProgram
  <2>2. UserKnows(0) /\ Untried
    BY <1>2, <1>5 DEF UserKnows, Untried
  <2>3. Releases(0)
    BY <1>2 DEF Releases, Marked
  <2>4. 0 \in 0..24 /\ 0 \in 0..18
    OBVIOUS
  <2> QED
    BY <2>1, <2>2, <2>3, <2>4 DEF UserInv
<1>10. OrderlyInv
  <2>1. EventInv(0)
    BY <1>4 DEF EventInv, EventProgram, Idle
  <2>2. \A n \in Nodes : NodeInv(n, 0)
    BY <1>2, <1>3, <1>4, <1>5, <1>6 DEF NodeInv, Exclusive
  <2>3. 0 \in 0..19
    OBVIOUS
  <2> QED
    BY <1>1, <1>3, <2>1, <2>2, <2>3 DEF OrderlyInv, RInv
<1> QED
  BY <1>8, <1>9, <1>10 DEF LifecycleInv

LEMMA NothingHappens ==
  ASSUME LifecycleInv, UNCHANGED vars
  PROVE  LifecycleInv'
<1>1. UNCHANGED <<registry, memory, cell, list, listBy, guard, todo, subject, closed, loop, orderly>>
  BY DEF vars
<1>2. /\ infoByRequest' = infoByRequest /\ requestListByNode' = requestListByNode
      /\ nodes' = nodes /\ requests' = requests /\ made' = made
  BY <1>1 DEF memory, registry
<1>3. /\ \A t \in Threads : (Idle(t)' <=> Idle(t)) /\ Node(t)' = Node(t) /\ Request(t)' = Request(t)
      /\ \A n \in Nodes : (Busy(n)' <=> Busy(n)) /\ (Resolving(n)' <=> Resolving(n))
      /\ Node("user")' = Node("user") /\ Request("user")' = Request("user")
  BY <1>1 DEF Idle, Node, Request, Busy, Resolving
<1>4. Consistent' /\ (RegisteredIsAlive => RegisteredIsAlive')
  BY <1>1, SameRegistry DEF LifecycleInv, SharedInv
<1>5. Typed'
  <2>1. LifecycleTypeOK'
    <3>1. RegistryTypeOK'
      BY <1>4 DEF Consistent
    <3> QED
      BY <1>1, <3>1 DEF LifecycleInv, SharedInv, Typed, LifecycleTypeOK
  <2>2. EventSteps' = EventSteps
    BY <1>1 DEF EventSteps, Request
  <2> QED
    BY <1>1, <1>2, <2>1, <2>2 DEF LifecycleInv, SharedInv, Typed, Idle, Node
<1>6. SharedInv'
  <2>1. Linked'
    BY <1>1, <1>3, LinkedKeeps DEF LifecycleInv, SharedInv, Consistent, Threads
  <2>2. \A n \in Nodes : Fresh(n)'
    BY <1>1, <1>2, <1>3, FreshSame DEF LifecycleInv, SharedInv
  <2> QED
    BY <1>4, <1>5, <2>1, <2>2 DEF SharedInv
<1>7. UserInv'
  <2>1. PICK k \in 0..24 : UserStands(k)
    BY DEF LifecycleInv, UserInv, UserStands
  <2>2. UserKnows(k)'
    BY <1>1, <1>2, <2>1 DEF UserStands, UserKnows, Node, Request, Allocated, Registered
  <2>3. Untried => Untried'
    BY <1>1, <1>2 DEF Untried
  <2>4. Releases(k) => Releases(k)'
    <3>1. Marked(k) => Marked(k)'
      BY <1>1, <1>2 DEF Marked, Node
    <3>2. /\ Busy(Node("user"))' <=> Busy(Node("user"))
          /\ \A r : Registered(r)' <=> Registered(r)
          /\ \A r : Allocated(r)' <=> Allocated(r)
      BY <1>1, <1>2 DEF Busy, Idle, Node, Registered, Allocated
    <3>3. Registered(Request("user"))' <=> Registered(Request("user"))
      BY <1>1, <1>2 DEF Registered, Request
    <3>4. Allocated(Request("user"))' <=> Allocated(Request("user"))
      BY <1>1, <1>2 DEF Allocated, Request
    <3> QED
      BY <1>1, <1>2, <1>3, <3>1, <3>2, <3>3, <3>4 DEF Releases
  <2> QED
    BY <1>1, <1>2, <2>1, <2>2, <2>3, <2>4 DEF UserInv, UserStands, Early
<1>8. ASSUME orderly PROVE OrderlyInv'
  <2>1. PICK k \in 0..19 : EventInv(k) /\ \A n \in Nodes : NodeInv(n, k)
    BY <1>8 DEF LifecycleInv, OrderlyInv
  <2>2. EventInv(k)'
    BY <1>1, <1>2, <2>1 DEF EventInv, Node, Request
  <2>3. \A n \in Nodes : NodeInv(n, k)'
    BY <1>1, <1>2, <1>3, <2>1, NodeSame
  <2> QED
    BY <1>1, <1>2, <1>4, <1>8, <2>1, <2>2, <2>3 DEF LifecycleInv, OrderlyInv, Allocated
<1> QED
  BY <1>1, <1>6, <1>7, <1>8 DEF LifecycleInv

LEMMA LifecycleKeeps ==
  ASSUME LifecycleInv, troubles = {}, [LifecycleNext]_vars
  PROVE  LifecycleInv'
<1>1. CASE LifecycleNext
  BY <1>1, UserCallKeeps, UserStepKeeps, EventStepKeeps, DnsStepKeeps, FireKeeps DEF LifecycleNext
<1>2. CASE UNCHANGED vars
  BY <1>2, NothingHappens
<1> QED
  BY <1>1, <1>2

\* What is let in does not change.
LEMMA TroublesStay == [LifecycleNext]_vars => troubles' = troubles
<1> SUFFICES ASSUME LifecycleNext PROVE troubles' = troubles
  BY DEF vars
<1>1. CASE UserCall
  BY <1>1 DEF UserCall, Create, Start, Release, ReleaseClient, rest
<1>2. ASSUME NEW t, ReleaseStep(t) PROVE troubles' = troubles
  BY <1>2 DEF ReleaseStep, TakeGuard, Unguard, Exist, WaitCallback, RemoveIt, Close, Unlist,
              FreeIt, rest
<1>3. CASE UserStep
  BY <1>2, <1>3 DEF UserStep, EnterRequest, WaitInvoking, TellResolver, WaitResolver,
                    DeleteEvents, Destroyed, Sweep, DeleteByForce, Break, Join, rest
<1>4. CASE EventStep
  BY <1>2, <1>4 DEF EventStep, Check, EnterCallback, LeaveCallback, Launch, Dial, Connect,
                    Read, Shut, Destroy, ForgetIt, rest
<1>5. CASE DnsStep
  BY <1>5 DEF DnsStep, StartResolver, Resolve, Answer, ResolverOver, rest
<1>6. ASSUME NEW n, NEW kind, Fire(n, kind) PROVE troubles' = troubles
  BY <1>6 DEF Fire, rest
<1> QED
  BY <1>1, <1>3, <1>4, <1>5, <1>6 DEF LifecycleNext

\* What is proved below follows from this: of a node that was started, one thing at a
\* time is under way, in the callbacks, the resolver thread and the pending events, and
\* after Close nothing but the callback that made it. A long connection keeps its read
\* event: there the second half is false, so the theorem says nothing of it.
THEOREM LifecycleInvAlways == LifecycleSpec => [](troubles = {} => LifecycleInv)
<1>1. LifecycleInit => (troubles = {} => LifecycleInv)
  BY InitIsGood
<1>2. (troubles = {} => LifecycleInv) /\ [LifecycleNext]_vars
      => (troubles = {} => LifecycleInv)'
  BY LifecycleKeeps, TroublesStay
<1> QED
  BY <1>1, <1>2, PTL DEF LifecycleSpec

(***************************************************************************)
(* What follows.                                                           *)
(***************************************************************************)
\* The variables keep their types also where the system is not orderly, among them the
\* fields of a node whose memory is gone. Of connections that are closed with Close.
THEOREM LifecycleIsTyped == LifecycleSpec => [](troubles = {} => LifecycleTypeOK)
<1>1. LifecycleInv => LifecycleTypeOK
  BY DEF LifecycleInv, SharedInv, Typed
<1> QED
  BY LifecycleInvAlways, <1>1, PTL

\* The two maps of nodeManager.cpp stay inverse of each other when its callers are the
\* client, the callbacks and the resolver thread, orderly or not. Of connections that
\* are closed with Close.
THEOREM LifecycleMapsAgree == LifecycleSpec => [](troubles = {} => MapsAgree)
<1>1. LifecycleInv => MapsAgree
  BY DEF LifecycleInv, SharedInv, Consistent
<1> QED
  BY LifecycleInvAlways, <1>1, PTL

\* Without a lock between them, no callback past its checks, no resolver thread and no
\* entry of _nodeList points to what a release deleted, when the connection went down
\* with Close and the waits of the release do not wake early.
THEOREM NobodyFollowsDeleted == LifecycleSpec => []PointersAreAlive
<1>1. (troubles = {} => LifecycleInv) => PointersAreAlive
  <2> SUFFICES ASSUME LifecycleInv
               PROVE  CallbackNodeIsAlive /\ ResolverNodeIsAlive /\ ListIsAlive
    BY DEF PointersAreAlive
  <2>1. CallbackNodeIsAlive
    <3> SUFFICES ASSUME orderly, ~Idle("event") PROVE SubjectIsAlive("event")
      BY DEF CallbackNodeIsAlive
    <3>1. PICK k \in 0..19 : EventInv(k)
      BY DEF LifecycleInv, OrderlyInv
    <3>2. k # 0
      BY <3>1 DEF EventInv, EventProgram, Idle
    <3> QED
      BY <3>1, <3>2 DEF EventInv, SubjectIsAlive
  <2>2. ResolverNodeIsAlive
    <3> SUFFICES ASSUME orderly, ~Idle("dns") PROVE SubjectIsAlive("dns")
      BY DEF ResolverNodeIsAlive
    <3>1. PICK n \in Nodes : n = Node("dns")
      BY DEF LifecycleInv, SharedInv, Typed
    <3>2. Resolving(n)
      BY <3>1 DEF Resolving
    <3>3. nodes[n].uuid = subject["dns"].uuid /\ nodes[n].uuid > 0
      BY <3>2 DEF LifecycleInv, OrderlyInv, NodeInv
    <3> QED
      BY <3>1, <3>3 DEF SubjectIsAlive
  <2>3. ListIsAlive
    BY DEF ListIsAlive, LifecycleInv, OrderlyInv
  <2> QED
    BY <2>1, <2>2, <2>3
<1> QED
  BY LifecycleInvAlways, <1>1, PTL

\* releaseRequest ends with the request deleted, whichever waits it had to make: the
\* branch in which removeRequestFromInfo refuses, and nobody deletes, is not taken. Of
\* connections that are closed with Close.
THEOREM ReleasedIsFreed == LifecycleSpec /\ troubles = {} => ReleaseFrees
<1> DEFINE Frees == \A r \in Requests :
             /\ orderly /\ troubles \subseteq {"kept"}
             /\ At("user", "unguard") /\ Idle("user")' /\ subject["user"].request = r
             => nodes[Node("user")].uuid # subject["user"].uuid
<1>1. LifecycleInv => Frees
  <2> SUFFICES ASSUME LifecycleInv, orderly, At("user", "unguard")
               PROVE  nodes[Node("user")].uuid # subject["user"].uuid
    OBVIOUS
  <2>1. PICK k \in 1..24 : UserStands(k) /\ UserOp(k) = "unguard"
    BY UserAt
  <2>2. k = 15
    BY <2>1 DEF UserOp
  <2> QED
    BY <2>1, <2>2 DEF UserStands, Releases
<1>2. LifecycleInv => [Frees]_vars
  BY <1>1
<1>3. troubles = {} /\ [LifecycleNext]_vars => (troubles = {})'
  BY TroublesStay
<1> QED
  BY LifecycleInvAlways, <1>2, <1>3, PTL DEF ReleaseFrees, LifecycleSpec

\* delAllEvents does what it says of itself, wait until all callbacks have left, when
\* the connection went down with Close and its waits do not wake early.
THEOREM CallbacksLeave == LifecycleSpec => [](troubles = {} => CallbacksHaveLeft)
<1>1. LifecycleInv => CallbacksHaveLeft
  <2> SUFFICES ASSUME LifecycleInv, orderly, At("user", "destroyed")
               PROVE  ~Under(Node("user"))
    BY DEF CallbacksHaveLeft
  <2>1. PICK k \in 1..24 : UserStands(k) /\ UserOp(k) = "destroyed"
    BY UserAt
  <2>2. k = 9
    BY <2>1 DEF UserOp
  <2> QED
    BY <2>1, <2>2 DEF UserStands, Releases, Busy, Under
<1> QED
  BY LifecycleInvAlways, <1>1, PTL

(***************************************************************************)
(* The system refines the registry.                                        *)
(***************************************************************************)
\* delete comes after the request left the registry.
LEMMA FreedIsUnregistered ==
  ASSUME LifecycleInv, orderly, FreeIt("user")
  PROVE  UNCHANGED memory \/ \E r \in Requests : Delete(r)
<1>1. PICK k \in 1..24 : UserStands(k) /\ UserOp(k) = "free"
  BY UserAt DEF FreeIt
<1>2. k = 14
  BY <1>1 DEF UserOp, UserStands
<1>3. Request("user") \in Requests /\ ~Registered(Request("user"))
  BY <1>1, <1>2 DEF UserStands, Releases
<1> QED
  BY <1>3 DEF FreeIt, Delete

LEMMA LeftIsRegistered ==
  ASSUME LifecycleInv, NEW t, RemoveIt(t)
  PROVE  UNCHANGED <<registry, memory>> \/ \E r \in Requests : Leave(r)
<1>1. \A r : Remove(r) => r \in Requests
  BY DEF Remove, Registered, LifecycleInv, SharedInv, Consistent, RegistryTypeOK
<1> QED
  BY <1>1 DEF RemoveIt, Leave

LEMMA StepIsOfRegistry ==
  ASSUME LifecycleInv, troubles = {}, orderly, LifecycleNext
  PROVE  RegistryNext \/ UNCHANGED <<registry, memory>>
<1>1. CASE UserCall
  <2>1. ASSUME NEW r \in Requests, NEW n \in Nodes, Create(r, n) PROVE RegistryNext
    BY <2>1, CreateKeeps DEF RegistryNext
  <2>2. ASSUME NEW r \in Requests, Start(r) \/ Release(r)
        PROVE  UNCHANGED <<registry, memory>>
    BY <2>2 DEF Start, Release
  <2>3. CASE ReleaseClient
    BY <2>3 DEF ReleaseClient
  <2> QED
    BY <1>1, <2>1, <2>2, <2>3 DEF UserCall
<1>2. CASE UserStep
  <2>1. CASE EnterRequest
    <3>1. Enter(Request("user"), client)
      BY <2>1, EnterRequestKeeps
    <3>2. Request("user") \in Requests
      <4>1. PICK k \in 1..24 : UserStands(k) /\ UserOp(k) = "enter"
        BY <2>1, UserAt DEF EnterRequest
      <4>2. k = 1
        BY <4>1 DEF UserOp
      <4> QED
        BY <4>1, <4>2 DEF UserStands, UserKnows
    <3> QED
      BY <3>1, <3>2, LifecycleAssumption DEF RegistryNext
  <2>2. CASE RemoveIt("user")
    BY <2>2, LeftIsRegistered DEF RegistryNext
  <2>3. CASE FreeIt("user")
    BY <2>3, FreedIsUnregistered DEF RegistryNext, FreeIt
  <2>4. CASE TakeGuard("user") \/ Unguard("user") \/ Exist("user") \/ WaitCallback("user")
             \/ Close("user") \/ Unlist("user")
    BY <2>4 DEF TakeGuard, Unguard, Exist, WaitCallback, Close, Unlist
  <2>5. CASE WaitInvoking \/ TellResolver \/ WaitResolver \/ DeleteEvents \/ Destroyed
             \/ Sweep \/ DeleteByForce \/ Break \/ Join
    BY <2>5 DEF WaitInvoking, TellResolver, WaitResolver, DeleteEvents, Destroyed, Sweep,
                DeleteByForce, Break, Join
  <2> QED
    BY <1>2, <2>1, <2>2, <2>3, <2>4, <2>5 DEF UserStep, ReleaseStep
<1>3. CASE EventStep
  <2>1. CASE Dial
    <3>1. PICK n \in Nodes : n = Node("event")
      BY <2>1 DEF Dial, At, LifecycleInv, SharedInv, Typed
    <3>2. UNCHANGED <<registry, memory>> \/ SetStatus(n, "Connecting")
      BY <2>1, <3>1 DEF Dial, Up, SetStatus
    <3> QED
      BY <3>1, <3>2 DEF RegistryNext, NodeStatuses
  <2>2. ~RemoveIt("event") /\ ~FreeIt("event") /\ ~ForgetIt
    BY InCallback DEF RemoveIt, FreeIt, ForgetIt, CallbackSteps
  <2>3. CASE TakeGuard("event") \/ Unguard("event") \/ Exist("event") \/ WaitCallback("event")
             \/ Close("event") \/ Unlist("event")
    BY <2>3 DEF TakeGuard, Unguard, Exist, WaitCallback, Close, Unlist
  <2>4. CASE Check \/ EnterCallback \/ LeaveCallback \/ Launch \/ Connect \/ Read \/ Shut \/ Destroy
    BY <2>4 DEF Check, EnterCallback, LeaveCallback, Launch, Connect, Read, Shut, Destroy
  <2> QED
    BY <1>3, <2>1, <2>2, <2>3, <2>4 DEF EventStep, ReleaseStep
<1>4. CASE DnsStep
  BY <1>4 DEF DnsStep, StartResolver, Resolve, Answer, ResolverOver
<1>5. ASSUME NEW n \in Nodes, NEW kind \in Events, Fire(n, kind)
      PROVE  UNCHANGED <<registry, memory>>
  BY <1>5 DEF Fire
<1> QED
  BY <1>1, <1>2, <1>3, <1>4, <1>5 DEF LifecycleNext

\* The client and the callbacks call the registry as it asks its callers to: an object
\* is deleted after it left, an address is entered once. What is proved of the registry
\* alone is so proved where it is used, by connections that are closed with Close.
THEOREM RegistryUsedAsPromised == LifecycleSpec /\ troubles = {} => RegistryInUse
<1> DEFINE Promise == orderly /\ troubles \subseteq {"kept"} => RegistryNext
<1>1. LifecycleInv /\ troubles = {} /\ [LifecycleNext]_vars => [Promise]_<<registry, memory>>
  <2> SUFFICES ASSUME LifecycleInv, troubles = {}, [LifecycleNext]_vars
               PROVE  [Promise]_<<registry, memory>>
    OBVIOUS
  <2>1. CASE LifecycleNext
    BY <2>1, StepIsOfRegistry
  <2>2. CASE UNCHANGED vars
    BY <2>2 DEF vars
  <2> QED
    BY <2>1, <2>2
<1>2. troubles = {} /\ [LifecycleNext]_vars => (troubles = {})'
  BY TroublesStay
<1> QED
  BY LifecycleInvAlways, <1>1, <1>2, PTL DEF LifecycleSpec, RegistryInUse
===============================================================================
