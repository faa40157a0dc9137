------------------------------- MODULE Registry -------------------------------
(***************************************************************************)
(* The registry of requests, NlsNodeManager (transport/nodeManager.cpp),   *)
(* and the memory its pointers point into.                                 *)
(*                                                                         *)
(* A key of the registry is an address. new may return an address that     *)
(* was freed before, so an address alone does not say which object it      *)
(* means: the registry also keeps the uuid a node drew in its constructor, *)
(* and compares it. Every function of the registry holds _mtxNodeManager   *)
(* and is one step.                                                        *)
(***************************************************************************)
EXTENDS Integers, FiniteSets, Functions

CONSTANTS
  Requests,  \* addresses new can return for a request
  Nodes,     \* addresses new can return for a node
  Instances, \* NlsClientImpl objects
  NoNode,    \* a request address that holds no object
  MaxMade    \* bound: requests made

ASSUME RegistryAssumption == NoNode \notin Nodes \union Requests /\ MaxMade \in Nat

VARIABLES
  infoByRequest,     \* _infoByRequest: registered request -> NodeInfo
  requestListByNode, \* _requestListByNode: registered node -> request
  requests,          \* Requests -> the node the object at this address has, or NoNode
  nodes,             \* Nodes -> the object at this address
  made               \* requests made so far; the uuid of the newest

registry == <<infoByRequest, requestListByNode>>
memory == <<requests, nodes, made>>

\* NodeStatus, the values the code stores
NodeStatuses == {"Created", "Running", "Connecting", "Connected", "Handshaking"}

\* uuid 0: no object here. request is ConnectNode::_request.
Objects == [uuid : 0..MaxMade, request : Requests \union {NoNode}]
Nothing == [uuid |-> 0, request |-> NoNode]

NodeInfo == [node : Nodes, instance : Instances, uuid : 1..MaxMade, status : NodeStatuses]

Allocated(r) == requests[r] # NoNode
Registered(r) == r \in DOMAIN infoByRequest

(***************************************************************************)
(* Queries. A pointer is looked up before it is followed; the uuid tells a *)
(* new object at a registered address from the registered one.             *)
(***************************************************************************)
\* what checkRequestWithInstance and checkRequestExist compare in the end
SameObject(r) == nodes[requests[r]].uuid = infoByRequest[r].uuid

RequestExists(r) == /\ Registered(r)
                    /\ requests[r] \in DOMAIN requestListByNode
                    /\ SameObject(r)

RequestBelongsTo(r, i) == /\ Registered(r)
                          /\ infoByRequest[r].instance = i
                          /\ RequestExists(r)

\* checkNodeExist
NodeExists(n) == /\ n \in DOMAIN requestListByNode
                 /\ Registered(nodes[n].request)
                 /\ nodes[n].uuid = infoByRequest[nodes[n].request].uuid

(***************************************************************************)
(* Changes.                                                                *)
(***************************************************************************)
\* new: a request and the node its constructor makes
Allocate(r, n) ==
  /\ ~Allocated(r) /\ nodes[n] = Nothing /\ made < MaxMade
  /\ requests' = [requests EXCEPT ![r] = n]
  /\ nodes' = [nodes EXCEPT ![n] = [uuid |-> made + 1, request |-> r]]
  /\ made' = made + 1

\* A registered address may be registered again: it must have its first status
\* and belong to the same instance. The code also lets a Released entry pass, a
\* status that is never stored.
MayAdd(r, i) == Registered(r) => /\ infoByRequest[r].status = "Created"
                                 /\ infoByRequest[r].instance = i

\* addRequestIntoInfoWithInstance, for a new object
Add(r, i) ==
  /\ MayAdd(r, i)
  /\ infoByRequest' =
       [q \in DOMAIN infoByRequest \union {r} |->
          IF q = r THEN [node |-> requests[r], instance |-> i,
                         uuid |-> nodes[requests[r]].uuid, status |-> "Created"]
          ELSE infoByRequest[q]]
  /\ requestListByNode' =
       [n \in DOMAIN requestListByNode \union {requests[r]} |->
          IF n = requests[r] THEN r ELSE requestListByNode[n]]

\* mutant of Remove: the entry of the node stays
RemoveRequest(r) ==
  /\ Registered(r)
  /\ infoByRequest' = Restrict(infoByRequest, DOMAIN infoByRequest \ {r})
  /\ UNCHANGED requestListByNode

\* removeRequestFromInfo of a registered request, as it is called, without a
\* wait. It does not look at the uuid.
Remove(r) ==
  /\ Registered(r)
  /\ infoByRequest' = Restrict(infoByRequest, DOMAIN infoByRequest \ {r})
  /\ requestListByNode' = Restrict(requestListByNode,
                                   DOMAIN requestListByNode \ {infoByRequest[r].node})

\* updateNodeStatus; what it refuses leaves everything unchanged
Update(n, s) ==
  /\ NodeExists(n)
  /\ infoByRequest' = [infoByRequest EXCEPT ![nodes[n].request].status = s]
  /\ UNCHANGED requestListByNode

\* delete: the request and its node
Free(r) ==
  /\ Allocated(r)
  /\ nodes' = [nodes EXCEPT ![requests[r]] = Nothing]
  /\ requests' = [requests EXCEPT ![r] = NoNode]
  /\ UNCHANGED made

\* ConnectNode::setRequest(NULL)
Forget(n) ==
  /\ nodes[n] # Nothing
  /\ nodes' = [nodes EXCEPT ![n].request = NoNode]
  /\ UNCHANGED <<requests, made>>

(***************************************************************************)
(* The registry as a component: what its callers may do with it. An object *)
(* is deleted, and forgotten by its node, after it left the registry.      *)
(***************************************************************************)
RegistryInit ==
  /\ infoByRequest = [r \in {} |-> NoNode]
  /\ requestListByNode = [n \in {} |-> NoNode]
  /\ requests = [r \in Requests |-> NoNode]
  /\ nodes = [n \in Nodes |-> Nothing]
  /\ made = 0

New(r, n) == Allocate(r, n) /\ UNCHANGED registry
Enter(r, i) == /\ Allocated(r) /\ nodes[requests[r]].request = r
               /\ Add(r, i) /\ UNCHANGED memory
Leave(r) == Remove(r) /\ UNCHANGED memory
SetStatus(n, s) == Update(n, s) /\ UNCHANGED memory
Delete(r) == ~Registered(r) /\ Free(r) /\ UNCHANGED registry
Orphan(n) == ~Registered(nodes[n].request) /\ Forget(n) /\ UNCHANGED registry

RegistryNext ==
  \/ \E r \in Requests : \/ \E n \in Nodes : New(r, n)
                         \/ \E i \in Instances : Enter(r, i)
                         \/ Leave(r)
                         \/ Delete(r)
  \/ \E n \in Nodes : \/ \E s \in NodeStatuses : SetStatus(n, s)
                      \/ Orphan(n)

RegistrySpec == RegistryInit /\ [][RegistryNext]_<<registry, memory>>

(***************************************************************************)
(* Properties.                                                             *)
(***************************************************************************)
\* Both maps, the uuids and the status are of their kinds.
RegistryTypeOK ==
  /\ DOMAIN infoByRequest \subseteq Requests
  /\ \A r \in DOMAIN infoByRequest : infoByRequest[r] \in NodeInfo
  /\ DOMAIN requestListByNode \subseteq Nodes
  /\ \A n \in DOMAIN requestListByNode : requestListByNode[n] \in Requests
  /\ requests \in [Requests -> Nodes \union {NoNode}]
  /\ nodes \in [Nodes -> Objects]
  /\ made \in 0..MaxMade

\* The two maps of nodeManager.cpp are updated apart and must stay inverse: a
\* node is listed for exactly the request that is registered with it.
MapsAgree ==
  /\ \A r \in DOMAIN infoByRequest :
       /\ infoByRequest[r].node \in DOMAIN requestListByNode
       /\ requestListByNode[infoByRequest[r].node] = r
  /\ \A n \in DOMAIN requestListByNode :
       /\ Registered(requestListByNode[n])
       /\ infoByRequest[requestListByNode[n]].node = n

\* What is registered can be followed: the request is allocated, its node is the
\* registered one and still has the registered uuid.
RegisteredIsAlive ==
  \A r \in DOMAIN infoByRequest :
    /\ Allocated(r)
    /\ requests[r] = infoByRequest[r].node
    /\ nodes[requests[r]].uuid = infoByRequest[r].uuid
    /\ nodes[requests[r]].request = r

\* No two objects in memory drew the same uuid, and each is at one address.
OneObject ==
  \A r, q \in Requests :
    /\ Allocated(r) => nodes[requests[r]].uuid > 0
    /\ Allocated(r) /\ Allocated(q) /\ r # q =>
         nodes[requests[r]].uuid # nodes[requests[q]].uuid
===============================================================================
