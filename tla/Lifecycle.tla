------------------------------ MODULE Lifecycle ------------------------------
(***************************************************************************)
(* How requests come and go: the client that creates and releases them     *)
(* (framework/common/nlsClientImpl.cpp), the event thread whose callbacks  *)
(* hold pointers to their nodes (event/workThread.cpp), the resolver       *)
(* thread (transport/connectNode.cpp), and the registry all of them ask    *)
(* whether a pointer is still good.                                        *)
(*                                                                         *)
(* A thread inside a function has a program todo[t], the steps it has yet  *)
(* to run; the steps of different threads interleave. Every public         *)
(* function of the client holds the static _mtxNlsClient, so there is one  *)
(* "user". What a node does between its launch and its Close callback is   *)
(* reduced to the callbacks it gets; module Session has the rest.          *)
(***************************************************************************)
EXTENDS Registry, Sequences

CONSTANTS
  client,  \* the NlsClientImpl
  Cases    \* bound: the troubles that are let in together, see below

\* "kept": the requests are long connections (_isLongConnection), which may stay up
\* after Close and are started again. "hasty": while the callback that made Close still
\* runs, too. "wakeup": waitEventCallback may wake early.
ASSUME LifecycleAssumption ==
  client \in Instances /\ Cases \subseteq SUBSET {"kept", "hasty", "wakeup"}

Threads == {"user", "event", "dns"}

VARIABLES
  cell,    \* Nodes -> the fields of the node at this address
  list,    \* _nodeList of the event thread: requests
  listBy,  \* who holds _mtxList across several steps
  guard,   \* who holds _mtxReleaseRequestGuard
  todo,    \* Threads -> steps of the function the thread is in
  subject, \* Threads -> the object that function was called for
  closed,  \* uuids whose Close callback was made since their last start
  loop,    \* the event loop: "running", "broken" (event_base_loopbreak) or "over"
  orderly, \* the user follows the protocol (a request that was started is released
           \* after its Close callback, or started anew when that callback is over,
           \* the client after every request), and no timed wait expires while what
           \* it waits for is on its way
  troubles \* what is let in besides

vars == <<registry, memory, cell, list, listBy, guard, todo, subject, closed, loop, orderly,
          troubles>>

Statuses == {"Created", "Invoking", "Invoked", "Connecting", "Started", "Closed"}
Exits == {"Invalid", "Cancel"}

\* launch, connect, reader, resolved: the events of the node that are pending.
\* inside: _inEventCallbackNode. dns: _dnsThreadRunning.
Cells == [status : Statuses, exit : Exits, destroy : BOOLEAN, inside : BOOLEAN,
          releasing : BOOLEAN, launch : BOOLEAN, connect : BOOLEAN, reader : BOOLEAN,
          resolved : BOOLEAN, dns : BOOLEAN, dnsExit : BOOLEAN]

NewCell == [status |-> "Created", exit |-> "Invalid", destroy |-> FALSE, inside |-> FALSE,
            releasing |-> FALSE, launch |-> FALSE, connect |-> FALSE, reader |-> FALSE,
            resolved |-> FALSE, dns |-> FALSE, dnsExit |-> FALSE]

Kinds == {"call", "launch", "connect", "read", "resolved", "thread"}
Subject(r, n, kind) == [request |-> r, node |-> n, uuid |-> nodes[n].uuid, kind |-> kind]
NoSubject == [request |-> NoNode, node |-> NoNode, uuid |-> 0, kind |-> "call"]

Idle(t) == todo[t] = <<>>
At(t, op) == ~Idle(t) /\ Head(todo[t]) = op
Run(t, steps) == todo' = [todo EXCEPT ![t] = steps]
Continue(t) == Run(t, Tail(todo[t]))
Perform(t, steps) == Run(t, steps \o Tail(todo[t]))
Begin(t, steps, s) == /\ Run(t, steps)
                      /\ subject' = [subject EXCEPT ![t] = s]

Request(t) == subject[t].request
Node(t) == subject[t].node
Set(n, field, value) == cell' = [cell EXCEPT ![n] = [@ EXCEPT ![field] = value]]

rest == <<listBy, closed, loop, orderly, troubles>>

(***************************************************************************)
(* Timed waits. In an orderly system one expires only if what it waits for *)
(* is not on its way.                                                      *)
(***************************************************************************)
\* the event thread waits for the guard, which the user holds
EventWaitsForUser == At("event", "guard") /\ guard = "user"

\* MUTEX_TRY_LOCK of the guard, 2 s: who holds it waits for this thread
GuardExpires(t) ==
  \/ ~orderly
  \/ /\ t = "event" /\ guard = "user"
     /\ At("user", "callback") \/ At("user", "close") \/ At("user", "invoking")

\* waitEventCallback, 1 s: the flag stays set because the callback forgot it,
\* is this thread's own, or waits for the guard
CallbackExpires(t) ==
  \/ ~orderly \/ t = "event" \/ EventWaitsForUser
  \/ Idle("event") \/ Node("event") # Node(t)

\* the loop of delAllEvents, 2 s for a node that is Invoking; the resolver thread,
\* for which it waits 5 s, always ends
InvokingExpires == ~orderly \/ EventWaitsForUser

(***************************************************************************)
(* The user.                                                               *)
(***************************************************************************)
\* Bounds: one request if the system is not orderly; the first lies anywhere, so at one
\* address for all, and where there are troubles the next lies where it lay.
MayLie(r, n) ==
  /\ orderly \/ made = 0
  /\ made = 0 \/ troubles # {} => /\ r = CHOOSE q \in Requests : TRUE
                                 /\ n = CHOOSE m \in Nodes : TRUE

\* create*RequestImpl: new, then the registry
Create(r, n) ==
  /\ MayLie(r, n)
  /\ Idle("user") /\ loop = "running"
  /\ Allocate(r, n)
  /\ cell' = [cell EXCEPT ![n] = NewCell]
  /\ Begin("user", <<"enter">>, [request |-> r, node |-> n, uuid |-> made + 1, kind |-> "call"])
  /\ UNCHANGED <<registry, list, guard, rest>>

\* A refused request is deleted at once.
EnterRequest ==
  /\ At("user", "enter")
  /\ \/ Add(Request("user"), client) /\ Continue("user")
     \/ /\ ~MayAdd(Request("user"), client)
        /\ Run("user", <<"callback", "close", "unlist", "free">>)
        /\ UNCHANGED registry
  /\ UNCHANGED <<memory, cell, list, guard, subject, rest>>

\* A callback of the node runs.
Under(n) == ~Idle("event") /\ Node("event") = n

\* The handles the user has are the allocated requests it did not release: the
\* event thread frees none that the user is not releasing. A long connection starts
\* again after its Close, initAllStatus.
Start(r) ==
  /\ Idle("user") /\ loop = "running"
  /\ Allocated(r)
  /\ \/ /\ cell[requests[r]].status = "Created"
        /\ cell' = [cell EXCEPT ![requests[r]] =
                      [@ EXCEPT !.status = "Invoking", !.launch = TRUE]]
        /\ UNCHANGED closed
     \/ /\ "kept" \in troubles /\ cell[requests[r]].status = "Closed"
        /\ orderly => ~Under(requests[r]) \/ "hasty" \in troubles
        /\ cell' = [cell EXCEPT ![requests[r]] =
                      [@ EXCEPT !.status = "Invoking", !.launch = TRUE,
                                !.exit = "Invalid", !.destroy = FALSE]]
        /\ closed' = closed \ {nodes[requests[r]].uuid}
  /\ UNCHANGED <<registry, memory, list, guard, todo, subject, listBy, loop, orderly, troubles>>

Ready(r) == \/ cell[requests[r]].status = "Created"
            \/ nodes[requests[r]].uuid \in closed

\* release*RequestImpl up to the guard. cancel sets the exit status of a node
\* that runs; its wait of 500 ms for a node that connects is left out.
Release(r) ==
  /\ Idle("user") /\ loop = "running"
  /\ Allocated(r) /\ (orderly => Ready(r))
  /\ Begin("user", IF RequestBelongsTo(r, client) THEN <<"guard", "exist">> ELSE <<>>,
           Subject(r, requests[r], "call"))
  /\ IF /\ RequestBelongsTo(r, client)
        /\ cell[requests[r]].status \notin {"Created", "Closed"}
     THEN Set(requests[r], "exit", "Cancel")
     ELSE UNCHANGED cell
  /\ UNCHANGED <<registry, memory, list, guard, rest>>

\* releaseRequest after checkRequestExist: delAllEvents, updateDestroyStatus,
\* removeRequestFromInfo, and delete if that succeeded
Releasing == <<"invoking", "resolver", "callback", "delevents", "callback",
               "destroyed", "remove", "unguard">>

\* ~INlsRequest with ~ConnectNode
Destructor == <<"callback", "close", "unlist", "free">>

(***************************************************************************)
(* Steps of a release, by the user or by destroyConnectNode.               *)
(***************************************************************************)
\* mutant of TakeGuard: a lock without a time limit
TakeGuardForGood(t) ==
  /\ At(t, "guard") /\ guard = "free"
  /\ guard' = t
  /\ Continue(t)
  /\ UNCHANGED <<registry, memory, cell, list, subject, rest>>

\* MUTEX_TRY_LOCK_WITH_TAG(_mtxReleaseRequestGuard): after 2 s on without it
TakeGuard(t) ==
  /\ At(t, "guard")
  /\ \/ guard = "free" /\ guard' = t
     \/ guard # "free" /\ GuardExpires(t) /\ UNCHANGED guard
  /\ Continue(t)
  /\ UNCHANGED <<registry, memory, cell, list, subject, rest>>

Unguard(t) ==
  /\ At(t, "unguard")
  /\ guard' = IF guard = t THEN "free" ELSE guard
  /\ Continue(t)
  /\ UNCHANGED <<registry, memory, cell, list, subject, rest>>

\* checkRequestExist under the guard. The event thread removes a request that is
\* registered, deletes it if it is the same object, and does not look at what
\* the removal says.
Exist(t) ==
  /\ At(t, "exist")
  /\ IF t = "user"
     THEN IF RequestExists(Request(t))
          THEN Perform(t, Releasing) /\ Set(requests[Request(t)], "releasing", TRUE)
          ELSE Perform(t, <<"unguard">>) /\ UNCHANGED cell
     ELSE /\ UNCHANGED cell
          /\ Perform(t, IF ~Registered(Request(t)) THEN <<>>
                        ELSE IF RequestExists(Request(t)) THEN <<"remove">> \o Destructor
                        ELSE <<"remove">>)
  /\ UNCHANGED <<registry, memory, list, guard, subject, rest>>

\* delAllEvents: a node that is Invoking has a launch event on its way
WaitInvoking ==
  /\ At("user", "invoking")
  /\ cell[Node("user")].status # "Invoking" \/ InvokingExpires
  /\ Continue("user")
  /\ UNCHANGED <<registry, memory, cell, list, guard, subject, rest>>

\* delAllEvents: tell the resolver thread to end, and wait for it
TellResolver ==
  /\ At("user", "resolver")
  /\ ~cell[Node("user")].dnsExit
  /\ Set(Node("user"), "dnsExit", cell[Node("user")].dns)
  /\ IF cell[Node("user")].dns THEN UNCHANGED todo ELSE Continue("user")
  /\ UNCHANGED <<registry, memory, list, guard, subject, rest>>

WaitResolver ==
  /\ At("user", "resolver")
  /\ cell[Node("user")].dnsExit
  /\ ~cell[Node("user")].dns \/ ~orderly
  /\ Continue("user")
  /\ UNCHANGED <<registry, memory, cell, list, guard, subject, rest>>

\* mutant of WaitCallback: the flag is not looked at
WaitNoCallback(t) ==
  /\ At(t, "callback")
  /\ Continue(t)
  /\ UNCHANGED <<registry, memory, cell, list, guard, subject, rest>>

\* waitEventCallback: an if around a wait that has no predicate
WaitCallback(t) ==
  /\ At(t, "callback")
  /\ ~cell[Node(t)].inside \/ CallbackExpires(t) \/ "wakeup" \in troubles
  /\ Continue(t)
  /\ UNCHANGED <<registry, memory, cell, list, guard, subject, rest>>

\* delAllEvents: the events of the socket. They are EV_FINALIZE: event_del does
\* not wait for a callback that runs.
DeleteEvents ==
  /\ At("user", "delevents")
  /\ cell' = [cell EXCEPT ![Node("user")] =
                [@ EXCEPT !.connect = FALSE, !.reader = FALSE, !.resolved = FALSE]]
  /\ Continue("user")
  /\ UNCHANGED <<registry, memory, list, guard, subject, rest>>

\* updateDestroyStatus; the user does not look at its result
Destroyed ==
  /\ At("user", "destroyed")
  /\ Set(Node("user"), "destroy", TRUE)
  /\ Continue("user")
  /\ UNCHANGED <<registry, memory, list, guard, subject, rest>>

\* mutant of RemoveIt: deleted, and still registered
KeepIt(t) ==
  /\ At(t, "remove")
  /\ IF t = "user" THEN Perform(t, Destructor) ELSE Continue(t)
  /\ UNCHANGED <<registry, memory, cell, list, guard, subject, rest>>

\* mutant of RemoveIt: the test of its result is the wrong way round
RemoveAndKeep(t) ==
  /\ At(t, "remove")
  /\ \/ /\ Remove(Request(t))
        /\ Continue(t)
     \/ /\ ~Registered(Request(t))
        /\ Perform(t, Destructor)
        /\ UNCHANGED registry
  /\ UNCHANGED <<memory, cell, list, guard, subject, rest>>

RemoveIt(t) ==
  /\ At(t, "remove")
  /\ \/ /\ Remove(Request(t))
        /\ IF t = "user" THEN Perform(t, Destructor) ELSE Continue(t)
     \/ /\ ~Registered(Request(t))
        /\ Continue(t)
        /\ UNCHANGED registry
  /\ UNCHANGED <<memory, cell, list, guard, subject, rest>>

\* closeConnectNode in the destructor. _launchEvent is not EV_FINALIZE: event_del
\* waits for its callback unless the event thread itself calls it.
Close(t) ==
  /\ At(t, "close")
  /\ ~(/\ t # "event" /\ ~Idle("event") /\ Node("event") = Node(t)
       /\ subject["event"].kind = "launch")
  /\ cell' = [cell EXCEPT ![Node(t)] =
                [@ EXCEPT !.launch = FALSE, !.connect = FALSE, !.reader = FALSE,
                          !.resolved = FALSE]]
  /\ Continue(t)
  /\ UNCHANGED <<registry, memory, list, guard, subject, rest>>

\* freeListNode in the destructor; _mtxList is not recursive
Unlist(t) ==
  /\ At(t, "unlist") /\ listBy = "free"
  /\ list' = list \ {Request(t)}
  /\ Continue(t)
  /\ UNCHANGED <<registry, memory, cell, guard, subject, rest>>

\* The memory is gone: the writes of a second delete go nowhere.
FreeIt(t) ==
  /\ At(t, "free")
  /\ \/ Free(Request(t))
     \/ ~Allocated(Request(t)) /\ UNCHANGED memory
  /\ Continue(t)
  /\ UNCHANGED <<registry, cell, list, guard, subject, rest>>

\* node->setRequest(NULL) at the end of destroyConnectNode, after the delete
ForgetIt ==
  /\ At("event", "forget")
  /\ \/ Forget(Node("event"))
     \/ nodes[Node("event")] = Nothing /\ UNCHANGED memory
  /\ Continue("event")
  /\ UNCHANGED <<registry, cell, list, guard, subject, rest>>

(***************************************************************************)
(* The event thread: callbacks of libevent.                                *)
(***************************************************************************)
CallbackOf(kind) == CASE kind = "launch" -> <<"check", "enter", "launch", "leave">>
                      [] kind = "connect" -> <<"enter", "connect", "leave">>
                      [] kind = "read" -> <<"check", "enter", "read", "leave">>
                      [] kind = "resolved" -> <<"check", "check", "enter", "resolved",
                                                "check", "leave">>

\* libevent runs the callback of a pending event; only the read event persists
Fire(n, kind) ==
  /\ Idle("event") /\ loop = "running"
  /\ \/ kind = "launch" /\ cell[n].launch /\ Set(n, "launch", FALSE)
     \/ kind = "connect" /\ cell[n].connect /\ Set(n, "connect", FALSE)
     \/ kind = "read" /\ cell[n].reader /\ UNCHANGED cell
     \/ kind = "resolved" /\ cell[n].resolved /\ Set(n, "resolved", FALSE)
  /\ Begin("event", CallbackOf(kind), Subject(nodes[n].request, n, kind))
  /\ UNCHANGED <<registry, memory, list, guard, rest>>

\* checkNodeExist, outside of the lock of what follows
Check ==
  /\ At("event", "check")
  /\ IF NodeExists(Node("event")) THEN Continue("event") ELSE Run("event", <<>>)
  /\ UNCHANGED <<registry, memory, cell, list, guard, subject, rest>>

\* _inEventCallbackNode = true, without its lock
EnterCallback ==
  /\ At("event", "enter")
  /\ Set(Node("event"), "inside", TRUE)
  /\ Continue("event")
  /\ UNCHANGED <<registry, memory, list, guard, subject, rest>>

\* SEND_COND_SIGNAL
LeaveCallback ==
  /\ At("event", "leave")
  /\ Set(Node("event"), "inside", FALSE)
  /\ Continue("event")
  /\ UNCHANGED <<registry, memory, list, guard, subject, rest>>

\* mutant of Launch: the node in place of its request
LaunchNode ==
  /\ At("event", "launch") /\ listBy = "free"
  /\ Set(Node("event"), "status", "Invoked")
  /\ list' = list \union {Node("event")}
  /\ Perform("event", <<"dial">>)
  /\ UNCHANGED <<registry, memory, guard, subject, rest>>

\* launchEventCallback
Launch ==
  /\ At("event", "launch")
  /\ Set(Node("event"), "status", "Invoked")
  /\ \/ /\ cell[Node("event")].exit = "Cancel"
        /\ Continue("event")
        /\ UNCHANGED list
     \/ /\ cell[Node("event")].exit # "Cancel" /\ listBy = "free"
        /\ list' = list \union {Request("event")}
        /\ Perform("event", <<"dial">>)
  /\ UNCHANGED <<registry, memory, guard, subject, rest>>

\* handlerTaskFailedEvent: TaskFailed, and Close with its status
Told(n) ==
  /\ cell[n].exit # "Cancel"
  /\ closed' = closed \union {nodes[n].uuid}
  /\ Set(n, "status", "Closed")

\* the long connection is up: its read event stays after Close
Up(n) == "kept" \in troubles /\ cell[n].reader

\* dnsProcess: refused, out of attempts, on to a connection, or straight to the start
\* command. A failure ends in destroyConnectNode.
Dial ==
  /\ At("event", "dial")
  /\ LET n == Node("event") IN
     \/ /\ Perform("event", <<"destroy">>)
        /\ (~Up(n) /\ Told(n)) \/ UNCHANGED <<cell, closed>>
        /\ UNCHANGED registry
     \/ /\ Up(n) /\ cell[n].exit # "Cancel" /\ NodeExists(n)
        /\ Update(n, "Running")
        /\ \/ /\ Set(n, "status", "Started")
              /\ Continue("event")
              /\ UNCHANGED closed
           \/ Told(n) /\ Perform("event", <<"shut", "destroy">>)
     \/ /\ ~Up(n) /\ cell[n].exit # "Cancel" /\ NodeExists(n)
        /\ Update(n, "Connecting")
        /\ \/ cell' = [cell EXCEPT ![n] = [@ EXCEPT !.status = "Connecting", !.connect = TRUE]]
           \/ /\ Idle("dns")
              /\ cell' = [cell EXCEPT ![n] = [@ EXCEPT !.status = "Connecting", !.dns = TRUE]]
        /\ Continue("event")
        /\ UNCHANGED closed
  /\ UNCHANGED <<memory, list, guard, subject, listBy, loop, orderly, troubles>>

\* connectEventCallback and dnsEventCallback with an address: the connection is
\* up, goes on, or failed and is dialled again
Connect ==
  /\ At("event", "connect") \/ At("event", "resolved")
  /\ LET n == Node("event") IN
     \/ /\ cell[n].exit # "Cancel"
        /\ cell' = [cell EXCEPT ![n] = [@ EXCEPT !.status = "Started", !.reader = TRUE]]
        /\ Continue("event")
     \/ cell[n].exit # "Cancel" /\ Set(n, "connect", TRUE) /\ Continue("event")
     \/ Perform("event", <<"dial">>) /\ UNCHANGED cell
  /\ UNCHANGED <<registry, memory, list, guard, subject, rest>>

\* readEventCallBack: nothing, more, the last message, or too long nothing; a message
\* to a node that is not connected yet is a failure. What comes
\* to a node in release makes it return as it is, with _inEventCallbackNode set. A
\* long connection may stay up after its last message; what it then reads is ignored,
\* or closes it in silence.
Read ==
  /\ At("event", "read")
  /\ LET n == Node("event") IN
     \/ /\ cell[n].exit = "Cancel"
        /\ Perform("event", <<"shut">>)
        /\ UNCHANGED <<cell, closed>>
     \/ /\ cell[n].exit # "Cancel" /\ cell[n].releasing
        /\ Run("event", <<>>)
        /\ UNCHANGED <<cell, closed>>
     \/ /\ cell[n].exit # "Cancel" /\ ~cell[n].releasing
        /\ cell[n].status \notin {"Invoking", "Invoked"}
        /\ Continue("event")
        /\ UNCHANGED <<cell, closed>>
     \/ Told(n) /\ Perform("event", <<"shut">>)
     \/ /\ "kept" \in troubles /\ ~cell[n].releasing
        /\ cell[n].status \in {"Connecting", "Started"}
        /\ Told(n) /\ Continue("event")
  /\ UNCHANGED <<registry, memory, list, guard, subject, listBy, loop, orderly, troubles>>

\* closeConnectNode in a callback
Shut ==
  /\ At("event", "shut")
  /\ cell' = [cell EXCEPT ![Node("event")] =
                [@ EXCEPT !.launch = FALSE, !.connect = FALSE, !.reader = FALSE,
                          !.resolved = FALSE]]
  /\ Continue("event")
  /\ UNCHANGED <<registry, memory, list, guard, subject, rest>>

\* destroyConnectNode: the first call only marks the node, a later one deletes
\* its request
Destroy ==
  /\ At("event", "destroy") /\ listBy = "free"
  /\ LET n == Node("event") IN
     /\ list' = list \ {nodes[n].request}
     /\ Set(n, "destroy", TRUE)
     /\ IF cell[n].destroy /\ nodes[n].request # NoNode
        THEN Perform("event", <<"guard", "exist", "forget", "unguard">>)
        ELSE Continue("event")
  /\ UNCHANGED <<registry, memory, guard, subject, rest>>

(***************************************************************************)
(* The resolver thread of a node, async_dns_resolve_thread_fn.             *)
(***************************************************************************)
StartResolver(n) ==
  /\ Idle("dns") /\ cell[n].dns
  /\ Begin("dns", <<"suspend", "answer", "over">>, Subject(nodes[n].request, n, "thread"))
  /\ UNCHANGED <<registry, memory, cell, list, guard, rest>>

\* gai_suspend returned: told to end, or the node is looked up again
Resolve ==
  /\ At("dns", "suspend")
  /\ IF cell[Node("dns")].dnsExit \/ ~NodeExists(Node("dns"))
     THEN Run("dns", <<"over">>) ELSE Continue("dns")
  /\ UNCHANGED <<registry, memory, cell, list, guard, subject, rest>>

\* the answer goes to the event thread as an event
Answer ==
  /\ At("dns", "answer")
  /\ Set(Node("dns"), "resolved", TRUE)
  /\ Continue("dns")
  /\ UNCHANGED <<registry, memory, list, guard, subject, rest>>

ResolverOver ==
  /\ At("dns", "over")
  /\ Set(Node("dns"), "dns", FALSE)
  /\ Continue("dns")
  /\ UNCHANGED <<registry, memory, list, guard, subject, rest>>

(***************************************************************************)
(* releaseInstance: ~WorkThread.                                           *)
(***************************************************************************)
ReleaseClient ==
  /\ Idle("user") /\ loop = "running"
  /\ orderly => \A r \in Requests : ~Allocated(r)
  /\ Begin("user", <<"sweep">>, NoSubject)
  /\ UNCHANGED <<registry, memory, cell, list, guard, rest>>

\* Under _mtxList: entries that are not registered go; an entry of the list was
\* launched and is never Created, so no entry is deleted here. After 250 rounds
\* of 10 ms the rest is deleted by force, with the lock held.
Sweep ==
  /\ At("user", "sweep") /\ listBy = "free"
  /\ list' = {r \in list : RequestExists(r)}
  /\ \/ list' = {} /\ Run("user", <<"break">>) /\ UNCHANGED listBy
     \/ list' # {} /\ Run("user", <<"force">>) /\ listBy' = "user"
  /\ UNCHANGED <<registry, memory, cell, guard, subject, closed, loop, orderly, troubles>>

DeleteByForce ==
  /\ At("user", "force")
  /\ \/ /\ list = {} /\ listBy' = "free"
        /\ Run("user", <<"break">>)
        /\ UNCHANGED <<list, subject>>
     \/ \E r \in list :
          /\ list' = list \ {r}
          /\ Begin("user", <<"remove", "force">>, Subject(r, requests[r], "call"))
          /\ UNCHANGED listBy
  /\ UNCHANGED <<registry, memory, cell, guard, closed, loop, orderly, troubles>>

\* event_base_loopbreak: the loop ends after the callback it is in
Break ==
  /\ At("user", "break")
  /\ loop' = "broken"
  /\ Run("user", <<"join">>)
  /\ UNCHANGED <<registry, memory, cell, list, guard, subject, listBy, closed, orderly, troubles>>

Join ==
  /\ At("user", "join") /\ Idle("event")
  /\ loop' = "over"
  /\ Continue("user")
  /\ UNCHANGED <<registry, memory, cell, list, guard, subject, listBy, closed, orderly, troubles>>

(***************************************************************************)
(* The system.                                                             *)
(***************************************************************************)
LifecycleInit ==
  /\ RegistryInit
  /\ cell = [n \in Nodes |-> NewCell]
  /\ list = {} /\ listBy = "free" /\ guard = "free"
  /\ todo = [t \in Threads |-> <<>>]
  /\ subject = [t \in Threads |-> NoSubject]
  /\ closed = {} /\ loop = "running"
  /\ orderly \in BOOLEAN /\ troubles \in Cases

\* steps that a release shares with destroyConnectNode
ReleaseStep(t) == \/ TakeGuard(t) \/ Unguard(t) \/ Exist(t) \/ WaitCallback(t) \/ RemoveIt(t)
              \/ Close(t) \/ Unlist(t) \/ FreeIt(t)

UserStep == \/ EnterRequest \/ ReleaseStep("user") \/ WaitInvoking \/ TellResolver
            \/ WaitResolver \/ DeleteEvents \/ Destroyed \/ Sweep \/ DeleteByForce \/ Break \/ Join
EventStep == \/ Check \/ EnterCallback \/ LeaveCallback \/ Launch \/ Dial \/ Connect
             \/ Read \/ Shut \/ Destroy \/ ReleaseStep("event") \/ ForgetIt
DnsStep == \/ \E n \in Nodes : StartResolver(n)
           \/ Resolve \/ Answer \/ ResolverOver

UserCall == \/ \E r \in Requests : \/ \E n \in Nodes : Create(r, n)
                                   \/ Start(r) \/ Release(r)
            \/ ReleaseClient

Events == {"launch", "connect", "read", "resolved"}

SubjectIsAlive(t) ==
  subject[t].node # NoNode => /\ subject[t].uuid > 0
                              /\ nodes[Node(t)].uuid = subject[t].uuid

\* A thread that still needs a node another thread deleted goes no further: what
\* it would do is undefined. Some steps only ask the registry.
Sound(t) == \/ Idle(t) \/ SubjectIsAlive(t)
            \/ \E op \in {"guard", "exist", "check", "suspend", "forget", "unguard",
                           "sweep", "force", "break", "join"} : At(t, op)

LifecycleNext == \/ UserCall
                 \/ Sound("user") /\ UserStep
                 \/ Sound("event") /\ EventStep
                 \/ Sound("dns") /\ DnsStep
                 \/ \E n \in Nodes, kind \in Events : Fire(n, kind)

\* Threads run; libevent runs the callback of an event that stays pending,
\* except that a connection may never have anything to read. A wait with a time limit
\* ends, also if callbacks come and go.
Fairness == /\ WF_vars(UserStep) /\ WF_vars(EventStep) /\ WF_vars(DnsStep)
            /\ SF_vars(WaitCallback("user"))
            /\ \A n \in Nodes : SF_vars(Fire(n, "launch"))

LifecycleSpec == LifecycleInit /\ [][LifecycleNext]_vars /\ Fairness

(***************************************************************************)
(* Properties.                                                             *)
(***************************************************************************)
\* Every variable has its type.
LifecycleTypeOK ==
  /\ RegistryTypeOK
  /\ cell \in [Nodes -> Cells]
  /\ list \subseteq Requests /\ listBy \in {"free", "user"}
  /\ guard \in Threads \union {"free"}
  /\ DOMAIN todo = Threads
  /\ \A t \in Threads : /\ subject[t].node \in Nodes \union {NoNode}
                        /\ subject[t].kind \in Kinds
  /\ closed \subseteq 1..MaxMade
  /\ loop \in {"running", "broken", "over"}

\* The registry is a component of this system as its module promises, also where a
\* release meets the read event of a long connection.
RegistryInUse ==
  [][orderly /\ troubles \subseteq {"kept"} => RegistryNext]_<<registry, memory>>

\* A callback that is past checkNodeExist works on a node that was not deleted.
CallbackNodeIsAlive ==
  orderly /\ ~Idle("event") /\ ~At("event", "check") => SubjectIsAlive("event")

\* So does the resolver thread of a node.
ResolverNodeIsAlive == orderly /\ ~Idle("dns") => SubjectIsAlive("dns")

\* _nodeList holds pointers to requests that exist.
ListIsAlive == orderly => \A r \in list : Allocated(r)

\* Nobody follows a pointer to what was deleted: not a callback that is past its checks
\* when release begins, not the resolver, not the watch over the list. Of connections
\* that are closed with Close: a long one has a read event left (CallbacksHaveLeft).
PointersAreAlive ==
  troubles = {} => CallbackNodeIsAlive /\ ResolverNodeIsAlive /\ ListIsAlive

\* What delAllEvents says of itself: it waits until all callbacks have left. One that
\* was past checkNodeExist and had not set its flag is not seen.
CallbacksHaveLeft ==
  orderly /\ At("user", "destroyed") => ~Under(Node("user")) \/ At("event", "check")

\* A round of a long connection ends with its node initialised, not released
\* (initAllStatus): only a call of the user deletes a request.
OnlyCallsDelete ==
  [][orderly /\ Idle("user") => \A r \in Requests : Allocated(r) => Allocated(r)']_vars

\* A call of the client returns, whatever the callbacks do meanwhile and whether their
\* waits expire or not: the user who holds the guard waits for the flag of a callback
\* (waitEventCallback) and for the launch callback (event_del), the callback for the
\* guard. Left out are deletions by force, and what follows when a thread goes on with
\* a node that was deleted.
CallReturns ==
  /\ ~Idle("user")
  /\ orderly \/ (Node("user") # NoNode /\ listBy = "free")
  ~> Idle("user") \/ \E t \in Threads : ~Sound(t)

\* A released request is gone when the call returns: delAllEvents and the forced
\* waits do not end in a request that nobody deletes, also when the release meets the
\* pending read event of a long connection and has to wait out its time limit.
ReleaseFrees ==
  [][\A r \in Requests :
       /\ orderly /\ troubles \subseteq {"kept"}
       /\ At("user", "unguard") /\ Idle("user")' /\ subject["user"].request = r
       => nodes[Node("user")].uuid # subject["user"].uuid]_vars
===============================================================================
