------------------------------- MODULE Dialing -------------------------------
(***************************************************************************)
(* How the requests of one WorkThread get a connection and get it back     *)
(* (event/workThread.cpp, transport/connectNode.cpp): DNS and the cache of *)
(* addresses that all nodes of the thread share, connect and the TLS       *)
(* handshake with their retries, the upgrade by the gateway, and the       *)
(* reconnection of a session that broke.                                   *)
(*                                                                         *)
(* A callback of the event thread is a job: a chain of steps, of which     *)
(* each ends in the next or in a pending event. Users start, stop and      *)
(* cancel between the steps, and the pool's thread links nodes of its own. *)
(* All nodes have one URL, so the cache has one host.                      *)
(***************************************************************************)
EXTENDS Integers, FiniteSets

CONSTANTS
  Nodes,
  Prelinks,      \* nodes the pool links; no user has them
  Addresses,
  None,          \* no node, no address
  MaxTries,      \* RetryConnectCount
  MaxReconnects, \* max_try_count
  Threshold,     \* WorkThreshold
  Scenes,        \* bound: the scenes that are looked at
  MaxWants,      \* bound: rounds of a handshake
  MaxCuts        \* bound: failures after the connection is up

ASSUME DialingAssumption ==
  /\ Prelinks \subseteq Nodes /\ None \notin Nodes \union Addresses
  /\ {MaxTries, Threshold} \subseteq Nat \ {0}
  /\ {MaxReconnects, MaxWants, MaxCuts} \subseteq Nat
  /\ Scenes \subseteq [nodes : SUBSET Nodes, rounds : Nat,
                       steady : BOOLEAN, continued : BOOLEAN, long : BOOLEAN]

VARIABLES
  cell,      \* Nodes -> the fields of the node
  cache,     \* _dnsIpCache: the addresses, and same_ip_count
  job,       \* what the event thread does
  link,      \* what directLinkIpFromCache does
  dead,      \* addresses where nobody answers any more
  cuts,      \* failures so far after the connection was up
  exhausted, \* a node has used up its attempts
  scene      \* which nodes are used and how often, and what does not change

vars == <<cell, cache, job, link, dead, cuts, exhausted, scene>>

steady == scene.steady       \* DNS names the living, who answer
continued == scene.continued \* setEnableContinued
long == scene.long           \* long connection

Statuses == {"Created", "Invoking", "Invoked", "Connecting", "Connected", "Handshaked",
             "Starting", "Started", "Completed", "Closed"}
Reconnections == {"No", "Will", "Trigger", "New"}
Events == {"none", "launch", "reconnect", "dns", "connect", "timer", "read"}

NewCell ==
  [status |-> "Created", exit |-> "Invalid", tries |-> 0, direct |-> None, up |-> FALSE,
   event |-> "none", timed |-> FALSE,          \* _connectTimerFlag
   wants |-> 0,                                \* rounds of the handshake
   recon |-> "No", count |-> 0, redials |-> 0, \* redials: reconnections of this session
   listed |-> FALSE, destroy |-> FALSE, gone |-> FALSE,
   told |-> "nothing", rounds |-> 0,
   late |-> FALSE, beaten |-> FALSE] \* launched after attempts of a node ran out, and failed

Off == [op |-> "off", node |-> None, addr |-> None, from |-> "none"]
Job(op, n, a, from) == job' = [op |-> op, node |-> n, addr |-> a, from |-> from]

Free == job = Off
Doing(op) == job.op = op
Me == job.node
Put(n, c) == cell' = [cell EXCEPT ![n] = c]
Pending(n, event) == Free /\ cell[n].event = event /\ ~cell[n].gone
Cancelled(n) == cell[n].exit = "Cancel"

(***************************************************************************)
(* The cache, under _mtxList.                                              *)
(***************************************************************************)
Empty == [ips |-> {}, same |-> 0]

\* getIpFromCache
Lookup(force) == IF force \/ cache.same >= Threshold THEN cache.ips ELSE {}

\* setIpCache of an answer; the count saturates where nothing looks further
Learn(a) ==
  cache' = IF a \in cache.ips
           THEN [cache EXCEPT !.same = IF @ < Threshold THEN @ + 1 ELSE @]
           ELSE [ips |-> cache.ips \union {a}, same |-> 0]

\* mutant of Clear: the addresses stay
KeepAddresses == cache' = cache

\* setIpCache(NULL, NULL)
Clear == cache' = Empty

(***************************************************************************)
(* How a session ends: TaskFailed and Close go through handlerEvent and    *)
(* handlerFrame, and are both ignored while the session reconnects.        *)
(***************************************************************************)
\* ignoreCallbackWhenReconnecting counts a failure, but none of the reconnection itself
Grows(c, retriable) == continued /\ retriable /\ c.recon \in {"No", "New"}

\* nodeReconnecting has the reconnect event for the first failure only
Failed(c, retriable) ==
  LET count == IF Grows(c, retriable) THEN c.count + 1 ELSE c.count
      reconnects == continued /\ (Grows(c, retriable) \/ c.recon = "Trigger")
      ignored == reconnects /\ count <= MaxReconnects IN
  IF c.exit = "Cancel" \/ c.status = "Closed" THEN c
  ELSE [c EXCEPT !.status = "Closed", !.tries = 0,
                 !.count = IF ignored THEN count ELSE 0,
                 !.recon = IF ignored THEN "Trigger" ELSE IF reconnects THEN "No" ELSE @,
                 !.event = IF ignored /\ Grows(c, retriable) THEN "reconnect" ELSE @,
                 !.told = IF ignored THEN @ ELSE "failure"]

Retriable == {TRUE, FALSE}

\* mutant of Unplugged: the events stay
UnpluggedOnly(c) == [c EXCEPT !.up = FALSE]

\* closeConnectNode: no event of the socket is left
Unplugged(c) == [c EXCEPT !.up = FALSE, !.timed = FALSE, !.event = "none"]

\* mutant of Destroyed: a node is destroyed the first time
DestroyedAtOnce(c) ==
  IF ~c.listed THEN c ELSE [c EXCEPT !.listed = FALSE, !.destroy = TRUE, !.gone = TRUE]

\* destroyConnectNode: takes the request off the list, and deletes it the second time
Destroyed(c) ==
  IF ~c.listed THEN c
  ELSE [c EXCEPT !.listed = FALSE, !.destroy = TRUE, !.gone = c.destroy]

(***************************************************************************)
(* The user.                                                               *)
(***************************************************************************)
\* start; a long connection starts again after the Close callback
Start(n) ==
  /\ n \in scene.nodes \ Prelinks /\ ~cell[n].gone
  /\ cell[n].rounds < scene.rounds
  /\ \/ cell[n].status = "Created"
     \/ long /\ cell[n].status = "Closed" /\ cell[n].told # "nothing"
  /\ Put(n, [cell[n] EXCEPT !.status = "Invoking", !.exit = "Invalid", !.destroy = FALSE,
                            !.told = "nothing", !.rounds = @ + 1, !.event = "launch",
                            !.redials = 0])
  /\ UNCHANGED <<cache, job, link, dead, cuts, exhausted, scene>>

\* stop and cancel are refused once the status is Closed, and a session that is
\* about to reconnect is Closed. What dials looks at a stop only in the launch.
Leave(n, exit) ==
  /\ n \notin Prelinks /\ ~cell[n].gone
  /\ cell[n].status \notin {"Created", "Closed"} /\ cell[n].exit = "Invalid"
  /\ exit = "Stopping" => cell[n].status = "Invoking"
  /\ Put(n, [cell[n] EXCEPT !.exit = exit])
  /\ UNCHANGED <<cache, job, link, dead, cuts, exhausted, scene>>

(***************************************************************************)
(* The event thread.                                                       *)
(***************************************************************************)
\* launchEventCallback, by start or by the reconnection
Launch(n) ==
  /\ \E event \in {"launch", "reconnect"} : Pending(n, event)
  /\ LET c == [cell[n] EXCEPT !.event = "none", !.status = "Invoked"] IN
     IF c.exit # "Invalid"
     THEN Put(n, c) /\ UNCHANGED job
     ELSE /\ Put(n, [c EXCEPT !.listed = TRUE, !.late = exhausted,
                              !.redials = IF cell[n].event = "reconnect" THEN @ + 1 ELSE @])
          /\ Job("dns", n, None, "none")
  /\ UNCHANGED <<cache, link, dead, cuts, exhausted, scene>>

\* dnsProcess of a cancelled node goes nowhere
DnsCancelled ==
  /\ Doing("dns") /\ Cancelled(Me)
  /\ Put(Me, Destroyed(cell[Me]))
  /\ job' = Off
  /\ UNCHANGED <<cache, link, dead, cuts, exhausted, scene>>

\* a long connection that is still up starts the next session at once
DnsReuse ==
  /\ Doing("dns") /\ ~Cancelled(Me)
  /\ long /\ cell[Me].up
  /\ Put(Me, [cell[Me] EXCEPT !.status = "Starting", !.recon = "New", !.event = "read"])
  /\ job' = Off
  /\ UNCHANGED <<cache, link, dead, cuts, exhausted, scene>>

\* checkConnectCount: the attempts are used up
DnsGiveUp ==
  /\ Doing("dns") /\ ~Cancelled(Me) /\ ~(long /\ cell[Me].up)
  /\ cell[Me].tries = MaxTries
  /\ exhausted' = TRUE
  /\ Put(Me, Destroyed(Failed([cell[Me] EXCEPT !.tries = 0, !.beaten = cell[Me].late], TRUE)))
  /\ Clear
  /\ job' = Off
  /\ UNCHANGED <<link, dead, cuts, scene>>

\* mutant of DnsAttempt: the attempt is not counted
DnsAttemptForEver ==
  /\ Doing("dns") /\ ~Cancelled(Me) /\ ~(long /\ cell[Me].up)
  /\ LET c == [cell[Me] EXCEPT !.status = "Connecting"]
         a == job.addr IN
     \/ /\ a # None /\ Put(Me, c) /\ Job("connect", Me, a, "direct")
     \/ /\ a = None
        /\ \E hit \in Lookup(FALSE) : Put(Me, c) /\ Job("connect", Me, hit, "direct")
     \/ /\ a = None /\ Lookup(FALSE) = {}
        /\ Put(Me, [c EXCEPT !.event = "dns"]) /\ job' = Off
  /\ UNCHANGED <<cache, link, dead, cuts, exhausted, scene>>

\* the next attempt: to the address directConnect failed with, to one from the
\* cache, or to what DNS will answer
DnsAttempt ==
  /\ Doing("dns") /\ ~Cancelled(Me) /\ ~(long /\ cell[Me].up)
  /\ cell[Me].tries < MaxTries
  /\ LET c == [cell[Me] EXCEPT !.tries = @ + 1, !.status = "Connecting", !.wants = 0]
         a == job.addr IN
     \/ /\ a # None
        /\ Put(Me, c) /\ Job("connect", Me, a, "direct")
     \/ /\ a = None
        /\ \E hit \in Lookup(FALSE) : Put(Me, c) /\ Job("connect", Me, hit, "direct")
     \/ /\ a = None /\ Lookup(FALSE) = {}
        /\ Put(Me, [c EXCEPT !.event = "dns"])
        /\ job' = Off
  /\ UNCHANGED <<cache, link, dead, cuts, exhausted, scene>>

\* dnsEventCallback
DnsAnswer(n) ==
  /\ Pending(n, "dns")
  /\ Put(n, [cell[n] EXCEPT !.event = "none"])
  /\ \/ /\ ~steady
        /\ Job("dns", n, None, "none")
        /\ UNCHANGED cache
     \/ \E a \in IF steady THEN Addresses \ dead ELSE Addresses :
          /\ Learn(a)
          /\ Job("connect", n, a, "dns")
  /\ UNCHANGED <<link, dead, cuts, exhausted, scene>>

\* what the network may do with an attempt to reach an address
MayFail(a) == a \in dead \/ ~steady
MayWork(a) == a \notin dead

\* disconnectProcess and the next dnsProcess: directConnect dials the same address
\* again, and only it and connectEventCallback clear the cache
Retry ==
  /\ Put(Me, [cell[Me] EXCEPT !.up = FALSE, !.status = "Connecting"])
  /\ Job("dns", Me, IF job.from = "direct" THEN job.addr ELSE None, "none")
  /\ IF job.from \in {"direct", "event"} THEN Clear ELSE UNCHANGED cache

\* connectProcess and socketConnect: at once, later, or never; a socket that told an
\* error refuses a second connect. What a failed connect
\* does with the cache, which it clears if there is nothing to get from it, is for a
\* thread whose count is below the threshold.
Connect ==
  /\ Doing("connect") /\ ~Cancelled(Me)
  /\ \/ /\ MayWork(job.addr)
        /\ Put(Me, [cell[Me] EXCEPT !.status = "Connected", !.up = TRUE])
        /\ Job("tls", Me, job.addr, job.from)
        /\ UNCHANGED cache
     \/ /\ job.from # "event"
        /\ Put(Me, [cell[Me] EXCEPT !.event = "connect", !.direct = job.addr])
        /\ job' = Off
        /\ UNCHANGED cache
     \/ /\ MayFail(job.addr)
        /\ Put(Me, [cell[Me] EXCEPT !.up = FALSE, !.status = "Connecting"])
        /\ Job("dns", Me, IF job.from = "direct" THEN job.addr ELSE None, "none")
        /\ IF job.from \in {"direct", "event"} \/ Lookup(FALSE) = {}
           THEN Clear ELSE UNCHANGED cache
  /\ UNCHANGED <<link, dead, cuts, exhausted, scene>>

\* connectProcess and sslProcess of a cancelled node fail, and so does what follows
StepCancelled ==
  /\ Doing("connect") \/ Doing("tls")
  /\ Cancelled(Me)
  /\ Retry
  /\ UNCHANGED <<link, dead, cuts, exhausted, scene>>

\* connectEventCallback: a timeout, an error that the socket tells (the connect is
\* then tried once more), or connected
ConnectEvent(n) ==
  /\ Pending(n, "connect")
  /\ LET a == cell[n].direct
         c == [cell[n] EXCEPT !.event = "none"] IN
     \/ /\ MayFail(a)
        /\ Put(n, [c EXCEPT !.up = FALSE, !.status = "Connecting"])
        /\ Job("dns", n, None, "none")
        /\ Clear
     \/ /\ c.status = "Connecting" /\ MayFail(a)
        /\ Put(n, c)
        /\ Job("connect", n, a, "event")
        /\ UNCHANGED cache
     \/ /\ MayWork(a)
        /\ Put(n, [c EXCEPT !.status = "Connected", !.up = TRUE])
        /\ Job("tls", n, a, "event")
        /\ UNCHANGED cache
  /\ UNCHANGED <<link, dead, cuts, exhausted, scene>>

\* connectTimerEventCallback, of a handshake that is under way
TimerEvent(n) ==
  /\ Pending(n, "timer")
  /\ Put(n, [cell[n] EXCEPT !.event = "none"])
  /\ Job("tls", n, cell[n].direct, "timer")
  /\ UNCHANGED <<cache, link, dead, cuts, exhausted, scene>>

\* sslProcess: done or plain, to be continued (by the timer and by the socket in
\* turn), or failed
Tls ==
  /\ Doing("tls") /\ ~Cancelled(Me)
  /\ \/ /\ MayWork(job.addr)
        /\ Job("request", Me, job.addr, job.from)
        /\ UNCHANGED <<cell, cache>>
     \/ /\ cell[Me].wants < MaxWants
        /\ Put(Me, [cell[Me] EXCEPT !.event = IF cell[Me].timed THEN "connect" ELSE "timer",
                                    !.timed = ~@, !.wants = @ + 1, !.direct = job.addr])
        /\ job' = Off
        /\ UNCHANGED cache
     \/ /\ MayFail(job.addr)
        /\ Retry
  /\ UNCHANGED <<link, dead, cuts, exhausted, scene>>

\* nodeRequestProcess of the upgrade
Request ==
  /\ Doing("request")
  /\ \/ /\ Put(Me, [cell[Me] EXCEPT !.status = "Handshaked", !.event = "read"])
        /\ UNCHANGED <<cache, cuts>>
     \/ /\ ~steady /\ cuts < MaxCuts
        /\ cuts' = cuts + 1
        /\ \E retriable \in Retriable :
             LET c == Failed([cell[Me] EXCEPT !.status = "Handshaked"], retriable) IN
             Put(Me, Destroyed([Unplugged(c) EXCEPT !.event = c.event]))
        /\ Clear
  /\ job' = Off
  /\ UNCHANGED <<link, dead, exhausted, scene>>

\* readEventCallBack of a cancelled node
ReadCancelled(n) ==
  /\ Pending(n, "read") /\ Cancelled(n)
  /\ Put(n, Unplugged(cell[n]))
  /\ UNCHANGED <<cache, job, link, dead, cuts, exhausted, scene>>

\* mutant of Begun: a session that is up again has its reconnections back
BegunAfresh(c) == [c EXCEPT !.status = "Started", !.recon = "No", !.count = 0]

\* the task has started
Begun(c) == [c EXCEPT !.status = "Started", !.recon = "No"]

\* the gateway upgrades, the task starts, the task ends
Read(n) ==
  /\ Pending(n, "read") /\ ~Cancelled(n) /\ n \notin Prelinks
  /\ LET c == cell[n] IN
     \/ c.status = "Handshaked" /\ Put(n, [c EXCEPT !.status = "Starting", !.recon = "New"])
     \/ c.status = "Starting" /\ Put(n, Begun(c))
     \/ /\ c.status = "Started"
        /\ Put(n, [c EXCEPT !.status = "Closed", !.tries = 0, !.count = 0, !.told = "end",
                            !.up = long, !.event = "none"])
  /\ UNCHANGED <<cache, job, link, dead, cuts, exhausted, scene>>

\* the connection breaks or the task fails: what was read and what was not differ in
\* whether the cache is cleared
ReadFails(n) ==
  /\ Pending(n, "read") /\ ~Cancelled(n) /\ n \notin Prelinks
  /\ cuts < MaxCuts
  /\ cuts' = cuts + 1
  /\ \E retriable \in Retriable : Put(n, Failed(Unplugged(cell[n]), retriable))
  /\ Clear \/ UNCHANGED cache
  /\ UNCHANGED <<job, link, dead, exhausted, scene>>

(***************************************************************************)
(* The pool's thread: directLinkIpFromCache and syncDirectConnect, where   *)
(* the socket blocks. The cache is taken below its threshold too.          *)
(***************************************************************************)
Link(n) ==
  /\ n \in scene.nodes \intersect Prelinks /\ link = Off /\ cell[n].status = "Created"
  /\ \E a \in Lookup(TRUE) :
       link' = [op |-> "connect", node |-> n, addr |-> a, from |-> "none"]
  /\ Put(n, [cell[n] EXCEPT !.status = "Connecting", !.listed = TRUE])
  /\ UNCHANGED <<cache, job, dead, cuts, exhausted, scene>>

LinkEnds(op) == link' = [link EXCEPT !.op = op]

LinkConnect ==
  /\ link.op = "connect"
  /\ \/ /\ MayWork(link.addr)
        /\ Put(link.node, [cell[link.node] EXCEPT !.status = "Connected", !.up = TRUE])
        /\ LinkEnds("tls")
        /\ UNCHANGED cache
     \/ /\ MayFail(link.addr)
        /\ LinkEnds("failed")
        /\ Clear \/ UNCHANGED cache
        /\ UNCHANGED cell
  /\ UNCHANGED <<job, dead, cuts, exhausted, scene>>

\* 50 rounds of 10 ms
LinkTls ==
  /\ link.op = "tls"
  /\ \/ /\ MayWork(link.addr)
        /\ Put(link.node, [cell[link.node] EXCEPT !.status = "Handshaked", !.event = "read"])
        /\ LinkEnds("wait")
     \/ LinkEnds("failed") /\ UNCHANGED cell
  /\ UNCHANGED <<cache, job, dead, cuts, exhausted, scene>>

\* the event thread reads the answer, and breaks off there
LinkAnswer(n) ==
  /\ n \in Prelinks /\ Pending(n, "read") /\ cell[n].status = "Handshaked"
  /\ Put(n, [cell[n] EXCEPT !.status = "Starting"])
  /\ UNCHANGED <<cache, job, link, dead, cuts, exhausted, scene>>

\* the answer came or 50 rounds of 10 ms are over: the loop ends at -1 and not at the
\* 0 that is asked for, so the result is true either way
LinkWait ==
  /\ link.op = "wait"
  /\ LinkEnds("linked")
  /\ Put(link.node, [cell[link.node] EXCEPT !.event = "none"])
  /\ UNCHANGED <<cache, job, dead, cuts, exhausted, scene>>

LinkDone ==
  /\ link.op \in {"failed", "linked"}
  /\ link' = Off
  /\ UNCHANGED <<cell, cache, job, dead, cuts, exhausted, scene>>

(***************************************************************************)
(* The system. A thread that has served sessions has a cache.              *)
(***************************************************************************)
Die(a) ==
  /\ a \notin dead /\ Cardinality(Addresses \ dead) > 1
  /\ dead' = dead \union {a}
  /\ UNCHANGED <<cell, cache, job, link, cuts, exhausted, scene>>

Init ==
  /\ cell = [n \in Nodes |-> NewCell]
  /\ cache \in {Empty} \union [ips : {{a} : a \in Addresses}, same : {Threshold}]
  /\ job = Off /\ link = Off
  /\ dead = {} /\ cuts = 0 /\ exhausted = FALSE
  /\ scene \in Scenes

Dns == DnsCancelled \/ DnsReuse \/ DnsGiveUp \/ DnsAttempt
Thread == \/ Dns \/ Connect \/ StepCancelled \/ Tls \/ Request
          \/ \E n \in Nodes : \/ Launch(n) \/ DnsAnswer(n) \/ ConnectEvent(n) \/ TimerEvent(n)
                              \/ ReadCancelled(n)

Next == \/ Thread
        \/ \E n \in Nodes : \/ Start(n) \/ Leave(n, "Stopping") \/ Leave(n, "Cancel")
                            \/ Read(n) \/ ReadFails(n) \/ Link(n) \/ LinkAnswer(n)
        \/ LinkConnect \/ LinkTls \/ LinkWait \/ LinkDone
        \/ \E a \in Addresses : Die(a)

\* The event loop runs what is active, a pending connect times out, and the server
\* answers; users need not do anything, nor does the network have to fail.
Fairness == /\ WF_vars(Thread)
            /\ \A n \in Nodes : WF_vars(Read(n))

Spec == Init /\ [][Next]_vars /\ Fairness

(***************************************************************************)
(* Properties.                                                             *)
(***************************************************************************)
\* Every field has its type, and a node has a pending event only in the states in
\* which the callback of that event knows what to do.
DialingTypeOK ==
  /\ \A n \in Nodes : LET c == cell[n] IN
       /\ c.status \in Statuses /\ c.exit \in {"Invalid", "Stopping", "Cancel"}
       /\ c.tries \in 0..MaxTries /\ c.recon \in Reconnections
       /\ c.count \in 0..MaxReconnects
       /\ c.event = "launch" => c.status = "Invoking"
       /\ c.event = "reconnect" => c.status = "Closed" /\ c.recon = "Trigger"
       /\ c.event = "dns" => c.status = "Connecting"
       /\ c.event = "connect" => c.status \in {"Connecting", "Connected"}
       /\ c.event = "timer" => c.status = "Connected" /\ c.up
       /\ c.event = "read" => c.status \in {"Handshaked", "Starting", "Started"} /\ c.up
  /\ cache.ips \subseteq Addresses /\ cache.same \in 0..Threshold
  /\ job # Off => job.op \in {"dns", "connect", "tls", "request"} /\ job.node \in Nodes

\* A session reconnects at most max_try_count times, however often it was up in
\* between: what is counted is forgotten only when the user is told.
ReconnectsAreBounded == \A n \in Nodes : cell[n].redials <= MaxReconnects

\* An address that died costs one session at most: when the attempts of a node are
\* used up, a session launched from then on gets through, if DNS knows better. Nodes
\* that still dial the dead address must not bring it back into the cache.
DeadAddressIsForgotten == steady => \A n \in Nodes : ~cell[n].beaten

\* A session whose reconnection failed: the failure is ignored like the one before,
\* and there is no second reconnect event.
Silent(n) == cell[n].status = "Closed" /\ cell[n].recon = "Trigger" /\ cell[n].event = "none"

\* A session that is launched comes to Started or ends with a callback, unless the
\* user leaves it. Only a reconnection may end in silence.
DialEnds ==
  \A n \in Nodes \ Prelinks :
    cell[n].event = "launch" ~>
      \/ cell[n].status = "Started" \/ cell[n].told # "nothing" \/ cell[n].exit # "Invalid"
      \/ continued /\ (Silent(n) \/ cell[n].gone)

\* The event thread deletes no request that its user has not released. With
\* reconnection it does: destroyConnectNode deletes when it comes a second time.
UserHasRequest == ~continued => \A n \in Nodes \ Prelinks : ~cell[n].gone
=============================================================================
