---------------------------- MODULE Dialing_proofs ----------------------------
(***************************************************************************)
(* Proofs about Dialing, for any nodes, addresses, bounds and scenes: each *)
(* pending event finds its node in a state its callback knows, a session   *)
(* reconnects at most max_try_count times, without reconnection the event  *)
(* thread deletes no request of a user, and an address that dies costs one *)
(* session at most.                                                        *)
(*                                                                         *)
(* What carries the first three: an event is pending or a job is under     *)
(* way, never both for one node, so that nothing is told twice; and as     *)
(* long as a session is not closed, its reconnections were counted. The    *)
(* last stands on this and on what is known of the dead (Forgets).         *)
(***************************************************************************)
EXTENDS Dialing, FiniteSetTheorems, TLAPS

Fields ==
  {"status", "exit", "tries", "direct", "up", "event", "timed", "wants", "recon", "count",
   "redials", "listed", "destroy", "gone", "told", "rounds", "late", "beaten"}

Exits == {"Invalid", "Stopping", "Cancel"}

Typed(c) ==
  /\ DOMAIN c = Fields
  /\ c.status \in Statuses /\ c.exit \in Exits /\ c.recon \in Reconnections
  /\ c.tries \in 0..MaxTries /\ c.count \in 0..MaxReconnects
  /\ c.listed \in BOOLEAN /\ c.destroy \in BOOLEAN /\ c.gone \in BOOLEAN

\* What a pending event finds.
Awaits(c) ==
  /\ c.event = "launch" => c.status = "Invoking"
  /\ c.event = "reconnect" => c.status = "Closed" /\ c.recon = "Trigger"
  /\ c.event = "dns" => c.status = "Connecting"
  /\ c.event = "connect" => c.status \in {"Connecting", "Connected"}
  /\ c.event = "timer" => c.status = "Connected" /\ c.up
  /\ c.event = "read" => c.status \in {"Handshaked", "Starting", "Started"} /\ c.up

\* The reconnections of a session are among the failures that are counted, until it
\* is closed and the count forgotten; the next reconnection has its failure too.
Counted(c) ==
  /\ c.redials \in 0..MaxReconnects
  /\ c.status # "Closed" => c.redials <= c.count
  /\ c.event = "reconnect" => c.redials < c.count

\* Nobody launches what the pool links.
Apart(n, c) == n \in Prelinks => c.redials = 0 /\ c.event \in {"none", "read"}

\* Without reconnection a node that is on the list, or about to be, was not destroyed
\* in this session.
Kept(n, c) ==
  ~continued /\ n \notin Prelinks =>
    /\ ~c.gone /\ c.event # "reconnect"
    /\ c.listed \/ c.event = "launch" => ~c.destroy

Good(n, c) == Typed(c) /\ Awaits(c) /\ Counted(c) /\ Apart(n, c) /\ Kept(n, c)

CellsGood == DOMAIN cell = Nodes /\ \A n \in Nodes : Good(n, cell[n])

\* The node of a job waits for no event and is in no state in which it could be started.
Held(c) == c.status \notin {"Created", "Invoking", "Closed"}

Fits(op, c) ==
  /\ op \in {"dns", "connect", "tls", "request"}
  /\ c.event = "none" /\ Held(c)
  /\ op = "connect" => c.status = "Connecting"
  /\ op \in {"tls", "request"} => c.status = "Connected" /\ c.up

JobGood ==
  \/ job = Off
  \/ job.node \in Nodes \ Prelinks /\ Fits(job.op, cell[job.node])

LinkFields == {"op", "node", "addr", "from"}

\* The pool dials for nodes of its own, in order.
LinkGood ==
  \/ link = Off
  \/ /\ DOMAIN link = LinkFields /\ link.node \in Nodes \intersect Prelinks
     /\ link.op \in {"connect", "tls"} => cell[link.node].event = "none"
     /\ link.op = "tls" => cell[link.node].up

CacheGood == DOMAIN cache = {"ips", "same"} /\ cache.ips \subseteq Addresses /\ cache.same \in 0..Threshold

DialInv == CellsGood /\ JobGood /\ LinkGood /\ CacheGood

(***************************************************************************)
(* What a step on one node has to show.                                    *)
(***************************************************************************)
\* Off is the record of no job: its node is no node.
LEMMA OffIs == Off.op = "off" /\ Off.node \notin Nodes
BY DialingAssumption DEF Off

\* A step that puts a good cell keeps the rest, if the job and the link go on.
LEMMA PutKeeps ==
  ASSUME DialInv, NEW n \in Nodes, NEW c, Put(n, c), Good(n, c), scene' = scene, CacheGood',
         \/ job' = Off
         \/ job' = job /\ (job.node = n => Fits(job.op, c))
         \/ job'.node = n /\ n \notin Prelinks /\ Fits(job'.op, c),
         \/ link' = Off
         \/ link' = link /\ (link.node = n =>
              /\ link.op \in {"connect", "tls"} => c.event = "none"
              /\ link.op = "tls" => c.up)
         \/ /\ DOMAIN link' = LinkFields /\ link'.node = n /\ n \in Prelinks
            /\ link'.op \in {"connect", "tls"} => c.event = "none"
            /\ link'.op = "tls" => c.up
  PROVE  DialInv'
<1>1. /\ DOMAIN cell' = Nodes /\ cell'[n] = c
      /\ \A m \in Nodes : m # n => cell'[m] = cell[m]
  BY DEF Put, DialInv, CellsGood
<1>2. CellsGood'
  <2>1. \A m \in Nodes : Good(m, cell'[m])
    BY <1>1 DEF DialInv, CellsGood
  <2>2. continued' = continued
    BY DEF continued
  <2>3. ASSUME NEW m \in Nodes
        PROVE  Good(m, cell[m])'
    BY <2>1, <2>2 DEF Good, Typed, Awaits, Counted, Apart, Kept
  <2> QED
    BY <1>1, <2>3 DEF CellsGood
<1>3. JobGood'
  BY <1>1, OffIs DEF DialInv, JobGood, Fits, Held
<1>4. LinkGood'
  BY <1>1, OffIs DEF DialInv, LinkGood
<1> QED
  BY <1>2, <1>3, <1>4 DEF DialInv

\* A failure: ignored with the reconnect event, ignored without, or told.
LEMMA FailedIsGood ==
  ASSUME NEW n \in Nodes \ Prelinks, NEW c, Good(n, c), c.event = "none",
         NEW retriable \in Retriable
  PROVE  /\ Good(n, Failed(c, retriable))
         /\ Failed(c, retriable).event \in {"none", "reconnect"}
         /\ Failed(c, retriable).status = "Closed" \/ Failed(c, retriable) = c
<1> DEFINE count == IF Grows(c, retriable) THEN c.count + 1 ELSE c.count
           reconnects == continued /\ (Grows(c, retriable) \/ c.recon = "Trigger")
           ignored == reconnects /\ count <= MaxReconnects
           d == Failed(c, retriable)
<1>1. CASE c.exit = "Cancel" \/ c.status = "Closed"
  BY <1>1 DEF Failed
<1>2. CASE ~(c.exit = "Cancel" \/ c.status = "Closed")
  <2>1. /\ DOMAIN d = Fields
        /\ d.status = "Closed" /\ d.tries = 0
        /\ d.count = IF ignored THEN count ELSE 0
        /\ d.recon = IF ignored THEN "Trigger" ELSE IF reconnects THEN "No" ELSE c.recon
        /\ d.event = IF ignored /\ Grows(c, retriable) THEN "reconnect" ELSE c.event
        /\ d.exit = c.exit /\ d.up = c.up /\ d.listed = c.listed
        /\ d.destroy = c.destroy /\ d.gone = c.gone /\ d.redials = c.redials
    BY <1>2 DEF Failed, Good, Typed, Fields
  <2> HIDE DEF d
  <2>2. count \in Nat /\ c.count <= count
    BY DialingAssumption DEF Good, Typed
  <2>3. Typed(d)
    BY <2>1, <2>2, DialingAssumption DEF Good, Typed, Statuses, Reconnections
  <2>4. Awaits(d)
    BY <2>1 DEF Good, Awaits
  <2>5. Counted(d)
    <3>1. c.redials <= c.count /\ c.redials \in 0..MaxReconnects /\ c.count \in 0..MaxReconnects
      BY <1>2 DEF Good, Counted, Typed
    <3>2. CASE d.event = "reconnect"
      BY <2>1, <3>1, <3>2, DialingAssumption DEF Counted
    <3>3. CASE d.event # "reconnect"
      BY <2>1, <3>1, <3>3 DEF Counted
    <3> QED
      BY <3>2, <3>3
  <2>6. Apart(n, d) /\ Kept(n, d)
    BY <2>1 DEF Good, Apart, Kept
  <2> QED
    BY <2>1, <2>3, <2>4, <2>5, <2>6 DEF Good, d
<1> QED
  BY <1>1, <1>2

\* A socket that is closed leaves no event.
LEMMA UnpluggedIsGood ==
  ASSUME NEW n \in Nodes, NEW c, Good(n, c)
  PROVE  /\ Good(n, Unplugged(c)) /\ Unplugged(c).event = "none"
         /\ Unplugged(c).status = c.status
<1>1. LET d == Unplugged(c) IN
      /\ DOMAIN d = Fields /\ d.event = "none" /\ d.up = FALSE
      /\ d.status = c.status /\ d.exit = c.exit /\ d.recon = c.recon /\ d.tries = c.tries
      /\ d.count = c.count /\ d.redials = c.redials
      /\ d.listed = c.listed /\ d.destroy = c.destroy /\ d.gone = c.gone
  BY DEF Unplugged, Good, Typed, Fields
<1> QED
  BY <1>1 DEF Good, Typed, Awaits, Counted, Apart, Kept

\* The event thread destroys a node of a user that is not about to be launched.
LEMMA DestroyedIsGood ==
  ASSUME NEW n \in Nodes \ Prelinks, NEW c, Good(n, c), c.event # "launch"
  PROVE  /\ Good(n, Destroyed(c)) /\ Destroyed(c).status = c.status
<1>1. CASE ~c.listed
  BY <1>1 DEF Destroyed
<1>2. CASE c.listed
  <2>1. LET d == Destroyed(c) IN
        /\ DOMAIN d = Fields /\ d.event = c.event /\ d.up = c.up
        /\ d.status = c.status /\ d.exit = c.exit /\ d.recon = c.recon /\ d.tries = c.tries
        /\ d.count = c.count /\ d.redials = c.redials
        /\ d.listed = FALSE /\ d.destroy = TRUE /\ d.gone = c.destroy
    BY <1>2 DEF Destroyed, Good, Typed, Fields
  <2> QED
    BY <2>1, <1>2 DEF Good, Typed, Awaits, Counted, Apart, Kept
<1> QED
  BY <1>1, <1>2 DEF Good, Typed

(***************************************************************************)
(* The cache.                                                              *)
(***************************************************************************)
LEMMA CacheStays == ASSUME CacheGood, UNCHANGED cache PROVE CacheGood'
BY DEF CacheGood

LEMMA ClearIsGood == ASSUME Clear PROVE CacheGood'
BY DialingAssumption DEF CacheGood, Clear, Empty

\* The count of answers stops at the threshold.
LEMMA LearnIsGood == ASSUME CacheGood, NEW a \in Addresses, Learn(a) PROVE CacheGood'
<1>1. cache.same \in Nat /\ cache.same <= Threshold /\ Threshold \in Nat
  BY DialingAssumption DEF CacheGood
<1>2. CASE a \in cache.ips
  <2>1. cache' = [cache EXCEPT !.same = IF @ < Threshold THEN @ + 1 ELSE @]
    BY <1>2 DEF Learn
  <2>2. cache'.ips = cache.ips /\ DOMAIN cache' = DOMAIN cache
    BY <2>1
  <2>3. cache'.same = IF cache.same < Threshold THEN cache.same + 1 ELSE cache.same
    BY <2>1 DEF CacheGood
  <2> QED
    BY <1>1, <2>2, <2>3 DEF CacheGood
<1>3. CASE a \notin cache.ips
  BY <1>1, <1>3 DEF Learn, CacheGood
<1> QED
  BY <1>2, <1>3

(***************************************************************************)
(* The user.                                                               *)
(***************************************************************************)
LEMMA StartKeeps == ASSUME DialInv, NEW n \in Nodes, Start(n) PROVE DialInv'
<1> DEFINE c == [cell[n] EXCEPT !.status = "Invoking", !.exit = "Invalid", !.destroy = FALSE,
                                !.told = "nothing", !.rounds = @ + 1, !.event = "launch",
                                !.redials = 0]
<1>1. Good(n, cell[n]) /\ n \notin Prelinks /\ ~Held(cell[n])
  BY DEF DialInv, CellsGood, Start, Held
<1>2. /\ DOMAIN c = Fields
      /\ c.status = "Invoking" /\ c.exit = "Invalid" /\ c.event = "launch"
      /\ c.destroy = FALSE /\ c.redials = 0 /\ c.gone = cell[n].gone
      /\ c.up = cell[n].up /\ c.listed = cell[n].listed /\ c.recon = cell[n].recon
      /\ c.tries = cell[n].tries /\ c.count = cell[n].count
  BY <1>1 DEF Good, Typed, Fields
<1>3. Put(n, c) /\ UNCHANGED <<cache, job, link, scene>> /\ ~cell[n].gone
  BY DEF Start
<1> HIDE DEF c
<1>4. Good(n, c)
  <2>1. Typed(c) /\ Awaits(c)
    BY <1>1, <1>2 DEF Good, Typed, Awaits, Statuses, Exits
  <2>2. Counted(c)
    BY <1>1, <1>2, DialingAssumption DEF Good, Typed, Counted
  <2>3. Apart(n, c) /\ Kept(n, c)
    BY <1>1, <1>2, <1>3 DEF Good, Apart, Kept
  <2> QED
    BY <2>1, <2>2, <2>3 DEF Good
<1>5. job = Off \/ job.node # n
  BY <1>1 DEF DialInv, JobGood, Fits
<1>6. link = Off \/ link.node # n
  BY <1>1 DEF DialInv, LinkGood
<1>7. CacheGood'
  BY <1>3, CacheStays DEF DialInv
<1> QED
  BY <1>3, <1>4, <1>5, <1>6, <1>7, OffIs, PutKeeps

LEMMA LeaveKeeps ==
  ASSUME DialInv, NEW n \in Nodes, NEW exit \in {"Stopping", "Cancel"}, Leave(n, exit)
  PROVE  DialInv'
<1> DEFINE c == [cell[n] EXCEPT !.exit = exit]
<1>1. Good(n, cell[n]) /\ n \notin Prelinks
  BY DEF DialInv, CellsGood, Leave
<1>2. /\ DOMAIN c = Fields /\ c.exit = exit
      /\ c.status = cell[n].status /\ c.event = cell[n].event
      /\ c.destroy = cell[n].destroy /\ c.redials = cell[n].redials /\ c.gone = cell[n].gone
      /\ c.up = cell[n].up /\ c.listed = cell[n].listed /\ c.recon = cell[n].recon
      /\ c.tries = cell[n].tries /\ c.count = cell[n].count
  BY <1>1 DEF Good, Typed, Fields
<1>3. Put(n, c) /\ UNCHANGED <<cache, job, link, scene>>
  BY DEF Leave
<1> HIDE DEF c
<1>4. Good(n, c)
  BY <1>1, <1>2 DEF Good, Typed, Awaits, Counted, Apart, Kept, Exits
<1>5. job.node = n => job = Off \/ Fits(job.op, c)
  BY <1>2 DEF DialInv, JobGood, Fits, Held
<1>6. link = Off \/ link.node # n
  BY <1>1 DEF DialInv, LinkGood
<1>7. CacheGood'
  BY <1>3, CacheStays DEF DialInv
<1> QED
  BY <1>3, <1>4, <1>5, <1>6, <1>7, OffIs, PutKeeps

(***************************************************************************)
(* The event thread.                                                       *)
(***************************************************************************)
\* What all steps of the event thread on a node of a user have to show.
LEMMA ThreadKeeps ==
  ASSUME DialInv, NEW n \in Nodes \ Prelinks, NEW c, Put(n, c), Good(n, c),
         UNCHANGED <<link, scene>>, CacheGood',
         \/ job' = Off
         \/ job' = job /\ job.node # n
         \/ job'.node = n /\ Fits(job'.op, c)
  PROVE  DialInv'
<1>1. link = Off \/ link.node # n
  BY DEF DialInv, LinkGood
<1> QED
  BY <1>1, OffIs, PutKeeps

\* The node of a job.
LEMMA JobIs ==
  ASSUME DialInv, Doing("dns") \/ Doing("connect") \/ Doing("tls") \/ Doing("request")
  PROVE  /\ Me \in Nodes \ Prelinks
         /\ Good(Me, cell[Me]) /\ Fits(job.op, cell[Me])
         /\ cell[Me].event = "none" /\ cell[Me].status # "Closed"
BY OffIs DEF DialInv, JobGood, CellsGood, Fits, Held, Doing, Me

\* A node whose event runs; what is not read is no node of the pool.
LEMMA PendingIs ==
  ASSUME DialInv, NEW n \in Nodes, NEW event, Pending(n, event), event # "none"
  PROVE  /\ Good(n, cell[n]) /\ job = Off /\ cell[n].event = event
         /\ event # "read" => n \notin Prelinks
BY DEF DialInv, CellsGood, Pending, Free, Good, Apart

\* d goes on from c within the session, and is not closed.
GoesOn(c, d) ==
  /\ DOMAIN d = Fields
  /\ c.status # "Closed" /\ d.status \in Statuses \ {"Closed"}
  /\ d.tries \in 0..MaxTries /\ d.recon \in Reconnections
  /\ d.exit = c.exit /\ d.count = c.count /\ d.redials = c.redials
  /\ d.listed = c.listed /\ d.destroy = c.destroy /\ d.gone = c.gone
  /\ d.event \notin {"launch", "reconnect"}

LEMMA GoesOnIsGood ==
  ASSUME NEW n \in Nodes \ Prelinks, NEW c, NEW d, Good(n, c), GoesOn(c, d), Awaits(d)
  PROVE  Good(n, d)
BY DEF Good, GoesOn, Typed, Counted, Apart, Kept

LEMMA LaunchKeeps == ASSUME DialInv, NEW n \in Nodes, Launch(n) PROVE DialInv'
<1> DEFINE c == [cell[n] EXCEPT !.event = "none", !.status = "Invoked"]
           d == [c EXCEPT !.listed = TRUE, !.late = exhausted,
                          !.redials = IF cell[n].event = "reconnect" THEN @ + 1 ELSE @]
<1>1. /\ Good(n, cell[n]) /\ n \notin Prelinks /\ job = Off
      /\ cell[n].event \in {"launch", "reconnect"}
  BY PendingIs DEF Launch
<1>2. /\ DOMAIN c = Fields
      /\ c.status = "Invoked" /\ c.event = "none"
      /\ c.exit = cell[n].exit /\ c.destroy = cell[n].destroy /\ c.redials = cell[n].redials
      /\ c.gone = cell[n].gone /\ c.up = cell[n].up /\ c.listed = cell[n].listed
      /\ c.recon = cell[n].recon /\ c.tries = cell[n].tries /\ c.count = cell[n].count
  BY <1>1 DEF Good, Typed, Fields
<1>3. /\ \/ Put(n, c) /\ UNCHANGED job
         \/ Put(n, d) /\ Job("dns", n, None, "none")
      /\ UNCHANGED <<cache, link, scene>>
  BY DEF Launch
<1> HIDE DEF c
<1>4. /\ DOMAIN d = Fields
      /\ d.status = "Invoked" /\ d.event = "none" /\ d.listed = TRUE
      /\ d.redials = IF cell[n].event = "reconnect" THEN c.redials + 1 ELSE c.redials
      /\ d.exit = c.exit /\ d.destroy = c.destroy
      /\ d.gone = c.gone /\ d.up = c.up
      /\ d.recon = c.recon /\ d.tries = c.tries /\ d.count = c.count
  BY <1>2 DEF Fields
<1> HIDE DEF d
<1>5. /\ cell[n].redials \in 0..MaxReconnects /\ cell[n].count \in 0..MaxReconnects
      /\ cell[n].redials <= cell[n].count
      /\ cell[n].event = "reconnect" => cell[n].redials + 1 <= cell[n].count
  BY <1>1, DialingAssumption DEF Good, Typed, Counted, Awaits
<1>6. Good(n, c)
  BY <1>1, <1>2, <1>5 DEF Good, Typed, Awaits, Counted, Apart, Kept, Statuses
<1>7. Good(n, d)
  <2>1. Typed(d) /\ Awaits(d)
    BY <1>1, <1>2, <1>4 DEF Good, Typed, Awaits, Statuses
  <2>2. Counted(d)
    BY <1>2, <1>4, <1>5, DialingAssumption DEF Counted
  <2>3. Apart(n, d) /\ Kept(n, d)
    BY <1>1, <1>2, <1>4 DEF Good, Apart, Kept
  <2> QED
    BY <2>1, <2>2, <2>3 DEF Good
<1>8. CacheGood'
  BY <1>3, CacheStays DEF DialInv
<1>9. CASE Put(n, c) /\ UNCHANGED job
  BY <1>1, <1>3, <1>6, <1>8, <1>9, ThreadKeeps
<1>10. CASE Put(n, d) /\ Job("dns", n, None, "none")
  <2>1. job'.op = "dns" /\ job'.node = n
    BY <1>10 DEF Job
  <2>2. Fits("dns", d)
    BY <1>4 DEF Fits, Held
  <2> QED
    BY <1>1, <1>3, <1>7, <1>8, <1>10, <2>1, <2>2, ThreadKeeps
<1> QED
  BY <1>3, <1>9, <1>10

LEMMA DnsCancelledKeeps == ASSUME DialInv, DnsCancelled PROVE DialInv'
<1>1. /\ Me \in Nodes \ Prelinks /\ Good(Me, cell[Me]) /\ cell[Me].event = "none"
      /\ Put(Me, Destroyed(cell[Me])) /\ job' = Off /\ UNCHANGED <<cache, link, scene>>
  BY JobIs DEF DnsCancelled
<1>2. Good(Me, Destroyed(cell[Me]))
  BY <1>1, DestroyedIsGood
<1> QED
  BY <1>1, <1>2, CacheStays, ThreadKeeps DEF DialInv

LEMMA DnsReuseKeeps == ASSUME DialInv, DnsReuse PROVE DialInv'
<1> DEFINE d == [cell[Me] EXCEPT !.status = "Starting", !.recon = "New", !.event = "read"]
<1>1. /\ Me \in Nodes \ Prelinks /\ Good(Me, cell[Me]) /\ cell[Me].status # "Closed"
      /\ cell[Me].up
      /\ Put(Me, d) /\ job' = Off /\ UNCHANGED <<cache, link, scene>>
  BY JobIs DEF DnsReuse
<1>2. GoesOn(cell[Me], d) /\ d.status = "Starting" /\ d.event = "read" /\ d.up
  BY <1>1 DEF GoesOn, Good, Typed, Fields, Statuses, Reconnections
<1> HIDE DEF d
<1>3. Good(Me, d)
  BY <1>1, <1>2, GoesOnIsGood DEF Awaits
<1> QED
  BY <1>1, <1>3, CacheStays, ThreadKeeps DEF DialInv

LEMMA DnsGiveUpKeeps == ASSUME DialInv, DnsGiveUp PROVE DialInv'
<1> DEFINE c == [cell[Me] EXCEPT !.tries = 0, !.beaten = cell[Me].late]
<1>1. /\ Me \in Nodes \ Prelinks /\ Good(Me, cell[Me]) /\ cell[Me].status # "Closed"
      /\ cell[Me].event = "none"
      /\ Put(Me, Destroyed(Failed(c, TRUE))) /\ Clear /\ job' = Off
      /\ UNCHANGED <<link, scene>>
  BY JobIs DEF DnsGiveUp
<1>2. GoesOn(cell[Me], c) /\ c.status = cell[Me].status /\ c.event = "none"
  BY <1>1, DialingAssumption DEF GoesOn, Good, Typed, Fields
<1> HIDE DEF c
<1>3. Good(Me, c)
  BY <1>1, <1>2, GoesOnIsGood DEF Awaits
<1>4. Good(Me, Failed(c, TRUE)) /\ Failed(c, TRUE).event # "launch"
  BY <1>1, <1>2, <1>3, FailedIsGood DEF Retriable
<1>5. Good(Me, Destroyed(Failed(c, TRUE)))
  BY <1>1, <1>4, DestroyedIsGood
<1> QED
  BY <1>1, <1>5, ClearIsGood, ThreadKeeps

LEMMA DnsAttemptKeeps == ASSUME DialInv, DnsAttempt PROVE DialInv'
<1> DEFINE c == [cell[Me] EXCEPT !.tries = @ + 1, !.status = "Connecting", !.wants = 0]
           d == [c EXCEPT !.event = "dns"]
<1>1. /\ Me \in Nodes \ Prelinks /\ Good(Me, cell[Me]) /\ cell[Me].status # "Closed"
      /\ cell[Me].event = "none" /\ cell[Me].tries < MaxTries
      /\ UNCHANGED <<cache, link, scene>>
  BY JobIs DEF DnsAttempt
<1>2. \/ Put(Me, c) /\ \E a : Job("connect", Me, a, "direct")
      \/ Put(Me, d) /\ job' = Off
  BY DEF DnsAttempt
<1>3. /\ GoesOn(cell[Me], c) /\ c.status = "Connecting" /\ c.event = "none"
  BY <1>1, DialingAssumption DEF GoesOn, Good, Typed, Fields, Statuses
<1> HIDE DEF c
<1>4. GoesOn(cell[Me], d) /\ d.status = "Connecting" /\ d.event = "dns"
  BY <1>3 DEF GoesOn, Fields
<1> HIDE DEF d
<1>5. Good(Me, c) /\ Good(Me, d)
  BY <1>1, <1>3, <1>4, GoesOnIsGood DEF Awaits
<1>6. CacheGood'
  BY <1>1, CacheStays DEF DialInv
<1>7. CASE Put(Me, c) /\ \E a : Job("connect", Me, a, "direct")
  <2>1. job'.op = "connect" /\ job'.node = Me
    BY <1>7 DEF Job
  <2>2. Fits("connect", c)
    BY <1>3 DEF Fits, Held
  <2> QED
    BY <1>1, <1>5, <1>6, <1>7, <2>1, <2>2, ThreadKeeps
<1>8. CASE Put(Me, d) /\ job' = Off
  BY <1>1, <1>5, <1>6, <1>8, ThreadKeeps
<1> QED
  BY <1>2, <1>7, <1>8

LEMMA DnsAnswerKeeps == ASSUME DialInv, NEW n \in Nodes, DnsAnswer(n) PROVE DialInv'
<1> DEFINE c == [cell[n] EXCEPT !.event = "none"]
<1>1. /\ n \in Nodes \ Prelinks /\ Good(n, cell[n]) /\ cell[n].event = "dns"
      /\ Put(n, c) /\ UNCHANGED <<link, scene>>
  BY PendingIs DEF DnsAnswer
<1>2. \/ UNCHANGED cache /\ Job("dns", n, None, "none")
      \/ \E a \in Addresses : Learn(a) /\ Job("connect", n, a, "dns")
  BY DEF DnsAnswer
<1>3. GoesOn(cell[n], c) /\ c.status = "Connecting" /\ c.event = "none"
  BY <1>1 DEF GoesOn, Good, Typed, Awaits, Fields
<1> HIDE DEF c
<1>4. Good(n, c) /\ Fits("dns", c) /\ Fits("connect", c)
  BY <1>1, <1>3, GoesOnIsGood DEF Awaits, Fits, Held
<1>5. CacheGood'
  BY <1>2, CacheStays, LearnIsGood DEF DialInv
<1>6. job'.node = n /\ job'.op \in {"dns", "connect"}
  BY <1>2 DEF Job
<1>7. Fits(job'.op, c)
  BY <1>4, <1>6
<1> QED
  BY <1>1, <1>4, <1>5, <1>6, <1>7, ThreadKeeps

\* An attempt that failed goes on with the next.
LEMMA RetryKeeps ==
  ASSUME DialInv, Doing("connect") \/ Doing("tls"),
         NEW a, Put(Me, [cell[Me] EXCEPT !.up = FALSE, !.status = "Connecting"]),
         Job("dns", Me, a, "none"), CacheGood', UNCHANGED <<link, scene>>
  PROVE  DialInv'
<1> DEFINE c == [cell[Me] EXCEPT !.up = FALSE, !.status = "Connecting"]
<1>1. /\ Me \in Nodes \ Prelinks /\ Good(Me, cell[Me]) /\ cell[Me].status # "Closed"
      /\ cell[Me].event = "none" /\ Put(Me, c)
  BY JobIs
<1>2. GoesOn(cell[Me], c) /\ c.status = "Connecting" /\ c.event = "none"
  BY <1>1 DEF GoesOn, Good, Typed, Fields, Statuses
<1> HIDE DEF c
<1>3. Good(Me, c) /\ Fits("dns", c)
  BY <1>1, <1>2, GoesOnIsGood DEF Awaits, Fits, Held
<1>4. job'.node = Me /\ job'.op = "dns"
  BY DEF Job
<1> QED
  BY <1>1, <1>3, <1>4, ThreadKeeps

LEMMA StepCancelledKeeps == ASSUME DialInv, StepCancelled PROVE DialInv'
<1>1. CacheGood'
  BY CacheStays, ClearIsGood DEF StepCancelled, Retry, DialInv
<1>2. \E a : Job("dns", Me, a, "none")
  BY DEF StepCancelled, Retry
<1> QED
  BY <1>1, <1>2, RetryKeeps DEF StepCancelled, Retry

LEMMA ConnectKeeps == ASSUME DialInv, Connect PROVE DialInv'
<1> DEFINE c == [cell[Me] EXCEPT !.status = "Connected", !.up = TRUE]
           d == [cell[Me] EXCEPT !.event = "connect", !.direct = job.addr]
<1>1. /\ Me \in Nodes \ Prelinks /\ Good(Me, cell[Me]) /\ cell[Me].status = "Connecting"
      /\ cell[Me].event = "none" /\ Doing("connect") /\ UNCHANGED <<link, scene>>
  BY JobIs DEF Connect, Fits, Doing
<1>2. CacheGood'
  BY CacheStays, ClearIsGood DEF Connect, DialInv
<1>3. \/ Put(Me, c) /\ Job("tls", Me, job.addr, job.from)
      \/ Put(Me, d) /\ job' = Off
      \/ /\ Put(Me, [cell[Me] EXCEPT !.up = FALSE, !.status = "Connecting"])
         /\ \E a : Job("dns", Me, a, "none")
  BY DEF Connect
<1>4. /\ GoesOn(cell[Me], c)
      /\ c.status = "Connected" /\ c.up = TRUE /\ c.event = "none"
  BY <1>1 DEF GoesOn, Good, Typed, Fields, Statuses
<1>5. GoesOn(cell[Me], d) /\ d.status = "Connecting" /\ d.event = "connect"
  BY <1>1 DEF GoesOn, Good, Typed, Fields, Statuses
<1> HIDE DEF c, d
<1>6. Good(Me, c) /\ Fits("tls", c) /\ Good(Me, d)
  BY <1>1, <1>4, <1>5, GoesOnIsGood DEF Awaits, Fits, Held
<1>7. CASE Put(Me, c) /\ Job("tls", Me, job.addr, job.from)
  <2>1. job'.op = "tls" /\ job'.node = Me
    BY <1>7 DEF Job
  <2> QED
    BY <1>1, <1>2, <1>6, <1>7, <2>1, ThreadKeeps
<1>8. CASE Put(Me, d) /\ job' = Off
  BY <1>1, <1>2, <1>6, <1>8, ThreadKeeps
<1> QED
  BY <1>1, <1>2, <1>3, <1>7, <1>8, RetryKeeps

LEMMA ConnectEventKeeps == ASSUME DialInv, NEW n \in Nodes, ConnectEvent(n) PROVE DialInv'
<1> DEFINE c == [cell[n] EXCEPT !.event = "none"]
           down == [c EXCEPT !.up = FALSE, !.status = "Connecting"]
           done == [c EXCEPT !.status = "Connected", !.up = TRUE]
<1>1. /\ n \in Nodes \ Prelinks /\ Good(n, cell[n]) /\ cell[n].event = "connect"
      /\ UNCHANGED <<link, scene>>
  BY PendingIs DEF ConnectEvent
<1>2. /\ \/ Put(n, down) /\ \E a : Job("dns", n, None, "none")
         \/ c.status = "Connecting" /\ Put(n, c) /\ \E a : Job("connect", n, a, "event")
         \/ Put(n, done) /\ \E a : Job("tls", n, a, "event")
      /\ Clear \/ UNCHANGED cache
  BY DEF ConnectEvent
<1>3. GoesOn(cell[n], c) /\ c.event = "none"
  BY <1>1 DEF GoesOn, Good, Typed, Awaits, Fields
<1> HIDE DEF c
<1>4. GoesOn(cell[n], down) /\ down.status = "Connecting" /\ down.event = "none"
  BY <1>3 DEF GoesOn, Fields, Statuses
<1>5. /\ GoesOn(cell[n], done)
      /\ done.status = "Connected" /\ done.up = TRUE /\ done.event = "none"
  BY <1>3 DEF GoesOn, Fields, Statuses
<1> HIDE DEF down, done
<1>6. /\ Good(n, c) /\ Good(n, down) /\ Good(n, done)
      /\ Fits("dns", down) /\ Fits("tls", done)
      /\ c.status = "Connecting" => Fits("connect", c)
  BY <1>1, <1>3, <1>4, <1>5, GoesOnIsGood DEF Awaits, Fits, Held
<1>7. CacheGood'
  BY <1>2, CacheStays, ClearIsGood DEF DialInv
<1>8. \/ Put(n, down) /\ job'.node = n /\ job'.op = "dns"
      \/ c.status = "Connecting" /\ Put(n, c) /\ job'.node = n /\ job'.op = "connect"
      \/ Put(n, done) /\ job'.node = n /\ job'.op = "tls"
  BY <1>2 DEF Job
<1> QED
  BY <1>1, <1>6, <1>7, <1>8, ThreadKeeps

LEMMA TimerEventKeeps == ASSUME DialInv, NEW n \in Nodes, TimerEvent(n) PROVE DialInv'
<1> DEFINE c == [cell[n] EXCEPT !.event = "none"]
<1>1. /\ n \in Nodes \ Prelinks /\ Good(n, cell[n]) /\ cell[n].event = "timer"
      /\ Put(n, c) /\ UNCHANGED <<cache, link, scene>>
  BY PendingIs DEF TimerEvent
<1>2. GoesOn(cell[n], c) /\ c.status = "Connected" /\ c.event = "none" /\ c.up
  BY <1>1 DEF GoesOn, Good, Typed, Awaits, Fields
<1> HIDE DEF c
<1>3. Good(n, c) /\ Fits("tls", c)
  BY <1>1, <1>2, GoesOnIsGood DEF Awaits, Fits, Held
<1>4. job'.node = n /\ job'.op = "tls"
  BY DEF TimerEvent, Job
<1> QED
  BY <1>1, <1>3, <1>4, CacheStays, ThreadKeeps DEF DialInv

LEMMA TlsKeeps == ASSUME DialInv, Tls PROVE DialInv'
<1> DEFINE d == [cell[Me] EXCEPT !.event = IF cell[Me].timed THEN "connect" ELSE "timer",
                                 !.timed = ~@, !.wants = @ + 1, !.direct = job.addr]
<1>1. /\ Me \in Nodes \ Prelinks /\ Good(Me, cell[Me]) /\ cell[Me].event = "none"
      /\ cell[Me].status = "Connected" /\ cell[Me].up
      /\ Doing("tls") /\ UNCHANGED <<link, scene>>
  BY JobIs DEF Tls, Fits, Doing
<1>2. \/ Job("request", Me, job.addr, job.from) /\ UNCHANGED <<cell, cache>>
      \/ Put(Me, d) /\ job' = Off /\ UNCHANGED cache
      \/ Retry
  BY DEF Tls
<1>3. CASE Job("request", Me, job.addr, job.from) /\ UNCHANGED <<cell, cache>>
  <2>1. job'.op = "request" /\ job'.node = Me
    BY <1>3 DEF Job
  <2>2. Fits("request", cell[Me])
    BY <1>1 DEF Fits, Held
  <2>3. JobGood'
    BY <1>1, <1>3, <2>1, <2>2 DEF JobGood
  <2>4. CellsGood'
    BY <1>1, <1>3 DEF DialInv, CellsGood, Good, Typed, Awaits, Counted, Apart, Kept, continued
  <2>5. LinkGood' /\ CacheGood'
    BY <1>1, <1>3 DEF DialInv, LinkGood, CacheGood
  <2> QED
    BY <2>3, <2>4, <2>5 DEF DialInv
<1>4. CASE Put(Me, d) /\ job' = Off /\ UNCHANGED cache
  <2>1. /\ GoesOn(cell[Me], d)
        /\ d.status = "Connected" /\ d.up /\ d.event \in {"connect", "timer"}
    BY <1>1 DEF GoesOn, Good, Typed, Fields
  <2> HIDE DEF d
  <2>2. Good(Me, d)
    BY <1>1, <2>1, GoesOnIsGood DEF Awaits
  <2> QED
    BY <1>1, <1>4, <2>2, CacheStays, ThreadKeeps DEF DialInv
<1>5. CASE Retry
  <2>1. CacheGood'
    BY <1>5, CacheStays, ClearIsGood DEF Retry, DialInv
  <2>2. \E a : Job("dns", Me, a, "none")
    BY <1>5 DEF Retry
  <2> QED
    BY <1>1, <1>5, <2>1, <2>2, RetryKeeps DEF Retry
<1> QED
  BY <1>2, <1>3, <1>4, <1>5

LEMMA RequestKeeps == ASSUME DialInv, Request PROVE DialInv'
<1> DEFINE c == [cell[Me] EXCEPT !.status = "Handshaked", !.event = "read"]
           h == [cell[Me] EXCEPT !.status = "Handshaked"]
<1>1. /\ Me \in Nodes \ Prelinks /\ Good(Me, cell[Me]) /\ cell[Me].event = "none"
      /\ cell[Me].status = "Connected" /\ cell[Me].up
      /\ job' = Off /\ UNCHANGED <<link, scene>>
  BY JobIs DEF Request, Fits, Doing
<1>2. \/ Put(Me, c) /\ UNCHANGED cache
      \/ /\ \E retriable \in Retriable :
              LET f == Failed(h, retriable) IN
              Put(Me, Destroyed([Unplugged(f) EXCEPT !.event = f.event]))
         /\ Clear
  BY DEF Request
<1>3. GoesOn(cell[Me], c) /\ c.status = "Handshaked" /\ c.up /\ c.event = "read"
  BY <1>1 DEF GoesOn, Good, Typed, Fields, Statuses
<1>4. GoesOn(cell[Me], h) /\ h.event = "none"
  BY <1>1 DEF GoesOn, Good, Typed, Fields, Statuses
<1> HIDE DEF c, h
<1>5. CASE Put(Me, c) /\ UNCHANGED cache
  BY <1>1, <1>3, <1>5, GoesOnIsGood, CacheStays, ThreadKeeps DEF Awaits, DialInv
<1>6. CASE /\ \E retriable \in Retriable :
                LET f == Failed(h, retriable) IN
                Put(Me, Destroyed([Unplugged(f) EXCEPT !.event = f.event]))
           /\ Clear
  <2>1. PICK retriable \in Retriable :
          LET f == Failed(h, retriable) IN
          Put(Me, Destroyed([Unplugged(f) EXCEPT !.event = f.event]))
    BY <1>6
  <2> DEFINE f == Failed(h, retriable)
             d == [Unplugged(f) EXCEPT !.event = f.event]
  <2>2. Good(Me, h)
    BY <1>1, <1>4, GoesOnIsGood DEF Awaits
  <2>3. Good(Me, f) /\ f.event \in {"none", "reconnect"}
    BY <1>1, <1>4, <2>2, FailedIsGood
  <2>4. Put(Me, Destroyed(d))
    BY <2>1
  <2> HIDE DEF f
  <2>5. /\ DOMAIN d = Fields /\ d.event = f.event /\ d.up = FALSE
        /\ d.status = f.status /\ d.exit = f.exit /\ d.recon = f.recon /\ d.tries = f.tries
        /\ d.count = f.count /\ d.redials = f.redials
        /\ d.listed = f.listed /\ d.destroy = f.destroy /\ d.gone = f.gone
    BY <2>3 DEF Unplugged, Good, Typed, Fields
  <2> HIDE DEF d
  <2>6. Good(Me, d)
    BY <2>3, <2>5 DEF Good, Typed, Awaits, Counted, Apart, Kept
  <2>7. Good(Me, Destroyed(d))
    BY <1>1, <2>3, <2>5, <2>6, DestroyedIsGood
  <2> QED
    BY <1>1, <1>6, <2>4, <2>7, ClearIsGood, ThreadKeeps
<1> QED
  BY <1>2, <1>5, <1>6

LEMMA ReadCancelledKeeps ==
  ASSUME DialInv, NEW n \in Nodes, ReadCancelled(n) PROVE DialInv'
<1>1. /\ Good(n, cell[n]) /\ job = Off
      /\ Put(n, Unplugged(cell[n])) /\ UNCHANGED <<cache, job, link, scene>>
      /\ cell[n].event = "read"
  BY PendingIs DEF ReadCancelled
<1>2. /\ Good(n, Unplugged(cell[n])) /\ Unplugged(cell[n]).event = "none"
  BY <1>1, UnpluggedIsGood
<1>3. link.node = n => link = Off \/ link.op \notin {"connect", "tls"}
  BY <1>1 DEF DialInv, LinkGood
<1>4. CacheGood'
  BY <1>1, CacheStays DEF DialInv
<1> QED
  BY <1>1, <1>2, <1>3, <1>4, PutKeeps

LEMMA ReadKeeps == ASSUME DialInv, NEW n \in Nodes, Read(n) PROVE DialInv'
<1> DEFINE upgraded == [cell[n] EXCEPT !.status = "Starting", !.recon = "New"]
           ended == [cell[n] EXCEPT !.status = "Closed", !.tries = 0, !.count = 0,
                                    !.told = "end", !.up = long, !.event = "none"]
<1>1. /\ n \in Nodes \ Prelinks /\ Good(n, cell[n]) /\ job = Off /\ cell[n].event = "read"
      /\ UNCHANGED <<cache, job, link, scene>>
  BY PendingIs DEF Read
<1>2. \/ cell[n].status = "Handshaked" /\ Put(n, upgraded)
      \/ cell[n].status = "Starting" /\ Put(n, Begun(cell[n]))
      \/ cell[n].status = "Started" /\ Put(n, ended)
  BY DEF Read
<1>3. CacheGood'
  BY <1>1, CacheStays DEF DialInv
<1>4. CASE cell[n].status = "Handshaked" /\ Put(n, upgraded)
  <2>1. /\ GoesOn(cell[n], upgraded) /\ upgraded.status = "Starting"
        /\ upgraded.event = "read" /\ upgraded.up
    BY <1>1, <1>4 DEF GoesOn, Good, Typed, Awaits, Fields, Statuses, Reconnections
  <2> HIDE DEF upgraded
  <2> QED
    BY <1>1, <1>3, <1>4, <2>1, GoesOnIsGood, ThreadKeeps DEF Awaits
<1>5. CASE cell[n].status = "Starting" /\ Put(n, Begun(cell[n]))
  <2>1. /\ GoesOn(cell[n], Begun(cell[n])) /\ Begun(cell[n]).status = "Started"
        /\ Begun(cell[n]).event = "read" /\ Begun(cell[n]).up
    BY <1>1, <1>5 DEF Begun, GoesOn, Good, Typed, Awaits, Fields, Statuses, Reconnections
  <2> QED
    BY <1>1, <1>3, <1>5, <2>1, GoesOnIsGood, ThreadKeeps DEF Awaits
<1>6. CASE cell[n].status = "Started" /\ Put(n, ended)
  <2>1. /\ DOMAIN ended = Fields
        /\ ended.status = "Closed" /\ ended.event = "none" /\ ended.tries = 0
        /\ ended.count = 0 /\ ended.redials = cell[n].redials
        /\ ended.exit = cell[n].exit /\ ended.recon = cell[n].recon
        /\ ended.listed = cell[n].listed /\ ended.destroy = cell[n].destroy
        /\ ended.gone = cell[n].gone
    BY <1>1 DEF Good, Typed, Fields
  <2> HIDE DEF ended
  <2>2. Typed(ended) /\ Awaits(ended)
    BY <1>1, <2>1, DialingAssumption DEF Good, Typed, Awaits, Statuses
  <2>3. Counted(ended)
    BY <1>1, <2>1 DEF Good, Counted
  <2>4. Apart(n, ended) /\ Kept(n, ended)
    BY <1>1, <2>1 DEF Good, Apart, Kept
  <2> QED
    BY <1>1, <1>3, <1>6, <2>2, <2>3, <2>4, ThreadKeeps DEF Good
<1> QED
  BY <1>2, <1>4, <1>5, <1>6

LEMMA ReadFailsKeeps == ASSUME DialInv, NEW n \in Nodes, ReadFails(n) PROVE DialInv'
<1>1. /\ n \in Nodes \ Prelinks /\ Good(n, cell[n]) /\ job = Off
      /\ \E retriable \in Retriable : Put(n, Failed(Unplugged(cell[n]), retriable))
      /\ UNCHANGED <<job, link, scene>>
  BY PendingIs DEF ReadFails
<1>2. PICK retriable \in Retriable : Put(n, Failed(Unplugged(cell[n]), retriable))
  BY <1>1
<1>3. Good(n, Failed(Unplugged(cell[n]), retriable))
  BY <1>1, UnpluggedIsGood, FailedIsGood
<1>4. CacheGood'
  BY CacheStays, ClearIsGood DEF ReadFails, DialInv
<1> QED
  BY <1>1, <1>2, <1>3, <1>4, ThreadKeeps

(***************************************************************************)
(* The pool's thread.                                                      *)
(***************************************************************************)
\* The node that the pool dials for.
LEMMA LinkIs ==
  ASSUME DialInv, link # Off
  PROVE  /\ DOMAIN link = LinkFields
         /\ link.node \in Nodes \intersect Prelinks /\ Good(link.node, cell[link.node])
         /\ link.op \in {"connect", "tls"} => cell[link.node].event = "none"
         /\ link.op = "tls" => cell[link.node].up
         /\ job = Off \/ job.node # link.node
BY DEF DialInv, LinkGood, JobGood, CellsGood

\* What a step on a node of the pool has to show.
LEMMA PoolKeeps ==
  ASSUME DialInv, NEW n \in Nodes \intersect Prelinks, NEW c, Put(n, c),
         DOMAIN c = Fields, c.status \in Statuses,
         c.event \in {"none", "read"},
         c.event = "read" => c.status \in {"Handshaked", "Starting", "Started"} /\ c.up,
         c.exit = cell[n].exit, c.recon = cell[n].recon, c.tries = cell[n].tries,
         c.count = cell[n].count, c.redials = cell[n].redials,
         c.listed \in BOOLEAN, c.destroy = cell[n].destroy, c.gone = cell[n].gone,
         UNCHANGED <<job, scene>>, CacheGood',
         \/ link' = link /\ (link.node = n => link = Off \/ link.op \notin {"connect", "tls"})
         \/ /\ DOMAIN link' = LinkFields /\ link'.node = n
            /\ link'.op \in {"connect", "tls"} => c.event = "none"
            /\ link'.op = "tls" => c.up
  PROVE  DialInv'
<1>1. Good(n, cell[n])
  BY DEF DialInv, CellsGood
<1>2. Good(n, c)
  <2>1. cell[n].redials = 0 /\ cell[n].count \in 0..MaxReconnects
    BY <1>1 DEF Good, Typed, Apart
  <2>2. Typed(c) /\ Awaits(c)
    BY <1>1 DEF Good, Typed, Awaits
  <2>3. Counted(c) /\ Apart(n, c) /\ Kept(n, c)
    BY <2>1, DialingAssumption DEF Counted, Apart, Kept
  <2> QED
    BY <2>2, <2>3 DEF Good
<1>3. job = Off \/ job.node # n
  BY DEF DialInv, JobGood
<1> QED
  BY <1>2, <1>3, OffIs, PutKeeps

LEMMA LinkKeeps == ASSUME DialInv, NEW n \in Nodes, Link(n) PROVE DialInv'
<1> DEFINE c == [cell[n] EXCEPT !.status = "Connecting", !.listed = TRUE]
<1>1. /\ n \in Nodes \intersect Prelinks /\ Good(n, cell[n]) /\ Put(n, c)
      /\ cell[n].status = "Created" /\ UNCHANGED <<cache, job, scene>>
  BY DEF Link, DialInv, CellsGood
<1>2. DOMAIN link' = LinkFields /\ link'.node = n /\ link'.op = "connect"
  BY DEF Link, LinkFields
<1>3. /\ DOMAIN c = Fields
      /\ c.status = "Connecting" /\ c.listed = TRUE /\ c.event = cell[n].event
      /\ c.exit = cell[n].exit /\ c.recon = cell[n].recon /\ c.tries = cell[n].tries
      /\ c.count = cell[n].count /\ c.redials = cell[n].redials
      /\ c.destroy = cell[n].destroy /\ c.gone = cell[n].gone
  BY <1>1 DEF Good, Typed, Fields
<1> HIDE DEF c
<1>4. c.event = "none"
  BY <1>1, <1>3 DEF Good, Awaits, Apart
<1>5. CacheGood' /\ c.status \in Statuses
  BY <1>1, <1>3, CacheStays DEF DialInv, Statuses
<1> QED
  BY <1>1, <1>2, <1>3, <1>4, <1>5, PoolKeeps

\* A step of the pool that leaves the node alone.
LEMMA LinkOnlyKeeps ==
  ASSUME DialInv, UNCHANGED <<cell, job, scene>>, CacheGood',
         \/ link' = Off
         \/ link # Off /\ \E op \in {"failed", "linked", "wait"} : LinkEnds(op)
  PROVE  DialInv'
<1>1. CellsGood'
  BY DEF DialInv, CellsGood, Good, Typed, Awaits, Counted, Apart, Kept, continued
<1>2. JobGood'
  BY DEF DialInv, JobGood, Fits, Held
<1>3. LinkGood'
  BY LinkIs DEF LinkGood, LinkEnds, LinkFields
<1> QED
  BY <1>1, <1>2, <1>3 DEF DialInv

LEMMA LinkConnectKeeps == ASSUME DialInv, LinkConnect PROVE DialInv'
<1> DEFINE n == link.node
           c == [cell[n] EXCEPT !.status = "Connected", !.up = TRUE]
<1>1. /\ DOMAIN link = LinkFields /\ n \in Nodes \intersect Prelinks /\ Good(n, cell[n])
      /\ link # Off /\ cell[n].event = "none" /\ UNCHANGED <<job, scene>>
  BY LinkIs, OffIs DEF LinkConnect
<1>2. CacheGood'
  BY CacheStays, ClearIsGood DEF LinkConnect, DialInv
<1>3. CASE Put(n, c) /\ LinkEnds("tls")
  <2>1. DOMAIN link' = LinkFields /\ link'.node = n /\ link'.op = "tls"
    BY <1>1, <1>3 DEF LinkEnds, LinkFields
  <2>2. /\ DOMAIN c = Fields
        /\ c.status = "Connected" /\ c.up = TRUE /\ c.event = "none"
        /\ c.exit = cell[n].exit /\ c.recon = cell[n].recon /\ c.tries = cell[n].tries
        /\ c.count = cell[n].count /\ c.redials = cell[n].redials
        /\ c.listed \in BOOLEAN /\ c.destroy = cell[n].destroy /\ c.gone = cell[n].gone
    BY <1>1 DEF Good, Typed, Fields
  <2>3. c.status \in Statuses
    BY <2>2 DEF Statuses
  <2> HIDE DEF c, n
  <2> QED
    BY <1>1, <1>2, <1>3, <2>1, <2>2, <2>3, PoolKeeps
<1>4. CASE LinkEnds("failed") /\ UNCHANGED cell
  BY <1>1, <1>2, <1>4, LinkOnlyKeeps
<1> QED
  BY <1>3, <1>4 DEF LinkConnect

LEMMA LinkTlsKeeps == ASSUME DialInv, LinkTls PROVE DialInv'
<1> DEFINE n == link.node
           c == [cell[n] EXCEPT !.status = "Handshaked", !.event = "read"]
<1>1. /\ DOMAIN link = LinkFields /\ n \in Nodes \intersect Prelinks /\ Good(n, cell[n])
      /\ link # Off /\ cell[n].up /\ UNCHANGED <<cache, job, scene>>
  BY LinkIs, OffIs DEF LinkTls
<1>2. CacheGood'
  BY <1>1, CacheStays DEF DialInv
<1>3. CASE Put(n, c) /\ LinkEnds("wait")
  <2>1. DOMAIN link' = LinkFields /\ link'.node = n /\ link'.op = "wait"
    BY <1>1, <1>3 DEF LinkEnds, LinkFields
  <2>2. /\ DOMAIN c = Fields
        /\ c.status = "Handshaked" /\ c.up = cell[n].up /\ c.event = "read"
        /\ c.exit = cell[n].exit /\ c.recon = cell[n].recon /\ c.tries = cell[n].tries
        /\ c.count = cell[n].count /\ c.redials = cell[n].redials
        /\ c.listed \in BOOLEAN /\ c.destroy = cell[n].destroy /\ c.gone = cell[n].gone
    BY <1>1 DEF Good, Typed, Fields
  <2>3. c.status \in Statuses
    BY <2>2 DEF Statuses
  <2> HIDE DEF c, n
  <2> QED
    BY <1>1, <1>2, <1>3, <2>1, <2>2, <2>3, PoolKeeps
<1>4. CASE LinkEnds("failed") /\ UNCHANGED cell
  BY <1>1, <1>2, <1>4, LinkOnlyKeeps
<1> QED
  BY <1>3, <1>4 DEF LinkTls

LEMMA LinkAnswerKeeps == ASSUME DialInv, NEW n \in Nodes, LinkAnswer(n) PROVE DialInv'
<1> DEFINE c == [cell[n] EXCEPT !.status = "Starting"]
<1>1. /\ n \in Nodes \intersect Prelinks /\ Good(n, cell[n]) /\ Put(n, c)
      /\ cell[n].event = "read" /\ UNCHANGED <<cache, job, link, scene>>
  BY PendingIs DEF LinkAnswer
<1>2. /\ DOMAIN c = Fields
      /\ c.status = "Starting" /\ c.up = cell[n].up /\ c.event = "read"
      /\ c.exit = cell[n].exit /\ c.recon = cell[n].recon /\ c.tries = cell[n].tries
      /\ c.count = cell[n].count /\ c.redials = cell[n].redials
      /\ c.listed \in BOOLEAN /\ c.destroy = cell[n].destroy /\ c.gone = cell[n].gone
  BY <1>1 DEF Good, Typed, Fields
<1> HIDE DEF c
<1>3. cell[n].up /\ CacheGood' /\ c.status \in Statuses
  BY <1>1, <1>2, CacheStays DEF DialInv, Good, Awaits, Statuses
<1>4. link.node = n => link = Off \/ link.op \notin {"connect", "tls"}
  BY <1>1 DEF DialInv, LinkGood
<1> QED
  BY <1>1, <1>2, <1>3, <1>4, PoolKeeps

LEMMA LinkWaitKeeps == ASSUME DialInv, LinkWait PROVE DialInv'
<1> DEFINE n == link.node
           c == [cell[n] EXCEPT !.event = "none"]
<1>1. /\ DOMAIN link = LinkFields /\ n \in Nodes \intersect Prelinks /\ Good(n, cell[n])
      /\ Put(n, c) /\ LinkEnds("linked") /\ UNCHANGED <<cache, job, scene>>
  BY LinkIs, OffIs DEF LinkWait
<1>2. DOMAIN link' = LinkFields /\ link'.node = n /\ link'.op = "linked"
  BY <1>1 DEF LinkEnds, LinkFields
<1>3. /\ DOMAIN c = Fields
      /\ c.status = cell[n].status /\ c.event = "none"
      /\ c.exit = cell[n].exit /\ c.recon = cell[n].recon /\ c.tries = cell[n].tries
      /\ c.count = cell[n].count /\ c.redials = cell[n].redials
      /\ c.listed \in BOOLEAN /\ c.destroy = cell[n].destroy /\ c.gone = cell[n].gone
  BY <1>1 DEF Good, Typed, Fields
<1>4. CacheGood' /\ c.status \in Statuses
  BY <1>1, <1>3, CacheStays DEF DialInv, Good, Typed
<1> HIDE DEF c, n
<1> QED
  BY <1>1, <1>2, <1>3, <1>4, PoolKeeps

LEMMA LinkDoneKeeps == ASSUME DialInv, LinkDone PROVE DialInv'
BY CacheStays, LinkOnlyKeeps DEF LinkDone, DialInv

LEMMA RestKeeps ==
  ASSUME DialInv, UNCHANGED <<cell, cache, job, link, scene>>
  PROVE  DialInv'
<1>1. CellsGood'
  BY DEF DialInv, CellsGood, Good, Typed, Awaits, Counted, Apart, Kept, continued
<1>2. JobGood' /\ LinkGood' /\ CacheGood'
  BY DEF DialInv, JobGood, LinkGood, CacheGood, Fits, Held
<1> QED
  BY <1>1, <1>2 DEF DialInv

(***************************************************************************)
(* The invariant, and what follows from it.                                *)
(***************************************************************************)
LEMMA InitHolds == Init => DialInv
<1> SUFFICES ASSUME Init PROVE DialInv
  OBVIOUS
<1>1. /\ DOMAIN NewCell = Fields
      /\ NewCell.status = "Created" /\ NewCell.exit = "Invalid" /\ NewCell.recon = "No"
      /\ NewCell.tries = 0 /\ NewCell.count = 0 /\ NewCell.redials = 0
      /\ NewCell.event = "none"
      /\ NewCell.listed = FALSE /\ NewCell.destroy = FALSE /\ NewCell.gone = FALSE
  BY DEF NewCell, Fields
<1>2. ASSUME NEW n \in Nodes
      PROVE  Good(n, NewCell)
  <2>1. 0 \in 0..MaxTries /\ 0 \in 0..MaxReconnects
    BY DialingAssumption
  <2>2. Typed(NewCell) /\ Awaits(NewCell)
    BY <1>1, <2>1 DEF Typed, Awaits, Statuses, Exits, Reconnections
  <2>3. Counted(NewCell) /\ Apart(n, NewCell) /\ Kept(n, NewCell)
    BY <1>1, <2>1 DEF Counted, Apart, Kept
  <2> QED
    BY <2>2, <2>3 DEF Good
<1>3. cell = [n \in Nodes |-> NewCell] /\ job = Off /\ link = Off
      /\ cache \in {Empty} \union [ips : {{a} : a \in Addresses}, same : {Threshold}]
  BY DEF Init
<1>4. CellsGood
  BY <1>2, <1>3 DEF CellsGood
<1>5. CacheGood
  BY <1>3, DialingAssumption DEF CacheGood, Empty
<1> QED
  BY <1>3, <1>4, <1>5 DEF DialInv, JobGood, LinkGood

LEMMA NextKeeps == DialInv /\ [Next]_vars => DialInv'
<1> SUFFICES ASSUME DialInv, [Next]_vars PROVE DialInv'
  OBVIOUS
<1>1. CASE Dns
  BY <1>1, DnsCancelledKeeps, DnsReuseKeeps, DnsGiveUpKeeps, DnsAttemptKeeps DEF Dns
<1>2. CASE Connect \/ StepCancelled \/ Tls \/ Request
  BY <1>2, ConnectKeeps, StepCancelledKeeps, TlsKeeps, RequestKeeps
<1>3. ASSUME NEW n \in Nodes,
             \/ Launch(n) \/ DnsAnswer(n) \/ ConnectEvent(n) \/ TimerEvent(n)
             \/ ReadCancelled(n)
      PROVE  DialInv'
  BY <1>3, LaunchKeeps, DnsAnswerKeeps, ConnectEventKeeps, TimerEventKeeps,
     ReadCancelledKeeps
<1>4. ASSUME NEW n \in Nodes,
             \/ Start(n) \/ Leave(n, "Stopping") \/ Leave(n, "Cancel")
             \/ Read(n) \/ ReadFails(n) \/ Link(n) \/ LinkAnswer(n)
      PROVE  DialInv'
  BY <1>4, StartKeeps, LeaveKeeps, ReadKeeps, ReadFailsKeeps, LinkKeeps, LinkAnswerKeeps
<1>5. CASE LinkConnect \/ LinkTls \/ LinkWait \/ LinkDone
  BY <1>5, LinkConnectKeeps, LinkTlsKeeps, LinkWaitKeeps, LinkDoneKeeps
<1>6. ASSUME NEW a \in Addresses, Die(a)
      PROVE  DialInv'
  BY <1>6, RestKeeps DEF Die
<1>7. CASE UNCHANGED vars
  BY <1>7, RestKeeps DEF vars
<1> QED
  BY <1>1, <1>2, <1>3, <1>4, <1>5, <1>6, <1>7 DEF Next, Thread

LEMMA DialInvHolds == Spec => []DialInv
BY InitHolds, NextKeeps, PTL DEF Spec

\* Every field has its type, and every callback of a pending event finds its node in
\* a state it knows: no start, stop, cancel, timer or step of the pool gets in between.
THEOREM EventsFindTheirState == Spec => []DialingTypeOK
<1>1. DialInv => DialingTypeOK
  <2> SUFFICES ASSUME DialInv PROVE DialingTypeOK
    OBVIOUS
  <2>1. ASSUME NEW n \in Nodes
        PROVE  Typed(cell[n]) /\ Awaits(cell[n])
    BY DEF DialInv, CellsGood, Good
  <2>2. job # Off => job.op \in {"dns", "connect", "tls", "request"} /\ job.node \in Nodes
    BY DEF DialInv, JobGood, Fits
  <2>3. cache.ips \subseteq Addresses /\ cache.same \in 0..Threshold
    BY DEF DialInv, CacheGood
  <2> QED
    BY <2>1, <2>2, <2>3 DEF DialingTypeOK, Typed, Awaits, Exits
<1> QED
  BY <1>1, DialInvHolds, PTL

\* A session reconnects at most max_try_count times, whatever the network, the server
\* and the user do in between.
THEOREM ReconnectionsEnd == Spec => []ReconnectsAreBounded
<1>1. DialInv => ReconnectsAreBounded
  BY DialingAssumption DEF DialInv, CellsGood, Good, Counted, ReconnectsAreBounded
<1> QED
  BY <1>1, DialInvHolds, PTL

\* Without reconnection destroyConnectNode never comes a second time in a session, so
\* that the event thread leaves the request to its user.
THEOREM EventThreadDeletesNothing == Spec => []UserHasRequest
<1>1. DialInv => UserHasRequest
  BY DEF DialInv, CellsGood, Good, Kept, UserHasRequest
<1> QED
  BY <1>1, DialInvHolds, PTL

(***************************************************************************)
(* A dead address is forgotten. On a calm network a node fails only at an  *)
(* address that is dead. Once the attempts of some node are used up, no    *)
(* dead address is in the cache, and what is launched from then on takes   *)
(* its address from there or from DNS: neither the nodes that still dial   *)
(* the dead one nor the pool bring it back.                                *)
(***************************************************************************)
\* beaten: what was launched after attempts were used up has not used up its own.
Fine(c, x) ==
  /\ ~c.beaten
  /\ c.status \in {"Created", "Invoking", "Closed"} => c.tries = 0
  /\ c.late => x
  /\ c.late /\ c.event \in {"connect", "timer"} => c.direct \notin dead

\* The job j of a node c that is not cancelled: a second attempt comes of a dead
\* address, and what was launched late dials no dead address, and so just once.
Sure(j, c) ==
  c.exit # "Cancel" =>
    /\ j.op = "dns" /\ c.tries > 0 => dead # {}
    /\ c.late /\ j.op = "dns" => c.tries = 0 /\ j.addr = None
    /\ c.late /\ j.op # "dns" => j.addr \notin dead

CacheForgets == exhausted => dead # {} /\ cache.ips \intersect dead = {}

Forgets ==
  /\ \A n \in Nodes : Fine(cell[n], exhausted)
  /\ job # Off => Sure(job, cell[job.node])
  /\ CacheForgets

\* At most one address dies.
OneDead == \A a, b \in dead : a = b

\* What a step on one node has to show.
LEMMA PutForgets ==
  ASSUME DialInv, Forgets, NEW n \in Nodes, NEW c, Put(n, c), Fine(c, exhausted'),
         dead' = dead, exhausted => exhausted', CacheForgets',
         \/ job' = Off
         \/ job' = job /\ (job # Off /\ job.node = n => Sure(job, c))
         \/ job'.node = n /\ Sure(job', c)
  PROVE  Forgets'
<1>1. cell'[n] = c /\ \A m \in Nodes : m # n => cell'[m] = cell[m]
  BY DEF Put, DialInv, CellsGood
<1>2. ASSUME NEW m \in Nodes
      PROVE  Fine(cell[m], exhausted)'
  BY <1>1 DEF Forgets, Fine
<1>3. (job # Off => Sure(job, cell[job.node]))'
  <2>1. CASE job' = Off
    BY <2>1 DEF Off
  <2>2. CASE job' = job /\ (job # Off /\ job.node = n => Sure(job, c))
    <3>1. job # Off => job.node \in Nodes
      BY DEF DialInv, JobGood
    <3> QED
      BY <1>1, <2>2, <3>1 DEF Forgets, Sure, Off
  <2>3. CASE job'.node = n /\ Sure(job', c)
    BY <1>1, <2>3 DEF Sure
  <2> QED
    BY <2>1, <2>2, <2>3
<1> QED
  BY <1>2, <1>3 DEF Forgets

\* A cache that is cleared, kept, or learns an address that lives forgets the dead.
LEMMA CacheForgetsStill ==
  ASSUME Forgets, dead' = dead, exhausted' = exhausted,
         \/ Clear
         \/ UNCHANGED cache
         \/ \E a : a \notin dead /\ Learn(a)
  PROVE  CacheForgets'
<1>1. CASE Clear
  BY <1>1 DEF Forgets, CacheForgets, Clear, Empty
<1>2. CASE UNCHANGED cache
  BY <1>2 DEF Forgets, CacheForgets
<1>3. ASSUME NEW a, a \notin dead, Learn(a)
      PROVE  CacheForgets'
  <2>1. cache'.ips \subseteq cache.ips \union {a}
    BY <1>3 DEF Learn
  <2> QED
    BY <1>3, <2>1 DEF Forgets, CacheForgets
<1> QED
  BY <1>1, <1>2, <1>3

\* What stays of a node when an event or a job goes on.
Same(c, d) == d.beaten = c.beaten /\ d.late = c.late /\ d.tries = c.tries /\ d.exit = c.exit

LEMMA FailedIsFine ==
  ASSUME NEW n \in Nodes, NEW c, NEW x, Good(n, c), Fine(c, x), c.event = "none",
         NEW retriable \in Retriable
  PROVE  Fine(Failed(c, retriable), x)
<1> DEFINE d == Failed(c, retriable)
<1>1. CASE c.exit = "Cancel" \/ c.status = "Closed"
  BY <1>1 DEF Failed
<1>2. CASE ~(c.exit = "Cancel" \/ c.status = "Closed")
  <2>1. /\ d.tries = 0 /\ d.beaten = c.beaten /\ d.late = c.late
        /\ d.event \in {"none", "reconnect"}
    BY <1>2 DEF Failed, Good, Typed, Fields
  <2> HIDE DEF d
  <2> QED
    BY <2>1 DEF Fine, d
<1> QED
  BY <1>1, <1>2

LEMMA DestroyedIsFine ==
  ASSUME NEW n \in Nodes, NEW c, NEW x, Good(n, c), Fine(c, x)
  PROVE  Fine(Destroyed(c), x)
<1>1. LET d == Destroyed(c) IN
      /\ Same(c, d) /\ d.status = c.status /\ d.event = c.event /\ d.direct = c.direct
  BY DEF Destroyed, Same, Good, Typed, Fields
<1> QED
  BY <1>1 DEF Fine, Same

LEMMA UnpluggedIsFine ==
  ASSUME NEW n \in Nodes, NEW c, NEW x, Good(n, c), Fine(c, x)
  PROVE  Fine(Unplugged(c), x)
<1>1. LET d == Unplugged(c) IN
      Same(c, d) /\ d.status = c.status /\ d.event = "none"
  BY DEF Unplugged, Same, Good, Typed, Fields
<1> QED
  BY <1>1 DEF Fine, Same

LEMMA StartForgets ==
  ASSUME DialInv, Forgets, NEW n \in Nodes, Start(n) PROVE Forgets'
<1> DEFINE c == [cell[n] EXCEPT !.status = "Invoking", !.exit = "Invalid", !.destroy = FALSE,
                                !.told = "nothing", !.rounds = @ + 1, !.event = "launch",
                                !.redials = 0]
<1>1. /\ Good(n, cell[n]) /\ Fine(cell[n], exhausted)
      /\ cell[n].status \in {"Created", "Closed"}
      /\ Put(n, c) /\ UNCHANGED <<cache, job, dead, exhausted>>
  BY DEF DialInv, CellsGood, Forgets, Start
<1>2. /\ c.beaten = cell[n].beaten /\ c.late = cell[n].late /\ c.tries = cell[n].tries
      /\ c.event = "launch"
  BY <1>1 DEF Good, Typed, Fields
<1> HIDE DEF c
<1>3. Fine(c, exhausted')
  BY <1>1, <1>2 DEF Fine
<1>4. job = Off \/ job.node # n
  BY <1>1 DEF DialInv, JobGood, Fits, Held
<1> QED
  BY <1>1, <1>3, <1>4, CacheForgetsStill, PutForgets

LEMMA LeaveForgets ==
  ASSUME DialInv, Forgets, NEW n \in Nodes, NEW exit \in {"Stopping", "Cancel"},
         Leave(n, exit)
  PROVE  Forgets'
<1> DEFINE c == [cell[n] EXCEPT !.exit = exit]
<1>1. /\ Good(n, cell[n]) /\ Fine(cell[n], exhausted)
      /\ exit = "Stopping" => cell[n].status = "Invoking"
      /\ Put(n, c) /\ UNCHANGED <<cache, job, dead, exhausted>>
  BY DEF DialInv, CellsGood, Forgets, Leave
<1>2. /\ c.beaten = cell[n].beaten /\ c.late = cell[n].late /\ c.tries = cell[n].tries
      /\ c.event = cell[n].event /\ c.status = cell[n].status
      /\ c.direct = cell[n].direct /\ c.exit = exit
  BY <1>1 DEF Good, Typed, Fields
<1> HIDE DEF c
<1>3. Fine(c, exhausted')
  BY <1>1, <1>2 DEF Fine
<1>4. job # Off /\ job.node = n => Sure(job, c)
  <2>1. job # Off /\ job.node = n => exit = "Cancel"
    BY <1>1 DEF DialInv, JobGood, Fits, Held
  <2> QED
    BY <1>2, <2>1 DEF Sure
<1> QED
  BY <1>1, <1>3, <1>4, CacheForgetsStill, PutForgets

LEMMA LaunchForgets ==
  ASSUME DialInv, Forgets, NEW n \in Nodes, Launch(n) PROVE Forgets'
<1> DEFINE c == [cell[n] EXCEPT !.event = "none", !.status = "Invoked"]
           d == [c EXCEPT !.listed = TRUE, !.late = exhausted,
                          !.redials = IF cell[n].event = "reconnect" THEN @ + 1 ELSE @]
<1>1. /\ Good(n, cell[n]) /\ job = Off /\ Fine(cell[n], exhausted)
      /\ cell[n].event \in {"launch", "reconnect"}
      /\ UNCHANGED <<cache, dead, exhausted>>
  BY PendingIs DEF Launch, Forgets
<1>2. cell[n].tries = 0
  BY <1>1 DEF Good, Awaits, Fine
<1>3. /\ DOMAIN c = Fields
      /\ c.beaten = cell[n].beaten /\ c.late = cell[n].late /\ c.tries = 0
      /\ c.event = "none" /\ c.status = "Invoked"
  BY <1>1, <1>2 DEF Good, Typed, Fields
<1>4. \/ Put(n, c) /\ UNCHANGED job
      \/ Put(n, d) /\ Job("dns", n, None, "none")
  BY DEF Launch
<1> HIDE DEF c
<1>5. d.beaten = c.beaten /\ d.late = exhausted /\ d.tries = 0 /\ d.event = "none"
  BY <1>3 DEF Fields
<1> HIDE DEF d
<1>6. Fine(c, exhausted') /\ Fine(d, exhausted') /\ CacheForgets'
  BY <1>1, <1>3, <1>5, CacheForgetsStill DEF Fine
<1>7. CASE Put(n, c) /\ UNCHANGED job
  BY <1>1, <1>6, <1>7, PutForgets
<1>8. CASE Put(n, d) /\ Job("dns", n, None, "none")
  <2>1. job'.node = n /\ job'.op = "dns" /\ job'.addr = None
    BY <1>8 DEF Job
  <2>2. Sure(job', d)
    BY <1>5, <2>1 DEF Sure
  <2> QED
    BY <1>1, <1>6, <1>8, <2>1, <2>2, PutForgets
<1> QED
  BY <1>4, <1>7, <1>8

\* The job of a node that is not cancelled.
LEMMA JobIsSure ==
  ASSUME DialInv, Forgets,
         Doing("dns") \/ Doing("connect") \/ Doing("tls") \/ Doing("request")
  PROVE  /\ Me \in Nodes /\ Good(Me, cell[Me]) /\ Fine(cell[Me], exhausted)
         /\ cell[Me].event = "none" /\ Sure(job, cell[Me])
BY JobIs, OffIs DEF Forgets, Me, Doing

LEMMA DnsCancelledForgets == ASSUME DialInv, Forgets, DnsCancelled PROVE Forgets'
<1>1. /\ Me \in Nodes /\ Good(Me, cell[Me]) /\ Fine(cell[Me], exhausted)
      /\ Put(Me, Destroyed(cell[Me])) /\ job' = Off /\ UNCHANGED <<cache, dead, exhausted>>
  BY JobIsSure DEF DnsCancelled
<1>2. Fine(Destroyed(cell[Me]), exhausted')
  BY <1>1, DestroyedIsFine
<1> QED
  BY <1>1, <1>2, CacheForgetsStill, PutForgets

LEMMA DnsReuseForgets == ASSUME DialInv, Forgets, DnsReuse PROVE Forgets'
<1> DEFINE d == [cell[Me] EXCEPT !.status = "Starting", !.recon = "New", !.event = "read"]
<1>1. /\ Me \in Nodes /\ Good(Me, cell[Me]) /\ Fine(cell[Me], exhausted)
      /\ Put(Me, d) /\ job' = Off /\ UNCHANGED <<cache, dead, exhausted>>
  BY JobIsSure DEF DnsReuse
<1>2. Same(cell[Me], d) /\ d.status = "Starting" /\ d.event = "read"
  BY <1>1 DEF Same, Good, Typed, Fields
<1> HIDE DEF d
<1>3. Fine(d, exhausted')
  BY <1>1, <1>2 DEF Fine, Same
<1> QED
  BY <1>1, <1>3, CacheForgetsStill, PutForgets

\* Attempts that are used up: of a node that was launched before, and at a dead address.
LEMMA DnsGiveUpForgets == ASSUME DialInv, Forgets, DnsGiveUp PROVE Forgets'
<1> DEFINE c == [cell[Me] EXCEPT !.tries = 0, !.beaten = cell[Me].late]
<1>1. /\ Me \in Nodes /\ Me \notin Prelinks /\ Good(Me, cell[Me])
      /\ Fine(cell[Me], exhausted) /\ Sure(job, cell[Me]) /\ job.op = "dns"
      /\ cell[Me].exit # "Cancel" /\ cell[Me].tries = MaxTries
      /\ cell[Me].status # "Closed" /\ cell[Me].event = "none"
      /\ Put(Me, Destroyed(Failed(c, TRUE))) /\ Clear /\ job' = Off
      /\ exhausted' = TRUE /\ dead' = dead
  BY JobIs, JobIsSure DEF DnsGiveUp, Doing, Cancelled
<1>2. MaxTries > 0
  BY DialingAssumption
<1>3. dead # {} /\ ~cell[Me].late
  BY <1>1, <1>2 DEF Sure
<1>4. /\ GoesOn(cell[Me], c) /\ c.tries = 0 /\ c.beaten = cell[Me].late
      /\ c.late = cell[Me].late /\ c.event = "none"
  BY <1>1, DialingAssumption DEF GoesOn, Good, Typed, Fields
<1> HIDE DEF c
<1>5. Good(Me, c) /\ Fine(c, TRUE)
  BY <1>1, <1>3, <1>4, GoesOnIsGood DEF Awaits, Fine
<1>6. Good(Me, Failed(c, TRUE)) /\ Fine(Failed(c, TRUE), TRUE)
  BY <1>1, <1>4, <1>5, FailedIsGood, FailedIsFine DEF Retriable
<1>7. Fine(Destroyed(Failed(c, TRUE)), exhausted')
  BY <1>1, <1>6, DestroyedIsFine
<1>8. CacheForgets'
  BY <1>1, <1>3 DEF CacheForgets, Clear, Empty
<1> QED
  BY <1>1, <1>7, <1>8, PutForgets

\* An attempt that was launched late dials what is in the cache, or asks.
LEMMA DnsAttemptForgets == ASSUME DialInv, Forgets, DnsAttempt PROVE Forgets'
<1> DEFINE c == [cell[Me] EXCEPT !.tries = @ + 1, !.status = "Connecting", !.wants = 0]
           d == [c EXCEPT !.event = "dns"]
<1>1. /\ Me \in Nodes /\ Good(Me, cell[Me]) /\ cell[Me].event = "none"
      /\ Fine(cell[Me], exhausted) /\ Sure(job, cell[Me]) /\ job.op = "dns"
      /\ cell[Me].exit # "Cancel"
      /\ UNCHANGED <<cache, dead, exhausted>>
  BY JobIsSure DEF DnsAttempt, Doing, Cancelled
<1>2. \/ Put(Me, c) /\ job.addr # None /\ Job("connect", Me, job.addr, "direct")
      \/ Put(Me, c) /\ \E a \in cache.ips : Job("connect", Me, a, "direct")
      \/ Put(Me, d) /\ job' = Off
  BY DEF DnsAttempt, Lookup
<1>3. /\ DOMAIN c = Fields
      /\ c.beaten = cell[Me].beaten /\ c.late = cell[Me].late
      /\ c.event = "none" /\ c.status = "Connecting"
  BY <1>1 DEF Good, Typed, Fields
<1> HIDE DEF c
<1>4. d.beaten = c.beaten /\ d.late = c.late /\ d.event = "dns" /\ d.status = "Connecting"
  BY <1>3 DEF Fields
<1> HIDE DEF d
<1>5. Fine(c, exhausted') /\ Fine(d, exhausted') /\ CacheForgets'
  BY <1>1, <1>3, <1>4, CacheForgetsStill DEF Fine
<1>6. c.late => job.addr = None /\ cache.ips \intersect dead = {}
  BY <1>1, <1>3 DEF Sure, Fine, Forgets, CacheForgets
<1>7. ASSUME NEW a, Put(Me, c), Job("connect", Me, a, "direct"), c.late => a \notin dead
      PROVE  Forgets'
  <2>1. job'.op = "connect" /\ job'.node = Me /\ job'.addr = a
    BY <1>7 DEF Job
  <2>2. Sure(job', c)
    BY <1>7, <2>1 DEF Sure
  <2> QED
    BY <1>1, <1>5, <1>7, <2>1, <2>2, PutForgets
<1>8. CASE Put(Me, d) /\ job' = Off
  BY <1>1, <1>5, <1>8, PutForgets
<1> QED
  BY <1>2, <1>6, <1>7, <1>8

LEMMA DnsAnswerForgets ==
  ASSUME DialInv, Forgets, steady, NEW n \in Nodes, DnsAnswer(n) PROVE Forgets'
<1> DEFINE c == [cell[n] EXCEPT !.event = "none"]
<1>1. /\ Good(n, cell[n]) /\ cell[n].event = "dns" /\ Fine(cell[n], exhausted)
      /\ Put(n, c) /\ UNCHANGED <<dead, exhausted>>
  BY PendingIs DEF DnsAnswer, Forgets
<1>2. PICK a : a \notin dead /\ Learn(a) /\ Job("connect", n, a, "dns")
  BY DEF DnsAnswer
<1>3. Same(cell[n], c) /\ c.event = "none" /\ c.status = "Connecting"
  BY <1>1 DEF Same, Good, Typed, Awaits, Fields
<1> HIDE DEF c
<1>4. job'.op = "connect" /\ job'.node = n /\ job'.addr = a
  BY <1>2 DEF Job
<1>5. Fine(c, exhausted') /\ Sure(job', c) /\ CacheForgets'
  BY <1>1, <1>2, <1>3, <1>4, CacheForgetsStill DEF Fine, Sure, Same
<1> QED
  BY <1>1, <1>4, <1>5, PutForgets

\* An attempt that failed: of a node that is cancelled, or at a dead address and so
\* not of one that was launched late.
LEMMA RetryForgets ==
  ASSUME DialInv, Forgets, Doing("connect") \/ Doing("tls"),
         cell[Me].exit = "Cancel" \/ job.addr \in dead,
         NEW a, Put(Me, [cell[Me] EXCEPT !.up = FALSE, !.status = "Connecting"]),
         Job("dns", Me, a, "none"), Clear \/ UNCHANGED cache, UNCHANGED <<dead, exhausted>>
  PROVE  Forgets'
<1> DEFINE c == [cell[Me] EXCEPT !.up = FALSE, !.status = "Connecting"]
<1>1. /\ Me \in Nodes /\ Good(Me, cell[Me]) /\ Fine(cell[Me], exhausted)
      /\ cell[Me].event = "none" /\ Sure(job, cell[Me]) /\ Put(Me, c)
  BY JobIsSure
<1>2. Same(cell[Me], c) /\ c.status = "Connecting" /\ c.event = "none"
  BY <1>1 DEF Same, Good, Typed, Fields
<1> HIDE DEF c
<1>3. job'.node = Me /\ job'.op = "dns"
  BY DEF Job
<1>4. c.exit # "Cancel" => dead # {} /\ ~c.late
  BY <1>1, <1>2 DEF Sure, Same, Doing
<1>5. Fine(c, exhausted') /\ Sure(job', c) /\ CacheForgets'
  BY <1>1, <1>2, <1>3, <1>4, CacheForgetsStill DEF Fine, Sure, Same
<1> QED
  BY <1>1, <1>3, <1>5, PutForgets

LEMMA StepCancelledForgets == ASSUME DialInv, Forgets, StepCancelled PROVE Forgets'
<1>1. /\ cell[Me].exit = "Cancel" /\ UNCHANGED <<dead, exhausted>>
      /\ Clear \/ UNCHANGED cache
  BY DEF StepCancelled, Retry, Cancelled
<1>2. \E a : Job("dns", Me, a, "none")
  BY DEF StepCancelled, Retry
<1> QED
  BY <1>1, <1>2, RetryForgets DEF StepCancelled, Retry

LEMMA ConnectForgets == ASSUME DialInv, Forgets, steady, Connect PROVE Forgets'
<1> DEFINE c == [cell[Me] EXCEPT !.status = "Connected", !.up = TRUE]
           d == [cell[Me] EXCEPT !.event = "connect", !.direct = job.addr]
<1>1. /\ Me \in Nodes /\ Good(Me, cell[Me]) /\ Fine(cell[Me], exhausted)
      /\ cell[Me].event = "none" /\ Sure(job, cell[Me]) /\ cell[Me].exit # "Cancel"
      /\ job.op = "connect" /\ cell[Me].status = "Connecting"
      /\ Clear \/ UNCHANGED cache
      /\ UNCHANGED <<dead, exhausted>>
  BY JobIsSure, JobIs DEF Connect, Cancelled, Doing, Fits
<1>2. \/ Put(Me, c) /\ Job("tls", Me, job.addr, job.from)
      \/ Put(Me, d) /\ job' = Off
      \/ /\ job.addr \in dead
         /\ Put(Me, [cell[Me] EXCEPT !.up = FALSE, !.status = "Connecting"])
         /\ \E a : Job("dns", Me, a, "none")
  BY DEF Connect, MayFail
<1>3. Same(cell[Me], c) /\ c.status = "Connected" /\ c.event = "none"
  BY <1>1 DEF Same, Good, Typed, Fields
<1>4. /\ Same(cell[Me], d) /\ d.status = "Connecting" /\ d.event = "connect"
      /\ d.direct = job.addr
  BY <1>1 DEF Same, Good, Typed, Fields
<1> HIDE DEF c, d
<1>5. cell[Me].late => job.addr \notin dead
  BY <1>1 DEF Sure
<1>6. Fine(c, exhausted') /\ Fine(d, exhausted') /\ CacheForgets'
  BY <1>1, <1>3, <1>4, <1>5, CacheForgetsStill DEF Fine, Same
<1>7. CASE Put(Me, c) /\ Job("tls", Me, job.addr, job.from)
  <2>1. job'.op = "tls" /\ job'.node = Me /\ job'.addr = job.addr
    BY <1>7 DEF Job
  <2>2. Sure(job', c)
    BY <1>3, <1>5, <2>1 DEF Sure, Same
  <2> QED
    BY <1>1, <1>6, <1>7, <2>1, <2>2, PutForgets
<1>8. CASE Put(Me, d) /\ job' = Off
  BY <1>1, <1>6, <1>8, PutForgets
<1>9. CASE /\ job.addr \in dead
           /\ Put(Me, [cell[Me] EXCEPT !.up = FALSE, !.status = "Connecting"])
           /\ \E a : Job("dns", Me, a, "none")
  <2>1. Doing("connect")
    BY DEF Connect
  <2> QED
    BY <1>1, <1>9, <2>1, RetryForgets
<1> QED
  BY <1>2, <1>7, <1>8, <1>9

LEMMA ConnectEventForgets ==
  ASSUME DialInv, Forgets, steady, NEW n \in Nodes, ConnectEvent(n) PROVE Forgets'
<1> DEFINE a == cell[n].direct
           c == [cell[n] EXCEPT !.event = "none"]
           down == [c EXCEPT !.up = FALSE, !.status = "Connecting"]
           done == [c EXCEPT !.status = "Connected", !.up = TRUE]
<1>1. /\ Good(n, cell[n]) /\ Fine(cell[n], exhausted) /\ cell[n].event = "connect"
      /\ Clear \/ UNCHANGED cache
      /\ UNCHANGED <<dead, exhausted>>
  BY PendingIs DEF ConnectEvent, Forgets
<1>2. \/ a \in dead /\ Put(n, down) /\ Job("dns", n, None, "none")
      \/ Put(n, c) /\ Job("connect", n, a, "event")
      \/ Put(n, done) /\ Job("tls", n, a, "event")
  BY DEF ConnectEvent, MayFail
<1>3. /\ DOMAIN c = Fields /\ Same(cell[n], c) /\ c.event = "none"
      /\ c.status \in {"Connecting", "Connected"}
  BY <1>1 DEF Same, Good, Typed, Awaits, Fields
<1> HIDE DEF c
<1>4. Same(c, down) /\ down.status = "Connecting" /\ down.event = "none"
  BY <1>3 DEF Same, Fields
<1>5. Same(c, done) /\ done.status = "Connected" /\ done.event = "none"
  BY <1>3 DEF Same, Fields
<1>6. c.late => a \notin dead
  BY <1>1, <1>3 DEF Fine, Same
<1> HIDE DEF down, done, a
<1>7. /\ Fine(c, exhausted') /\ Fine(down, exhausted') /\ Fine(done, exhausted')
      /\ CacheForgets'
  BY <1>1, <1>3, <1>4, <1>5, CacheForgetsStill DEF Fine, Same
<1>8. CASE a \in dead /\ Put(n, down) /\ Job("dns", n, None, "none")
  <2>1. job'.node = n /\ job'.op = "dns" /\ dead # {} /\ ~down.late
    BY <1>4, <1>6, <1>8 DEF Job, Same
  <2>2. Sure(job', down)
    BY <2>1 DEF Sure
  <2> QED
    BY <1>1, <1>7, <1>8, <2>1, <2>2, PutForgets
<1>9. CASE Put(n, c) /\ Job("connect", n, a, "event")
  <2>1. job'.node = n /\ job'.op = "connect" /\ job'.addr = a
    BY <1>9 DEF Job
  <2>2. Sure(job', c)
    BY <1>6, <2>1 DEF Sure
  <2> QED
    BY <1>1, <1>7, <1>9, <2>1, <2>2, PutForgets
<1>10. CASE Put(n, done) /\ Job("tls", n, a, "event")
  <2>1. job'.node = n /\ job'.op = "tls" /\ job'.addr = a
    BY <1>10 DEF Job
  <2>2. Sure(job', done)
    BY <1>5, <1>6, <2>1 DEF Sure, Same
  <2> QED
    BY <1>1, <1>7, <1>10, <2>1, <2>2, PutForgets
<1> QED
  BY <1>2, <1>8, <1>9, <1>10

LEMMA TimerEventForgets ==
  ASSUME DialInv, Forgets, NEW n \in Nodes, TimerEvent(n) PROVE Forgets'
<1> DEFINE c == [cell[n] EXCEPT !.event = "none"]
<1>1. /\ Good(n, cell[n]) /\ Fine(cell[n], exhausted) /\ cell[n].event = "timer"
      /\ Put(n, c) /\ Job("tls", n, cell[n].direct, "timer")
      /\ UNCHANGED <<cache, dead, exhausted>>
  BY PendingIs DEF TimerEvent, Forgets
<1>2. Same(cell[n], c) /\ c.status = "Connected" /\ c.event = "none"
  BY <1>1 DEF Same, Good, Typed, Awaits, Fields
<1> HIDE DEF c
<1>3. job'.node = n /\ job'.op = "tls" /\ job'.addr = cell[n].direct
  BY <1>1 DEF Job
<1>4. Fine(c, exhausted') /\ Sure(job', c) /\ CacheForgets'
  BY <1>1, <1>2, <1>3, CacheForgetsStill DEF Fine, Sure, Same
<1> QED
  BY <1>1, <1>3, <1>4, PutForgets

LEMMA TlsForgets == ASSUME DialInv, Forgets, steady, Tls PROVE Forgets'
<1> DEFINE d == [cell[Me] EXCEPT !.event = IF cell[Me].timed THEN "connect" ELSE "timer",
                                 !.timed = ~@, !.wants = @ + 1, !.direct = job.addr]
<1>1. /\ Me \in Nodes /\ Good(Me, cell[Me]) /\ Fine(cell[Me], exhausted)
      /\ cell[Me].status = "Connected" /\ Sure(job, cell[Me]) /\ cell[Me].exit # "Cancel"
      /\ job.op = "tls" /\ UNCHANGED <<dead, exhausted>>
      /\ Clear \/ UNCHANGED cache
  BY JobIsSure, JobIs DEF Tls, Retry, Cancelled, Doing, Fits
<1>2. \/ Job("request", Me, job.addr, job.from) /\ UNCHANGED cell
      \/ Put(Me, d) /\ job' = Off
      \/ job.addr \in dead /\ Retry
  BY DEF Tls, MayFail
<1>3. /\ Same(cell[Me], d) /\ d.status = "Connected" /\ d.direct = job.addr
  BY <1>1 DEF Same, Good, Typed, Fields
<1> HIDE DEF d
<1>4. cell[Me].late => job.addr \notin dead
  BY <1>1 DEF Sure
<1>5. Fine(d, exhausted') /\ CacheForgets'
  BY <1>1, <1>3, <1>4, CacheForgetsStill DEF Fine, Same
<1>6. CASE Job("request", Me, job.addr, job.from) /\ UNCHANGED cell
  <2>1. job'.node = Me /\ job'.op = "request" /\ job'.addr = job.addr
    BY <1>6 DEF Job
  <2>2. Sure(job, cell[job.node])'
    BY <1>1, <1>4, <1>6, <2>1 DEF Sure
  <2> QED
    BY <1>1, <1>5, <1>6, <2>2 DEF Forgets, Fine
<1>7. CASE Put(Me, d) /\ job' = Off
  BY <1>1, <1>5, <1>7, PutForgets
<1>8. CASE job.addr \in dead /\ Retry
  <2>1. Doing("tls") /\ \E a : Job("dns", Me, a, "none")
    BY <1>8 DEF Retry, Tls
  <2> QED
    BY <1>1, <1>8, <2>1, RetryForgets DEF Retry
<1> QED
  BY <1>2, <1>6, <1>7, <1>8

\* On a calm network the gateway always upgrades.
LEMMA RequestForgets == ASSUME DialInv, Forgets, steady, Request PROVE Forgets'
<1> DEFINE c == [cell[Me] EXCEPT !.status = "Handshaked", !.event = "read"]
<1>1. /\ Me \in Nodes /\ Good(Me, cell[Me]) /\ Fine(cell[Me], exhausted)
      /\ Put(Me, c) /\ job' = Off /\ UNCHANGED <<cache, dead, exhausted>>
  BY JobIsSure DEF Request
<1>2. Same(cell[Me], c) /\ c.status = "Handshaked" /\ c.event = "read"
  BY <1>1 DEF Same, Good, Typed, Fields
<1> HIDE DEF c
<1>3. Fine(c, exhausted')
  BY <1>1, <1>2 DEF Fine, Same
<1> QED
  BY <1>1, <1>3, CacheForgetsStill, PutForgets

\* A step on a node whose read event runs.
LEMMA ReadForgets ==
  ASSUME DialInv, Forgets, NEW n \in Nodes, job = Off, NEW c, Put(n, c),
         Fine(c, exhausted), Clear \/ UNCHANGED cache, UNCHANGED <<job, dead, exhausted>>
  PROVE  Forgets'
BY CacheForgetsStill, PutForgets

LEMMA ReadsForget ==
  ASSUME DialInv, Forgets, NEW n \in Nodes, ReadCancelled(n) \/ Read(n) \/ ReadFails(n)
  PROVE  Forgets'
<1> DEFINE upgraded == [cell[n] EXCEPT !.status = "Starting", !.recon = "New"]
           ended == [cell[n] EXCEPT !.status = "Closed", !.tries = 0, !.count = 0,
                                    !.told = "end", !.up = long, !.event = "none"]
<1>1. /\ Good(n, cell[n]) /\ Fine(cell[n], exhausted) /\ job = Off
      /\ cell[n].event = "read" /\ UNCHANGED <<job, dead, exhausted>>
      /\ Clear \/ UNCHANGED cache
  BY PendingIs DEF ReadCancelled, Read, ReadFails, Forgets
<1>2. CASE Put(n, Unplugged(cell[n]))
  BY <1>1, <1>2, UnpluggedIsFine, ReadForgets
<1>3. CASE Put(n, upgraded)
  <2>1. Same(cell[n], upgraded) /\ upgraded.status = "Starting" /\ upgraded.event = "read"
    BY <1>1 DEF Same, Good, Typed, Fields
  <2> HIDE DEF upgraded
  <2>2. Fine(upgraded, exhausted)
    BY <1>1, <2>1 DEF Fine, Same
  <2> QED
    BY <1>1, <1>3, <2>2, ReadForgets
<1>4. CASE Put(n, Begun(cell[n]))
  <2>1. LET d == Begun(cell[n]) IN
        Same(cell[n], d) /\ d.status = "Started" /\ d.event = "read"
    BY <1>1 DEF Begun, Same, Good, Typed, Fields
  <2>2. Fine(Begun(cell[n]), exhausted)
    BY <1>1, <2>1 DEF Fine, Same
  <2> QED
    BY <1>1, <1>4, <2>2, ReadForgets
<1>5. CASE Put(n, ended)
  <2>1. /\ ended.beaten = cell[n].beaten /\ ended.late = cell[n].late
        /\ ended.tries = 0 /\ ended.event = "none"
    BY <1>1 DEF Good, Typed, Fields
  <2> HIDE DEF ended
  <2>2. Fine(ended, exhausted)
    BY <1>1, <2>1 DEF Fine
  <2> QED
    BY <1>1, <1>5, <2>2, ReadForgets
<1>6. ASSUME NEW retriable \in Retriable, Put(n, Failed(Unplugged(cell[n]), retriable))
      PROVE  Forgets'
  <2>1. Good(n, Unplugged(cell[n])) /\ Unplugged(cell[n]).event = "none"
    BY <1>1, UnpluggedIsGood
  <2>2. Fine(Failed(Unplugged(cell[n]), retriable), exhausted)
    BY <1>1, <2>1, UnpluggedIsFine, FailedIsFine
  <2> QED
    BY <1>1, <1>6, <2>2, ReadForgets
<1> QED
  BY <1>2, <1>3, <1>4, <1>5, <1>6 DEF ReadCancelled, Read, ReadFails

\* The pool dials what the cache has, but puts nothing there.
LEMMA PoolForgets ==
  ASSUME DialInv, Forgets, NEW n \in Nodes \intersect Prelinks, NEW c, Put(n, c),
         Same(cell[n], c), c.event \in {"none", "read"},
         \/ c.status = cell[n].status
         \/ c.status \notin {"Created", "Invoking", "Closed"},
         Clear \/ UNCHANGED cache, UNCHANGED <<job, dead, exhausted>>
  PROVE  Forgets'
<1>1. Fine(cell[n], exhausted)
  BY DEF Forgets
<1>2. Fine(c, exhausted')
  BY <1>1 DEF Fine, Same
<1>3. job = Off \/ job.node # n
  BY DEF DialInv, JobGood
<1> QED
  BY <1>2, <1>3, CacheForgetsStill, PutForgets

\* A step that leaves the nodes alone.
LEMMA RestForgets ==
  ASSUME Forgets, Clear \/ UNCHANGED cache, UNCHANGED <<cell, job, dead, exhausted>>
  PROVE  Forgets'
BY CacheForgetsStill DEF Forgets, Fine, Sure

LEMMA LinksForget ==
  ASSUME DialInv, Forgets,
         \/ \E n \in Nodes : Link(n) \/ LinkAnswer(n)
         \/ LinkConnect \/ LinkTls \/ LinkWait \/ LinkDone
  PROVE  Forgets'
<1>1. Clear \/ UNCHANGED cache
  BY DEF Link, LinkAnswer, LinkConnect, LinkTls, LinkWait, LinkDone
<1>2. UNCHANGED <<job, dead, exhausted>>
  BY DEF Link, LinkAnswer, LinkConnect, LinkTls, LinkWait, LinkDone
<1>3. ASSUME NEW n \in Nodes, Link(n)
      PROVE  Forgets'
  <2> DEFINE c == [cell[n] EXCEPT !.status = "Connecting", !.listed = TRUE]
  <2>1. Good(n, cell[n]) /\ n \in Prelinks /\ Put(n, c) /\ cell[n].status = "Created"
    BY <1>3 DEF Link, DialInv, CellsGood
  <2>2. Same(cell[n], c) /\ c.status = "Connecting" /\ c.event = cell[n].event
    BY <2>1 DEF Same, Good, Typed, Fields
  <2> HIDE DEF c
  <2>3. c.event \in {"none", "read"}
    BY <2>1, <2>2 DEF Good, Apart
  <2> QED
    BY <1>1, <1>2, <2>1, <2>2, <2>3, PoolForgets
<1>4. ASSUME NEW n \in Nodes, LinkAnswer(n)
      PROVE  Forgets'
  <2> DEFINE c == [cell[n] EXCEPT !.status = "Starting"]
  <2>1. Good(n, cell[n]) /\ n \in Prelinks /\ Put(n, c) /\ cell[n].event = "read"
    BY <1>4, PendingIs DEF LinkAnswer
  <2>2. Same(cell[n], c) /\ c.status = "Starting" /\ c.event = "read"
    BY <2>1 DEF Same, Good, Typed, Fields
  <2> HIDE DEF c
  <2> QED
    BY <1>1, <1>2, <2>1, <2>2, PoolForgets
<1>5. CASE LinkConnect \/ LinkTls \/ LinkWait
  <2> DEFINE n == link.node
             up == [cell[n] EXCEPT !.status = "Connected", !.up = TRUE]
             done == [cell[n] EXCEPT !.status = "Handshaked", !.event = "read"]
             over == [cell[n] EXCEPT !.event = "none"]
  <2>1. n \in Nodes \intersect Prelinks /\ Good(n, cell[n])
    BY <1>5, LinkIs, OffIs DEF LinkConnect, LinkTls, LinkWait
  <2>2. LinkConnect => cell[n].event = "none"
    BY LinkIs, OffIs DEF LinkConnect
  <2>3. \/ LinkConnect /\ Put(n, up)
        \/ Put(n, done)
        \/ Put(n, over)
        \/ UNCHANGED cell
    BY <1>5 DEF LinkConnect, LinkTls, LinkWait
  <2>4. Same(cell[n], up) /\ up.status = "Connected" /\ up.event = cell[n].event
    BY <2>1 DEF Same, Good, Typed, Fields
  <2>5. Same(cell[n], done) /\ done.status = "Handshaked" /\ done.event = "read"
    BY <2>1 DEF Same, Good, Typed, Fields
  <2>6. Same(cell[n], over) /\ over.status = cell[n].status /\ over.event = "none"
    BY <2>1 DEF Same, Good, Typed, Fields
  <2> HIDE DEF n, up, done, over
  <2>7. CASE LinkConnect /\ Put(n, up)
    BY <1>1, <1>2, <2>1, <2>2, <2>4, <2>7, PoolForgets
  <2>8. CASE Put(n, done)
    BY <1>1, <1>2, <2>1, <2>5, <2>8, PoolForgets
  <2>9. CASE Put(n, over)
    BY <1>1, <1>2, <2>1, <2>6, <2>9, PoolForgets
  <2>10. CASE UNCHANGED cell
    BY <1>1, <1>2, <2>10, RestForgets
  <2> QED
    BY <2>3, <2>7, <2>8, <2>9, <2>10
<1>6. CASE LinkDone
  BY <1>1, <1>2, <1>6, RestForgets DEF LinkDone
<1> QED
  BY <1>3, <1>4, <1>5, <1>6

\* The only address that dies does so before attempts are used up.
LEMMA DieForgets ==
  ASSUME DialInv, Forgets, OneDead', NEW a \in Addresses, Die(a) PROVE Forgets'
<1>1. /\ a \notin dead /\ dead' = dead \union {a}
      /\ UNCHANGED <<cell, cache, job, exhausted>>
  BY DEF Die
<1>2. dead = {}
  BY <1>1 DEF OneDead
<1>3. ~exhausted
  BY <1>2 DEF Forgets, CacheForgets
<1>4. \A n \in Nodes : ~cell[n].late
  BY <1>3 DEF Forgets, Fine
<1>5. ASSUME NEW n \in Nodes
      PROVE  Fine(cell[n], exhausted)'
  BY <1>1, <1>4 DEF Forgets, Fine
<1>6. job # Off => Sure(job, cell[job.node])'
  <2>1. dead' # {} /\ (job # Off => job.node \in Nodes)
    BY <1>1 DEF DialInv, JobGood
  <2> QED
    BY <1>1, <1>4, <2>1 DEF Forgets, Sure
<1> QED
  BY <1>1, <1>3, <1>5, <1>6 DEF Forgets, CacheForgets

ForgetInv == steady => Forgets

\* What the system is used for does not change while it runs.
LEMMA SceneStays == [Next]_vars => scene' = scene
BY DEF vars, Next, Thread, Dns, DnsCancelled, DnsReuse, DnsGiveUp, DnsAttempt, Connect,
       StepCancelled, Tls, Request, Launch, DnsAnswer, ConnectEvent, TimerEvent,
       ReadCancelled, Start, Leave, Read, ReadFails, Link, LinkAnswer, LinkConnect,
       LinkTls, LinkWait, LinkDone, Die

LEMMA NextForgets == DialInv /\ ForgetInv /\ OneDead' /\ [Next]_vars => ForgetInv'
<1> SUFFICES ASSUME DialInv, Forgets, steady, OneDead', [Next]_vars PROVE Forgets'
  BY SceneStays DEF ForgetInv, steady
<1>1. CASE Dns
  BY <1>1, DnsCancelledForgets, DnsReuseForgets, DnsGiveUpForgets, DnsAttemptForgets DEF Dns
<1>2. CASE Connect \/ StepCancelled \/ Tls \/ Request
  BY <1>2, ConnectForgets, StepCancelledForgets, TlsForgets, RequestForgets
<1>3. ASSUME NEW n \in Nodes,
             \/ Launch(n) \/ DnsAnswer(n) \/ ConnectEvent(n) \/ TimerEvent(n)
             \/ ReadCancelled(n)
      PROVE  Forgets'
  BY <1>3, LaunchForgets, DnsAnswerForgets, ConnectEventForgets, TimerEventForgets,
     ReadsForget
<1>4. ASSUME NEW n \in Nodes,
             \/ Start(n) \/ Leave(n, "Stopping") \/ Leave(n, "Cancel")
             \/ Read(n) \/ ReadFails(n) \/ Link(n) \/ LinkAnswer(n)
      PROVE  Forgets'
  BY <1>4, StartForgets, LeaveForgets, ReadsForget, LinksForget
<1>5. CASE LinkConnect \/ LinkTls \/ LinkWait \/ LinkDone
  BY <1>5, LinksForget
<1>6. ASSUME NEW a \in Addresses, Die(a)
      PROVE  Forgets'
  BY <1>6, DieForgets
<1>7. CASE UNCHANGED vars
  BY <1>7, RestForgets DEF vars
<1> QED
  BY <1>1, <1>2, <1>3, <1>4, <1>5, <1>6, <1>7 DEF Next, Thread

LEMMA InitForgets == Init => ForgetInv
<1> SUFFICES ASSUME Init PROVE Forgets
  BY DEF ForgetInv
<1>1. /\ cell = [n \in Nodes |-> NewCell] /\ job = Off /\ dead = {} /\ exhausted = FALSE
  BY DEF Init
<1>2. NewCell.beaten = FALSE /\ NewCell.late = FALSE /\ NewCell.tries = 0
  BY DEF NewCell
<1> QED
  BY <1>1, <1>2 DEF Forgets, Fine, CacheForgets

\* On a calm network an address that dies costs one session at most, for any number of
\* nodes that share the cache and of addresses: when the attempts of a node are used up,
\* what is launched from then on gets through. A second address that dies would cost
\* another session, so that this is of runs in which at most one dies.
THEOREM OneDeathCostsOneSession == Spec /\ []OneDead => []DeadAddressIsForgotten
<1>1. DialInv /\ ForgetInv => DeadAddressIsForgotten
  BY DEF ForgetInv, Forgets, Fine, DeadAddressIsForgotten
<1> QED
  BY <1>1, InitHolds, NextKeeps, InitForgets, NextForgets, PTL DEF Spec

\* With two addresses no more than one dies, for one of them has to answer.
LEMMA OneOfTwoDies ==
  ASSUME NEW a, NEW b, Addresses = {a, b} PROVE Spec => []OneDead
<1> DEFINE I == dead \subseteq Addresses /\ OneDead
<1>1. Init => I
  BY DEF Init, OneDead
<1>2. I /\ [Next]_vars => I'
  <2> SUFFICES ASSUME I, [Next]_vars PROVE I'
    OBVIOUS
  <2>1. ASSUME NEW c \in Addresses, Die(c)
        PROVE  I'
    <3>1. dead' = dead \union {c} /\ Cardinality(Addresses \ dead) > 1
      BY <2>1 DEF Die
    <3>2. dead = {}
      <4>1. SUFFICES ASSUME NEW x \in dead PROVE FALSE
        OBVIOUS
      <4>2. PICK y : Addresses \ dead \subseteq {y}
        <5>1. x = a \/ x = b
          BY <4>1
        <5> QED
          BY <4>1, <5>1
      <4>3. IsFiniteSet({y}) /\ Cardinality({y}) = 1
        BY FS_Singleton
      <4>4. Cardinality(Addresses \ dead) <= 1
        BY <4>2, <4>3, FS_Subset
      <4>5. Cardinality(Addresses \ dead) \in Nat
        BY <4>2, <4>3, FS_Subset, FS_CardinalityType
      <4> QED
        BY <3>1, <4>4, <4>5
    <3> QED
      BY <3>1, <3>2 DEF OneDead
  <2>2. UNCHANGED dead => I'
    BY DEF OneDead
  <2>3. UNCHANGED dead \/ \E c \in Addresses : Die(c)
    BY DEF vars, Next, Thread, Dns, DnsCancelled, DnsReuse, DnsGiveUp, DnsAttempt, Connect,
           StepCancelled, Tls, Request, Launch, DnsAnswer, ConnectEvent, TimerEvent,
           ReadCancelled, Start, Leave, Read, ReadFails, Link, LinkAnswer, LinkConnect,
           LinkTls, LinkWait, LinkDone
  <2> QED
    BY <2>1, <2>2, <2>3
<1>3. I => OneDead
  OBVIOUS
<1> HIDE DEF I
<1> QED
  BY <1>1, <1>2, <1>3, PTL DEF Spec

\* So it is with two addresses, whatever happens.
THEOREM DeadAddressOfTwoIsForgotten ==
  ASSUME NEW a, NEW b, Addresses = {a, b} PROVE Spec => []DeadAddressIsForgotten
<1>1. Spec => []OneDead
  BY OneOfTwoDies
<1> QED
  BY <1>1, OneDeathCostsOneSession, PTL
===============================================================================
