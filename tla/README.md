# A verification model of the NLS C++ SDK

This directory models the Alibaba Cloud NLS speech SDK for C++ (`nlsCppSdk/`) with the
programs that come with it (`demo/`) and its C# binding (`nlsCsharpSdk/`): the pool of
established connections, one session, how a node dials, what it reads, how its
messages become callbacks, the synchronous calls, the life and death of requests, and
what a program has to do with all of it. The modules are translated from the code.
Docs and comments were only used for what a property or a finding quotes. Paths below
are relative to `nlsCppSdk/` unless they begin with `demo/`, `nlsCsharpSdk/` or are
plain file names of those directories.

## 1. Inventory

| component | state | operations | interacts with |
|---|---|---|---|
| `ConnectedPool` (`transport/connectedPool.*`) | per NlsType two vectors of entries (prestarted, preconnected) and two index lists, `_lock` | pop, push, move between vectors, mark abnormal, finishPushPreNode, delete by request or SSL, timer (expire, ping), sweep (delete, reconnect), destructor | `start()` borrows, `parseFrame` pushes and marks, `releaseRequest` finishes or deletes, own thread expires |
| `ConnectNode` (`transport/connectNode.*`) | `_workStatus`, `_exitStatus`, `_isStop`, retry counter, evbuffers for audio, directives and reading, libevent events, socket and SSL, flags of the synchronous mode and of reconnection | connect, handshake, send, receive, parse, callbacks, close, reconnect | driven by the event thread and, for sending and failing, by user threads |
| `WorkThread` (`event/workThread.*`) | event base, node list, IP cache | callbacks launch, dns, connect, read, write, timer, reconnect, startWithPool | calls the node, destroys nodes |
| `NlsEventNetWork` (`transport/nlsEventNetWork.*`) | `_mtxThread`, work threads, the pool | start, sendAudio, stop, cancel, sendText, stControl, ... | called by users |
| `NlsClientImpl` (`framework/common/`) | singleton, `_mtxReleaseRequestGuard` | create and release requests, releaseInstance | registry, pool, node |
| `NlsNodeManager` (`transport/nodeManager.*`) | two maps request/node under one mutex | add, check, update, remove (by force after a timeout) | guards every call |
| `WebSocketTcp` (`transport/webSocketTcp.*`) | `_rStatus`, `_wsType`, `_httpCode`, `_httpLength` | answer of the gateway, headers, frames | fed from `_readEvBuffer` by the node |
| `NlsEvent`, listeners (`framework/common/`, `framework/feature/`) | type and content of a message, the user's callbacks | conversion by protocol, choice of the callback | between node and user |
| C# binding (`nlsCsharpSdk/`) | one event per feature, delegates | copy into the event, fetch, callbacks | wraps requests and events |
| demos and monkey tests (`demo/`) | `global_run`, threads, callback parameters | rounds of create, start, send, stop, release; callbacks; timer; signals | use all of the above |
| SSL, encoders, parameters, logging | buffers, parsers | pure conversion | |
| token, file transcription, vipServer | | blocking HTTP, closed libraries | |

What is hard: three kinds of threads (user threads, event threads, the pool's thread) and
the resolver share nodes and entries with fine locks, with checks whose result is used
after the lock is gone, and with locks that are given up after a timeout. A send may be
made by a user thread or by the event thread, stop and cancel are flags that others act
on, the pool's sweep works on entries without the pool's lock, and bytes, frames, events
and callbacks each have a place in between where what was begun for one connection or
request may be finished for another. `PROJECT.json` lists each hazard at its line with
the property that covers it or the reason why none does.

What makes each component correct:

- pool: a connection is lent to one request at a time, stored once, offered only when
  idle, found when offered, and its owner deleted exactly once and never under a user;
- session: callbacks come in the order Started, results, one end, Close; audio accepted
  is sent; stop reaches the server once, after the audio, and the session then ends;
  cancel silences; a broken link is reported;
- dialling: attempts and reconnections are bounded, an address that is dead does not stay
  in the cache, every launch ends in a connection or in a callback;
- frames: each frame becomes one event, in order, however the bytes are cut;
- delivery: the callback of a message is the one it is for, with its own event;
- registry and release: no callback works on a deleted node, release returns and frees;
- synchronous mode: the value of a call is true, no call waits for ever;
- programs: a callback finds its parameter, a request is released once and when it is
  due, and a run that is to end ends.

## 2. Modules

| module | models | run by |
|---|---|---|
| `ConnectedPool` | the pool of one NlsType and the three parties that call it | `MC_ConnectedPool` |
| `ConnectedPool_proofs` | one user per connection, stored once, its owner deleted once and last, what is available idle and found | |
| `TaskEvents` | abstract: the order of the callbacks of a request | |
| `Session` | node, event thread, user threads, link and server of one request | `MC_Session` |
| `Session_proofs` | Stop once, types, the refinement of `TaskEvents`, the order of each thread, one callback after cancel | |
| `Dialing` | DNS, the cache of a thread, connect, TLS, upgrade, retries, reconnection | `MC_Dialing` |
| `Dialing_proofs` | the inductive invariant of a work thread and the theorems | |
| `Frames` | reading and decoding of bytes, over several connections of a node | `MC_Frames` |
| `Frames_proofs` | where the frames of a stream are, the inductive invariant of the decoder and the theorems | |
| `Delivery` | message to event to callback, for every feature and the C# binding | `MC_Delivery` |
| `Delivery_proofs` | the invariants of events and of what a round owes its user, and the theorems | |
| `SyncCalls` | start, stop, cancel and sends in synchronous mode, `_mtxThread`, the wait | `MC_SyncCalls` |
| `SyncCalls_proofs` | the inductive invariant of the calls and the theorems | |
| `Registry` | `NlsNodeManager` and the memory its pointers point into | by `Lifecycle` |
| `Lifecycle` | create, release, the callbacks' checks, destroyConnectNode, the resolver | itself |
| `Lifecycle_proofs` | the inductive invariant of the registry and its theorems; the invariant of `Lifecycle`, calls of the user, event and resolver threads, the step to the registry, the theorems | |
| `DemoPrograms` | the demos of Linux as programs of instructions | |
| `DemoPorts` | those of Windows and Android, and the monkey tests | |
| `Demos` | what the instructions do; main, callbacks, timer, signals | `MC_Demos` |
| `Demos_proofs` | the rules of the instructions, the triples of every program, the theorems | |

How they compose. `Lifecycle` extends `Registry` and every step of it is a step the
registry allows (`RegistryInUse`, proved), which is what lets the theorems about the
registry speak of the client. `Session` refines `TaskEvents` (proved). `Delivery` takes over where
`Frames` ends (a frame), `Frames` where `Dialing` ends (a connection). `Demos` rests on
what the others check of the SDK (no callback after release, one callback at most after
cancel, release waits for a callback that has begun) and models no more of it than that.

### ConnectedPool

A connection is the pair `socketFd`/`sslHandle` of the code and is named by the request
whose node created it; `req[r].ssl # r` is the code's `_sslHandle != _nativeSslHandle`.
`pool` maps a vector and an index to an entry with the fields of
`ConnectedNodeProcess` that decide anything; timestamps become the choice of `Tick`
which entries have expired. An index list is kept sorted and may hold an index twice, so
it is a bag (`idle`).

Each operation under `_lock` is one action. `releaseRequest` is three, because only its
first (`sslBelongToPool`) and last call take `_lock`; between them the event thread may
still finish the task (`Working`). The sweep is split wherever the code gives another
thread a chance: look at an entry, connect a replacement, store it, finish it, delete the
old request, clear the entry. `clearNode` itself may be torn (`TornClear`), since neither
side of that race holds the same lock. Four constants switch on behaviour that users or
the network may or may not show: `CancelRelease` (release during the task), `LateRelease`
(a finished request kept past the pool's timeout), `PingFails`, `TornClear`.

### Session and TaskEvents

A thread inside a function has a program, `todo[t]`, of steps yet to run; each step is
what a lock makes indivisible. A failure replaces the rest of the program by the code's
error path, which differs by caller: the read callback closes and then reports, the write
callback reports and then closes, a user's call disconnects and reports, leaving the
events of the node alone. Audio is counted in units of `NodeFrameSize`, because
`nlsSendFrame` sends at most that much; `Frame` is the size of a frame of audio in such
units. `wire` is what the server received, in order, and `calls` the callbacks with the
thread that made them and whether `cancel` had been called. The network and the gateway
are external: they answer in protocol order, and may fail in the states the constants
`LinkFails` and `ServerFails` name. `TaskEvents` is the promise in six lines.
`CallbacksInOrder` instantiates it with the log of all callbacks (the refinement),
`ThreadCallbacksInOrder` with the log of each thread (`Log`).

### Dialing

One work thread, whose nodes have one URL and share the cache of addresses
(`getIpFromCache`, `setIpCache`). A callback of the event thread is a `job`, a chain of
steps of which each ends in the next or leaves a pending event. User calls and the pool's
own dials (`Prelinks`) come between the steps. `steady` is a network whose dead addresses
stay dead. Reconnection (`_reconnection`) goes through the states of the code: Will, New,
Trigger and back.

### Frames

A byte is known by where the gateway put it, `<<connection, item, place>>`; a decoder
that is anywhere but at a first byte reads any header, which is what garbage is. Reading
takes any number of the bytes that have arrived, so a stream is cut everywhere. The loop
of `webSocketResponse` is there with its retries and its `continue`.

### Delivery

A message is a name (and of DashScope what its sentence says). The conversions
`convert…` follow the three protocols in `nlsEventInner.cpp`, the listeners are tables
from event types to callbacks, `OfferedBy…` is what a request lets a user set, and
`ExportedFor…` what the C# binding exports. In the binding a request's events are copied
into one struct per feature and fetched by the delegate: two steps.

### SyncCalls

`holder` is `_mtxThread` of the whole client. A wait on the condition variable has no
predicate, so an answer before the wait is lost, and it may wake for an answer of
another call, for its timeout, which sets the error code, or for nothing, which sets none.
The event thread handles an event, signals, calls back and stores, each a step. Users
call from their own threads and inside of callbacks; what is called back because of a
call made in a callback makes no call itself (bound).

A send of a user's call (stop, stControl, sendText, sendAudio, ...) may fail: the caller
disconnects and tells TaskFailed and Close in this very call (`Fails`, then the steps of
`Tell`, then `Reported`), all but sendAudio with the mutex held, while the event thread
keeps the events of the node and may have its own end of the session to tell. A stop
whose failure came up with the last audio of the encoder forgets the failure and waits.
A Stop that did not fit into the socket buffer is not waited for.

`troubles` is what happens besides, which the properties do not all survive and name in
their conditions: `"send"`, `"callback"` (what a failed send calls back calls the client
again), `"wakeup"` (a wait wakes with no cause) and `"idle"` (a long connection fails
between two sessions). It is drawn at the start among the domain of `Plans`, which says
for each who calls what.

What a start promises when it returns Success is an answer, Started or Close. A start
which the server refuses with a TaskFailed message does return Success: only
`handlerEvent` sets `_nodeErrCode`, not `parseFrame`, and the answer that woke it is the
Close.

### Registry and Lifecycle

`new` may return an address that was freed, so objects are addresses plus the uuid drawn
in their constructor. In `Lifecycle` a thread inside a function has a program as in
`Session`. `orderly` is the history variable of a user who keeps to the protocol (a
request that was started is released after Close, or started again when the callback that
made Close is over) in a system where no timed wait expires while what it waits for is on
its way. Most properties speak of such users; `CallReturns` speaks of all of them.
What happens to others is said below.

`troubles`, drawn at the start among `Cases`, is what the code allows besides, and the
properties name it in their conditions. `"kept"`: the requests are long
connections, which `parseFrame` only puts to their closed status (`closeStatusConnectNode`)
when a task ends well. `_readEvent` stays pending after Close, the user starts the request
again (`initAllStatus`) or releases it, and `dnsProcess` goes straight to the start command
(`Up`). A release may then meet a read callback: past `checkNodeExist` and before its flag
is set, inside, or after it returned with the flag set (`InvalidStatusWhenReleasing`).
A connection that goes into the pool is not of this kind:
`closeStatusConnectNodeForConnectedPool` deletes the read event. `"hasty"`: the user starts
again while the callback that made Close still runs, so before `destroyConnectNode`.
`"wakeup"`: the wait of `waitEventCallback`, an `if` around a wait without a predicate,
wakes early.

### DemoPrograms, DemoPorts, Demos

A thread's function is a program of instructions [head, body, tail]; an instruction is an
operation and what the code does instead of going on when the operation fails, so the
translation keeps each break, continue, return and release of the source where it is.
Callbacks are what they do to the worker: nothing, use the parameter, signal. Most demos
are copies of one another, made per feature and per platform; a part whose copy does the
same is defined by the name of the part it was copied from, and each was compared with
its own source, since the copies do differ (see 5). `Demos` interprets the instructions.
`MC_Demos` takes every program with every set of its options.

## 3. Runs

| run | expects | instance | shows |
|---|---|---|---|
| `pool_orderly` | pass | 4 requests, 2+2 entries | users that wait for Close: offered entries are idle, nothing is deleted twice, too early or under a user, a pop misses nothing |
| `pool_rough` | pass | 3 requests, all switches, two kinds of parameters | exclusive use, stored once |
| `session_orderly` | pass | 3 frames, 2 connects | a link that holds: refinement of `TaskEvents`, no lost wakeup, stop leads to Close |
| `session_rough` | pass | 1 frame, faults everywhere | stop and cancel from a second thread, full socket buffers, timeouts: Stop once, each thread in order, a broken link is reported |
| `lifecycle` | pass | 2 requests, 2 nodes, addresses used again; no troubles, `"kept"`, all | connections closed with Close: nobody follows a pointer to what was deleted; long ones too: the registry is used as it asks, release frees; whatever happens: release returns |
| `calls` | pass | 2 users, 3 calls and one inside of a callback; no troubles, `"wakeup"`, `"idle"`, all but `"callback"` | a call's value is true, rounds do not overlap, calls return, the mutex is given back |
| `dialing` | pass | 2 nodes or a node and the pool, 2 addresses | bounded reconnections, the cache forgets a dead address, no request deleted under its user, every launch ends |
| `frames` | pass | 4 streams, 2 connections | each frame once and in order, the next read delivers |
| `delivery` | pass | every feature, 2 results, 2 rounds | callbacks as meant, each with its own event, rounds close |
| `demos` | pass | 20 programs, called in 83 ways | parameters alive, requests released once and when due, runs end |
| `frames_stuck` | violation | | a frame completed by the retry lies in the buffer until the server sends more |
| `session_frames` | violation | | Stop is sent inside an audio frame |

The two violations are the findings of `PROJECT.json`, each with the comment or doc it
contradicts and the line of the code.

Bounds. The interesting cases of the pool need a borrower, an owner and a starter of one
connection and a full vector of more than one entry: three requests reach the first, four
the second, with `MaxNumber = 2` (an index list, a scan order and a wrong index need two
entries). Request objects of the pool are not reused; `deletes` is capped at 2, enough to
see a second deletion. A session sends one to three frames of one or two units, with a
buffer limit that the second frame passes, and `MaxConnects` of one or two in place of
`RetryConnectCount`. `Lifecycle` makes two requests in two addresses, so that one may lie
where the other was. With troubles the second lies where the first did, and a system that
is not orderly makes one (`MayLie`): the cycle of waits `CallReturns` is about (guard, flag
of a callback, launch event) needs one node, the user and the event thread. By symmetry the
first of all lies at one address; the second anywhere, also with long connections, was
checked once without `CallReturns`. `SyncCalls` lets one user start and stop while another
starts, and callbacks call once (`MaxInside`); with troubles it has one request, which two
threads use, since a trouble is one of a request and the mutex is shared in any case
(`MCPlans`). `Dialing` has two tries, one reconnection, two failures
(`MaxCuts`) and two rounds of a handshake; its scenes say which nodes, network and
reconnection are combined. A stream of `Frames` has two or three frames of all header
lengths (`HeadSizes`, `PayloadSizes` bound what garbage may be taken for as well), with a pong, an empty frame, a continuation and a CLOSE. `Delivery` has two
requests only where they share something, the C# event. A program of `Demos` runs with
`--loop` 2 or none, one thread, and two for three programs with little else to vary:
threads meet only in `global_run`. Deadlock is not checked: a session ends, requests run
out and users stop calling, all may stop; that nobody waits for ever is stated as
liveness instead.

Fairness. `Session`: the event thread (the loop dispatches what is active), each user's
call once begun (it waits at most a bounded time) and the server's normal answers.
`Lifecycle`: each thread once it is in a function; the launch event of a node, strongly
(it is activated once and an event loop serves what is active, but a guard may hold it
off repeatedly); and the user's wait for a callback, strongly, since it has a time limit
also where callbacks of a long connection come and go. `SyncCalls`: each thread, in a
call, a callback or what it tells; none of the server, whose silence is what the timeout
is for. `Dialing`: the event thread and the read event of a node, after
which the code's own timeouts end every attempt. `Frames`: what the gateway has sent
arrives and is read and parsed; it need not send more, and that is the point of
`FramesArrive`. `Delivery`: the event threads, not the service; `RoundsClose` speaks of
rounds the service ended. `Demos`: threads run, callbacks come back, waits expire, and
`release` strongly, since it holds off new callbacks; a service answers only where a
program is checked without silence; a send is never assumed to be refused. Nothing is
assumed of users calling anything, of faults or of timeouts otherwise. The pool has no
liveness property and no fairness.

## 4. Proofs

`ConnectedPool_proofs` proves, for every set of requests, every `MaxNumber`, every
assignment of parameters and every setting of the four switches (`PoolAssumption`):

- `TypeCorrect`: `Spec => []TypeOK`
- `InvariantHolds`: `Spec => []PoolInvariant`
- `ExclusiveUseHolds`: `Spec => []ExclusiveUse`
- `StoredOnceHolds`: `Spec => []StoredOnce`

and under hypotheses about users, network and parameters

- `DeletionIsOrderly`: `Spec => []DeletedOnceAndLast`, if `Punctual`, that is
  `~LateRelease /\ ~PingFails /\ ~TornClear`
- `PickableIsIdleHolds`: `Spec => []PickableIsIdle`, if `~CancelRelease`
- `PopsFind`: `Spec => PopFindsIdle`, if `~Asr` and all requests have one set of parameters

`ExclusiveUse` is not inductive: a borrower is safe because what is offered has no
holder (`AvailableIsFree`); that stays true because only a release or the pool's own
thread makes an entry available and each of these works on a connection nobody else can
hold (`OneAtATime`, `LinkedIsUnused`). `StoredOnce` needs that a connection about to be
stored is stored nowhere else: a busy request's connection is either in no entry or in
the one it was borrowed from (`BusyIsWhereBorrowed`), a fresh one is unknown to all
(`UnusedIsApart`), and the owner of an entry still has its connection (`OwnerHasConn`).
`PoolInvariant` is the conjunction. The proof has one lemma per action, resting on a few
about kinds of steps: a step that leaves every connection where it is (`QuietStep`), one
that stores a connection (`StoreStep`), one that hands a connection to a request
(`AcquireStep`), one that ends a release. Typing is proved per record and field by field.

`pool_orderly` satisfies all three hypotheses, and TLC refutes each property when one of
its own is dropped (section 5). Deletions are decided by what a release or the sweep finds
in the entries, so `OwnerInvariant` says whom it can find there. An entry's owner uses its
own connection, is at rest and owns one entry (`OwnersAreNative`). It is there, but for two
moments: the sweep has deleted it and is about to clear the entry, or its release has, and
the entry no longer counted as stored when the release looked (`OwnersAreAlive`). What the
sweep marked is used by nobody (`ExpiredIsUnused`), which is where the pool's timeout must be
longer than users take. And a borrower finds the entry it borrowed from unchanged
(`LentIsThere`) and its owner undeleted (`LenderIsAlive`), so that `deletePreNodeBySSL`
deletes an owner only after its last borrower. Users may cancel and release in all this.

`PickableIsIdle` says of servers what `ExclusiveUse` says of users, and needs
`BusyIsRunning`: the task of a request that is being released is over. For `PopsFind` the
list of a vector has each index at which something is available (`AvailableIsListed`), so
a scan from its head misses nothing. The list may have others and the same twice; a pop
drops the index it takes and the head, and the head is either that index or of an entry
that is not available. With two sets of parameters the head may be available and not
match, and with `Asr` the second pop drops the head of the first vector's list.

The first part of `Lifecycle_proofs` proves of the specification of `Registry`, for any addresses, instances
and number of requests (`RegistryAssumption`):

- `MapsAgreeAlways`: the two maps stay inverse to each other
- `RegisteredIsAliveAlways`: what is registered is in memory, with that node and uuid
- `OneObjectAlways`: no two objects in memory have one uuid
- `RInvAlways`: the inductive invariant behind them

`MapsAgree` alone is not inductive: when an address is used again, the new object must
not meet an entry of the old one, which needs that what is registered is alive
(`RegisteredIsAlive`), which in turn needs that objects leave the registry before they
leave memory; and updating an entry must not meet another with the same node, which needs
that objects have different uuids. That the client uses the registry in this order is
`RegistryUsedAsPromised`, below.

The rest of `Lifecycle_proofs` proves, for any requests, addresses and
instances (`LifecycleAssumption`, `RegistryAssumption`), where connections are closed with
Close and no wait wakes early (`troubles = {}`, a hypothesis of each):

- `LifecycleInvAlways`: the inductive invariant
- `LifecycleIsTyped`: `Spec => []LifecycleTypeOK`
- `LifecycleMapsAgree`: `Spec => []MapsAgree`
- `NobodyFollowsDeleted`: `Spec => []PointersAreAlive`
- `ReleasedIsFreed`: `Spec => []ReleaseFrees`
- `CallbacksLeave`: `Spec => []CallbacksHaveLeft`, which has no standing run
- `RegistryUsedAsPromised`: `Spec => RegistryInUse`

The hypothesis is needed for `NobodyFollowsDeleted` and `CallbacksLeave`: section 5 has
what happens to long connections and with early wakeups. Of the others `ReleaseFrees` and
`RegistryInUse` are model-checked for long connections too, not proved.

Why does no callback follow a pointer to what was deleted, although it looks at the
registry once and works on the node afterwards? Because of a node that was started, one
thing at a time is under way: a pending event, the resolver thread, or a callback that
has not set up what comes next. When that thing is over, the node is Closed, and only
then does an orderly user release it. `Marked` adds that a node that was never started is
destroyed by its release alone. The programs of a thread are tails of what `UserProgram`
and `EventProgram` list, some forty positions, and the invariant says for each what the
thread may rely on. It comes in two layers: `SharedInv` holds of every user, also of one
who releases during a session; `OrderlyInv` of those the properties speak of. For the
others only the types, the two maps and the links of requests and nodes are claimed.
An orderly event thread of such connections never comes to the guard; the cycle of waits
that `CallReturns` is about is one of users who release during a session, of long
connections and of users who start again too soon, which the run `lifecycle` has.
The lemmas follow who moves: the user (`UserKeeps`, `UserUnmoved`), an event thread
(`EventKeeps`), the resolver (`DnsKeeps`).

`SyncCalls_proofs` proves, for any requests, user threads and plans of calls
(`CallsAssumption`: no user is called "event" or "nobody"):

- `MutexIsGivenBack`: `Spec => []CallsTypeOK`, whatever the troubles
- `AnswersAreTrue`: `Spec => []CallsAreAnswered`, which speaks of systems where no send fails
  and no wait wakes with no cause; connections may fail at any time
- `RoundsAreApart`: `Spec => RoundsDoNotOverlap`, an action property, which speaks of systems
  where no send fails and no connection between two sessions; waits may wake with no cause

Each condition is needed (section 5). `TypedInv` holds in all cases: the mutex is held by
the caller that is past the lock of its call (`Mutex`), and each thread tells one of 17
programs (`Prog`, `InPrograms`), each the tail of another or an answer put before it
(`FirstStep`). If no send fails only the event thread tells (`Silent`).

The wait has no predicate, so nothing at the wait makes the answer the right one, and
`CallsAreAnswered` is far from inductive. `AnswersInv` says what does. Whoever is past the
lock holds the mutex, so nobody starts a request while another waits for it. The
error code of a start that ran out is never reset, so a start that is over without an
error was answered (`Answered`) and a stop that sleeps without an error has only Close to
come, since a session is told once that it started (`ToldOnce`, `StartsOnce`).
For `RoundsDoNotOverlap` what the event thread has to do fits how far the session is (`Works`), so a request that
can be started is one it has finished with. Requests one of whose starts was refused are
left out (`refused`): section 5 says what the refusal does to them.

`Dialing_proofs` proves, for any nodes, addresses, bounds and scenes (`DialingAssumption`):

- `EventsFindTheirState`: `Spec => []DialingTypeOK`
- `ReconnectionsEnd`: `Spec => []ReconnectsAreBounded`
- `EventThreadDeletesNothing`: `Spec => []UserHasRequest`
- `OneDeathCostsOneSession`: `Spec => []DeadAddressIsForgotten`, if at most one address dies
- `DeadAddressOfTwoIsForgotten`: the same for a host with two addresses, as in `dialing`

In `DialInv` a node waits for an event or is in a job, never both, so no callback of an
event comes between the steps of a job of the same node. As long as a session is not
closed it was dialled again at most as often as `count` says, and a pending reconnection is
one that was counted and has not begun (`Counted`). Without reconnection a node on the list
of the work thread, or about to be put there, was not destroyed in this session (`Kept`),
so that `destroyConnectNode` does not come a second time, which is when it deletes.
`Forgets` is about the cache: once a node has used up its attempts on a dead address, the
cache of its thread holds no dead address, and a session launched after that dials none
and does not fail for it. With a second address that dies later the cache may fill with
that one, and it costs a second session; hence the hypothesis.

`Frames_proofs` proves, for any streams of the gateway, sizes of headers and payloads,
codes, retries and numbers of connections (`FramesAssumption`: a header has two bytes at
least, nothing follows a CLOSE), in which a pong has the shortest header and no payload
(`PongsAreBare`):

- `FramesInvariant`: the inductive invariant
- `FramesTypesOK`: `Spec => []FramesTypeOK`
- `FramesComeInOrder`: `Spec => []FramesInOrder`

The order of the events says nothing of how it comes about; the invariant says where the
decoder is. `Cuts` is the list of places where the frames of a stream begin, and as long as
no connection was torn the buffer begins at one of them (`AtCut`), holds the bytes of the
stream from there to what was read, a header that was decoded is that of this frame, and the
events are the frames with content before it (`EventsAre`). `Untorn` adds what a connection
leaves to the next: an empty buffer and a decoder at rest. `PongsAreBare` is needed, since
`decodeFrameBodyWebSocketFrame` drains the header of a pong and never its payload
(section 5). That the stream is what `Cuts` says of it takes an induction over the parts of
a `FlattenSeq`, which this module, and `Delivery_proofs` for its promises, proves from the
least counterexample (`SetInduction`, by `WFMin`): the induction is over a set, not over an
operator.

`Delivery_proofs` proves, for any requests, messages and setups in which a feature has one
event thread (`OneThreadPerFeature`, the default of `INlsClient.cs:87`):

- `EventsAreTheirOwn`: `Spec => []EventIsOwn`
- `DeliveryIsTyped`: `Spec => []DeliveryTypeOK`

The struct a feature shares is empty or holds the event of the one callback that is about
to fetch it, since the copy and the fetch are two steps of one thread. Typing needs that the
tables of protocols, listeners and exports fit together: each event a conversion can
make has a callback in the listener of its feature. With more threads the property fails
(section 5).

For setups in which, besides, `setEnableOnMessage` is used only where there is no audio
(`MessagesWithoutAudio`) and no round is started inside of the last callback of the one
before (`~Hasty`); without either TLC refutes what the demos or the listeners promise
(section 5), and `delivery` satisfies all three:

- `RoundsProgress`: the inductive invariant
- `CallbacksAreAsMeant`: `Spec => []CallbacksAreMeant`

The invariant is an account. `done` is what the event thread has taken of the messages of a
round, the rest is on the wire. The callbacks made, and those the thread is about to make
(`OwedCall`, the one in hand, and `OwedClose` after it), are the ones promised for `done`
(`Calls`); every step moves one of them from the one side to the other, or takes a message
and adds its promise. `Means` is the table that makes this right: a message becomes the
event of the callback it is meant for, and that event sets `closeFlag` exactly where the
message ends the round. The account must not go on after the end of a round, which is what
`Sends` and `Does` say: until a round is Closed nothing follows its end on the wire, a
round whose end was taken is Closed or about to be, and what a kept connection may still
bring is a failure, which `ignoreCallbackWhenNodeClosedWhenLongConnection` drops and which
promises nothing. `DueNext`, `DueOver` and `DueExtends` are what that needs of `Round` and
`FlattenSeq`: one message more adds its promise, one after the end adds nothing, and more
messages never take a promise back.

`Session_proofs` proves, for any sizes, limits and faults (`SessionAssumption`):

- `OneStop`: `Spec => []StopIsSentOnce`
- `SessionIsTyped`: `Spec => []TypeOK`
- `CancelSilencesSoon`: `Spec => []OneLateCallback`, which has no standing run
- `ThreadsReportInOrder`: `Spec => ThreadCallbacksInOrder`, the refinement of `TaskEvents`
  by the log of each thread
- `CallbacksAreOrdered`: `Spec => CallbacksInOrder`, the refinement of `TaskEvents` by the
  log of all threads, under the hypotheses `LinkHolds` and `ServerKeepsOn`

`StopInv` counts the Stop that lies in the buffer with the one that was sent: there is at
most one of both, and none before `isStop`. Typing rests on `InboxInv`: the answer to the
upgrade is read before anything is parsed, so that every message that is parsed has a
callback. `LateInv` says that a callback is under way only at the head of a thread's
program, and that a thread that has made one after cancel comes to no other.

The refinement follows the event thread. Where it is in its program, together with the
messages it has yet to parse, must be a path of the session (`Path`) from what the user was
told (`Known`) to what the server did; `Tags`, `Lead` and `Table` tabulate the positions.
Users come to a send only when the link is up or Stop was built (`Reached`), so none of
them reports anything. After cancel only a callback whose check came before is made
(`Silenced`). `LinkHolds` says that sends do not block, that reading does not time out and
that the link does not break once it is up; `ServerKeepsOn` that the server does not fail
a task that was started. `session_orderly` satisfies both. Without them a user thread
reports a failure beside the event thread and the order is lost (section 5); what is
left then is the order within each thread, which `session_rough` checks and
`ThreadsReportInOrder` states for any constants.

That theorem gives every thread a stage of its own (`Stages`): `Knows` says what the thread
has told at a stage, `Goes` what one step of a program makes of it, and `Runs(k, q, l)` that
the program `q` leads from `k` to `l`, every step where it is allowed. `Course` says of the
event thread that its program runs from its stage, and that the messages in `inbox` lead on
from the end of the program to what the server has come to (`Serves`), as long as the
connection is in use and nothing in the program closes it (`Leaving`); that nothing more is
heard once the thread has told Close (`Off`); and that a node that connects again has told
nothing. `Caller` says it of a user's call. The threads share only what the node is done
with (`Past`), which is why no hypothesis about the others is needed. After cancel `LateInv`
leaves the callback that is under way, which is still its turn (`Due`). `LogInv` relates the
log of a thread to what it has told.

`Demos_proofs` proves, for any number of workers, setups and rounds (`DemosAssumption`), where
the troubles that `Breaks` lists for a program do not occur (`BreaksAreFatal`; each of them
is refuted when it is let in, see 5, and `demos` excludes exactly these):

- `DemosInvariant`: the inductive invariant
- `DemosTypesOK`: `Spec => []DemosTypeOK`
- `ParamStaysAlive`: `Spec => []ParamIsAlive`
- `RequestsAreReleasedOnce`: `Spec => []ReleasedOnce`
- `RequestsAreReleasedWhenDue`: `Spec => []ReleasesAreDue`

What a worker does next is written in its program, so the invariant says what is left of
it: `Fits(c, q, F)`, the instructions `q` can be run from the facts `F` known of the request
and of `cbParam` (`Facts`, `Meets`). `Fits` is the greatest set of such pairs that is closed
under the rules of an operation: what must be known before it (`Needs`), what is known
after it (`After`), when it may fail (`MayFail`) and what is known then (`Otherwise`).
`DemosStep` shows that workers, callbacks, timer and signals keep it, whatever the program.
That leaves the programs: a triple `Brings(c, F, q, G)` of facts, instructions and facts is
shown for each piece, those that programs share once, and the triples make up head, body
and tail. A loop needs no induction, since the facts at the beginning of a round and of the
tail are part of the context `c`. Facts are few, and some are known only where a trouble is
excluded: that a request takes what is sent (`open`) holds where neither a failure nor an
early end occurs. `Fits` ranges over sets of pairs and is not evaluated by TLC; the
four properties it implies are what `demos` checks.

Only model-checked: all liveness (`CallReturns`, `CallsReturn`, `DialEnds`, `RoundsClose`,
`StoppedSessionCloses`, `AudioIsSent`, `BrokenLinkIsReported`, `RunEnds`,
`NextReadDelivers`), since the proof
system has no rules for fairness and ENABLED; and `EntryIsAlive` and `HeldIsAlive` of the
pool, which have no standing run.

## 5. What does not hold

Two disagreements with what the repository says have a standing run (`frames_stuck`,
`session_frames`). The following were met too. Those of the first list are stated by a
definition of a module and TLC refutes it when the named cfg is changed as said:

| property | change | what happens |
|---|---|---|
| `CallbacksInOrder` | `session_orderly.cfg`, `ServerFails <- Always` | event thread and user thread both report TaskFailed (`connectNode.cpp:1470`) |
| `StoppedSessionCloses` | `session_orderly.cfg`, `Blocks = TRUE` | a Stop directive that did not fit is never sent |
| `StopIsAnswered` of `Session` | `session_orderly.cfg`, in place of its properties | stop before the launch event ends in silence |
| `SilentAfterCancel` | the same | a callback that is under way begins after cancel returned |
| `PopFindsIdle` | `pool_orderly.cfg` with `OtherParams`, `SymmetryOther` | a pop without a match loses the head of the index list |
| the same | `pool_orderly.cfg`, `Asr = TRUE` | the preconnected pop takes the head of the prestarted list |
| `PickableIsIdle` | `pool_orderly.cfg`, `CancelRelease = TRUE` | a connection is offered on which the server still works for a request that was released |
| `DeletedOnceAndLast` | `pool_orderly.cfg`, `LateRelease = TRUE` | the sweep has picked an entry whose owner is then released, and deletes it a second time |
| the same | `pool_orderly.cfg`, `PingFails = TRUE` | the same, while a request that just ended waits for its release |
| the same | `pool_orderly.cfg`, `TornClear = TRUE` | the rest of `clearNode` wipes the borrower of a connection stored meanwhile, and the sweep deletes it in use |
| `ReleaseMakesIdle` | `pool_orderly.cfg`, in place of its properties | `finishPushPreNode` starts at a stale index |
| `NothingLeaks` | the same | an owner is dropped when the prestarted vector is full |
| `FramesTypeOK` | `MC_Frames`, `F("pong", 2, 1)` in `MCPlans` | the payload of a pong is not drained and is taken for a header (`webSocketTcp.cpp:499`) |
| `EventIsOwn` | `delivery.cfg`, `Threads = {t1, t2}`, `ThreadOf <- TwoThreads`, `Setups <- Sharing` | with the several event threads `nlsCsharpSdkDemo.cs:298` recommends, requests of a feature read each other's events |
| `AudioHasItsCallback` | `delivery.cfg`, `Setups <- Messages` | `setEnableOnMessage` turns audio into a Message with empty text (`flowingSynthesizerDemo.cpp:859` says `OnBinaryDataRecved` stays) |
| `CallsAreAnswered`, without its condition | `calls.cfg`, `troubles = {"wakeup"}` | a wait that wakes with no cause is a Success without an answer |
| `RoundsDoNotOverlap`, without its condition | `calls.cfg`, `troubles = {"send"}` | the thread whose send failed and the event thread both tell the end; the session starts anew between the two |
| the same | `calls.cfg`, `troubles = {"idle"}` | the session starts anew before a failure of the kept connection is told, which is then one of the new session |
| `CallsReturn`, without its condition | `calls.cfg`, `troubles = {"send", "callback"}` | a callback of a send that failed calls the client, whose mutex its own thread holds (`nlsEventNetWork.cpp:609`, `:720`, `:769`); `dialogAssistantDemo.cpp:476` asks for no stop or release in callbacks |
| `StopReturnsAfterClose` | `calls.cfg` | a synchronous stop is signalled (`connectNode.cpp:2605`) before Close is called back (`:2610`) and may return before or inside of it, where `nlsClient.h:250-252` says after |
| `PointersAreAlive`, without its condition | `lifecycle.cfg`, `troubles = {"kept"}` | the read callback of a long connection goes on with a node that was released after Close |
| the same | `lifecycle.cfg`, `troubles = {"wakeup"}` | a release goes on while the callback that made Close is inside |
| `CallbacksHaveLeft` | `lifecycle.cfg`, `troubles = {"kept"}` | what it rests on: the read callback is past `checkNodeExist` (`workThread.cpp:616`) and has not set its flag (`:622`), so `delAllEvents`, which says that it waits until all callbacks have left (`connectNode.cpp:3824`), does not see it |
| `RegistryInUse`, without its condition | `lifecycle.cfg`, `troubles = {"wakeup"}` | the callback that is still inside changes entries of what was deleted |
| `RegistryInUse` and `ReleaseFrees`, without their conditions; `OnlyCallsDelete` | `lifecycle.cfg`, `troubles = {"kept", "hasty"}` | a request started again inside of Close is marked by the old launch's `destroyConnectNode`; when the new launch fails the event thread deletes it (`workThread.cpp:276`), although `initAllStatus` says that a round of a long connection initialises and does not release (`connectNode.cpp:393`) |
| `CallbacksAreMeant` | `delivery.cfg`, `Hasty = TRUE` | a start inside of the last callback makes a late failure one of the new round |

Troubles of the programs, each excluded by a line of `Breaks` in `Demos` and refuted
when that line is taken out:

- short forms of `st`, `sr`, `sy`, `fss`: no address from vipServer leaves the loop without
  a release;
- short and single forms of `fss` and `cosy`: an expired wait leaves the loop without a
  release, and callbacks may find the stack of a thread that is gone;
- long forms of `fss` and `cosy`: a refused text releases the request in the loop and
  again after it; a failed task or an early end make the text refused;
- `da` on all platforms: a refused start leaves the request behind;
- long transcribers with `--loopAudioFile`: the loop of sends never looks at `global_run`
  (`MC_Demos` leaves that command line out of `Calls`).

Seen while translating, in the models as they are but without a property of their own:

- Dialing: `directConnect` tries the same dead address again although
  `connectNode.cpp:3448` logs that the cache was cleared; a reconnection whose dial fails
  is silent; stop and cancel are refused in the 100 ms before a reconnection;
  `reconnected_count` is not reset by Started; a second `destroyConnectNode` deletes a
  request its user still has (`workThread.cpp:276`, kept from happening as long as a node
  is not dialled again, hence `~continued` in `UserHasRequest`).
- Frames: PING is never drained; a frame of header only waits for bytes behind it;
  `closeConnectNode` neither empties `_readEvBuffer` nor resets the decoder; `_httpCode` and
  `_httpLength` are never reset, so a new connection is judged by the first answer; a
  continuation fails the task; a CLOSE frame reads two bytes too many.
- Delivery: listeners give types they do not know to TaskFailed while the session goes
  on; the started event of a synthesizer is made up at the handshake, so later rounds of
  a long connection have none; the entry point of `SetOnSentenceSemantics` is not exported.
- SyncCalls: a start that the server refuses returns Success (section 2); with
  `_enableOnMessage` a synchronous start always
  times out; `_nodeErrCode` is never reset, which is what keeps a late Started from
  answering a stop; a start that is refused leaves the node Created, also one that is in a
  session (`refused`).
- Lifecycle: a release while a session runs lets a callback that is past
  `checkNodeExist` use the deleted node, and `destroyConnectNode` writes to a node it has
  deleted; `~WorkThread` deletes by force under `_mtxList`, which the destructor of the node
  takes again and waits for itself (`CallReturns` leaves deletions by force out: `listBy`);
  DialogAssistant's release cancels without looking at NodeClosed.
- Demos: Started that comes before the wait is lost and a good session is given up;
  Close of a start that failed passes for Started; in long forms Close signals before the
  node is NodeClosed, so the next start may come too soon and is refused; a round that
  is given up does not count for `--loop`; `da` sends nothing, its file is at its end; an
  onMessage callback returns before it signals, since `parseJsonMsg` parses an empty event
  (`nlsEvent.h:126` says it parses this one).

Where a model differs from the code in detail:

- Session: `handlerEvent` drops an event for a node that is Closed
  (`connectNode.cpp:2730`), which `Event` does not look at, so the model may make callbacks
  the code does not; a `nodeRequestProcess` that fails right after the connection is up
  is left out of `Connected`; the code disconnects and dials again.
- ConnectedPool: `Destroy` waits for the timer thread; `~ConnectedPool` waits at most 50
  times 1 ms (`connectedPool.cpp:111-114`) and deletes whether the thread is over or not.
- Delivery: a `result-generated` of Fun-ASR without `output.sentence`
  (`nlsEventInner.cpp:482`) and one of CosyVoice that only has a usage (`:751`) are not
  among the messages of the services.

## 6. Not modelled, and what comes next

Not modelled: encoders, JSON text, logging, the strings of parameters, tokens and file
transcription (pure conversion or blocking I/O), vipServer (closed), the Windows variants
of locks and events. `MUTEX_TRY_LOCK` is taken as a lock except in the guard of the
release; that others give up after two seconds is a listed hazard. Of the SSL layer only
its outcomes are there (blocks, fails, wants more). Of the features the parts that
decide about calls and callbacks are modelled, not what a directive contains. The C#
programs and the demos of token and file transcription, which are one call each, are not
modelled; neither are the statistics that fill the rest of the demos, their pacing and
their synchronous mode. The second half of each demo's main (logging, printing, the
client's release) does not meet the threads.

Next:

1. Proofs of the pool's `EntryIsAlive` and `HeldIsAlive` without the switches that break them.
2. `Session` on pooled connections: `Session` and `ConnectedPool` composed at `start`, at
   the `closeFlag` block of `parseFrame` and at release.
3. Reconnection as a refinement of `TaskEvents`: suppressed callbacks and replay.
