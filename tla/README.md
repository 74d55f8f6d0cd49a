# A verification of gboost_rpc

gboost_rpc is a C++ implementation of protobuf RPC on boost::asio. This
directory holds TLA+ modules that model it, TLC configurations that
model-check them on small instances, and TLAPS proofs of theorems that hold for
every value of the constants. Paths below are relative to `src/rpc/detail`
unless they start with `src/`.

## The system

A *client* (`rpc_client_impl`) owns one channel and one dispatcher. The
application calls `CallMethod` from any thread; it posts `SendInLoop` to the
dispatcher's loop. In the loop the *session manager* (`client_session`) numbers
the call and keeps its request, response and closure; the *channel*
(`client_rpc_channel`, `rpc_channel`) queues the request in `pending_` and
writes one request at a time. Bytes that are read are cut into messages by
`rpc_data`; a response is matched to its session by its number, the response
message is parsed and the closure runs. With `auto_reconnect` a lost connection
is replaced for as long as it takes, and every open session is sent again.

A *dispatcher* (`network_dispatcher`) is an `io_service` and the thread that
runs it. All handlers of a channel run there. A *server* (`rpc_server_impl`)
has several dispatchers, accepts connections in the first, and gives each
channel (`server_rpc_channel`) to one of them in turn.

| part | sources | modelled by |
|---|---|---|
| client channel and sessions | `client_rpc_channel`, `rpc_channel`, `client_session`, `rpc_client_impl` | `ClientChannel` |
| message framing | `rpc_data`, `rpc_channel.cc` | `FrameReader` |
| client lifecycle | `rpc_client_impl`, `network_dispatcher`, `src/rpc/sem_event.h` | `ClientLifecycle` |
| dispatcher | `network_dispatcher` | `ClientLifecycle` (two threads, one dispatcher), `ServerLifecycle` (several), `ServerChannel` (the pool) |
| server | `rpc_server_impl` | `ServerLifecycle`, `ServerChannel`; as one step in `ClientChannel` |
| server channel, channel pool | `server_rpc_channel`, `rpc_channel`, `network_dispatcher.cc` | `ServerChannel` |
| reference counts | `ref_count.h` | `ServerChannel` (one loop, and a service's own thread), `RefCount` (two loops) |
| events | `src/rpc/sync_event.h`, `sem_event.h`, `atomic_event.h` | `Events`, `EventContract` |
| callbacks | `src/rpc/callback.h` | not modelled |
| identifiers | `helper.h`, `city` | `CityHash`: what is read of a name; `RPCMetaData`, `ServerChannel`: how it is used |
| wire format | `protocol/rpc.proto`, `rpc.pb` | `RPCMetaData` |
| interfaces, logging | `src/rpc/*.h`, `util.h`, `trivial.cc` | no state |

`PROJECT.json` maps each definition to the lines it models and lists the
hazards: what can go wrong in this code that a test would hardly reach.

## The modules

### ClientChannel

The client after `Connect` has returned true. One action is one handler of the
loop thread (`RunSend`, `RunWritten`, `RunRead`, `RunConnected`,
`RunTerminate`), a call from an application thread (`CallMethod`, `Destroy`),
or a step of the environment. `ready` is the queue of handlers that the
`io_service` is to run, first in first out. `ops` is the set of asynchronous
operations in progress. A response is a `head` (size word and meta data) and a
`body`; the loop of `ReadInLoop` is one action per part (`ReadHead`,
`ReadBody`, ...) and no handler runs between two of them. A closure may make
another call, which then runs `SendInLoop` inside `ReceivePackage`, since
`io_service::dispatch` on the loop thread runs its handler at once.

The environment completes operations in any order (`CompleteRead`,
`CompleteWrite`, `ConnectSucceeds`, `ConnectFails`), breaks connections
(`Break`), and answers requests in order (`Serve`). How a connection may break
is a constant, `Faults`:

* nothing: a reset, and what has arrived ends between two responses;
* `torn`: a response may be cut in two;
* `halfclose`: a write may be reported as successful on a connection the peer
  has closed;
* `split`: a read may end inside the meta data of a response.

Undefined behaviour is a choice: a handler that reads an RPCData that was
deleted either finds what was left there or ends the process (`TouchFreed`);
two writes in progress on one socket may mix their bytes.

Assumptions: the server registers the services that are called and can parse
the requests; a response has a payload; a write is reported as complete before
the response to it is read (both completions pass through one reactor, and the
response takes a round trip). Only mixed requests are dropped by the server.

### RPCContract and ClientContract

`RPCContract` says what an application may rely on: a call is executed after
it was made, more than once only if the client reconnects; its closure runs at
most once and after the server has executed the call. `ClientContract` maps the
state of `ClientChannel` to it; `KeepsContract` is the refinement.

### FrameReader

`RPCData::AppendBinaries`, `Partial` and the loop of `ReadInLoop`, for streams
of frames and reads of every length. A byte is named by its place in the
stream, so that "what was delivered is what was sent" can be said. `aborted` is
the line of the CHECK that failed, in `rpc_data.cc` or (86 and 91) in
`rpc_channel.cc`. After a buffer that was dropped inside a frame the behaviour
ends (`InStep`): what is read next depends on the values of bytes, which are
not modelled. `ClientChannel` takes the reader's result for granted when
nothing is torn, and allows every outcome when something is (`ReadMisfit`).

### ClientLifecycle

`CreateRPCClient`, `Connect`, `NetworkDispatcher::Loop` and `RunOnce`, and the
destructor with `Stop`, statement by statement for the two threads. They share
`need_stop_` and `keep_working_` without a lock; `LateStore` is the store to
`keep_working_` that the other thread sees after the load of `need_stop_`. The
connecting timers are local to blocks that end before `RunOnce`: their waits
are cancelled at once, and `Connected` cancels a timer that is gone, which does
nothing or ends the process.

### ServerChannel

One dispatcher of a server with its channels, after `AddService` and `Run`. A
channel is a record: its count, the handler that is to start it, the read and
the writes in progress, `pending_`, `closed_by_peer_`, `terminated_`. One action
is one handler of the loop (`StartChannelInLoop`, `ReadInLoop`, `ReadFails`,
`Written`, `CloseAllChannelsInLoop`); `CallMethod`, `SendResponse` and
`ReleaseChannel` are part of those that call them. A read hands over one
request; the bytes are `FrameReader`'s. `Endings` says how connections end: the
peer finishes sending and reads on, resets, or the dispatcher is stopped.

A service answers inside `CallMethod`, as those of the repository do, or, if it
is in `Deferring`, keeps its closure and runs it in a thread of its own.
`SendResponse` then runs in that thread with the channel's raw pointer, in four
steps with handlers of the loop between them: `RunClosure` queues the response,
`ClosureTests` looks at the first RPCData, `ClosureWrites` flags it and loads the
count, `ClosureRefs` stores the count and starts the write. If the loop has
changed the count between the last two (`counted`), its change is lost or the
thread's. The channel may then be deleted too early: who still has a pointer to it
(the thread, a handler, the pool) ends the process, and so does a thread whose
RPCData the loop has recycled. That the deque itself stays intact when two threads
change it is assumed. `fault` is what ended the process.

`Strangers` are services that peers may ask for although nobody has added them;
`ServiceId` may give two names one identifier. A request carries the identifier
only, so one for a stranger may be answered by the service it collides with:
`Answers` asks for the service that was named if that was added, and for one with
its identifier otherwise. `Asked(S)` are the connections that have asked a service
whose identifier is that of one of `S`. Requests name methods that the service
has. `MCServerChannel` gives the constants their values.

### ServerLifecycle

All dispatchers of a server with their queues and loops, the acceptor and the
wait for a signal on the first, and the application's thread: create, `Run` or
`RunInAnotherThread`, `Stop`, delete. Of a channel only its read in progress is
left. `io_service::run` returns when its queue is empty and nothing is in
progress, `InProgress`: a work object, an accept, the wait for a signal, a read.
`Post` from a loop to itself runs at once, otherwise it queues. `AsyncStop`
tells whether every loop had begun when the signal came: to one that had not,
the stop is lost, since it makes its work object afterwards. A channel that is
started after `CloseAllChannelsInLoop` is terminated by nobody and keeps its loop
until the peer closes (`StartedLate`).

### RefCount

One channel posted by the acceptor's loop to another. `Ref` and `UnRef` are a
load and a store of a plain integer; the two loops run the calls that
`Accepted`, `StartChannelInLoop` and a failed read make.

### Events and EventContract

`Events` is `Wait` and `Notify` of the three classes, `kind` saying which: the
mutex, condition variable and spurious wake-ups of `SyncEvent`, the load and the
weak swap of `AtomicEvent`, the semaphore. `EventContract` is what all of them
promise; `KeepsContract` is the refinement, with the threads that are not out of
`Wait` for `waiting`.

### RPCMetaData

The meta data from `SaveSession` to the server and back: tags, varints and has
bits as the generated code has them. Words have 9 and 16 bits for 32 and 64, so
that each needs several groups of seven, and a negative identifier the longest
varint. The parser is one action per field.

### CityHash

The offsets that `CityHash32`, `CityHash64` and `CityHash128` read, case by case
and chunk by chunk. What is computed from the bytes is left out.

In every module a definition that is not used, just before one with almost its
name, is the same step with a plausible mistake. Substituted for the real one it
must break the property `PROJECT.json` names with it.

## The runs

| run | instance | checks |
|---|---|---|
| `client_any_fault` | reconnect, every fault, 2 calls, 2 breaks | `DoneAtMostOnce`, `NoCallForgotten`, `SentOnThisConnection`, `OnceAConnection`, `SilentAfterTerminate` |
| `client_reset` | reconnect, resets only, 2 calls, 2 breaks | `NoDanglingData`, `WritesInOrder`, `NoCheckFails`, `OwnAnswer`, `KeepsContract`, `EveryCallDone`, `DestroyReturns` |
| `client_single_connection` | no reconnect, every fault, 3 calls, 1 break | `OwnAnswer`, `NoCheckFails`, `KeepsContract`, `DoneOrDisconnected` |
| `frame_reader` | every stream of 3 frames of 4 kinds, reads of 1 to 16 bytes | `DeliveredAsSent`, `OnlySplitMetaAborts`, `AllDelivered` |
| `client_lifecycle` | no bound needed | `NoHandlerAfterDestruction`, `ShutDownOrNeverRan`, `DestructorReturns` |
| `server_channel` | 2 connections, pool of 1, 2 requests each, every ending | `CountIsHolders`, `OneWriteInProgress`, `AnsweredInTheEnd`, `ClosedIsDeleted` |
| `server_services` | 1 connection, 3 requests, 3 services: 2 with one identifier, the third deferring; 2 that may be asked for unregistered | `AnswersInOrder`, `NoFault` |
| `server_lifecycle` | 2 dispatchers, 2 connections, both ways to run | `OneAccept`, `StopEndsLoops`, `AcceptedIsServed`, `SignalEndsLoops` |
| `events` | 3 threads, 5 notifications, all classes | `KeepsContract`, `NoLostWakeup` |
| `meta_data` | edges of the groups and of the words | `ParsedAsSent`, `SizeIsWritten`, `SizeTellsParsed`, `ServiceIdSurvives` |
| `city_hash` | lengths 0 to 400 | `InBounds`, `EveryByteRead` |

One run, `server_ref_count`, ends in a violation: CHECK_GE at `ref_count.h:28`
fails, since a count that is not atomic loses an update when two loops change
it.

### Configurations to run by hand

These are not among the runs of `PROJECT.json`. Each ends in a violation, of
something the repository itself says or, the last, of `SignalEndsLoops` without its
exception:

| configuration | module | what it shows |
|---|---|---|
| `client_half_close` | `MCClientChannel` | CHECK_EQ at `rpc_channel.cc:149` fails: a `Written` of the old socket runs after `Connected` has rebuilt `pending_` |
| `client_torn_response` | `MCClientChannel` | a closure gets a response that is not its own: `RebuildSocket` keeps `partial_message_` (compare the CHECK at `src/test/pingpong_client.cc:36`) |
| `frame_split_meta` | `MCFrameReader` | CHECK_LT at `rpc_data.cc:96` fails on the rest of meta data that came in two reads, which `src/unit.test/rpc_message_test.cc:93` expects to be handled |
| `frame_unknown_message` | `MCFrameReader` | the channel reads on after meta data that could not be parsed, although `rpc_data.cc:105` announces that it will be closed |
| `client_create_fails` | `ClientLifecycle` | `CreateRPCClient` does not return NULL when `Connect` fails: `Stop` waits for a thread that was not created |
| `server_unregistered` | `MCServerChannel` | `CallMethod` dereferences NULL before the test that is to log "unregistered" at `rpc_server_impl.cc:162` |
| `server_other_thread` | `MCServerChannel` | a CHECK of `Written` (`rpc_channel.cc:148-149`) fails when a service runs its closure outside the loop |
| `server_stop_hangs` | `ServerLifecycle` | `Stop` does not return unless a signal comes: the wait for it keeps the first loop |
| `server_run_returns` | `ServerLifecycle` | `Run` returns while another loop runs; `src/test/pingpong_server.cc` then deletes the server |
| `server_late_channel` | `ServerLifecycle` | after a signal a loop goes on for as long as a peer likes, since its channel was started after `CloseAllChannelsInLoop` |

This is why `NoCheckFails`, `OwnAnswer`, `NoDanglingData`, `WritesInOrder` and
`KeepsContract` are claimed for a client that reconnects only when connections
end by a reset between responses. `NoCheckFails` leaves out the CHECK on split
meta data, which is `FrameReader`'s, and `AllDelivered` the streams in which a read
has ended inside meta data (`MetaSplit`), after which `frame_split_meta` shows what
happens. Likewise `CountIsHolders`, `OneWriteInProgress` and `AnswersInOrder` of
`ServerChannel` are claimed for connections that ask services that answer in the
loop; counting in two threads is `RefCount`'s, and the finding of
`server_ref_count`. `NoFault` is checked where services do answer from a thread and
strangers are asked for: it says that nothing but these leads to a fault.
`StopEndsLoops` says nothing of the return of `Run`, and `SignalEndsLoops` nothing
of loops that had not begun or have started a channel late.

`TypeOK` of the modules that have one, `BytesAccountedFor` (`frame_reader`),
`PoolBounded` (`server_channel`), `LoopRunsWhileOpen` (`client_lifecycle`), `CallInOnePlace`
(`client_any_fault`) hold on the instances of the runs too; add them to a configuration to check them.

Deadlock is not checked: the systems may stop (all calls done, the client or the
server deleted, the process ended by a CHECK, the stream or the answer read). That
they stop in the right place is what the liveness properties say.

### Bounds

* `Calls`: two calls are enough for two requests in `pending_`, a call made by a
  closure, and a stale completion meeting another RPCData; `Size` gives them
  different sizes, so that the CHECK on sizes can tell them apart. Where nothing
  is sent again there are three, two of them of equal size.
* `MaxBreaks`: with two, a session is sent again, lost again and sent a third
  time, and a reconnection meets what the first left behind. The last
  connection does not break.
* `MaxFrames`, `Kinds`: three frames let one buffer hold the end of one, a whole
  one and the start of a third. The kinds are an empty message, one with a
  payload, one whose meta data can be split and one that cannot be parsed.
  `NumMetaSizeBytes` is 4 as in the code.
* `BufferSize` is 16, more than two of the shortest frames.
* `Threshold` 1 with two connections: the pool is full, refuses a channel, and
  has room again. `MaxRequests` 2: one response being written, one waiting. In
  `server_services`, with one connection, 3: and one request unread.
* `NumThreads` 2 with two connections: one channel goes to the acceptor's own
  dispatcher, one to another.
* `MaxNotify` 5 with three threads: more notifications than sleepers.
* `MaxLen` 400: CityHash128 runs several turns of its loop of 128 and meets every
  length of tail; the proofs have no bound.

### Fairness

The loop thread runs while it has something to run (weak fairness of
`LoopThread`): `io_service::run` does not return as long as there is work. The
kernel completes an operation that can be completed, and a connected server
answers (weak fairness). A connection attempt that is repeated for ever succeeds
some time: strong fairness of `ConnectSucceeds`, since the attempt is not in
progress while `Connected` runs; without it a client of a server that never
comes back waits for ever, as it should. Nobody has to break a connection, make a call
or destroy the client. In `ClientLifecycle` both threads run, the kernel ends an
attempt to connect, and a read of a socket that was shut down ends.

In `ServerChannel` the loop runs the handlers of every channel and the kernel
ends every write (weak fairness); no peer has to do anything. In
`ServerLifecycle` the application's thread and the loops run. Nobody has to
connect, close a connection, signal or call `Stop`. In `Events` a thread
that can take the lock, decrement the semaphore or load the counter does, and a
swap that is tried for ever succeeds some time (strong fairness of `Swap`, since
a weak swap may fail for no reason).

## The proofs

`ClientChannelProofs`, from `ConstantsAssumption` only (any set of calls, any
number of breaks, any faults):

* `TypeCorrect`: `TypeOK`. It is inductive. One lemma per action, on top of a
  lemma per shared step (`WriteInLoop`, `SendInLoop`, `ReceivePackage`,
  `SendPendingSessions`).
* `CallsInOnePlace`: `CallInOnePlace`, inductive with `TypeOK`. That a closure
  runs once is not inductive by itself: one has to know that a call that is done
  is neither posted nor has a session, that calls have one RPCData each, and
  that a call is posted once. Steps that neither post, nor number, nor release
  anything are one lemma (`Quiet`); `CallMethod`, `RunSend` and
  `ReceivePackage` are the others.
* `ClosureRunsOnce`: `DoneAtMostOnce`, from `CallsInOnePlace`.
* `NoClosureAfterTerminate`: `SilentAfterTerminate`, from the invariant that
  `ReadInLoop` of a terminated channel has no bytes in its hands
  (`NothingLeftToRead`).
* `CallsRemembered`: `NoCallForgotten`, inductive with the two above.
* `SessionsAreSent`: `SentOnThisConnection`. A
  request leaves `pending_` when its write has completed, so one has to know that
  an RPCData that is flagged `is_pending` was handed to the present connection
  and not to an earlier one (`FlaggedHere`); `SendPendingSessions` has to clear
  all flags of what it queues, and to queue every session (`InSeqOrderAll`).
* `ExecutedOncePerConnection`: `OnceAConnection`. Nothing in the state of the
  client or the server counts executions per connection. `OpenFor(c)` is the set
  of connections that can still have the server execute call `c`: the present one
  if it was not given the call's RPCData yet, and those on which the request is
  being written or waits to be read. The invariant is that executions and open
  connections together are no more than the connections there were
  (`ExecutedInv`; open connections are counted by a function on the numbers of
  the connections that grows at each open one, see `Room`). It needs that what the present connection was given stays
  flagged, so that `WriteInLoop` does not give it again (`FlagStays`), that a
  write in progress is of an RPCData its connection was given (`WritesGiven`),
  and that no connection carries a request twice, or one that is also being
  written (`WrittenOnce`). Steps on the present connection are one lemma
  (`Local`); the others are the completion of a write, the server's two steps and
  `Connected`, the only one that opens a connection. TLC has checked `OnceInv` and
  `SentInv` on the instance of `client_any_fault`.

Two more of its theorems are about what is read and assume `Sound`: no response
is torn (`"torn" \notin Faults`), or no connection is replaced (`~AutoReconnect`).
`client_torn_response` shows what happens otherwise: the new connection's first
bytes complete the old one's message.

* `AnswersAreOwn`: `OwnAnswer`. The value of the answer is decided when
  `ReadInLoop` takes the last part of a response, steps after the reads that
  brought the parts, so the invariant has to follow the bytes. `ReaderInv`: until
  the channel is terminated exactly one of a read, its handler, the loop of
  `ReadInLoop`, an attempt to connect and its handler is under way, and what
  `partial_message_` holds, what the handler holds and what is on the connection
  are, in this order, parts that continue each other (`Chain`), a torn response
  being the last thing on its connection. `Kept`: without `auto_reconnect` the
  first connection is the only one, so that nothing follows a torn response.
  `AnswerInv`: a response of which any part is still on its way is to a request
  that was numbered, and whose call the server has executed. `AnswersInv` is
  their conjunction with the invariants above and `OwnAnswer`.
* `ClientKeepsContract`: `KeepsContract`, the refinement of `RPCContract`. Every
  step is one of the contract's (`CallMethod`, an execution by `Serve`, a closure
  run by `ReceivePackage`) or changes nothing that the contract sees. That a call
  is executed a second time only with `auto_reconnect` comes from `OnceInv` and
  `Kept`, that a closure runs after the execution from `AnswersInv`.

`ClientChannelWrites`, which extends it, is about what is written and assumes
`Orderly`: no response is torn and no connection half closed, or no connection is
replaced. `client_half_close` shows what happens otherwise: a write of the old
socket succeeds, and its `Written` runs after `Connected` has queued all sessions
again. The invariant is `WritesInv`, inductive with `AnswersInv`:

* `LinkInv`: all that came on an earlier connection was read, and nothing more
  will come; the same of the present one while another is being made.
* `GivenInv`: a request that the present connection carries, or whose response is
  on its way, is of an RPCData that was handed to the present connection.
* `HandlersInv`: at most one handler of a successful write is to run; it runs
  before the handler of the next connection and before the one that is given a
  part of the response to what was written.
* `QueueInv`: the RPCDatas in `pending_` have sessions, each is there once, and
  exactly the first is flagged `is_pending`.
* `FrontInv`: the write in progress on the socket, or the successful one whose
  `Written` is to run, is of that first one, and there are not both.
* `HeldInv`: until that `Written` has run, no part of the response is in the
  hands of `ReadInLoop`.
* `AwaitInv`: an RPCData that was sent and is still in `pending_` has its
  `Written` to run.

The last two give what `ReceivePackage` counts on when it deletes an RPCData
without looking into `pending_`: the response is complete, so it is held, so no
`Written` of it is to run, so it is not in `pending_`. Every step is of one of
four kinds (`StepKinds`: it leaves the queue and its write alone, queues a request,
pops the first or queues all sessions again), and each conjunct has a lemma
for each kind. From `WritesInv`: `NothingDangles` (`NoDanglingData`),
`WrittenInOrder` (`WritesInOrder`) and `ChecksNeverFail` (`NoCheckFails`).

`ClientLifecycleProofs`, from no assumption: `Invariance` proves the inductive
invariant `Inv`. `ThreadInv` ties the semaphore, `need_stop_` and the places of
the two threads together; `WorkInv` says what has been posted and run at each
place. From it: `TypeCorrect`, `DestructionIsLast`
(`NoHandlerAfterDestruction`), `LoopStays` (`LoopRunsWhileOpen`) and
`OrderlyShutDown` (`ShutDownOrNeverRan`).

`ServerChannelProofs`, from `ServerAssumption` (any connections, requests,
services, identifiers, threshold). About the counts: `CountsAreRight`
(`CountIsHolders`) and `PoolWithinThreshold` (`PoolBounded`). `CountIsHolders`
does not survive a handler halfway: it takes its reference out of `starting`,
`reading` or `writes` first and drops the count last. `Owes(k, p, n)` says that
the count of `k` is ahead of its holders by `n`; one lemma for each of `Ref`,
`UnRef`, `StartToRead`, `HandOver` and `SendInLoop` says how it changes that, and
each handler goes from 0 to 1 and back. The invariant `Inv` adds that a connection
not made yet has no channel (`AwayInv`) and that the pool is finite (`PoolInv`).
What it says of counts it says of the connections on which no service with a
thread of its own was asked (`Calm`), since on the others updates may be lost. It
is not inductive alone: that such a thread touches no calm channel is part of
`FlowInv` (`KeptClosures`), and `Safe` proves the two together.

About what is written and answered: `ChecksHold` (`NoFault`), `WritesOneByOne`
(`OneWriteInProgress`) and `AnsweredInOrder` (`AnswersInOrder`), all from
`FlowInv`, inductive with `Inv`. For every connection that has not asked a
service that keeps its closure, `FlowInv` says:

* `Sending`: there is at most one write, it is of the first RPCData of
  `pending_`, only that one is flagged, and when nothing is being written while
  something waits, the channel is terminated or its peer gone. This is what the
  CHECKs of `Written` rest on.
* `Order`: the answers the peer has and the RPCDatas in `pending_` are both
  increasing, are answers to requests that were read, by the right service
  (`Right`); those in `pending_` come after those the peer has, except that the
  first may just have been written (`Done`: the peer has the answer before
  `Written` pops it); and every request that was read and can be parsed is
  in one of the two. The last two hold while the peer is there: a peer that is
  gone gets nothing more, and the writes to it fail in the middle of the queue.
* `Queued`: the requests are numbered, and those not read yet are the last ones.

For all of them: a service is found under its identifier and nowhere else
(`PoolOfServices`; what makes `AddService` end the process on the second service
with an identifier is what makes `Right` hold), and closures are kept only for
connections that asked for it (`KeptClosures`), so that the service's thread
touches no other channel. The lemmas on `Sending`, `Order` and `Flow` are about
values of a channel record and of the sequences, one per operation; the lemmas on
the actions (`StartFlow`, `ReadInLoopFlow`, `WrittenFlow`, ...) put them together.

`ServerLifecycleProofs`, from `LifecycleAssumption`: `StopLeavesNoLoop`
(`StopEndsLoops`) and `OneAcceptOnItsWay` (`OneAccept`). Inductive with the
first: a value of `stopped_` comes from a loop that has ended, and the
dispatchers `Stop` has passed have ended; an ended loop stays so (`EndedStays`).
With the second (`AcceptInv`): no handler of another dispatcher is an accept, and
none is queued while one is in progress; a server that was not created has
neither.

`EventsProofs`, from no assumption on the threads: `EventsKeepContract`, the
refinement `KeepsContract`. It needs that a thread about to swap has loaded a
positive value, and that only a `SyncEvent` resets itself.

`FrameReaderProofs`, from `StreamAssumption` (any streams of frames, one behind
the other, any width of the size field, any size of the buffer): `MessagesAsSent`
(`DeliveredAsSent`), `ChecksButOneHold` (`OnlySplitMetaAborts`) and `NoByteLost`
(`BytesAccountedFor`), all from `ReaderInv`, which ties the three places at which
bytes are to each other:

* `LoopInv`: a read is in progress exactly when nothing is left of the buffer, and
  no more was received than was sent.
* `PlaceInv`: if there is a `partial_message_`, it holds exactly the bytes of one
  frame, which comes after all that were delivered (`Upcoming`), from its start up
  to the next byte `ReadInLoop` handles, and not all of them (`Holding`: some of
  the size field, of the meta data or of the payload). If there is none, the
  reader is at the end of what it delivered, or behind it once something was
  discarded, and the bytes in its hands begin with a frame. Without it nothing
  could be said of what a later read completes.

One lemma for each of `AppendPayload`, `AppendMeta` and `AppendBinaries` says what
it makes of the bytes it is given (`Outcome`: it needs more and holds all there
are, the message is complete, it cannot be parsed) or that it fails the one CHECK.
That frames do not overlap (`FramesInOrder`) goes through all frames of a stream:
it is proved from a least counterexample (`LeastIn`), with the well-ordering of
the naturals in the place of an induction.

`CityHashProofs`, from `MaxLenAssumption`: `ReadsInBounds` and `ReadsEveryByte`,
at any length. The loops are actions, so that no induction over data is needed:
the invariant says for each place what of the string has been read and how `s`
and `len` stand to its length.

Only model-checked: every liveness property, since the prover does not reason
about fairness and ENABLED; and all of `RPCMetaData` (`ParsedAsSent`,
`SizeIsWritten`, `SizeTellsParsed`, `ServiceIdSurvives`). These say what varints
of any length add up to: powers of 128 and of 2 with a variable exponent, and sums
over sets given by an operator, of which the provers know nothing and which have
no theorems to cite.

## Not modelled

* Client and server composed into one module, a `ServerChannel` in the place of
  `Serve`. It was not built: `client_reset` has 268,813 states and
  `server_channel` 111,203, and a product in which a reconnection and a second
  request still happen is not expected to be within TLC's reach. The two meet
  in the assumptions on `Serve`, which `AnswersInOrder` and `AnsweredInTheEnd`
  show of the server.
* What the hash functions compute, the CRC variants of CityHash (compiled only
  with SSE 4.2, used by nothing) and the seeded ones. That no two names collide
  is nothing a model could show; what happens when they do is in
  `server_services`.
* Generated code other than that of `RPCMetaData`'s fields: descriptors,
  reflection, unknown fields (both ends have the same `.proto`), `Swap`,
  serialization to a stream.
* Memory that is not freed: the request and meta data of a message the server
  cannot parse, the channels in the pool of a stopped dispatcher. The models say
  who holds a channel or a call's messages, not what every object owns.
* `SyncEvent::TimedWait`, `Semaphore::TimedWait` and `CancellableWait`
  (`src/rpc/callback.h`): nothing that is compiled uses them (the one example is
  a function commented out in `src/test/pingpong_client.cc:66-94`). Two things
  to know before using them: `sem_event.h:34` hands a duration to
  `sem_timedwait`, which takes a point of time, and so does not wait; and
  `sync_event.h:30` returns true for a spurious wake-up.
* `NewCallback`: a closure that calls its function and deletes itself. How often
  it is run is `DoneAtMostOnce`.
* A signal that interrupts `sem_wait`; what happens depends on handlers
  installed by the application.
* The time `Connect` takes: its timers never have an effect
  (`ClientLifecycle`).
* An early signal: when `AsyncStop` runs before a loop has begun, that loop does
  not end. The model has it (`stopped early`); `SignalEndsLoops` excludes it,
  and nothing in the repository says what should happen.
* `CHECK_GT(meta_size_, 0U)` on a size word of zero and method indices a service
  does not have: both ends of the models are the library's own.
* Tests, benchmarks and examples, except for what they expect of the library.
