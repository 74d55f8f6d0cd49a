-------------------------- MODULE ServerLifecycle --------------------------
(***************************************************************************)
(* The life of an RPCServerImpl: its dispatchers, each with an io_service  *)
(* and a loop, the acceptor and the signal set on the first of them, and   *)
(* the thread of the application, which creates the server, runs it in     *)
(* one of two ways, may stop it, and deletes it.                           *)
(*                                                                         *)
(* A handler posted from its own loop runs at once (io_service::dispatch), *)
(* any other is queued.  io_service::run returns when the queue is empty   *)
(* and nothing is in progress: no work object, no accept, no wait for a    *)
(* signal, no read.  Of a channel there is only the read it has in         *)
(* progress (ServerChannel has the rest).  ClientLifecycle has the         *)
(* accesses of two threads to one dispatcher step by step; here Stop of a  *)
(* dispatcher is one step up to its wait.                                  *)
(*                                                                         *)
(* A definition that is not used, just before one with almost its name, is *)
(* the same step with a plausible mistake: the properties tell them apart. *)
(***************************************************************************)
EXTENDS Integers, Sequences, FiniteSets

CONSTANTS
  NumThreads, \* num_threads: dispatchers are numbered from 0, as networkers_ is
  Conns,      \* connections that peers may make
  Ways        \* how the application runs it: "Run", "RunInAnotherThread"

ASSUME LifecycleAssumption == NumThreads \in Nat \ {0}

Networkers == 0 .. NumThreads - 1
None == -1

VARIABLES
  app,          \* where the application's thread is
  turn,         \* the dispatcher that Stop has come to
  loop,         \* where the loop of each dispatcher is
  keep_working, \* dispatchers that have a work object
  need_stop,    \* dispatchers told to stop
  stopped,      \* values of the semaphores stopped_
  queue,        \* the handlers each io_service has yet to run
  reading,      \* connections whose channel has a read in progress
  acceptor,     \* acceptor_ is open
  accepting,    \* dispatcher of the accept in progress, or None
  i_selected,   \* RPCServerImpl::i_selected_
  signal,       \* the wait for SIGINT or SIGTERM
  conn          \* what became of each connection

vars == <<app, turn, loop, keep_working, need_stop, stopped, queue, reading,
          acceptor, accepting, i_selected, signal, conn>>
acceptVars == <<acceptor, accepting, i_selected>>
stopVars == <<keep_working, need_stop, stopped>>

Init ==
  /\ app = "new" /\ turn = 0
  /\ loop = [d \in Networkers |-> "none"]
  /\ keep_working = {} /\ need_stop = {}
  /\ stopped = [d \in Networkers |-> 0]
  /\ queue = [d \in Networkers |-> <<>>]
  /\ reading = [d \in Networkers |-> {}]
  /\ acceptor = FALSE /\ accepting = None /\ i_selected = 0
  /\ signal = "ignored"
  /\ conn = [c \in Conns |-> "away"]

Put(q, d, h) == [q EXCEPT ![d] = Append(@, h)]
Aborted == [op |-> "Accepted", on |-> None, conn |-> None]
-----------------------------------------------------------------------------
(* CreateRPCServer.  A server whose Init fails is deleted again. *)

GetIdlestDispatcher == (i_selected + 1) % NumThreads

CreateRPCServer ==
  /\ app = "new"
  /\ \/ /\ app' = "created"
        /\ acceptor' = TRUE /\ signal' = "awaited"
        /\ accepting' = i_selected /\ i_selected' = GetIdlestDispatcher
     \/ /\ app' = "no server"
        /\ UNCHANGED <<acceptVars, signal>>
  /\ UNCHANGED <<turn, loop, stopVars, queue, reading, conn>>

\* Where Run and RunInAnotherThread create the threads of the loops.
RunOthers == {d \in Networkers : d > 1}

LoopInAnotherThread == {d \in Networkers : d >= 1}

Run ==
  /\ app = "created" /\ "Run" \in Ways
  /\ app' = "in Run"
  /\ loop' = [d \in Networkers |->
                IF d = 0 \/ d \in LoopInAnotherThread THEN "created"
                ELSE loop[d]]
  /\ UNCHANGED <<turn, stopVars, queue, reading, acceptVars, signal, conn>>

RunInAnotherThread ==
  /\ app = "created" /\ "RunInAnotherThread" \in Ways
  /\ app' = "free"
  /\ loop' = [d \in Networkers |-> "created"]
  /\ UNCHANGED <<turn, stopVars, queue, reading, acceptVars, signal, conn>>

\* Run returns with the loop of the first dispatcher, which is its own thread.
RunReturnsToApp ==
  /\ app = "in Run" /\ loop[0] = "ended"
  /\ app' = "returned"
  /\ UNCHANGED <<turn, loop, stopVars, queue, reading, acceptVars, signal, conn>>

Stop ==
  /\ app = "free"
  /\ app' = "stopping" /\ turn' = 0
  /\ queue' = Put(queue, 0, [op |-> "CloseAcceptor"])
  /\ UNCHANGED <<loop, stopVars, reading, acceptVars, signal, conn>>

StopDispatcher ==
  /\ app = "stopping"
  /\ app' = "waiting"
  /\ need_stop' = need_stop \cup {turn}
  /\ keep_working' = keep_working \ {turn}
  /\ queue' = Put(queue, turn, [op |-> "CloseAllChannels"])
  /\ UNCHANGED <<turn, loop, stopped, reading, acceptVars, signal, conn>>

WaitFirstOnly ==
  /\ app = "waiting" /\ stopped[turn] > 0
  /\ stopped' = [stopped EXCEPT ![turn] = @ - 1]
  /\ app' = "stopped" /\ turn' = turn
  /\ UNCHANGED <<loop, keep_working, need_stop, queue, reading, acceptVars,
                 signal, conn>>

Wait ==
  /\ app = "waiting" /\ stopped[turn] > 0
  /\ stopped' = [stopped EXCEPT ![turn] = @ - 1]
  /\ IF turn + 1 \in Networkers THEN app' = "stopping" /\ turn' = turn + 1
     ELSE app' = "stopped" /\ turn' = turn
  /\ UNCHANGED <<loop, keep_working, need_stop, queue, reading, acceptVars,
                 signal, conn>>

Delete ==
  /\ app \in {"returned", "stopped"}
  /\ app' = "deleted"
  /\ UNCHANGED <<turn, loop, stopVars, queue, reading, acceptVars, signal, conn>>
-----------------------------------------------------------------------------
(* NetworkDispatcher::Loop. *)

Loop(d) ==
  /\ loop[d] = "created"
  /\ loop' = [loop EXCEPT ![d] = "working"]
  /\ keep_working' = keep_working \cup {d}
  /\ UNCHANGED <<app, turn, need_stop, stopped, queue, reading, acceptVars,
                 signal, conn>>

RunOnce(d) ==
  /\ loop[d] = "working"
  /\ loop' = [loop EXCEPT ![d] = IF d \in need_stop THEN "returned"
                                 ELSE "running"]
  /\ UNCHANGED <<app, turn, stopVars, queue, reading, acceptVars, signal, conn>>

InProgress(d) ==
  \/ d \in keep_working \/ reading[d] # {}
  \/ d = 0 /\ (accepting # None \/ signal = "awaited")

RunReturns(d) ==
  /\ loop[d] = "running" /\ queue[d] = <<>> /\ ~InProgress(d)
  /\ loop' = [loop EXCEPT ![d] = "returned"]
  /\ UNCHANGED <<app, turn, stopVars, queue, reading, acceptVars, signal, conn>>

Notify(d) ==
  /\ loop[d] = "returned"
  /\ loop' = [loop EXCEPT ![d] = "ended"]
  /\ stopped' = [stopped EXCEPT ![d] = @ + 1]
  /\ UNCHANGED <<app, turn, keep_working, need_stop, queue, reading, acceptVars,
                 signal, conn>>
-----------------------------------------------------------------------------
(* The handlers.  q is the queue without the handler that runs. *)

\* A closed acceptor fails the accept at once.
StartToAccept(q) ==
  /\ i_selected' = GetIdlestDispatcher
  /\ IF acceptor THEN accepting' = i_selected /\ queue' = q
     ELSE accepting' = None /\ queue' = Put(q, 0, Aborted)

\* The channel is started at once on the acceptor's own dispatcher, and posted
\* to any other.
StartChannel(h, q) ==
  IF h.on = 0
  THEN /\ reading' = [reading EXCEPT ![0] = @ \cup {h.conn}]
       /\ conn' = [conn EXCEPT ![h.conn] = "served"]
       /\ StartToAccept(q)
  ELSE /\ UNCHANGED <<reading, conn>>
       /\ StartToAccept(Put(q, h.on, [op |-> "StartChannel", conn |-> h.conn]))

AcceptedOrGiveUp(h, q) ==
  /\ IF h.conn # None THEN StartChannel(h, q)
     ELSE queue' = q /\ UNCHANGED <<reading, conn, accepting, i_selected>>
  /\ UNCHANGED <<acceptor, stopVars, signal>>

Accepted(h, q) ==
  /\ IF h.conn # None THEN StartChannel(h, q)
     ELSE /\ UNCHANGED <<reading, conn>>
          /\ IF acceptor THEN StartToAccept(q)
             ELSE queue' = q /\ UNCHANGED <<accepting, i_selected>>
  /\ UNCHANGED <<acceptor, stopVars, signal>>

StartChannelInLoop(d, h, q) ==
  /\ reading' = [reading EXCEPT ![d] = @ \cup {h.conn}]
  /\ conn' = [conn EXCEPT ![h.conn] = "served"]
  /\ queue' = q
  /\ UNCHANGED <<acceptVars, stopVars, signal>>

\* Closing the acceptor aborts the accept in progress.
CloseAcceptor(q) ==
  /\ acceptor' = FALSE /\ accepting' = None /\ i_selected' = i_selected
  /\ queue' = IF accepting # None THEN Put(q, 0, Aborted) ELSE q

\* The reads of terminated channels end, in handlers that do nothing.
CloseAllChannelsInLoop(d, q) ==
  /\ reading' = [reading EXCEPT ![d] = {}]
  /\ queue' = q
  /\ UNCHANGED <<acceptVars, stopVars, signal, conn>>

AsyncStopFirst(q) ==
  /\ CloseAcceptor(q)
  /\ reading' = [reading EXCEPT ![0] = {}]
  /\ keep_working' = keep_working \ {0}
  /\ signal' = IF \A d \in Networkers : loop[d] \notin {"none", "created"}
               THEN "stopped all" ELSE "stopped early"
  /\ UNCHANGED <<need_stop, stopped, conn>>

AsyncStop(q) ==
  /\ CloseAcceptor([d \in Networkers |->
       IF d = 0 THEN q[0] ELSE Append(q[d], [op |-> "CloseAllChannels"])])
  /\ reading' = [reading EXCEPT ![0] = {}]
  /\ keep_working' = {}
  /\ signal' = IF \A d \in Networkers : loop[d] \notin {"none", "created"}
               THEN "stopped all" ELSE "stopped early"
  /\ UNCHANGED <<need_stop, stopped, conn>>

ReleaseChannel(d, h, q) ==
  /\ reading' = [reading EXCEPT ![d] = @ \ {h.conn}]
  /\ conn' = [conn EXCEPT ![h.conn] = "closed"]
  /\ queue' = q
  /\ UNCHANGED <<acceptVars, stopVars, signal>>

RunHandler(d) ==
  LET h == Head(queue[d])
      q == [queue EXCEPT ![d] = Tail(@)]
  IN  /\ loop[d] = "running" /\ queue[d] # <<>>
      /\ \/ h.op = "Accepted" /\ Accepted(h, q)
         \/ h.op = "StartChannel" /\ StartChannelInLoop(d, h, q)
         \/ /\ h.op = "CloseAcceptor" /\ CloseAcceptor(q)
            /\ UNCHANGED <<reading, stopVars, signal, conn>>
         \/ h.op = "CloseAllChannels" /\ CloseAllChannelsInLoop(d, q)
         \/ h.op = "AsyncStop" /\ AsyncStop(q)
         \/ h.op = "ReadFails" /\ ReleaseChannel(d, h, q)
      /\ UNCHANGED <<app, turn, loop>>
-----------------------------------------------------------------------------
(* The kernel and the peers. *)

Exists == app \notin {"new", "no server", "deleted"}

AcceptEnds(h) ==
  /\ Exists /\ accepting # None
  /\ accepting' = None
  /\ queue' = Put(queue, 0, h)
  /\ UNCHANGED <<app, turn, loop, stopVars, reading, acceptor, i_selected, signal>>

Connect(c) ==
  /\ conn[c] = "away"
  /\ conn' = [conn EXCEPT ![c] = "accepted"]
  /\ AcceptEnds([op |-> "Accepted", on |-> accepting, conn |-> c])

AcceptFails == AcceptEnds(Aborted) /\ UNCHANGED conn

SignalArrives ==
  /\ Exists /\ signal = "awaited"
  /\ signal' = "taken"
  /\ queue' = Put(queue, 0, [op |-> "AsyncStop"])
  /\ UNCHANGED <<app, turn, loop, stopVars, reading, acceptVars, conn>>

PeerCloses(d, c) ==
  /\ c \in reading[d]
  /\ reading' = [reading EXCEPT ![d] = @ \ {c}]
  /\ queue' = Put(queue, d, [op |-> "ReadFails", conn |-> c])
  /\ UNCHANGED <<app, turn, loop, stopVars, acceptVars, signal, conn>>
-----------------------------------------------------------------------------
AppStep == Run \/ RunInAnotherThread \/ RunReturnsToApp \/ StopDispatcher
           \/ Wait \/ Delete
LoopStep(d) == Loop(d) \/ RunOnce(d) \/ RunHandler(d) \/ RunReturns(d)
               \/ Notify(d)

Next ==
  \/ CreateRPCServer \/ AppStep \/ Stop
  \/ \E d \in Networkers : LoopStep(d) \/ \E c \in Conns : PeerCloses(d, c)
  \/ \E c \in Conns : Connect(c)
  \/ AcceptFails \/ SignalArrives

Spec == Init /\ [][Next]_vars

\* Threads and loops go on.  Peers need not do anything: a connection may stay
\* open, and idle, for ever.
FairSpec ==
  Spec /\ WF_vars(AppStep) /\ \A d \in Networkers : WF_vars(LoopStep(d))
-----------------------------------------------------------------------------
Handler ==
  [op : {"CloseAcceptor", "CloseAllChannels", "AsyncStop"}]
  \cup [op : {"StartChannel", "ReadFails"}, conn : Conns]
  \cup [op : {"Accepted"}, on : Networkers, conn : Conns] \cup {Aborted}

TypeOK ==
  /\ app \in {"new", "no server", "created", "in Run", "free", "stopping",
              "waiting", "stopped", "returned", "deleted"}
  /\ turn \in Networkers
  /\ loop \in [Networkers -> {"none", "created", "working", "running",
                              "returned", "ended"}]
  /\ keep_working \subseteq Networkers /\ need_stop \subseteq Networkers
  /\ stopped \in [Networkers -> {0, 1}]
  /\ queue \in [Networkers -> Seq(Handler)]
  /\ reading \in [Networkers -> SUBSET Conns]
  /\ acceptor \in BOOLEAN
  /\ accepting \in Networkers \cup {None}
  /\ i_selected \in Networkers
  /\ signal \in {"ignored", "awaited", "taken", "stopped all", "stopped early"}
  /\ conn \in [Conns -> {"away", "accepted", "served", "closed"}]

AcceptsQueued ==
  {i \in DOMAIN queue[0] : queue[0][i].op = "Accepted"}

\* StartToAccept and Accepted: new_socket_ is one socket, so never two accepts
\* are on their way; and while the acceptor is open there always is one, in
\* progress or about to be handled: the server does not stop listening after a
\* failed accept.
OneAccept ==
  LET n == Cardinality(AcceptsQueued) + (IF accepting = None THEN 0 ELSE 1)
  IN  n <= 1 /\ (acceptor => n = 1)

\* RPCServerImpl::Stop: when it has returned, and the server may be deleted, the
\* loop of every dispatcher has ended.
StopEndsLoops ==
  app = "stopped" => \A d \in Networkers : loop[d] = "ended"

\* Accepted and StartChannel: a connection that was accepted gets its channel
\* in the end, on whichever dispatcher it was put, unless the server is stopped.
AcceptedIsServed ==
  \A c \in Conns :
    conn[c] = "accepted" /\ app # "created"
      ~> conn[c] # "accepted" \/ need_stop # {}
         \/ signal \in {"taken", "stopped all", "stopped early"}

\* A channel was started on d after CloseAllChannelsInLoop, and its peer is still
\* connected: nothing will terminate it.
StartedLate(d) ==
  /\ reading[d] # {}
  /\ \A i \in DOMAIN queue[d] : queue[d][i].op # "CloseAllChannels"

\* AsyncStop, whatever the peers do.  A channel there is when the signal comes
\* is terminated.  If every loop has made its work object by then, each ends,
\* except that one which starts a channel after CloseAllChannelsInLoop goes on
\* for as long as that peer stays.
SignalEndsLoops ==
  \A d \in Networkers :
    /\ \A c \in Conns : signal = "taken" /\ c \in reading[d] ~> c \notin reading[d]
    /\ signal = "stopped all" ~> loop[d] = "ended" \/ StartedLate(d)

\* AsyncStop, without that exception: every loop ends.
SignalEndsAllLoops ==
  signal = "stopped all" ~> \A d \in Networkers : loop[d] = "ended"

\* rpc_server.h:18: Stop stops the server and returns.
StopReturns == app = "stopping" ~> app \in {"stopped", "deleted"}

\* test/pingpong_server.cc:38-53: when Run has returned the server is deleted,
\* and with it every dispatcher: no loop may run any more.
RunEndsLoops ==
  app = "returned" => \A d \in Networkers : loop[d] = "ended"
=============================================================================
