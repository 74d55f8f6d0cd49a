-------------------------- MODULE ClientLifecycle --------------------------
(***************************************************************************)
(* The life of an RPCClientImpl: CreateRPCClient and Connect, the thread   *)
(* that runs NetworkDispatcher::Loop, and the destructor, which stops it.  *)
(*                                                                         *)
(* Two threads share need_stop_, keep_working_, stopped_ and the queue of  *)
(* the io_service without any lock but the io_service's own; each access   *)
(* is an action, and the two plain members may be seen out of order.  Of   *)
(* the channel there is only the operation it has in progress              *)
(* (ClientChannel has the rest): that is what keeps io_service::run from   *)
(* returning.                                                              *)
(*                                                                         *)
(* A definition that is not used, just before one with almost its name, is *)
(* the same step with a plausible mistake: the properties tell them apart. *)
(***************************************************************************)
EXTENDS Integers, Sequences

VARIABLES
  app,            \* where the thread that owns the client is
  loop,           \* where the loop thread is
  auto_reconnect, \* RPCClientImpl::auto_reconnect_
  attempt,        \* the async_connect of Connect
  timers,         \* waits of the destroyed connecting timers, to be run
  connection,     \* connection_ # NULL
  channel,        \* what the channel has in progress
  terminated,     \* RPCChannel::terminated_
  queue,          \* what the destructor has posted, not run yet
  need_stop,      \* NetworkDispatcher::need_stop_
  keep_working,   \* NetworkDispatcher::keep_working_ # NULL
  stopped,        \* value of the semaphore NetworkDispatcher::stopped_
  overwritten     \* keep_working_ was set after Stop had reset it (history)

connectVars == <<auto_reconnect, attempt, timers, connection>>
channelVars == <<channel, terminated>>
stopVars    == <<queue, need_stop, keep_working, stopped, overwritten>>
vars == <<app, loop, connectVars, channelVars, stopVars>>

(***************************************************************************)
(* The owner: CreateRPCClient has allocated the client ("new"), Connect is *)
(* in RunOnce, CreateRPCClient has returned the client ("open"); then the  *)
(* destructor and Stop statement by statement.  "gone" is after the        *)
(* destructor, "crashed" is a process that was ended by undefined          *)
(* behaviour.                                                              *)
(***************************************************************************)
AppSteps == {"new", "RunOnce", "open", "delete", "set need_stop_",
             "post CloseAll", "reset keep_working_", "Wait", "gone", "crashed"}

LoopSteps == {"no thread", "Loop", "RunOnce", "late store", "run", "Notify",
              "ended"}

TypeOK ==
  /\ app \in AppSteps
  /\ loop \in LoopSteps
  /\ auto_reconnect \in BOOLEAN
  /\ attempt \in {"none", "going", "made", "failed"}
  /\ timers \in 0..2
  /\ connection \in BOOLEAN
  /\ channel \in {"none", "reading", "connecting"}
  /\ terminated \in BOOLEAN
  /\ queue \in Seq({"Terminate", "CloseAll"})
  /\ need_stop \in BOOLEAN
  /\ keep_working \in BOOLEAN
  /\ stopped \in 0..1
  /\ overwritten \in BOOLEAN

Init ==
  /\ app = "new" /\ loop = "no thread"
  /\ auto_reconnect \in BOOLEAN
  /\ attempt = "none" /\ timers = 0 /\ connection = FALSE
  /\ channel = "none" /\ terminated = FALSE
  /\ queue = <<>>
  /\ need_stop = FALSE /\ keep_working = FALSE /\ stopped = 0
  /\ overwritten = FALSE

-----------------------------------------------------------------------------
(* CreateRPCClient and Connect *)

(***************************************************************************)
(* A turn of the loop in Connect up to RunOnce.  The two timers, one here  *)
(* and one in SetupConnectingTimer, are local to blocks that have ended by *)
(* then: their waits are cancelled.                                        *)
(***************************************************************************)
StartAttempt ==
  /\ app' = "RunOnce"
  /\ attempt' = "going"
  /\ timers' = IF auto_reconnect THEN 2 ELSE 0

(* The address can be parsed, or Connect returns false. *)
Connect ==
  /\ app = "new"
  /\ \/ StartAttempt
     \/ app' = "delete" /\ UNCHANGED <<attempt, timers>>
  /\ UNCHANGED <<loop, auto_reconnect, connection, channelVars, stopVars>>

(* The kernel is done with the attempt, one way or the other. *)
AttemptEnds ==
  /\ attempt = "going"
  /\ attempt' \in {"made", "failed"}
  /\ UNCHANGED <<app, loop, auto_reconnect, timers, connection, channelVars,
                 stopVars>>

(***************************************************************************)
(* RPCClientImpl::Connected.  With auto_reconnect it cancels the timer it  *)
(* was given a pointer to, which is gone: either nothing happens or the    *)
(* process ends.                                                           *)
(***************************************************************************)
Connected ==
  /\ app = "RunOnce" /\ attempt \in {"made", "failed"}
  /\ connection' = (attempt = "made")
  /\ attempt' = "none"
  /\ app' \in {"RunOnce"} \cup IF auto_reconnect THEN {"crashed"} ELSE {}
  /\ UNCHANGED <<loop, auto_reconnect, timers, channelVars, stopVars>>

(* ExpireToConnect with operation_canceled, the only way it is ever called. *)
ExpireToConnect ==
  /\ app = "RunOnce" /\ timers > 0
  /\ timers' = timers - 1
  /\ UNCHANGED <<app, loop, auto_reconnect, attempt, connection, channelVars,
                 stopVars>>

(***************************************************************************)
(* RunOnce returns when nothing is left to do; Connect starts to read and  *)
(* creates the loop thread, or tries again, or fails.                      *)
(***************************************************************************)
RunOnceReturns ==
  /\ app = "RunOnce" /\ attempt = "none" /\ timers = 0
  /\ \/ /\ connection
        /\ app' = "open" /\ loop' = "Loop" /\ channel' = "reading"
        /\ UNCHANGED <<attempt, timers>>
     \/ /\ ~connection /\ auto_reconnect
        /\ StartAttempt
        /\ UNCHANGED <<loop, channel>>
     \/ /\ ~connection /\ ~auto_reconnect
        /\ app' = "delete"
        /\ UNCHANGED <<loop, channel, attempt, timers>>
  /\ UNCHANGED <<auto_reconnect, connection, terminated, stopVars>>

-----------------------------------------------------------------------------
(* ~RPCClientImpl *)

(* The application deletes the client. *)
Delete ==
  /\ app = "open"
  /\ app' = "delete"
  /\ UNCHANGED <<loop, connectVars, channelVars, stopVars>>

(* dispatcher_->TerminateChannel(connection_.get()) *)
TerminateChannel ==
  /\ app = "delete"
  /\ app' = "set need_stop_"
  /\ queue' = Append(queue, "Terminate")
  /\ UNCHANGED <<loop, connectVars, channelVars, need_stop, keep_working,
                 stopped, overwritten>>

(* NetworkDispatcher::Stop up to its wait *)
Stop ==
  \/ /\ app = "set need_stop_"
     /\ app' = "post CloseAll"
     /\ need_stop' = TRUE
     /\ UNCHANGED <<loop, connectVars, channelVars, queue, keep_working,
                    stopped, overwritten>>
  \/ /\ app = "post CloseAll"
     /\ app' = "reset keep_working_"
     /\ queue' = Append(queue, "CloseAll")
     /\ UNCHANGED <<loop, connectVars, channelVars, need_stop, keep_working,
                    stopped, overwritten>>
  \/ /\ app = "reset keep_working_"
     /\ app' = "Wait"
     /\ keep_working' = FALSE
     /\ UNCHANGED <<loop, connectVars, channelVars, queue, need_stop, stopped,
                    overwritten>>

(* stopped_.Wait() returns, and with it the destructor. *)
WaitSkipped ==
  /\ app = "Wait"
  /\ app' = "gone"
  /\ UNCHANGED <<loop, connectVars, channelVars, stopVars>>

Wait ==
  /\ app = "Wait" /\ stopped > 0
  /\ stopped' = stopped - 1
  /\ app' = "gone"
  /\ UNCHANGED <<loop, connectVars, channelVars, queue, need_stop,
                 keep_working, overwritten>>

-----------------------------------------------------------------------------
(* The loop thread *)

(***************************************************************************)
(* NetworkDispatcher::Loop sets keep_working_ and RunOnce reads need_stop_ *)
(* next.  Nothing orders the two for the other thread: the store can reach *)
(* it after the load, at the latest when run locks the io_service.         *)
(***************************************************************************)
Loop ==
  /\ loop = "Loop"
  /\ loop' = "RunOnce"
  /\ keep_working' = TRUE
  /\ UNCHANGED <<app, connectVars, channelVars, queue, need_stop, stopped,
                 overwritten>>

(* RunOnce up to io_service::run *)
RunOnceUnasked ==
  /\ loop \in {"Loop", "RunOnce"}
  /\ loop' = IF loop = "Loop" THEN "late store" ELSE "run"
  /\ UNCHANGED <<app, connectVars, channelVars, stopVars>>

RunOnce ==
  /\ loop \in {"Loop", "RunOnce"}
  /\ loop' = IF need_stop THEN "Notify"
             ELSE IF loop = "Loop" THEN "late store" ELSE "run"
  /\ UNCHANGED <<app, connectVars, channelVars, stopVars>>

LateStore ==
  /\ loop = "late store"
  /\ loop' = "run"
  /\ keep_working' = TRUE
  /\ overwritten' = (app = "Wait")
  /\ UNCHANGED <<app, connectVars, channelVars, queue, need_stop, stopped>>

(***************************************************************************)
(* TerminateChannelInLoop, or CloseAllChannelsInLoop, which finds an empty *)
(* pool: a client's channel is never saved there.                          *)
(***************************************************************************)
RunHandler ==
  /\ loop = "run" /\ queue # <<>>
  /\ queue' = Tail(queue)
  /\ terminated' = (terminated \/ Head(queue) = "Terminate")
  /\ UNCHANGED <<app, loop, connectVars, channel, need_stop, keep_working,
                 stopped, overwritten>>

(***************************************************************************)
(* The read of the channel ends with an error: the peer has closed the     *)
(* connection, or TerminateInLoop has shut it down.                        *)
(***************************************************************************)
ReadFails ==
  /\ loop = "run" /\ channel = "reading"
  /\ channel' = IF auto_reconnect /\ ~terminated THEN "connecting" ELSE "none"
  /\ UNCHANGED <<app, loop, connectVars, terminated, stopVars>>

(* ClientRPCChannel::Connected, with success or an error *)
Reconnected ==
  /\ loop = "run" /\ channel = "connecting"
  /\ channel' \in IF terminated THEN {"none"} ELSE {"reading", "connecting"}
  /\ UNCHANGED <<app, loop, connectVars, terminated, stopVars>>

(* io_service::run is out of work and returns. *)
RunReturnsOnStop ==
  /\ loop = "run"
  /\ need_stop
  /\ loop' = "Notify"
  /\ UNCHANGED <<app, connectVars, channelVars, stopVars>>

RunReturns ==
  /\ loop = "run"
  /\ queue = <<>> /\ channel = "none" /\ ~keep_working
  /\ loop' = "Notify"
  /\ UNCHANGED <<app, connectVars, channelVars, stopVars>>

(* stopped_.Notify(), the last thing the thread does *)
Notify ==
  /\ loop = "Notify"
  /\ loop' = "ended"
  /\ stopped' = stopped + 1
  /\ UNCHANGED <<app, connectVars, channelVars, queue, need_stop,
                 keep_working, overwritten>>

-----------------------------------------------------------------------------
Owner == Connect \/ Connected \/ ExpireToConnect \/ RunOnceReturns
           \/ TerminateChannel \/ Stop \/ Wait

LoopThread == Loop \/ RunOnce \/ LateStore \/ RunHandler \/ RunReturns \/ Notify

Next == Owner \/ Delete \/ LoopThread \/ AttemptEnds \/ ReadFails \/ Reconnected

Spec == Init /\ [][Next]_vars

(***************************************************************************)
(* Both threads run, the kernel ends an attempt to connect (with an error  *)
(* if there is no answer), and a read on a socket that was shut down ends. *)
(* The application need not delete the client, nor the peer close the      *)
(* connection.                                                             *)
(***************************************************************************)
FairSpec ==
  /\ Spec
  /\ WF_vars(Owner) /\ WF_vars(LoopThread)
  /\ WF_vars(AttemptEnds) /\ WF_vars(Reconnected)
  /\ WF_vars(terminated /\ ReadFails)

-----------------------------------------------------------------------------
(* Properties *)

(***************************************************************************)
(* When the destructor has returned, the loop thread has done its last     *)
(* access to the client: Stop waits for it.                                *)
(***************************************************************************)
NoHandlerAfterDestruction == app = "gone" => loop = "ended"

(***************************************************************************)
(* As long as nobody deletes the client its loop does not end, although    *)
(* the channel may have nothing in progress (a connection was lost without *)
(* auto_reconnect): keep_working_ holds it.                                *)
(***************************************************************************)
LoopRunsWhileOpen == app = "open" => loop \notin {"Notify", "ended"}

(***************************************************************************)
(* A client that is gone has either been shut down in order (the handlers  *)
(* the destructor posted have run and the channel has nothing in progress) *)
(* or was deleted before its loop ran anything: then neither handler has   *)
(* run, and what the io_service still holds goes with it.                  *)
(***************************************************************************)
ShutDownOrNeverRan ==
  app = "gone" =>
    \/ queue = <<>> /\ terminated /\ channel = "none"
    \/ queue = <<"Terminate", "CloseAll">> /\ ~terminated /\ channel = "reading"

(***************************************************************************)
(* The destructor of a client that was connected returns, whatever the     *)
(* loop thread was doing, starting included.  Only if Loop's store to      *)
(* keep_working_ comes to light after Stop's can it wait for ever.         *)
(***************************************************************************)
DestructorReturns ==
  (app = "delete" /\ connection) ~> (app = "gone" \/ overwritten)

(***************************************************************************)
(* CreateRPCClient returns NULL after an attempt to connect that failed    *)
(* (rpc_client_impl.cc:191); its callers test for NULL.                    *)
(***************************************************************************)
FailedCreateReturns == (app = "delete" /\ ~connection) ~> app = "gone"
=============================================================================
