--------------------------- MODULE ClientChannel ---------------------------
(***************************************************************************)
(* The client half of gboost_rpc once RPCClientImpl::Connect has returned  *)
(* true: RPCClientImpl::CallMethod and ReceivePackage, SessionManager,     *)
(* ClientRPCChannel and the RPCChannel it derives from.                    *)
(*                                                                         *)
(* One thread, the loop thread of the NetworkDispatcher, runs every        *)
(* handler.  `ready' is the queue of handlers boost::asio has ready to     *)
(* run, first in first out; `ops' is the set of asynchronous operations    *)
(* that have been started and have not completed.  Application threads     *)
(* only append to `ready'.  A handler is one action, except the loop of    *)
(* ReadInLoop, which takes one action per piece of the bytes it was given  *)
(* (`inbuf' holds the pieces left; no other handler runs meanwhile).       *)
(*                                                                         *)
(* A response on the wire has two parts, "head" (the size word and the     *)
(* RPCMetaData) and "body" (the payload), or is a "piece" of one of them;  *)
(* a request is written as a whole.                                        *)
(* An RPCData is named by the sequence number in its meta data.            *)
(***************************************************************************)
EXTENDS Integers, Sequences, Functions

CONSTANTS
  Calls,         \* the calls the application makes, each at most once
  Size,          \* Size[c]: bytes of the serialised request of call c
  AutoReconnect, \* the auto_reconnect argument of CreateRPCClient
  Faults,        \* how a connection may break, see FaultKinds
  MaxBreaks      \* bound: the connections 1..MaxBreaks may break

(***************************************************************************)
(* Without any of these a connection breaks by a reset between two         *)
(* responses.                                                              *)
(*   "torn": the break cuts a response in two.                             *)
(*   "halfclose": the peer only closed its side, so that a write can still *)
(*     be reported as successful although nobody reads it.                 *)
(*   "split": a read ends inside the meta data of a response, which        *)
(*     RPCData::AppendBinaries answers with a failed CHECK (FrameReader).  *)
(***************************************************************************)
FaultKinds == {"torn", "halfclose", "split"}

ASSUME ConstantsAssumption ==
  /\ Size \in [Calls -> Nat \ {0}]
  /\ AutoReconnect \in BOOLEAN
  /\ Faults \subseteq FaultKinds
  /\ MaxBreaks \in Nat

VARIABLES
  called,         \* calls for which CallMethod has been called
  closing,        \* ~RPCClientImpl has begun
  doneRuns,       \* doneRuns[c]: how often the closure of c has run
  answer,         \* what the response message of c was parsed from
  seq,            \* SessionManager::seq_
  sessions,       \* keys of SessionManager::sessions_
  data,           \* every RPCData made by SaveSession, deleted ones too
  pending,        \* RPCChannel::pending_
  closed_by_peer, \* RPCChannel::closed_by_peer_
  terminated,     \* RPCChannel::terminated_
  partial,        \* RPCChannel::partial_message_
  inbuf,          \* pieces of buffer_ ReadInLoop has still to handle
  socket,         \* the connection RPCChannel::socket_ belongs to
  ops,            \* asynchronous operations in progress
  ready,          \* handlers the io_service is to run
  link,           \* state of each TCP connection
  c2s,            \* requests on their way to the server
  s2c,            \* pieces of responses on their way to the client
  executed,       \* executed[c]: how often the server has executed c
  aborted         \* the CHECK that ended the process, or "no"

appVars     == <<called, closing, doneRuns, answer>>
sessionVars == <<seq, sessions, data>>
readVars    == <<partial, inbuf>>
channelVars == <<pending, closed_by_peer, terminated, socket>>
asioVars    == <<ops, ready>>
netVars     == <<link, c2s, s2c, executed>>
vars == <<appVars, sessionVars, readVars, channelVars, asioVars, netVars,
          aborted>>

Conns == 1..(MaxBreaks + 1)

Parts    == [seq : Nat, kind : {"head", "body", "piece"}]
Requests == [seq : Nat, call : Calls, whole : BOOLEAN]
RPCDatas == [call : Calls, is_pending : BOOLEAN, conn : Nat]
Partials == [state : {"none", "head", "garbled"}, seq : Nat]
Ops      == [op : {"read"}, conn : Nat] \cup [op : {"connect"}]
              \cup [op : {"write"}, conn : Nat, data : Nat]
Handlers == [h : {"send"}, call : Calls]
              \cup [h : {"read"}, err : BOOLEAN, parts : Seq(Parts)]
              \cup [h : {"written"}, err : BOOLEAN, data : Nat]
              \cup [h : {"connected"}, err : BOOLEAN]
              \cup [h : {"terminate"}]

NoPartial == [state |-> "none", seq |-> 0]
Garbled   == [state |-> "garbled", seq |-> 0]

ReadOp(k)     == [op |-> "read", conn |-> k]
WriteOp(k, d) == [op |-> "write", conn |-> k, data |-> d]
ConnectOp     == [op |-> "connect"]

TypeOK ==
  /\ called \subseteq Calls
  /\ closing \in BOOLEAN
  /\ doneRuns \in [Calls -> Nat]
  /\ answer \in [Calls -> {"none", "own", "garbled"}]
  /\ seq \in Nat
  /\ sessions \subseteq 0..(seq - 1)
  /\ data \in [0..(seq - 1) -> RPCDatas]
  /\ pending \in Seq(0..(seq - 1))
  /\ closed_by_peer \in BOOLEAN
  /\ terminated \in BOOLEAN
  /\ partial \in Partials
  /\ inbuf \in Seq(Parts)
  /\ socket \in Nat
  /\ ops \subseteq Ops
  /\ ready \in Seq(Handlers)
  /\ link \in [Conns -> {"unborn", "up", "down"}]
  /\ c2s \in [Conns -> Seq(Requests)]
  /\ s2c \in [Conns -> Seq(Parts)]
  /\ executed \in [Calls -> Nat]
  /\ aborted \in {"no", "seq", "written", "parse", "release", "garbage",
                  "meta", "freed"}

Init ==
  /\ called = {} /\ closing = FALSE
  /\ doneRuns = [c \in Calls |-> 0]
  /\ answer = [c \in Calls |-> "none"]
  /\ seq = 0 /\ sessions = {} /\ data = [d \in {} |-> 0]
  /\ pending = <<>>
  /\ closed_by_peer = FALSE /\ terminated = FALSE
  /\ partial = NoPartial /\ inbuf = <<>>
  /\ socket = 1
  /\ ops = {ReadOp(1)} /\ ready = <<>>
  /\ link = [k \in Conns |-> IF k = 1 THEN "up" ELSE "unborn"]
  /\ c2s = [k \in Conns |-> <<>>]
  /\ s2c = [k \in Conns |-> <<>>]
  /\ executed = [c \in Calls |-> 0]
  /\ aborted = "no"

-----------------------------------------------------------------------------
(***************************************************************************)
(* Steps shared by the handlers.  Here and below, a definition that is not *)
(* used, just before one with almost its name, is the same step with a     *)
(* plausible mistake in it: the properties are to tell the two apart.      *)
(***************************************************************************)

(***************************************************************************)
(* The head of `ready' starts to run: the process is alive and ReadInLoop  *)
(* has no bytes left in its hands.                                         *)
(***************************************************************************)
Runs(name) ==
  /\ aborted = "no"
  /\ inbuf = <<>>
  /\ ready # <<>>
  /\ Head(ready).h = name

Post(handler) == ready' = Append(ready, handler)

(***************************************************************************)
(* RPCChannel::WriteInLoop with queue as pending_ and heap as the RPCDatas *)
(* at that moment: the first RPCData is handed to async_write on socket k  *)
(* unless it is already pending.  GetBuffer sets is_pending; conn is a     *)
(* history field, the connection the RPCData was last handed to.           *)
(***************************************************************************)
WriteInLoopAlways(k, queue, heap, started) ==
  /\ pending' = queue
  /\ IF queue # <<>>
     THEN /\ data' = [heap EXCEPT ![Head(queue)] =
                        [@ EXCEPT !.is_pending = TRUE, !.conn = k]]
          /\ ops' = started \cup {WriteOp(k, Head(queue))}
     ELSE data' = heap /\ ops' = started

WriteInLoop(k, queue, heap, started) ==
  /\ pending' = queue
  /\ IF queue # <<>> /\ ~heap[Head(queue)].is_pending
     THEN /\ data' = [heap EXCEPT ![Head(queue)] =
                        [@ EXCEPT !.is_pending = TRUE, !.conn = k]]
          /\ ops' = started \cup {WriteOp(k, Head(queue))}
     ELSE /\ data' = heap
          /\ ops' = started

(***************************************************************************)
(* SessionManager::SaveSession makes an RPCData and enters its session     *)
(* among `others' under the next sequence number.                          *)
(***************************************************************************)
NewRPCData(c) ==
  [d \in 0..seq |->
     IF d = seq THEN [call |-> c, is_pending |-> FALSE, conn |-> 0]
                ELSE data[d]]

SaveSession(others) ==
  /\ sessions' = others \cup {seq}
  /\ seq' = seq + 1

(* ClientRPCChannel::SendInLoop, and RPCChannel::SendInLoop that it calls. *)
SendInLoop(c, others, started) ==
  /\ SaveSession(others)
  /\ WriteInLoop(socket, Append(pending, seq), NewRPCData(c), started)

(* SessionManager::ReleaseSession: what is left of the sessions. *)
ReleaseSessionKept(s) == sessions

ReleaseSession(s) == sessions \ {s}

(***************************************************************************)
(* RPCClientImpl::ReceivePackage for sequence number s.  A number that has *)
(* no session is dropped.  Otherwise the session is released, its closure  *)
(* runs, and the RPCData is deleted, which CHECKs that it was pending.     *)
(* The closure may make another call: Send dispatches on the loop thread,  *)
(* so SendInLoop runs inside the closure.                                  *)
(***************************************************************************)
ReceivePackage(s, content, started) ==
  IF s \notin sessions
  THEN /\ ops' = started
       /\ UNCHANGED <<called, doneRuns, answer, sessionVars, pending, aborted>>
  ELSE /\ doneRuns' = [doneRuns EXCEPT ![data[s].call] = @ + 1]
       /\ answer' = [answer EXCEPT ![data[s].call] = content]
       /\ aborted' = IF data[s].is_pending THEN "no" ELSE "release"
       /\ \/ /\ sessions' = ReleaseSession(s)
             /\ ops' = started
             /\ UNCHANGED <<called, seq, data, pending>>
          \/ \E c \in Calls \ called :
               /\ ~closing
               /\ called' = called \cup {c}
               /\ SendInLoop(c, ReleaseSession(s), started)

(***************************************************************************)
(* The end of one turn of the loop in ReadInLoop: rest is what is left of  *)
(* the buffer, and the next read starts when nothing is left.              *)
(***************************************************************************)
StartedOnce(rest) == ops

Started(rest) == IF rest = <<>> THEN ops \cup {ReadOp(socket)} ELSE ops

-----------------------------------------------------------------------------
(* Application threads *)

(* RPCClientImpl::CallMethod from a thread other than the loop's. *)
CallMethodWhileOpen(c) ==
  /\ aborted = "no" /\ ~closing
  /\ c \notin called
  /\ called' = called \cup {c}
  /\ IF closed_by_peer THEN UNCHANGED ready
                       ELSE Post([h |-> "send", call |-> c])
  /\ UNCHANGED <<closing, doneRuns, answer, sessionVars, readVars,
                 channelVars, ops, netVars, aborted>>

CallMethod(c) ==
  /\ aborted = "no" /\ ~closing
  /\ c \notin called
  /\ called' = called \cup {c}
  /\ Post([h |-> "send", call |-> c])
  /\ UNCHANGED <<closing, doneRuns, answer, sessionVars, readVars,
                 channelVars, ops, netVars, aborted>>

(* ~RPCClientImpl posts TerminateInLoop; Stop then waits for the loop. *)
Destroy ==
  /\ aborted = "no" /\ ~closing
  /\ closing' = TRUE
  /\ Post([h |-> "terminate"])
  /\ UNCHANGED <<called, doneRuns, answer, sessionVars, readVars,
                 channelVars, ops, netVars, aborted>>

-----------------------------------------------------------------------------
(* Handlers of the loop thread *)

(* A posted SendInLoop; CHECK(result) in SaveSession ends the process. *)
RunSend ==
  /\ Runs("send")
  /\ ready' = Tail(ready)
  /\ UNCHANGED <<appVars, readVars, closed_by_peer, terminated, socket,
                 netVars>>
  /\ IF seq \in sessions
     THEN aborted' = "seq" /\ UNCHANGED <<sessionVars, pending, ops>>
     ELSE aborted' = "no" /\ SendInLoop(Head(ready).call, sessions, ops)

(***************************************************************************)
(* Written: an error returns with the RPCData still pending.  A success is *)
(* taken to be about the first RPCData of pending_, which is CHECKed by    *)
(* its flag and its size only.                                             *)
(***************************************************************************)
RunWritten ==
  /\ Runs("written")
  /\ ready' = Tail(ready)
  /\ UNCHANGED <<appVars, seq, sessions, readVars, closed_by_peer, terminated,
                 socket, netVars>>
  /\ LET written == Head(ready)
         bytes   == Size[data[written.data].call]
         first   == Head(pending)
     IN  IF written.err \/ pending = <<>>
         THEN UNCHANGED <<data, pending, ops, aborted>>
         ELSE IF data[first].is_pending /\ bytes = Size[data[first].call]
              THEN aborted' = "no" /\ WriteInLoop(socket, Tail(pending), data, ops)
              ELSE aborted' = "written" /\ UNCHANGED <<data, pending, ops>>

(* ClientRPCChannel::ReconnectOrFail, the cancellation of the channel *)
ReconnectOrFail ==
  ops' = IF AutoReconnect /\ ~terminated THEN ops \cup {ConnectOp} ELSE ops

(***************************************************************************)
(* ReadInLoop up to its loop.  Only the first error of a connection calls  *)
(* the cancellation.                                                       *)
(***************************************************************************)
RunReadAnyway ==
  /\ Runs("read")
  /\ ready' = Tail(ready)
  /\ inbuf' = Head(ready).parts
  /\ closed_by_peer' = (closed_by_peer \/ Head(ready).err)
  /\ IF Head(ready).err /\ ~closed_by_peer THEN ReconnectOrFail
                                           ELSE UNCHANGED ops
  /\ UNCHANGED <<appVars, sessionVars, pending, partial, terminated, socket,
                 netVars, aborted>>

RunRead ==
  /\ Runs("read")
  /\ ready' = Tail(ready)
  /\ UNCHANGED <<appVars, sessionVars, pending, partial, terminated, socket,
                 netVars, aborted>>
  /\ \/ /\ terminated
        /\ UNCHANGED <<inbuf, closed_by_peer, ops>>
     \/ /\ ~terminated /\ Head(ready).err
        /\ closed_by_peer' = TRUE
        /\ IF closed_by_peer THEN UNCHANGED ops ELSE ReconnectOrFail
        /\ UNCHANGED inbuf
     \/ /\ ~terminated /\ ~Head(ready).err
        /\ inbuf' = Head(ready).parts
        /\ UNCHANGED <<closed_by_peer, ops>>

(* A turn of the loop of ReadInLoop that parses the meta data of a response. *)
ReadHeadForgotten ==
  /\ aborted = "no" /\ inbuf # <<>>
  /\ partial.state = "none" /\ Head(inbuf).kind = "head"
  /\ partial' = IF Tail(inbuf) = <<>> THEN NoPartial
                ELSE [state |-> "head", seq |-> Head(inbuf).seq]
  /\ inbuf' = Tail(inbuf)
  /\ ops' = Started(Tail(inbuf))
  /\ UNCHANGED <<appVars, sessionVars, channelVars, ready, netVars, aborted>>

ReadHead ==
  /\ aborted = "no" /\ inbuf # <<>>
  /\ partial.state = "none" /\ Head(inbuf).kind = "head"
  /\ partial' = [state |-> "head", seq |-> Head(inbuf).seq]
  /\ inbuf' = Tail(inbuf)
  /\ ops' = Started(Tail(inbuf))
  /\ UNCHANGED <<appVars, sessionVars, channelVars, ready, netVars, aborted>>

(* The CHECK that the last bytes of the meta data meet after a split read. *)
ReadSplitHead ==
  /\ aborted = "no" /\ inbuf # <<>>
  /\ "split" \in Faults
  /\ partial.state = "none" /\ Head(inbuf).kind = "head"
  /\ aborted' = "meta"
  /\ UNCHANGED <<appVars, sessionVars, readVars, channelVars, asioVars, netVars>>

(* A turn that is left with an incomplete message at the end of its bytes. *)
ReadPiece ==
  /\ aborted = "no" /\ inbuf # <<>>
  /\ Head(inbuf).kind = "piece"
  /\ \/ partial.state = "none" /\ partial' = Garbled
     \/ /\ partial.state = "head" /\ partial.seq = Head(inbuf).seq
        /\ UNCHANGED partial
  /\ inbuf' = Tail(inbuf)
  /\ ops' = Started(Tail(inbuf))
  /\ UNCHANGED <<appVars, sessionVars, channelVars, ready, netVars, aborted>>

(* A turn that completes the response whose meta data was parsed before. *)
ReadBody ==
  /\ aborted = "no" /\ inbuf # <<>>
  /\ partial.state = "head"
  /\ Head(inbuf) = [seq |-> partial.seq, kind |-> "body"]
  /\ partial' = NoPartial
  /\ inbuf' = Tail(inbuf)
  /\ ReceivePackage(partial.seq, "own", Started(Tail(inbuf)))
  /\ UNCHANGED <<closing, closed_by_peer, terminated, socket, ready, netVars>>

(***************************************************************************)
(* A turn that finds bytes which do not continue partial_message_.         *)
(* AppendBinaries cannot tell: it takes them for the rest of the message   *)
(* (after a "head") or for a size word and meta data (otherwise).  What    *)
(* happens depends on their values:                                        *)
(*   - they are all taken and the message still is not complete;           *)
(*   - they complete a message, whose payload is not what the server sent, *)
(*     and the bytes left, if any, start another one; ClientSession::Done  *)
(*     may fail to parse the payload;                                      *)
(*   - as meta data, they cannot be parsed: partial_message_ is deleted    *)
(*     and the rest of the buffer dropped;                                 *)
(*   - as a size word or meta data, they fail a CHECK.                     *)
(***************************************************************************)
Misfit ==
  CASE partial.state = "none"    -> Head(inbuf).kind = "body"
    [] partial.state = "head"    -> \/ Head(inbuf).kind = "head"
                                    \/ Head(inbuf).seq # partial.seq
    [] partial.state = "garbled" -> TRUE

ReadMisfit ==
  /\ aborted = "no" /\ inbuf # <<>>
  /\ Misfit
  /\ UNCHANGED <<closing, closed_by_peer, terminated, socket, ready, netVars>>
  /\ \/ /\ partial' = Garbled
        /\ inbuf' = Tail(inbuf)
        /\ ops' = Started(Tail(inbuf))
        /\ UNCHANGED <<called, doneRuns, answer, sessionVars, pending, aborted>>
     \/ \E s \in IF partial.state = "head" THEN {partial.seq} ELSE 0..(seq - 1) :
          \/ /\ partial' \in {NoPartial, Garbled}
             /\ inbuf' = Tail(inbuf)
             /\ ReceivePackage(s, "garbled", Started(Tail(inbuf)))
          \/ /\ s \in sessions
             /\ sessions' = ReleaseSession(s)
             /\ aborted' = "parse"
             /\ UNCHANGED <<called, doneRuns, answer, seq, data, pending,
                            readVars, ops>>
     \/ /\ partial.state # "head"
        /\ partial' = NoPartial
        /\ inbuf' = <<>>
        /\ ops' = Started(<<>>)
        /\ UNCHANGED <<called, doneRuns, answer, sessionVars, pending, aborted>>
     \/ /\ partial.state # "head"
        /\ aborted' = "garbage"
        /\ UNCHANGED <<called, doneRuns, answer, sessionVars, pending,
                       readVars, ops>>

(***************************************************************************)
(* ClientRPCChannel::Connected.  RebuildSocket empties pending_ and swaps  *)
(* the socket in, StartToRead starts to read from it, and                  *)
(* SendPendingSessions walks the sessions in the order of their numbers,   *)
(* clears the flag of each RPCData and queues it.  The old socket is       *)
(* closed with the handler's last reference to it.                         *)
(***************************************************************************)
InSeqOrder(S) ==
  {q \in UNION {[1..n -> S] : n \in 0..seq} :
     Range(q) = S /\ \A i, j \in DOMAIN q : i < j => q[i] < q[j]}

SendPendingSessionsUnwritten(started) ==
  \E queue \in InSeqOrder({s \in sessions : ~data[s].is_pending}) :
    WriteInLoop(socket + 1, queue, data, started)

SendPendingSessions(started) ==
  \E queue \in InSeqOrder(sessions) :
    WriteInLoop(socket + 1, queue,
                [d \in DOMAIN data |->
                   IF d \in sessions THEN [data[d] EXCEPT !.is_pending = FALSE]
                                     ELSE data[d]],
                started)

RebuildSocket ==
  /\ socket' = socket + 1
  /\ closed_by_peer' = FALSE

RunConnected ==
  /\ Runs("connected")
  /\ ready' = Tail(ready)
  /\ UNCHANGED <<appVars, seq, sessions, readVars, terminated, c2s, s2c,
                 executed, aborted>>
  /\ \/ /\ terminated
        /\ link' = IF Head(ready).err THEN link
                   ELSE [link EXCEPT ![socket + 1] = "down"]
        /\ UNCHANGED <<data, pending, closed_by_peer, socket, ops>>
     \/ /\ ~terminated /\ Head(ready).err
        /\ ops' = ops \cup {ConnectOp}
        /\ UNCHANGED <<data, pending, closed_by_peer, socket, link>>
     \/ /\ ~terminated /\ ~Head(ready).err
        /\ RebuildSocket
        /\ SendPendingSessions(ops \cup {ReadOp(socket + 1)})
        /\ UNCHANGED link

(* TerminateInLoop: the socket is shut down in both directions. *)
RunTerminateSocketOpen ==
  /\ Runs("terminate")
  /\ ready' = Tail(ready)
  /\ terminated' = TRUE
  /\ UNCHANGED <<appVars, sessionVars, readVars, pending, closed_by_peer,
                 socket, ops, netVars, aborted>>

RunTerminate ==
  /\ Runs("terminate")
  /\ ready' = Tail(ready)
  /\ terminated' = TRUE
  /\ link' = [link EXCEPT ![socket] = "down"]
  /\ UNCHANGED <<appVars, sessionVars, readVars, pending, closed_by_peer,
                 socket, ops, c2s, s2c, executed, aborted>>

(***************************************************************************)
(* A handler reads an RPCData that ReceivePackage has deleted while it was *)
(* still in pending_.  The other actions take the freed memory to be as it *)
(* was left; this one is the outcome in which the process ends.            *)
(***************************************************************************)
TouchFreed ==
  /\ Runs("send") \/ (Runs("written") /\ ~Head(ready).err)
  /\ \E i \in 1..2 : i \in DOMAIN pending /\ pending[i] \notin sessions
                     /\ (i = 1 \/ Head(ready).h = "written")
  /\ aborted' = "freed"
  /\ UNCHANGED <<appVars, sessionVars, readVars, channelVars, asioVars,
                 netVars>>

-----------------------------------------------------------------------------
(* boost::asio and the kernel: operations complete, in any order *)

(***************************************************************************)
(* A read completes with some of the bytes that have arrived or, once all  *)
(* are read and the connection is down, with an error.                     *)
(***************************************************************************)
CompleteRead(k) ==
  /\ aborted = "no"
  /\ ReadOp(k) \in ops
  /\ ops' = ops \ {ReadOp(k)}
  /\ \/ \E n \in 1..Len(s2c[k]) :
          /\ Post([h |-> "read", err |-> FALSE,
                   parts |-> SubSeq(s2c[k], 1, n)])
          /\ s2c' = [s2c EXCEPT ![k] = SubSeq(@, n + 1, Len(@))]
     \/ /\ s2c[k] = <<>> /\ link[k] = "down"
        /\ Post([h |-> "read", err |-> TRUE, parts |-> <<>>])
        /\ UNCHANGED s2c
  /\ UNCHANGED <<appVars, sessionVars, readVars, channelVars, link, c2s,
                 executed, aborted>>

(***************************************************************************)
(* A write completes.  On an open connection the request is on its way; if *)
(* another write on the same socket is in progress, async_write may have   *)
(* mixed the bytes of the two.  On a broken connection the write fails or, *)
(* after a half close, succeeds without effect.  A write on a socket that  *)
(* RebuildSocket has closed fails.                                         *)
(***************************************************************************)
CompleteWrite(k, d) ==
  /\ aborted = "no"
  /\ WriteOp(k, d) \in ops
  /\ ops' = ops \ {WriteOp(k, d)}
  /\ \/ /\ link[k] = "up"
        /\ \E whole \in BOOLEAN :
             /\ whole \/ \E e \in 0..(seq - 1) \ {d} : WriteOp(k, e) \in ops
             /\ c2s' = [c2s EXCEPT ![k] =
                          Append(@, [seq |-> d, call |-> data[d].call,
                                     whole |-> whole])]
        /\ Post([h |-> "written", err |-> FALSE, data |-> d])
     \/ /\ link[k] = "down" /\ k = socket
        /\ "halfclose" \in Faults /\ ~terminated
        /\ Post([h |-> "written", err |-> FALSE, data |-> d])
        /\ UNCHANGED c2s
     \/ /\ link[k] = "down"
        /\ Post([h |-> "written", err |-> TRUE, data |-> d])
        /\ UNCHANGED c2s
  /\ UNCHANGED <<appVars, sessionVars, readVars, channelVars, link, s2c,
                 executed, aborted>>

ConnectSucceeds ==
  /\ aborted = "no"
  /\ ConnectOp \in ops
  /\ ops' = ops \ {ConnectOp}
  /\ link' = [link EXCEPT ![socket + 1] = "up"]
  /\ Post([h |-> "connected", err |-> FALSE])
  /\ UNCHANGED <<appVars, sessionVars, readVars, channelVars, c2s, s2c,
                 executed, aborted>>

ConnectFails ==
  /\ aborted = "no"
  /\ ConnectOp \in ops
  /\ ops' = ops \ {ConnectOp}
  /\ Post([h |-> "connected", err |-> TRUE])
  /\ UNCHANGED <<appVars, sessionVars, readVars, channelVars, netVars, aborted>>

-----------------------------------------------------------------------------
(* The server and the network *)

(***************************************************************************)
(* The server executes the next request of a connection and answers under  *)
(* the sequence number of the request.                                     *)
(***************************************************************************)
Serve(k) ==
  /\ c2s[k] # <<>> /\ Head(c2s[k]).whole
  /\ c2s' = [c2s EXCEPT ![k] = Tail(@)]
  /\ executed' = [executed EXCEPT ![Head(c2s[k]).call] = @ + 1]
  /\ s2c' = IF link[k] = "up"
            THEN [s2c EXCEPT ![k] =
                    @ \o <<[seq |-> Head(c2s[k]).seq, kind |-> "head"],
                           [seq |-> Head(c2s[k]).seq, kind |-> "body"]>>]
            ELSE s2c
  /\ UNCHANGED <<appVars, sessionVars, readVars, channelVars, asioVars, link,
                 aborted>>

(***************************************************************************)
(* Mixed bytes: the server drops what it cannot parse.  (It may also wait  *)
(* for the rest of a message that never ends, which is not taking this     *)
(* step, or die, which is Break.)                                          *)
(***************************************************************************)
ServeMixed(k) ==
  /\ c2s[k] # <<>> /\ ~Head(c2s[k]).whole
  /\ c2s' = [c2s EXCEPT ![k] = Tail(@)]
  /\ UNCHANGED <<appVars, sessionVars, readVars, channelVars, asioVars, link,
                 s2c, executed, aborted>>

(***************************************************************************)
(* Connection k breaks: of the bytes sent to the client a prefix arrives.  *)
(* It ends between two responses unless "torn" is among the faults; then   *)
(* the last thing to arrive can be a piece of a part.                      *)
(***************************************************************************)
BetweenResponses(parts, n) ==
  /\ n \in DOMAIN parts => parts[n].kind = "body"
  /\ n + 1 \in DOMAIN parts => parts[n + 1].kind = "head"

Break(k) ==
  /\ k <= MaxBreaks
  /\ link[k] = "up"
  /\ link' = [link EXCEPT ![k] = "down"]
  /\ \E n \in 0..Len(s2c[k]) :
       /\ "torn" \notin Faults => BetweenResponses(s2c[k], n)
       /\ \/ s2c' = [s2c EXCEPT ![k] = SubSeq(@, 1, n)]
          \/ /\ "torn" \in Faults /\ n < Len(s2c[k])
             /\ s2c' = [s2c EXCEPT ![k] =
                          Append(SubSeq(@, 1, n),
                                 [seq |-> @[n + 1].seq, kind |-> "piece"])]
  /\ UNCHANGED <<appVars, sessionVars, readVars, channelVars, asioVars, c2s,
                 executed, aborted>>

-----------------------------------------------------------------------------
LoopThread ==
  \/ RunSend \/ RunWritten \/ RunRead \/ RunConnected \/ RunTerminate
  \/ ReadHead \/ ReadSplitHead \/ ReadPiece \/ ReadBody \/ ReadMisfit
  \/ TouchFreed

Next ==
  \/ \E c \in Calls : CallMethod(c)
  \/ Destroy
  \/ LoopThread
  \/ \E k \in Conns : \/ CompleteRead(k)
                      \/ \E d \in 0..(seq - 1) : CompleteWrite(k, d)
                      \/ Serve(k) \/ ServeMixed(k) \/ Break(k)
  \/ ConnectSucceeds \/ ConnectFails

Spec == Init /\ [][Next]_vars

(***************************************************************************)
(* The loop thread runs while it has handlers, the kernel completes what   *)
(* can be completed, and a server that is connected answers.  A connection *)
(* attempt that is repeated for ever succeeds some time (SF: the attempt   *)
(* is not in progress while Connected runs).  Nobody has to break a        *)
(* connection, make a call or destroy the client.                          *)
(***************************************************************************)
Fairness ==
  /\ WF_vars(LoopThread)
  /\ SF_vars(ConnectSucceeds)
  /\ \A k \in Conns : /\ WF_vars(CompleteRead(k))
                      /\ WF_vars(\E d \in 0..(seq - 1) : CompleteWrite(k, d))
                      /\ WF_vars(link[k] = "up" /\ Serve(k))

FairSpec == Spec /\ Fairness

-----------------------------------------------------------------------------
(* Safety, whatever breaks and however it breaks *)

(***************************************************************************)
(* The closure of a call runs at most once (ReceivePackage releases the    *)
(* session before it runs the closure), although the request may be sent,  *)
(* executed and answered once per connection.                              *)
(***************************************************************************)
DoneAtMostOnce == \A c \in Calls : doneRuns[c] <= 1

(***************************************************************************)
(* Why: a call is in one place at a time.  It is posted at most once, and  *)
(* then has no RPCData; SaveSession makes one RPCData per call; and only a *)
(* call whose session is released has had its closure run, once.           *)
(***************************************************************************)
CallInOnePlace ==
  /\ \A d, e \in 0..(seq - 1) : data[d].call = data[e].call => d = e
  /\ \A d \in 0..(seq - 1) : data[d].call \in called
  /\ \A i \in DOMAIN ready :
       ready[i].h = "send" =>
         /\ ready[i].call \in called
         /\ \A d \in 0..(seq - 1) : data[d].call # ready[i].call
         /\ \A j \in DOMAIN ready :
              ready[j].h = "send" /\ ready[j].call = ready[i].call => j = i
  /\ \A c \in Calls :
       doneRuns[c] > 0 =>
         /\ doneRuns[c] = 1
         /\ \E d \in 0..(seq - 1) : d \notin sessions /\ data[d].call = c

(***************************************************************************)
(* No call is forgotten: a call that was made is waiting to be sent, or    *)
(* has a session, or its closure has run.  (While the process lives.)      *)
(***************************************************************************)
NoCallForgotten ==
  aborted = "no" =>
    \A c \in called :
      \/ [h |-> "send", call |-> c] \in Range(ready)
      \/ \E s \in sessions : data[s].call = c
      \/ doneRuns[c] = 1

(***************************************************************************)
(* While the channel believes in its connection, the request of every open *)
(* session is in pending_ or was handed to this very connection: a request *)
(* given to an earlier one is not taken as sent (SendPendingSessions).     *)
(***************************************************************************)
SentOnThisConnection ==
  ~closed_by_peer =>
    \A s \in sessions : s \in Range(pending) \/ data[s].conn = socket

(***************************************************************************)
(* The server executes a call at most once per connection the client has   *)
(* had, so at most once without auto_reconnect: RebuildSocket empties      *)
(* pending_ before SendPendingSessions fills it.                           *)
(***************************************************************************)
OnceAConnection == \A c \in Calls : executed[c] <= socket

(***************************************************************************)
(* After TerminateInLoop no closure runs: ReadInLoop returns at once, even *)
(* if its bytes had been read before.                                      *)
(***************************************************************************)
SilentAfterTerminate == [][terminated => doneRuns' = doneRuns]_vars

(***************************************************************************)
(* Safety as long as a connection ends by a reset between two responses,   *)
(* or is never replaced (auto_reconnect is off)                            *)
(***************************************************************************)

(***************************************************************************)
(* An RPCData in pending_, or in the hands of async_write on the current   *)
(* socket, is not deleted: ReceivePackage deletes an RPCData without       *)
(* taking it from pending_, counting on responses to come only after       *)
(* Written has popped the request.                                         *)
(***************************************************************************)
NoDanglingData ==
  /\ Range(pending) \subseteq sessions
  /\ \A d \in 0..(seq - 1) : WriteOp(socket, d) \in ops => d \in sessions

(***************************************************************************)
(* At most one async_write is in progress on the socket, and Written takes *)
(* its completion for the right RPCData: an unfinished write, or one whose *)
(* Written is yet to run, is of the first RPCData of pending_.             *)
(***************************************************************************)
WritesInOrder ==
  /\ \A d, e \in 0..(seq - 1) :
       WriteOp(socket, d) \in ops /\ WriteOp(socket, e) \in ops => d = e
  /\ \A d \in 0..(seq - 1) :
       \/ WriteOp(socket, d) \in ops
       \/ [h |-> "written", err |-> FALSE, data |-> d] \in Range(ready)
       => pending # <<>> /\ Head(pending) = d

(***************************************************************************)
(* No CHECK of the channel, the session or the message reader fails, but   *)
(* for the one of split meta data (FrameReader has what leads to it).      *)
(***************************************************************************)
NoCheckFails == aborted \in {"no", "meta"}

(***************************************************************************)
(* A closure that runs finds the response the server computed for its own  *)
(* call, which the server has executed.                                    *)
(***************************************************************************)
OwnAnswer ==
  \A c \in Calls :
    doneRuns[c] > 0 => answer[c] = "own" /\ executed[c] > 0

(***************************************************************************)
(* CHECK_EQ at rpc_channel.cc:149, and the CHECK before it: a write that   *)
(* has succeeded was of the first RPCData of pending_.                     *)
(***************************************************************************)
WrittenCheckHolds == aborted # "written"

-----------------------------------------------------------------------------
(* Liveness *)

Stopped == closing /\ ops = {} /\ ready = <<>> /\ inbuf = <<>>

(***************************************************************************)
(* With auto_reconnect every call is answered in the end, unless the       *)
(* client is destroyed: what was lost with a connection is sent again.     *)
(***************************************************************************)
EveryCallDone ==
  \A c \in Calls : c \in called ~> (doneRuns[c] > 0 \/ closing)

(***************************************************************************)
(* Without it a call is answered unless its connection is lost, or the     *)
(* process ended by a CHECK.                                               *)
(***************************************************************************)
DoneOrDisconnected ==
  \A c \in Calls :
    c \in called ~>
      (doneRuns[c] > 0 \/ closing \/ closed_by_peer \/ aborted # "no")

(***************************************************************************)
(* The loop runs out of work after ~RPCClientImpl has posted               *)
(* TerminateInLoop, whatever was in progress, reconnecting included: the   *)
(* destructor waits for this in NetworkDispatcher::Stop.                   *)
(***************************************************************************)
DestroyReturns == closing ~> (Stopped \/ aborted # "no")
=============================================================================
