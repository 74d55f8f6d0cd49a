--------------------------- MODULE ServerChannel ---------------------------
(***************************************************************************)
(* One dispatcher of a server and the channels it serves: its pool, the    *)
(* reference counts that keep a ServerRPCChannel alive, CallMethod, the    *)
(* services and SendResponse.                                              *)
(*                                                                         *)
(* Every handler of the loop is one action.  A read hands over one         *)
(* request: a buffer with several is as many reads in a row, because       *)
(* nothing that ReadInLoop does between two requests depends on the read.  *)
(* The bytes are FrameReader's.  A service answers inside CallMethod, as   *)
(* those of the repository do, or keeps its closure (Deferring) and runs   *)
(* it in a thread of its own; then SendInLoop runs in that thread, in four *)
(* steps between which the loop may run a handler.  The count is a plain   *)
(* integer, so that an update may be lost there.                           *)
(*                                                                         *)
(* A definition that is not used, just before one with almost its name, is *)
(* the same step with a plausible mistake: the properties tell them apart. *)
(***************************************************************************)
EXTENDS Integers, Sequences, FiniteSets, TLC

CONSTANTS
  Conns,       \* connections that peers may make
  Threshold,   \* num_channels_threshold_
  MaxRequests, \* bound: requests on a connection
  Services,    \* names of services
  ServiceId,   \* GetServiceID of each name
  Strangers,   \* services that peers ask for although they were not added
  Deferring,   \* services that run their closure in a thread of their own
  Endings      \* what may end a connection: "finish", "reset", "stop"

ASSUME ServerAssumption ==
  /\ Threshold \in Nat /\ MaxRequests \in Nat
  /\ ServiceId \in [Services -> Nat]
  /\ Strangers \subseteq Services /\ Deferring \subseteq Services

VARIABLES
  added,        \* services the application has added (history)
  service_pool, \* RPCServerImpl::service_pool_, by identifier
  serving,      \* Run has been called
  channel,      \* the ServerRPCChannel of each connection
  pool,         \* NetworkDispatcher::channel_pool_
  peer,         \* what the other end of each connection does
  unread,       \* requests of each connection that were not read yet
  asked,        \* all requests of each connection (history)
  answers,      \* responses that reached the peer
  deferred,     \* closures that services have kept
  thread,       \* where the service's own thread is in SendInLoop
  fault         \* what ended the process, or "none"

vars == <<added, service_pool, serving, channel, pool, peer, unread, asked,
          answers, deferred, thread, fault>>
peerVars == <<peer, asked>>
serviceVars == <<added, service_pool, serving, deferred, thread>>

Request == [seq : 1..MaxRequests, service : Services, parses : BOOLEAN]
Response == [seq : 1..MaxRequests, by : Services]
Data == [seq : 1..MaxRequests, by : Services, is_pending : BOOLEAN]
Write == [seq : 1..MaxRequests, by : Services,
          result : {"none", "written", "failed"}]
Idle == [at |-> "idle"]

\* counted: the loop has changed the count since the service's thread loaded it.
Absent == [state |-> "none", count |-> 0, counted |-> FALSE, starting |-> FALSE,
           reading |-> FALSE, writes |-> <<>>, pending |-> <<>>,
           closed_by_peer |-> FALSE, terminated |-> FALSE]

Init ==
  /\ added = {} /\ service_pool = <<>> /\ serving = FALSE
  /\ channel = [c \in Conns |-> Absent]
  /\ pool = {}
  /\ peer = [c \in Conns |-> "away"]
  /\ unread = [c \in Conns |-> <<>>]
  /\ asked = [c \in Conns |-> <<>>]
  /\ answers = [c \in Conns |-> <<>>]
  /\ deferred = {} /\ thread = Idle
  /\ fault = "none"
-----------------------------------------------------------------------------
(* Reference counts.  The channel is deleted by the last UnRef; its        *)
(* destructor closes the socket and recycles what was not written.  Who    *)
(* uses it after that, or drops one reference more, ends the process.      *)

Ref(k) == [k EXCEPT !.count = @ + 1, !.counted = TRUE]

Deleted(k) == [k EXCEPT !.state = "deleted", !.pending = <<>>]

UnRef(k) ==
  LET less == [k EXCEPT !.count = @ - 1, !.counted = TRUE]
  IN  IF less.count = 0 THEN Deleted(less) ELSE less

(* The channel as its loop sees it. *)

HandOver(k) ==
  Ref([k EXCEPT !.pending[1].is_pending = TRUE,
                !.writes = Append(@, [seq |-> k.pending[1].seq,
                                      by |-> k.pending[1].by,
                                      result |-> "none"])])

WriteInLoopAlways(k) == IF k.pending = <<>> THEN k ELSE HandOver(k)

WriteInLoop(k) ==
  IF k.pending = <<>> \/ k.pending[1].is_pending THEN k ELSE HandOver(k)

PushBack(k, r) ==
  [k EXCEPT !.pending = Append(@, [seq |-> r.seq, by |-> r.by,
                                   is_pending |-> FALSE])]

SendInLoop(k, r) == WriteInLoop(PushBack(k, r))

StartToRead(k) == Ref([k EXCEPT !.reading = TRUE])

TerminateInLoop(k) == [k EXCEPT !.terminated = TRUE]

RecycleRPCData(pending) == Tail(pending)
-----------------------------------------------------------------------------
(* Before Run: the services.  Two names with one identifier end the        *)
(* process.                                                                *)

GetService(id) == {service_pool[i] : i \in {id} \cap DOMAIN service_pool}

AddServiceUnchecked(s) ==
  /\ ~serving
  /\ added' = added \cup {s}
  /\ service_pool' = [i \in DOMAIN service_pool \cup {ServiceId[s]} |->
                        IF i = ServiceId[s] THEN s ELSE service_pool[i]]
  /\ UNCHANGED <<serving, channel, pool, peerVars, unread, answers, deferred,
                 thread, fault>>

AddService(s) ==
  /\ ~serving
  /\ added' = added \cup {s}
  /\ service_pool' = [i \in DOMAIN service_pool \cup {ServiceId[s]} |->
                        IF i \in DOMAIN service_pool THEN service_pool[i] ELSE s]
  /\ fault' = IF GetService(ServiceId[s]) = {} THEN fault
              ELSE "service added twice"
  /\ UNCHANGED <<serving, channel, pool, peerVars, unread, answers, deferred,
                 thread>>

Run ==
  /\ ~serving
  /\ serving' = TRUE
  /\ UNCHANGED <<added, service_pool, channel, pool, peerVars, unread, answers,
                 deferred, thread, fault>>
-----------------------------------------------------------------------------
(* The dispatcher. *)

\* RPCServerImpl::Accepted: the channel is born with a count of one, the
\* reference of the handler that is posted to the dispatcher.
Accepted(c) ==
  /\ serving /\ peer[c] = "away"
  /\ peer' = [peer EXCEPT ![c] = "open"]
  /\ channel' = [channel EXCEPT ![c] = [Absent EXCEPT !.state = "alive",
                                                      !.count = 1,
                                                      !.starting = TRUE]]
  /\ UNCHANGED <<serviceVars, pool, unread, asked, answers, fault>>

SaveChannel == Cardinality(pool) # Threshold

StartChannelInLoop(c) ==
  LET k == [channel[c] EXCEPT !.starting = FALSE]
  IN  /\ channel[c].starting
      /\ IF SaveChannel
         THEN /\ pool' = pool \cup {c}
              /\ channel' = [channel EXCEPT ![c] = UnRef(StartToRead(Ref(k)))]
         ELSE /\ pool' = pool
              /\ channel' = [channel EXCEPT ![c] = UnRef(TerminateInLoop(k))]
      /\ UNCHANGED <<serviceVars, peerVars, unread, answers, fault>>

CloseAllChannelsInLoop ==
  /\ "stop" \in Endings
  /\ IF \E c \in pool : channel[c].state = "deleted"
     THEN fault' = "use after delete" /\ channel' = channel
     ELSE /\ channel' = [c \in Conns |->
                           IF c \in pool THEN TerminateInLoop(channel[c])
                           ELSE channel[c]]
          /\ fault' = fault
  /\ UNCHANGED <<serviceVars, pool, peerVars, unread, answers>>

ReleaseChannelUncounted(c, k) ==
  /\ pool' = pool \ {c}
  /\ channel' = [channel EXCEPT ![c] = UnRef(k)] /\ fault' = fault

ReleaseChannelTwice(c, k) ==
  /\ pool' = pool \ {c}
  /\ channel' = [channel EXCEPT ![c] = UnRef(UnRef(UnRef(k)))] /\ fault' = fault

\* The handler's own reference goes with the handler, after ReleaseChannel.
ReleaseChannel(c, k) ==
  /\ pool' = pool \ {c}
  /\ IF c \in pool /\ k.count = 1
     THEN fault' = "use after delete" /\ channel' = channel
     ELSE /\ channel' = [channel EXCEPT ![c] =
                           IF c \in pool THEN UnRef(UnRef(k)) ELSE UnRef(k)]
          /\ fault' = fault
-----------------------------------------------------------------------------
(* ReadInLoop, with what it calls. *)

Ended(c) == \/ peer[c] = "gone"
            \/ peer[c] = "finished" /\ unread[c] = <<>>

ReadFails(c) ==
  LET k == [channel[c] EXCEPT !.reading = FALSE]
  IN  /\ channel[c].reading /\ (Ended(c) \/ k.terminated)
      /\ IF k.terminated \/ k.closed_by_peer
         THEN /\ channel' = [channel EXCEPT ![c] = UnRef(k)]
              /\ pool' = pool /\ fault' = fault
         ELSE ReleaseChannel(c, [k EXCEPT !.closed_by_peer = TRUE])
      /\ UNCHANGED <<serviceVars, peerVars, unread, answers>>

SendResponse(k, r, s) == SendInLoop(k, [seq |-> r.seq, by |-> s])

ParseFromArray(r) == r.parses

\* What CallMethod makes of request r on connection c, whose channel is k;
\* the next read is started before the handler's reference is dropped.
CallMethod(c, k, r) ==
  LET services == GetService(ServiceId[r.service])
      s == CHOOSE s \in services : TRUE
      after == [channel EXCEPT ![c] = UnRef(StartToRead(k))]
  IN  \/ /\ services = {}
         /\ fault' = "no such service"
         /\ UNCHANGED <<channel, deferred>>
      \/ /\ services # {} /\ ~ParseFromArray(r)
         /\ channel' = after
         /\ UNCHANGED <<deferred, fault>>
      \/ /\ services # {} /\ ParseFromArray(r) /\ s \in Deferring
         /\ deferred' = deferred \cup {[conn |-> c, seq |-> r.seq, by |-> s]}
         /\ channel' = after
         /\ UNCHANGED fault
      \/ /\ services # {} /\ ParseFromArray(r) /\ s \notin Deferring
         /\ channel' = [channel EXCEPT ![c] =
                          UnRef(StartToRead(SendResponse(k, r, s)))]
         /\ UNCHANGED <<deferred, fault>>

ReadInLoop(c) ==
  /\ channel[c].reading /\ ~channel[c].terminated
  /\ unread[c] # <<>>
  /\ unread' = [unread EXCEPT ![c] = Tail(@)]
  /\ CallMethod(c, [channel[c] EXCEPT !.reading = FALSE], Head(unread[c]))
  /\ UNCHANGED <<added, service_pool, serving, thread, pool, peerVars, answers>>
-----------------------------------------------------------------------------
(* Writing.  The operation ends by itself; Written runs afterwards. *)

CompleteWrite(c, result) ==
  /\ channel[c].state = "alive"
  /\ channel[c].writes # <<>> /\ Head(channel[c].writes).result = "none"
  /\ result = "failed" => peer[c] = "gone" \/ channel[c].terminated
  /\ channel' = [channel EXCEPT ![c].writes[1].result = result]
  /\ answers' = IF result = "written" /\ peer[c] # "gone"
                THEN [answers EXCEPT ![c] =
                        Append(@, [seq |-> Head(channel[c].writes).seq,
                                   by |-> Head(channel[c].writes).by])]
                ELSE answers
  /\ UNCHANGED <<serviceVars, pool, peerVars, unread, fault>>

\* The two CHECKs: the first RPCData is pending, and its size is the number
\* of bytes written.  Responses to different requests differ in size.
Checked(k, w) == k.pending[1].is_pending /\ k.pending[1].seq = w.seq

Written(c) ==
  LET w == Head(channel[c].writes)
      k == [channel[c] EXCEPT !.writes = Tail(@)]
      popped == [k EXCEPT !.pending = RecycleRPCData(@)]
  IN  /\ channel[c].writes # <<>> /\ w.result # "none"
      /\ IF w.result = "failed" \/ k.pending = <<>>
         THEN channel' = [channel EXCEPT ![c] = UnRef(k)] /\ fault' = fault
         ELSE IF Checked(k, w)
         THEN /\ channel' = [channel EXCEPT ![c] = UnRef(WriteInLoop(popped))]
              /\ fault' = fault
         ELSE channel' = channel /\ fault' = "CHECK of Written"
      /\ UNCHANGED <<serviceVars, pool, peerVars, unread, answers>>

\* An operation of a channel that is gone has ended with its socket.
HandlerOfDeleted(c) ==
  /\ channel[c].state = "deleted"
  /\ channel[c].reading \/ channel[c].writes # <<>>
  /\ fault' = "use after delete"
  /\ UNCHANGED <<serviceVars, channel, pool, peerVars, unread, answers>>
-----------------------------------------------------------------------------
(* A service that kept its closure runs it: SendResponse in a thread of    *)
(* its own, with the channel's raw pointer.                                *)

RunClosure(d) ==
  /\ thread = Idle
  /\ deferred' = deferred \ {d}
  /\ IF channel[d.conn].state = "deleted"
     THEN fault' = "use after delete" /\ UNCHANGED <<channel, thread>>
     ELSE /\ channel' = [channel EXCEPT ![d.conn] = PushBack(@, d)]
          /\ thread' = [at |-> "test", conn |-> d.conn]
          /\ fault' = fault
  /\ UNCHANGED <<added, service_pool, serving, pool, peerVars, unread, answers>>

ClosureTests ==
  LET k == channel[thread.conn]
  IN  /\ thread.at = "test"
      /\ IF k.state = "deleted"
         THEN fault' = "use after delete" /\ thread' = thread
         ELSE /\ fault' = fault
              /\ thread' = IF k.pending = <<>> \/ k.pending[1].is_pending
                           THEN Idle
                           ELSE [at |-> "write", conn |-> thread.conn,
                                 seq |-> k.pending[1].seq]
      /\ UNCHANGED <<added, service_pool, serving, deferred, channel, pool, peerVars,
                     unread, answers>>

\* first_data was read in a step before; it may have been recycled since.
Recycled(k) ==
  k.state = "deleted" \/ k.pending = <<>> \/ k.pending[1].seq # thread.seq

\* GetBuffer flags the RPCData, and the Ref of counted_this loads the count.
ClosureWrites ==
  LET k == channel[thread.conn]
  IN  /\ thread.at = "write"
      /\ IF Recycled(k)
         THEN fault' = "use after delete" /\ UNCHANGED <<channel, thread>>
         ELSE /\ channel' = [channel EXCEPT ![thread.conn] =
                               [k EXCEPT !.pending[1].is_pending = TRUE,
                                         !.counted = FALSE]]
              /\ thread' = [at |-> "ref", conn |-> thread.conn,
                            seq |-> thread.seq, loaded |-> k.count]
              /\ fault' = fault
      /\ UNCHANGED <<added, service_pool, serving, deferred, pool, peerVars, unread,
                     answers>>

\* The count is stored.  If the loop has changed it since it was loaded, what the
\* loop did is lost, or this.
ClosureRefs ==
  LET k == channel[thread.conn]
  IN  /\ thread.at = "ref"
      /\ IF Recycled(k)
         THEN fault' = "use after delete" /\ UNCHANGED <<channel, thread>>
         ELSE /\ \E n \in {thread.loaded + 1}
                            \cup {m \in {k.count} : k.counted} :
                   channel' = [channel EXCEPT ![thread.conn] =
                                 [HandOver(k) EXCEPT !.count = n]]
              /\ thread' = Idle
              /\ fault' = fault
      /\ UNCHANGED <<added, service_pool, serving, deferred, pool, peerVars, unread,
                     answers>>
-----------------------------------------------------------------------------
(* The other ends of the connections. *)

PeerSends(c, s, parses) ==
  /\ peer[c] = "open" /\ Len(asked[c]) < MaxRequests
  /\ s \in added \cup Strangers
  /\ LET r == [seq |-> Len(asked[c]) + 1, service |-> s, parses |-> parses]
     IN  /\ asked' = [asked EXCEPT ![c] = Append(@, r)]
         /\ unread' = [unread EXCEPT ![c] = Append(@, r)]
  /\ UNCHANGED <<serviceVars, channel, pool, peer, answers, fault>>

\* The peer sends no more, but reads on.
PeerFinishes(c) ==
  /\ "finish" \in Endings /\ peer[c] = "open"
  /\ peer' = [peer EXCEPT ![c] = "finished"]
  /\ UNCHANGED <<serviceVars, channel, pool, unread, asked, answers, fault>>

PeerGoes(c) ==
  /\ "reset" \in Endings /\ peer[c] \in {"open", "finished"}
  /\ peer' = [peer EXCEPT ![c] = "gone"]
  /\ UNCHANGED <<serviceVars, channel, pool, unread, asked, answers, fault>>
-----------------------------------------------------------------------------
LoopHandler(c) ==
  \/ /\ channel[c].state = "alive"
     /\ StartChannelInLoop(c) \/ ReadInLoop(c) \/ ReadFails(c) \/ Written(c)
  \/ HandlerOfDeleted(c)

ServiceThread == (\E d \in deferred : RunClosure(d)) \/ ClosureTests
                 \/ ClosureWrites \/ ClosureRefs

Alive ==
  \/ \E s \in Services : AddService(s)
  \/ Run
  \/ CloseAllChannelsInLoop
  \/ \E c \in Conns :
       \/ Accepted(c) \/ LoopHandler(c)
       \/ \E result \in {"written", "failed"} : CompleteWrite(c, result)
       \/ \E s \in Services, parses \in BOOLEAN : PeerSends(c, s, parses)
       \/ PeerFinishes(c) \/ PeerGoes(c)
  \/ ServiceThread

Next == fault = "none" /\ Alive

Spec == Init /\ [][Next]_vars

\* The loop goes on running handlers, and the kernel goes on writing.
FairSpec ==
  Spec /\ \A c \in Conns :
            /\ WF_vars(fault = "none" /\ LoopHandler(c))
            /\ WF_vars(fault = "none" /\ \E result \in {"written", "failed"} :
                                           CompleteWrite(c, result))
-----------------------------------------------------------------------------
TypeOK ==
  /\ added \subseteq Services /\ serving \in BOOLEAN
  /\ \A i \in DOMAIN service_pool : service_pool[i] \in added
  /\ \A c \in Conns : LET k == channel[c] IN
       /\ k.state \in {"none", "alive", "deleted"}
       /\ k.count \in Nat /\ k.counted \in BOOLEAN
       /\ k.starting \in BOOLEAN /\ k.reading \in BOOLEAN
       /\ k.writes \in Seq(Write) /\ k.pending \in Seq(Data)
       /\ k.closed_by_peer \in BOOLEAN /\ k.terminated \in BOOLEAN
  /\ pool \subseteq Conns
  /\ peer \in [Conns -> {"away", "open", "finished", "gone"}]
  /\ unread \in [Conns -> Seq(Request)]
  /\ asked \in [Conns -> Seq(Request)]
  /\ answers \in [Conns -> Seq(Response)]
  /\ deferred \subseteq [conn : Conns, seq : 1..MaxRequests, by : Services]
  /\ fault \in {"none", "service added twice", "no such service",
                "CHECK of Written", "use after delete"}

One(b) == IF b THEN 1 ELSE 0

\* SaveChannel: the pool never holds more channels than its threshold.
PoolBounded == Cardinality(pool) <= Threshold

\* Connections on which somebody has asked for one of the services, or for a
\* name with the identifier of one: a request carries nothing but the identifier.
Asked(services) ==
  {c \in Conns : \E i \in DOMAIN asked[c] : \E s \in services :
                   ServiceId[asked[c][i].service] = ServiceId[s]}

\* RefCount, while services answer in the loop: the count of a channel is the
\* number of those who hold it, the posted StartChannelInLoop, the pool, the read
\* and the writes in progress; it is deleted when nobody does, and so no handler
\* and no entry of the pool, a raw pointer, leads to a deleted channel.
CountIsHolders ==
  \A c \in Conns \ Asked(Deferring) : LET k == channel[c] IN
    /\ k.count = One(k.starting) + One(c \in pool) + One(k.reading)
                 + Len(k.writes)
    /\ k.state = "alive" <=> k.count > 0

\* WriteInLoop and Written, while services answer in the loop: a live channel
\* with data to send has its first RPCData, and only that one, handed to the
\* one write in progress, unless a write has failed: no response waits for a
\* write nobody will start.
OneWriteInProgress ==
  \A c \in Conns \ Asked(Deferring) : LET k == channel[c] IN
    /\ Len(k.writes) <= 1
    /\ \A i \in DOMAIN k.pending : k.pending[i].is_pending <=> i = 1
    /\ k.pending # <<>> =>
         \/ k.writes # <<>> /\ Head(k.writes).seq = Head(k.pending).seq
         \/ k.writes = <<>> /\ (k.terminated \/ peer[c] = "gone")

\* No CHECK of Written fails and nothing deleted is used unless a service has
\* kept its closure; none is missing unless a peer has asked for a service that
\* was not added.
NoFault ==
  /\ fault \in {"CHECK of Written", "use after delete"} => Asked(Deferring) # {}
  /\ fault = "no such service" =>
       \E c \in Conns : \E i \in DOMAIN asked[c] : asked[c][i].service \notin added

\* x, a response or an RPCData, answers request n of connection c: by the service
\* of its identifier, which is the one that was asked for if that was added.
Answers(c, x, n) ==
  /\ x.seq = n /\ asked[c][n].parses
  /\ ServiceId[x.by] = ServiceId[asked[c][n].service]
  /\ asked[c][n].service \in added => x.by = asked[c][n].service

\* CallMethod, SendResponse and the writes, of services that answer in the loop:
\* a peer gets answers to its own requests only, each from the service it asked
\* for, in the order of the requests and so at most once; none is skipped but
\* that of a request that could not be parsed.
AnswersInOrder ==
  \A c \in Conns \ Asked(Deferring) : LET a == answers[c] IN
    /\ \A i \in DOMAIN a : \E n \in DOMAIN asked[c] : Answers(c, a[i], n)
    /\ \A i, j \in DOMAIN a : i < j => a[i].seq < a[j].seq
    /\ \A i \in DOMAIN a : \A n \in 1..(a[i].seq - 1) :
         asked[c][n].parses => \E j \in DOMAIN a : a[j].seq = n

Answerable(c) == SelectSeq(asked[c], LAMBDA r : r.parses)

\* ReadInLoop: a request that can be parsed is answered in the end, also when
\* the peer has finished sending and the channel has left the pool, unless the
\* connection is lost or the server terminates the channel.
AnsweredInTheEnd ==
  \A c \in Conns : \A i \in 1..MaxRequests :
    Len(Answerable(c)) >= i ~> \/ Len(answers[c]) >= i
                               \/ peer[c] = "gone" \/ channel[c].terminated

\* ReadInLoop and ReleaseChannel: the channel of a peer that has closed the
\* connection is deleted in the end, its place in the pool free again.
ClosedIsDeleted ==
  \A c \in Conns :
    peer[c] \in {"finished", "gone"} ~> \/ channel[c].state = "deleted"
                                        \/ channel[c].terminated

\* rpc_server_impl.cc:161-165: a request for a service that is not registered
\* is logged and dropped.
UnregisteredIsLogged == fault # "no such service"

\* rpc_channel.cc:148-149: what Written finds at the head of pending_ is what
\* was written.
WrittenChecksHold == fault # "CHECK of Written"
=============================================================================
