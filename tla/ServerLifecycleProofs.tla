----------------------- MODULE ServerLifecycleProofs -----------------------
(***************************************************************************)
(* Stop of a server that was run with RunInAnotherThread returns only when *)
(* the loop of every dispatcher has ended, and a server that listens has   *)
(* one accept on its way, for any number of dispatchers and connections.   *)
(***************************************************************************)
EXTENDS ServerLifecycle, FiniteSetTheorems, SequenceTheorems, TLAPS

Typed ==
  /\ app \in {"new", "no server", "created", "in Run", "free", "stopping",
              "waiting", "stopped", "returned", "deleted"}
  /\ turn \in Networkers
  /\ loop = [d \in Networkers |-> loop[d]]
  /\ stopped \in [Networkers -> Nat]

\* A token in stopped_ was put there by a loop that has ended; Stop has taken
\* one from every dispatcher it has passed.
Inv ==
  /\ Typed
  /\ app \in {"new", "no server", "created"} =>
       \A d \in Networkers : loop[d] = "none"
  /\ \A d \in Networkers : stopped[d] > 0 => loop[d] = "ended"
  /\ app \in {"stopping", "waiting"} =>
       \A d \in Networkers : d < turn => loop[d] = "ended"
  /\ StopEndsLoops

\* A loop that has ended does not begin again: every step but the one that
\* creates the loops leaves it.
LEMMA EndedStays ==
  ASSUME Inv, app' = app, turn' = turn, Typed',
         app \notin {"new", "no server", "created"},
         \A d \in Networkers :
           /\ loop[d] = "ended" => loop'[d] = "ended"
           /\ stopped'[d] = stopped[d] \/ loop'[d] = "ended"
  PROVE  Inv'
  BY DEF Inv, StopEndsLoops, Typed

LEMMA InitInv == Init => Inv
  BY LifecycleAssumption DEF Init, Inv, Typed, StopEndsLoops, Networkers

LEMMA WaitInv ==
  ASSUME Inv, Wait
  PROVE  Inv'
<1>1. /\ loop' = loop /\ stopped[turn] > 0 /\ turn \in Networkers
      /\ stopped' = [stopped EXCEPT ![turn] = @ - 1]
  BY DEF Wait, Inv, Typed
<1>2. /\ stopped' \in [Networkers -> Nat]
      /\ \A d \in Networkers : stopped'[d] > 0 => loop[d] = "ended"
  <2>1. stopped \in [Networkers -> Nat] /\ stopped[turn] - 1 \in Nat
    <3>1. stopped \in [Networkers -> Nat]
      BY DEF Inv, Typed
    <3>2. stopped[turn] \in Nat
      BY <1>1, <3>1
    <3> QED
      BY <1>1, <3>1, <3>2
  <2>2. stopped' \in [Networkers -> Nat]
    BY <1>1, <2>1
  <2>3. \A d \in Networkers :
          stopped'[d] = IF d = turn THEN stopped[turn] - 1 ELSE stopped[d]
    BY <1>1, <2>1
  <2> QED
    BY <1>1, <2>2, <2>3 DEF Inv
<1>3. \A d \in Networkers : d <= turn => loop[d] = "ended"
  <2>1. \A d \in Networkers : d <= turn => d < turn \/ d = turn
    BY <1>1, LifecycleAssumption DEF Networkers
  <2> QED
    BY <1>1, <2>1 DEF Inv, Wait
<1>4. CASE turn + 1 \in Networkers
  <2>1. app' = "stopping" /\ turn' = turn + 1
    BY <1>4 DEF Wait
  <2>2. \A d \in Networkers : d < turn' => loop[d] = "ended"
    BY <1>1, <1>3, <2>1, LifecycleAssumption DEF Networkers
  <2> QED
    BY <1>1, <1>2, <1>4, <2>1, <2>2 DEF Inv, Typed, StopEndsLoops
<1>5. CASE turn + 1 \notin Networkers
  <2>1. app' = "stopped" /\ turn' = turn
    BY <1>5 DEF Wait
  <2>2. \A d \in Networkers : loop[d] = "ended"
    BY <1>1, <1>3, <1>5, LifecycleAssumption DEF Networkers
  <2> QED
    BY <1>1, <1>2, <2>1, <2>2 DEF Inv, Typed, StopEndsLoops
<1> QED
  BY <1>4, <1>5

LEMMA LoopStepInv ==
  ASSUME Inv, NEW d \in Networkers, LoopStep(d)
  PROVE  Inv'
<1>1. app' = app /\ turn' = turn /\ loop[d] \notin {"none", "ended"}
  BY DEF LoopStep, Loop, RunOnce, RunHandler, RunReturns, Notify
<1>2. app \notin {"new", "no server", "created"}
  BY <1>1 DEF Inv
<1>3. \/ stopped' = stopped /\ \E v : loop' = [loop EXCEPT ![d] = v]
      \/ stopped' = stopped /\ loop' = loop
      \/ /\ stopped' = [stopped EXCEPT ![d] = @ + 1]
         /\ loop' = [loop EXCEPT ![d] = "ended"]
  BY DEF LoopStep, Loop, RunOnce, RunHandler, RunReturns, Notify, stopVars,
         Accepted, StartChannelInLoop, CloseAllChannelsInLoop, AsyncStop,
         ReleaseChannel
<1>4. Typed'
  <2>1. stopped \in [Networkers -> Nat] /\ loop = [b \in Networkers |-> loop[b]]
    BY DEF Inv, Typed
  <2>2. stopped[d] + 1 \in Nat
    BY <2>1
  <2>3. stopped' \in [Networkers -> Nat]
    BY <1>3, <2>1, <2>2
  <2>4. loop' = [b \in Networkers |-> loop'[b]]
    BY <1>3, <2>1
  <2> QED
    BY <1>1, <2>3, <2>4 DEF Inv, Typed
<1>5. \A b \in Networkers :
        /\ loop[b] = "ended" => loop'[b] = "ended"
        /\ stopped'[b] = stopped[b] \/ loop'[b] = "ended"
  BY <1>1, <1>3 DEF Inv, Typed
<1> QED
  BY <1>1, <1>2, <1>4, <1>5, EndedStays

LEMMA NextInv == Inv /\ [Next]_vars => Inv'
<1> SUFFICES ASSUME Inv, [Next]_vars PROVE Inv'
  OBVIOUS
<1> USE DEF Inv, Typed, StopEndsLoops
<1>1. CASE CreateRPCServer
  BY <1>1 DEF CreateRPCServer, stopVars
<1>2. CASE RunInAnotherThread
  BY <1>2 DEF RunInAnotherThread, stopVars
<1>3. CASE Stop
  BY <1>3, LifecycleAssumption DEF Stop, stopVars, Networkers
<1>4. CASE StopDispatcher \/ Delete
  BY <1>4 DEF StopDispatcher, Delete, stopVars
<1>5. CASE Run \/ RunReturnsToApp
  BY <1>5 DEF Run, RunReturnsToApp, stopVars
<1>6. CASE UNCHANGED <<app, turn, loop, stopped>>
  BY <1>6
<1>7. ASSUME (\E d \in Networkers, c \in Conns : PeerCloses(d, c))
             \/ (\E c \in Conns : Connect(c)) \/ AcceptFails \/ SignalArrives
             \/ UNCHANGED vars
      PROVE  UNCHANGED <<app, turn, loop, stopped>>
  BY <1>7 DEF PeerCloses, Connect, AcceptFails, AcceptEnds, SignalArrives,
              stopVars, vars
<1> QED
  BY <1>1, <1>2, <1>3, <1>4, <1>5, <1>6, <1>7, WaitInv, LoopStepInv
  DEF Next, AppStep

\* RPCServerImpl::Stop, with any number of dispatchers and connections and
\* whatever signals come: when Stop has returned every loop has ended, so that
\* the dispatchers may be deleted.
THEOREM StopLeavesNoLoop == Spec => []StopEndsLoops
<1>1. Init => Inv
  BY InitInv
<1>2. Inv /\ [Next]_vars => Inv'
  BY NextInv
<1>3. Inv => StopEndsLoops
  BY DEF Inv
<1> QED
  BY <1>1, <1>2, <1>3, PTL DEF Spec
-----------------------------------------------------------------------------
(***************************************************************************)
(* The accept.  A queue of handlers has at most one Accepted, and only the *)
(* queue of the first dispatcher has any.                                  *)
(***************************************************************************)
NoAccept(s) == \A i \in 1..Len(s) : s[i].op # "Accepted"

AtMostOneAccept(s) ==
  \A i, j \in 1..Len(s) : s[i].op = "Accepted" /\ s[j].op = "Accepted" => i = j

\* The accept is in progress or its completion is in one of the queues q, never
\* both and never twice.
AcceptOnce(q, in_progress) ==
  /\ q \in [Networkers -> Seq(Handler)]
  /\ \A d \in Networkers \ {0} : NoAccept(q[d])
  /\ AtMostOneAccept(q[0])
  /\ in_progress \in Networkers \cup {None}
  /\ in_progress # None => NoAccept(q[0])

\* An open acceptor has an accept, a server that was not created has none.
AcceptInv ==
  /\ AcceptOnce(queue, accepting)
  /\ acceptor => accepting # None \/ ~NoAccept(queue[0])
  /\ app = "new" => accepting = None /\ NoAccept(queue[0])
  /\ i_selected \in Networkers /\ turn \in Networkers

(* What appending a handler to a queue makes of its accepts. *)
LEMMA AppendAccept ==
  ASSUME NEW s \in Seq(Handler), NEW h \in Handler
  PROVE  /\ Append(s, h) \in Seq(Handler)
         /\ NoAccept(Append(s, h)) <=> NoAccept(s) /\ h.op # "Accepted"
         /\ NoAccept(s) => AtMostOneAccept(Append(s, h))
         /\ AtMostOneAccept(s) /\ h.op # "Accepted" =>
              AtMostOneAccept(Append(s, h))
<1>1. /\ Append(s, h) \in Seq(Handler) /\ Len(Append(s, h)) = Len(s) + 1
      /\ \A i \in 1..Len(s) : Append(s, h)[i] = s[i]
      /\ Append(s, h)[Len(s) + 1] = h
      /\ Len(s) \in Nat
  OBVIOUS
<1> QED
  BY <1>1 DEF NoAccept, AtMostOneAccept

(* What taking the first handler from a queue makes of them. *)
LEMMA TailAccept ==
  ASSUME NEW s \in Seq(Handler), s # <<>>
  PROVE  /\ Head(s) \in Handler /\ Tail(s) \in Seq(Handler)
         /\ NoAccept(s) => Head(s).op # "Accepted" /\ NoAccept(Tail(s))
         /\ AtMostOneAccept(s) => AtMostOneAccept(Tail(s))
         /\ AtMostOneAccept(s) /\ Head(s).op = "Accepted" => NoAccept(Tail(s))
         /\ NoAccept(Tail(s)) /\ Head(s).op # "Accepted" => NoAccept(s)
<1>1. /\ Head(s) \in Handler /\ Tail(s) \in Seq(Handler)
      /\ Len(Tail(s)) = Len(s) - 1 /\ Head(s) = s[1]
      /\ \A i \in 1..Len(Tail(s)) : Tail(s)[i] = s[i + 1]
      /\ Len(s) \in Nat \ {0}
  OBVIOUS
<1>2. \A i \in 1..Len(Tail(s)) : i + 1 \in 1..Len(s) /\ i + 1 # 1
  BY <1>1
<1>3. \A i \in 1..Len(s) : i = 1 \/ (i - 1 \in 1..Len(Tail(s)) /\ s[i] = Tail(s)[i - 1])
  BY <1>1
<1>4. 1 \in 1..Len(s)
  BY <1>1
<1>5. NoAccept(s) => Head(s).op # "Accepted" /\ NoAccept(Tail(s))
  BY <1>1, <1>2, <1>4 DEF NoAccept
<1>6. AtMostOneAccept(s) => AtMostOneAccept(Tail(s))
  BY <1>1, <1>2 DEF AtMostOneAccept
<1>7. AtMostOneAccept(s) /\ Head(s).op = "Accepted" => NoAccept(Tail(s))
  BY <1>1, <1>2, <1>4 DEF AtMostOneAccept, NoAccept
<1>8. NoAccept(Tail(s)) /\ Head(s).op # "Accepted" => NoAccept(s)
  BY <1>1, <1>3 DEF NoAccept
<1> QED
  BY <1>1, <1>5, <1>6, <1>7, <1>8

(* A handler that is put on a queue leaves the others. *)
LEMMA PutQueue ==
  ASSUME NEW q \in [Networkers -> Seq(Handler)], NEW d \in Networkers,
         NEW h \in Handler
  PROVE  /\ Put(q, d, h) \in [Networkers -> Seq(Handler)]
         /\ Put(q, d, h)[d] = Append(q[d], h)
         /\ \A b \in Networkers \ {d} : Put(q, d, h)[b] = q[b]
  BY AppendAccept DEF Put

(* The handlers the server posts are handlers. *)
LEMMA Posted ==
  /\ \A op \in {"CloseAcceptor", "CloseAllChannels", "AsyncStop"} :
       [op |-> op] \in Handler
  /\ \A op \in {"StartChannel", "ReadFails"}, c \in Conns :
       [op |-> op, conn |-> c] \in Handler
  /\ \A d \in Networkers, c \in Conns :
       [op |-> "Accepted", on |-> d, conn |-> c] \in Handler
  /\ Aborted \in Handler /\ Aborted.op = "Accepted"
  BY DEF Handler, Aborted

LEMMA FirstDispatcher == 0 \in Networkers /\ None \notin Networkers
  BY LifecycleAssumption DEF Networkers, None

(* Posting a handler that is no Accepted changes nothing for the accept. *)
LEMMA PutOther ==
  ASSUME NEW q, NEW in_progress, AcceptOnce(q, in_progress),
         NEW d \in Networkers, NEW h \in Handler, h.op # "Accepted"
  PROVE  /\ AcceptOnce(Put(q, d, h), in_progress)
         /\ NoAccept(Put(q, d, h)[0]) <=> NoAccept(q[0])
<1>1. q \in [Networkers -> Seq(Handler)] /\ 0 \in Networkers
  BY FirstDispatcher DEF AcceptOnce
<1>2. /\ Put(q, d, h) \in [Networkers -> Seq(Handler)]
      /\ Put(q, d, h)[d] = Append(q[d], h)
      /\ \A b \in Networkers \ {d} : Put(q, d, h)[b] = q[b]
  BY <1>1, PutQueue
<1>3. \A b \in Networkers :
        /\ NoAccept(Put(q, d, h)[b]) <=> NoAccept(q[b])
        /\ AtMostOneAccept(q[b]) => AtMostOneAccept(Put(q, d, h)[b])
  BY <1>1, <1>2, AppendAccept
<1> QED
  BY <1>1, <1>2, <1>3 DEF AcceptOnce

(* The completion of an accept is posted when no other is on its way. *)
LEMMA PutAccepted ==
  ASSUME NEW q, NEW in_progress, AcceptOnce(q, in_progress), NoAccept(q[0]),
         NEW h \in Handler, h.op = "Accepted"
  PROVE  /\ AcceptOnce(Put(q, 0, h), None)
         /\ ~NoAccept(Put(q, 0, h)[0])
<1>1. q \in [Networkers -> Seq(Handler)] /\ 0 \in Networkers
  BY FirstDispatcher DEF AcceptOnce
<1>2. /\ Put(q, 0, h) \in [Networkers -> Seq(Handler)]
      /\ Put(q, 0, h)[0] = Append(q[0], h)
      /\ \A b \in Networkers \ {0} : Put(q, 0, h)[b] = q[b]
  BY <1>1, PutQueue
<1>3. AtMostOneAccept(Put(q, 0, h)[0]) /\ ~NoAccept(Put(q, 0, h)[0])
  <2>1. q[0] \in Seq(Handler)
    BY <1>1
  <2>2. /\ AtMostOneAccept(Append(q[0], h))
        /\ NoAccept(Append(q[0], h)) <=> NoAccept(q[0]) /\ h.op # "Accepted"
    BY <2>1, AppendAccept
  <2> QED
    BY <1>2, <2>2
<1>4. \A d \in Networkers \ {0} : NoAccept(Put(q, 0, h)[d])
  BY <1>2 DEF AcceptOnce
<1> QED
  BY <1>2, <1>3, <1>4 DEF AcceptOnce

(* A handler is taken from a queue: an Accepted was the only one. *)
LEMMA TakeHandler ==
  ASSUME NEW q, NEW in_progress, AcceptOnce(q, in_progress),
         NEW d \in Networkers, q[d] # <<>>,
         NEW rest \in [Networkers -> Seq(Handler)], rest[d] = Tail(q[d]),
         \A b \in Networkers \ {d} : rest[b] = q[b]
  PROVE  /\ Head(q[d]) \in Handler
         /\ AcceptOnce(rest, in_progress)
         /\ Head(q[d]).op = "Accepted" => NoAccept(rest[0]) /\ in_progress = None
         /\ Head(q[d]).op # "Accepted" => (NoAccept(rest[0]) <=> NoAccept(q[0]))
<1>1. q \in [Networkers -> Seq(Handler)] /\ 0 \in Networkers
  BY FirstDispatcher DEF AcceptOnce
<1>2. q[d] \in Seq(Handler)
  BY <1>1
<1>3. /\ Head(q[d]) \in Handler /\ Tail(q[d]) \in Seq(Handler)
      /\ NoAccept(q[d]) => Head(q[d]).op # "Accepted" /\ NoAccept(Tail(q[d]))
      /\ AtMostOneAccept(q[d]) => AtMostOneAccept(Tail(q[d]))
      /\ AtMostOneAccept(q[d]) /\ Head(q[d]).op = "Accepted"
           => NoAccept(Tail(q[d]))
      /\ NoAccept(Tail(q[d])) /\ Head(q[d]).op # "Accepted" => NoAccept(q[d])
  BY <1>2, TailAccept
<1>4. /\ rest \in [Networkers -> Seq(Handler)]
      /\ rest[d] = Tail(q[d])
      /\ \A b \in Networkers \ {d} : rest[b] = q[b]
  BY <1>1, <1>3
<1>5. AcceptOnce(rest, in_progress)
  BY <1>1, <1>3, <1>4 DEF AcceptOnce
<1>6. Head(q[d]).op = "Accepted" => d = 0
  BY <1>1, <1>3 DEF AcceptOnce
<1>7. Head(q[d]).op = "Accepted" => NoAccept(rest[0]) /\ in_progress = None
  BY <1>1, <1>3, <1>4, <1>6 DEF AcceptOnce
<1>8. Head(q[d]).op # "Accepted" => (NoAccept(rest[0]) <=> NoAccept(q[0]))
  BY <1>1, <1>3, <1>4
<1> QED
  BY <1>3, <1>5, <1>7, <1>8

(* A step that posts nothing but perhaps another handler and leaves the    *)
(* acceptor and its accept keeps the invariant.                            *)
LEMMA AcceptKept ==
  ASSUME AcceptInv, AcceptOnce(queue', accepting),
         NoAccept(queue'[0]) <=> NoAccept(queue[0]),
         UNCHANGED <<acceptor, accepting, i_selected>>,
         turn' \in Networkers, app' = "new" => app = "new"
  PROVE  AcceptInv'
  BY DEF AcceptInv, AcceptOnce

LEMMA NextDispatcher ==
  ASSUME i_selected \in Networkers
  PROVE  GetIdlestDispatcher \in Networkers
  BY LifecycleAssumption DEF Networkers, GetIdlestDispatcher

(* StartToAccept is called when no accept is on its way, and brings one. *)
LEMMA StartToAcceptOnce ==
  ASSUME NEW q, AcceptOnce(q, None), NoAccept(q[0]), StartToAccept(q),
         i_selected \in Networkers
  PROVE  /\ AcceptOnce(queue', accepting')
         /\ accepting' # None \/ ~NoAccept(queue'[0])
         /\ i_selected' \in Networkers
<1>1. i_selected' \in Networkers
  BY NextDispatcher DEF StartToAccept
<1>2. CASE acceptor
  <2>1. accepting' = i_selected /\ queue' = q
    BY <1>2 DEF StartToAccept
  <2> QED
    BY <1>1, <2>1, FirstDispatcher DEF AcceptOnce
<1>3. CASE ~acceptor
  <2>1. accepting' = None /\ queue' = Put(q, 0, Aborted)
    BY <1>3 DEF StartToAccept
  <2> QED
    BY <1>1, <2>1, PutAccepted, Posted
<1> QED
  BY <1>2, <1>3

(* Accepted: whatever became of the accept, another is on its way while    *)
(* the acceptor is open.                                                   *)
LEMMA AcceptedOnce ==
  ASSUME NEW h \in Handler, h.op = "Accepted", NEW q, AcceptOnce(q, None),
         NoAccept(q[0]), accepting = None, i_selected \in Networkers,
         Accepted(h, q)
  PROVE  /\ AcceptOnce(queue', accepting')
         /\ acceptor' => accepting' # None \/ ~NoAccept(queue'[0])
         /\ i_selected' \in Networkers
<1>1. CASE StartToAccept(q)
  BY <1>1, StartToAcceptOnce DEF Accepted
<1>2. ASSUME h.conn # None,
             StartToAccept(Put(q, h.on, [op |-> "StartChannel", conn |-> h.conn]))
      PROVE  /\ AcceptOnce(queue', accepting')
             /\ accepting' # None \/ ~NoAccept(queue'[0])
             /\ i_selected' \in Networkers
  <2>1. h.on \in Networkers /\ h.conn \in Conns
    BY <1>2 DEF Handler, Aborted
  <2>2. [op |-> "StartChannel", conn |-> h.conn] \in Handler
    BY <2>1, Posted
  <2>3. LET r == Put(q, h.on, [op |-> "StartChannel", conn |-> h.conn])
        IN  AcceptOnce(r, None) /\ NoAccept(r[0])
    BY <2>1, <2>2, PutOther
  <2> QED
    BY <1>2, <2>3, StartToAcceptOnce
<1>3. CASE queue' = q /\ ~acceptor /\ UNCHANGED <<accepting, i_selected>>
  BY <1>3 DEF Accepted
<1> QED
  BY <1>1, <1>2, <1>3 DEF Accepted, StartChannel

(* CloseAcceptor leaves the completion of the accept that it aborts. *)
LEMMA CloseAcceptorOnce ==
  ASSUME NEW q, AcceptOnce(q, accepting), i_selected \in Networkers,
         CloseAcceptor(q)
  PROVE  /\ AcceptOnce(queue', accepting')
         /\ ~acceptor'
         /\ i_selected' \in Networkers
<1>1. CASE accepting # None
  <2>1. NoAccept(q[0]) /\ queue' = Put(q, 0, Aborted) /\ accepting' = None
    BY <1>1 DEF AcceptOnce, CloseAcceptor
  <2> QED
    BY <2>1, PutAccepted, Posted DEF CloseAcceptor
<1>2. CASE accepting = None
  BY <1>2 DEF CloseAcceptor
<1> QED
  BY <1>1, <1>2

(* What AsyncStop posts to the other dispatchers is no Accepted. *)
LEMMA PutAllOther ==
  ASSUME NEW q, NEW in_progress, AcceptOnce(q, in_progress)
  PROVE  AcceptOnce([d \in Networkers |->
                       IF d = 0 THEN q[0]
                       ELSE Append(q[d], [op |-> "CloseAllChannels"])],
                    in_progress)
<1> DEFINE h == [op |-> "CloseAllChannels"]
           r == [d \in Networkers |-> IF d = 0 THEN q[0] ELSE Append(q[d], h)]
<1>1. h \in Handler /\ h.op # "Accepted"
  BY Posted
<1>2. q \in [Networkers -> Seq(Handler)] /\ 0 \in Networkers
  BY FirstDispatcher DEF AcceptOnce
<1> HIDE DEF h
<1>3. \A d \in Networkers : /\ Append(q[d], h) \in Seq(Handler)
                            /\ NoAccept(Append(q[d], h)) <=> NoAccept(q[d])
  BY <1>1, <1>2, AppendAccept
<1>4. /\ r \in [Networkers -> Seq(Handler)] /\ r[0] = q[0]
      /\ \A d \in Networkers \ {0} : NoAccept(r[d])
  BY <1>2, <1>3 DEF AcceptOnce
<1> HIDE DEF r
<1>5. AcceptOnce(r, in_progress)
  BY <1>4 DEF AcceptOnce
<1> QED
  BY <1>5 DEF r, h

(* One lemma per step that posts a handler or runs one. *)
LEMMA AcceptInit == Init => AcceptInv
  BY FirstDispatcher
  DEF Init, AcceptInv, AcceptOnce, NoAccept, AtMostOneAccept, Aborted

LEMMA AcceptRunHandler ==
  ASSUME AcceptInv, NEW d \in Networkers, RunHandler(d), app # "new"
  PROVE  AcceptInv'
<1> DEFINE h == Head(queue[d])
           q == [queue EXCEPT ![d] = Tail(@)]
<1>1. /\ queue[d] # <<>> /\ UNCHANGED <<app, turn>>
      /\ AcceptOnce(queue, accepting) /\ i_selected \in Networkers
      /\ turn \in Networkers
  BY DEF RunHandler, AcceptInv
<1>2. /\ h \in Handler /\ AcceptOnce(q, accepting)
      /\ h.op = "Accepted" => NoAccept(q[0]) /\ accepting = None
      /\ h.op # "Accepted" => (NoAccept(q[0]) <=> NoAccept(queue[0]))
  <2>1. queue[d] # <<>> /\ AcceptOnce(queue, accepting)
    BY <1>1
  <2>2. /\ q \in [Networkers -> Seq(Handler)]
        /\ q[d] = Tail(queue[d])
        /\ \A b \in Networkers \ {d} : q[b] = queue[b]
    BY <2>1, TailAccept DEF AcceptOnce
  <2> HIDE DEF q, h
  <2>3. /\ Head(queue[d]) \in Handler
        /\ AcceptOnce(q, accepting)
        /\ Head(queue[d]).op = "Accepted" => NoAccept(q[0]) /\ accepting = None
        /\ Head(queue[d]).op # "Accepted" => (NoAccept(q[0]) <=> NoAccept(queue[0]))
    BY <2>1, <2>2, TakeHandler, Zenon
  <2> QED
    BY <2>3 DEF h
<1>3. \/ h.op = "Accepted" /\ Accepted(h, q)
      \/ h.op = "StartChannel" /\ StartChannelInLoop(d, h, q)
      \/ h.op = "CloseAcceptor" /\ CloseAcceptor(q)
      \/ h.op = "CloseAllChannels" /\ CloseAllChannelsInLoop(d, q)
      \/ h.op = "AsyncStop" /\ AsyncStop(q)
      \/ h.op = "ReadFails" /\ ReleaseChannel(d, h, q)
  BY DEF RunHandler
<1> HIDE DEF h, q
<1>4. ASSUME AcceptOnce(queue', accepting'),
             acceptor' => accepting' # None \/ ~NoAccept(queue'[0]),
             i_selected' \in Networkers
      PROVE  AcceptInv'
  BY <1>1, <1>4 DEF AcceptInv
<1>5. CASE h.op = "Accepted" /\ Accepted(h, q)
  BY <1>1, <1>2, <1>4, <1>5, AcceptedOnce
<1>6. CASE CloseAcceptor(q)
  BY <1>1, <1>2, <1>4, <1>6, CloseAcceptorOnce
<1>7. CASE AsyncStop(q)
  <2>1. CloseAcceptor([b \in Networkers |->
          IF b = 0 THEN q[0] ELSE Append(q[b], [op |-> "CloseAllChannels"])])
    BY <1>7 DEF AsyncStop
  <2> QED
    BY <1>1, <1>2, <1>4, <2>1, PutAllOther, CloseAcceptorOnce
<1>8. CASE /\ h.op # "Accepted" /\ queue' = q
           /\ UNCHANGED <<acceptor, accepting, i_selected>>
  BY <1>1, <1>2, <1>8, AcceptKept
<1> QED
  BY <1>3, <1>5, <1>6, <1>7, <1>8
  DEF StartChannelInLoop, CloseAllChannelsInLoop, ReleaseChannel, acceptVars

LEMMA AcceptKernel ==
  ASSUME AcceptInv, NEW h \in Handler, h.op = "Accepted", AcceptEnds(h)
  PROVE  AcceptInv'
<1>1. /\ accepting # None /\ accepting' = None /\ queue' = Put(queue, 0, h)
      /\ UNCHANGED <<app, turn, acceptor, i_selected>> /\ app # "new"
  BY DEF AcceptEnds, Exists
<1>2. AcceptOnce(queue, accepting) /\ NoAccept(queue[0])
  BY <1>1 DEF AcceptInv, AcceptOnce
<1>3. AcceptOnce(queue', None) /\ ~NoAccept(queue'[0])
  BY <1>1, <1>2, PutAccepted
<1> QED
  BY <1>1, <1>3 DEF AcceptInv

LEMMA AcceptPosts ==
  ASSUME AcceptInv, NEW d \in Networkers, NEW h \in Handler,
         h.op # "Accepted", queue' = Put(queue, d, h),
         UNCHANGED <<acceptor, accepting, i_selected>>,
         turn' \in Networkers, app' = "new" => app = "new"
  PROVE  AcceptInv'
<1>1. /\ AcceptOnce(queue', accepting)
      /\ NoAccept(queue'[0]) <=> NoAccept(queue[0])
  BY PutOther DEF AcceptInv
<1> QED
  BY <1>1, AcceptKept

LEMMA AcceptCreate ==
  ASSUME AcceptInv, CreateRPCServer
  PROVE  AcceptInv'
<1>1. /\ app = "new" /\ queue' = queue /\ turn' = turn /\ app' # "new"
      /\ AcceptOnce(queue, accepting) /\ NoAccept(queue[0])
      /\ turn \in Networkers /\ i_selected \in Networkers
  BY DEF CreateRPCServer, AcceptInv
<1>2. CASE accepting' = i_selected /\ i_selected' = GetIdlestDispatcher
  <2>1. i_selected' \in Networkers
    BY <1>1, <1>2, NextDispatcher
  <2> QED
    BY <1>1, <1>2, <2>1, FirstDispatcher DEF AcceptInv, AcceptOnce
<1>3. CASE UNCHANGED <<acceptor, accepting, i_selected>>
  BY <1>1, <1>3 DEF AcceptInv
<1> QED
  BY <1>2, <1>3 DEF CreateRPCServer, acceptVars

LEMMA AcceptNext == AcceptInv /\ Inv /\ [Next]_vars => AcceptInv'
<1> SUFFICES ASSUME AcceptInv, Inv, [Next]_vars PROVE AcceptInv'
  OBVIOUS
<1>1. 0 \in Networkers /\ turn \in Networkers
  BY FirstDispatcher DEF AcceptInv
<1>2. CASE UNCHANGED <<queue, acceptor, accepting, i_selected>>
           /\ turn' \in Networkers /\ (app' = "new" => app = "new")
  BY <1>2, AcceptKept DEF AcceptInv
<1>3. CASE Stop \/ StopDispatcher
  BY <1>1, <1>3, AcceptPosts, Posted DEF Stop, StopDispatcher, acceptVars
<1>4. CASE Run \/ RunInAnotherThread \/ RunReturnsToApp \/ Wait \/ Delete
  BY <1>1, <1>2, <1>4
  DEF Run, RunInAnotherThread, RunReturnsToApp, Wait, Delete, acceptVars
<1>5. ASSUME NEW d \in Networkers, LoopStep(d)
      PROVE  AcceptInv'
  <2>1. CASE RunHandler(d)
    <3>1. app # "new"
      BY <2>1 DEF RunHandler, Inv
    <3> QED
      BY <2>1, <3>1, AcceptRunHandler
  <2>2. CASE Loop(d) \/ RunOnce(d) \/ RunReturns(d) \/ Notify(d)
    BY <1>1, <1>2, <2>2 DEF Loop, RunOnce, RunReturns, Notify, acceptVars
  <2> QED
    BY <1>5, <2>1, <2>2 DEF LoopStep
<1>6. ASSUME NEW d \in Networkers, NEW c \in Conns, PeerCloses(d, c)
      PROVE  AcceptInv'
  BY <1>1, <1>6, AcceptPosts, Posted DEF PeerCloses, acceptVars
<1>7. ASSUME NEW c \in Conns, Connect(c)
      PROVE  AcceptInv'
  <2>1. accepting \in Networkers
    BY <1>7 DEF Connect, AcceptEnds, AcceptInv, AcceptOnce
  <2> QED
    BY <1>7, <2>1, AcceptKernel, Posted DEF Connect
<1>8. CASE AcceptFails
  BY <1>8, AcceptKernel, Posted DEF AcceptFails
<1>9. CASE SignalArrives
  BY <1>1, <1>9, AcceptPosts, Posted DEF SignalArrives, acceptVars
<1>10. CASE UNCHANGED vars
  BY <1>1, <1>2, <1>10 DEF vars
<1> QED
  BY <1>3, <1>4, <1>5, <1>6, <1>7, <1>8, <1>9, <1>10, AcceptCreate
  DEF Next, AppStep

(* The count of OneAccept, from the positions. *)
LEMMA AcceptCounts == AcceptInv => OneAccept
<1> SUFFICES ASSUME AcceptInv PROVE OneAccept
  OBVIOUS
<1>1. queue[0] \in Seq(Handler) /\ DOMAIN queue[0] = 1..Len(queue[0])
  BY FirstDispatcher DEF AcceptInv, AcceptOnce
<1>2. CASE NoAccept(queue[0])
  <2>1. AcceptsQueued = {}
    BY <1>1, <1>2 DEF AcceptsQueued, NoAccept
  <2>2. Cardinality(AcceptsQueued) = 0
    BY <2>1, FS_EmptySet
  <2> QED
    BY <1>2, <2>2 DEF OneAccept, AcceptInv
<1>3. CASE ~NoAccept(queue[0])
  <2>1. PICK i \in 1..Len(queue[0]) : queue[0][i].op = "Accepted"
    BY <1>3 DEF NoAccept
  <2>2. AcceptsQueued = {i}
    BY <1>1, <2>1 DEF AcceptsQueued, AcceptInv, AcceptOnce, AtMostOneAccept
  <2>3. Cardinality(AcceptsQueued) = 1 /\ accepting = None
    BY <1>3, <2>2, FS_Singleton DEF AcceptInv, AcceptOnce
  <2> QED
    BY <2>3 DEF OneAccept
<1> QED
  BY <1>2, <1>3

\* StartToAccept, Accepted and CloseAcceptor, with any number of dispatchers and
\* connections, whatever fails and whenever the server is stopped or a signal
\* comes: never two accepts are on their way to new_socket_, and while the
\* acceptor is open there always is one.
THEOREM OneAcceptOnItsWay == Spec => []OneAccept
<1>1. Init => AcceptInv /\ Inv
  BY AcceptInit, InitInv
<1>2. AcceptInv /\ Inv /\ [Next]_vars => AcceptInv' /\ Inv'
  BY AcceptNext, NextInv
<1> QED
  BY <1>1, <1>2, AcceptCounts, PTL DEF Spec
=============================================================================
