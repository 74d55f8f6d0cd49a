------------------------ MODULE ClientChannelProofs -------------------------
(***************************************************************************)
(* ClientChannel for any set of calls, any number of connections and every *)
(* kind of fault: type correctness, with the lemmas on the steps that its  *)
(* handlers share; every call is in one place at a time, and so no closure *)
(* runs twice; no closure runs after TerminateInLoop, and no call is       *)
(* forgotten; every open session has its request on the present connection *)
(* or waiting for it, and no connection carries a request twice.           *)
(*                                                                         *)
(* As long as no response is torn, or no connection replaced, ReadInLoop   *)
(* finds the bytes of one response after the other, so that every closure  *)
(* gets the answer to its own call, and the client keeps the promises of   *)
(* RPCContract.                                                            *)
(***************************************************************************)
EXTENDS ClientContract, TLAPS

-----------------------------------------------------------------------------
(* Shapes and types of the pieces the actions are built from *)

(* The fields a handler has are given by its kind. *)
LEMMA HandlerFields ==
  ASSUME NEW r \in Handlers
  PROVE  /\ r.h = "send" => r.call \in Calls
         /\ r.h = "read" => r.err \in BOOLEAN /\ r.parts \in Seq(Parts)
         /\ r.h = "written" => r.err \in BOOLEAN /\ r.data \in Nat
         /\ r.h = "connected" => r.err \in BOOLEAN
BY Zenon DEF Handlers

(* Every handler the actions post is one of Handlers. *)
LEMMA HandlerMade ==
  /\ \A c \in Calls : [h |-> "send", call |-> c] \in Handlers
  /\ \A e \in BOOLEAN, p \in Seq(Parts) :
       [h |-> "read", err |-> e, parts |-> p] \in Handlers
  /\ \A e \in BOOLEAN, d \in Nat :
       [h |-> "written", err |-> e, data |-> d] \in Handlers
  /\ \A e \in BOOLEAN : [h |-> "connected", err |-> e] \in Handlers
  /\ [h |-> "terminate"] \in Handlers
BY Zenon DEF Handlers

(* What the application and the completion of a write post. *)
LEMMA WorkersPost ==
  ASSUME NEW k, NEW d, CompleteWrite(k, d) \/ CallMethod(k) \/ Destroy
  PROVE  \E x : Post(x) /\ x.h \in {"written", "send", "terminate"}
<1>1. CASE CallMethod(k)
  BY <1>1 DEF CallMethod
<1>2. CASE Destroy
  BY <1>2 DEF Destroy
<1>3. CASE CompleteWrite(k, d)
  <2>1. PICK e \in BOOLEAN : Post([h |-> "written", err |-> e, data |-> d])
    BY <1>3, Zenon DEF CompleteWrite
  <2> QED
    BY <2>1
<1> QED
  BY <1>1, <1>2, <1>3, Zenon

(* What the completion of a connection attempt posts. *)
LEMMA ConnectPosts ==
  ASSUME ConnectSucceeds \/ ConnectFails
  PROVE  \E x : Post(x) /\ x.h = "connected"
BY DEF ConnectSucceeds, ConnectFails

(* The asynchronous operations the channel starts are operations. *)
LEMMA OpMade ==
  /\ ConnectOp \in Ops
  /\ \A k \in Nat : ReadOp(k) \in Ops
  /\ \A k, d \in Nat : WriteOp(k, d) \in Ops
BY Zenon DEF Ops, ConnectOp, ReadOp, WriteOp

(* WriteInLoop changes no RPCData but the flag and the history of one. *)
LEMMA WriteInLoopType ==
  ASSUME NEW n \in Int, NEW k \in Nat, NEW queue \in Seq(0..n),
         NEW heap \in [0..n -> RPCDatas], NEW started \in SUBSET Ops,
         WriteInLoop(k, queue, heap, started)
  PROVE  /\ pending' \in Seq(0..n)
         /\ data' \in [0..n -> RPCDatas]
         /\ ops' \in SUBSET Ops
         /\ \A d \in 0..n : data'[d].call = heap[d].call
<1>1. CASE queue # <<>> /\ ~heap[Head(queue)].is_pending
  <2> DEFINE h == Head(queue)
  <2>1. h \in 0..n
    BY <1>1
  <2>2. [heap[h] EXCEPT !.is_pending = TRUE, !.conn = k] \in RPCDatas
    BY <2>1, Zenon DEF RPCDatas
  <2>3. WriteOp(k, h) \in Ops
    BY <2>1, OpMade
  <2>4. [heap[h] EXCEPT !.is_pending = TRUE, !.conn = k].call = heap[h].call
    BY <2>1, Zenon DEF RPCDatas
  <2> QED
    BY <1>1, <2>1, <2>2, <2>3, <2>4, Zenon DEF WriteInLoop
<1>2. CASE ~(queue # <<>> /\ ~heap[Head(queue)].is_pending)
  BY <1>2, Zenon DEF WriteInLoop
<1> QED
  BY <1>1, <1>2, Zenon

(* A queue of RPCDatas is one still after SaveSession has made another. *)
LEMMA SeqWiden ==
  ASSUME NEW n \in Int, NEW q \in Seq(0..n)
  PROVE  /\ q \in Seq(0..(n + 1))
         /\ n + 1 >= 0 => Append(q, n + 1) \in Seq(0..(n + 1))
<1>1. q \in [1..Len(q) -> 0..(n + 1)]
  OBVIOUS
<1>2. q \in Seq(0..(n + 1))
  BY <1>1
<1> QED
  BY <1>2

(* SendInLoop makes one RPCData, under the next number. *)
LEMMA SendInLoopType ==
  ASSUME TypeOK, NEW c \in Calls, NEW others \in SUBSET (0..(seq - 1)),
         NEW started \in SUBSET Ops, SendInLoop(c, others, started)
  PROVE  /\ seq' = seq + 1
         /\ sessions' = others \cup {seq}
         /\ pending' \in Seq(0..seq)
         /\ data' \in [0..seq -> RPCDatas]
         /\ ops' \in SUBSET Ops
         /\ \A d \in 0..(seq - 1) : data'[d].call = data[d].call
         /\ data'[seq].call = c
<1> DEFINE heap == NewRPCData(c)
<1>1. heap \in [0..seq -> RPCDatas]
  BY DEF TypeOK, NewRPCData, RPCDatas
<1>2. /\ \A d \in 0..(seq - 1) : heap[d].call = data[d].call
      /\ heap[seq].call = c
  BY DEF TypeOK, NewRPCData
<1>3. Append(pending, seq) \in Seq(0..seq)
  <2>1. seq - 1 \in Int /\ (seq - 1) + 1 = seq /\ seq >= 0
    BY DEF TypeOK
  <2>2. pending \in Seq(0..(seq - 1))
    BY Zenon DEF TypeOK
  <2> QED
    BY <2>1, <2>2, SeqWiden, Zenon
<1>4. WriteInLoop(socket, Append(pending, seq), heap, started)
  BY Zenon DEF SendInLoop
<1>5. seq \in Int /\ socket \in Nat
  BY DEF TypeOK
<1> HIDE DEF heap
<1>6. /\ pending' \in Seq(0..seq)
      /\ data' \in [0..seq -> RPCDatas]
      /\ ops' \in SUBSET Ops
      /\ \A d \in 0..seq : data'[d].call = heap[d].call
  BY <1>1, <1>3, <1>4, <1>5, WriteInLoopType, ZenonT(60)
<1>7. seq' = seq + 1 /\ sessions' = others \cup {seq}
  BY Zenon DEF SendInLoop, SaveSession
<1>8. seq \in Nat
  BY Zenon DEF TypeOK
<1> QED
  BY <1>2, <1>6, <1>7, <1>8

(* What ReceivePackage leaves well typed. *)
LEMMA ReceivePackageType ==
  ASSUME TypeOK, NEW s \in Nat, NEW content \in {"own", "garbled"},
         NEW started \in SUBSET Ops, aborted = "no",
         ReceivePackage(s, content, started)
  PROVE  /\ called' \in SUBSET Calls
         /\ doneRuns' \in [Calls -> Nat]
         /\ answer' \in [Calls -> {"none", "own", "garbled"}]
         /\ seq' \in Nat
         /\ sessions' \in SUBSET (0..(seq' - 1))
         /\ data' \in [0..(seq' - 1) -> RPCDatas]
         /\ pending' \in Seq(0..(seq' - 1))
         /\ ops' \in SUBSET Ops
         /\ aborted' \in {"no", "release"}
<1>1. CASE s \notin sessions
  BY <1>1, Zenon DEF TypeOK, ReceivePackage, sessionVars, ReleaseSession
<1>2. CASE s \in sessions
  <2>1. /\ doneRuns' \in [Calls -> Nat]
        /\ answer' \in [Calls -> {"none", "own", "garbled"}]
        /\ aborted' \in {"no", "release"}
    <3>1. data[s].call \in Calls
      BY <1>2, Zenon DEF TypeOK, RPCDatas
    <3>2. /\ doneRuns' = [doneRuns EXCEPT ![data[s].call] = @ + 1]
          /\ answer' = [answer EXCEPT ![data[s].call] = content]
          /\ aborted' = IF data[s].is_pending THEN "no" ELSE "release"
      BY <1>2, Zenon DEF ReceivePackage, ReleaseSession
    <3>3. doneRuns \in [Calls -> Nat]
      BY Zenon DEF TypeOK
    <3>4. answer \in [Calls -> {"none", "own", "garbled"}]
      BY Zenon DEF TypeOK
    <3>5. doneRuns' \in [Calls -> Nat]
      BY <3>1, <3>2, <3>3
    <3>6. answer' \in [Calls -> {"none", "own", "garbled"}]
      BY <3>1, <3>2, <3>4, Zenon
    <3>7. aborted' \in {"no", "release"}
      BY <3>2, Zenon
    <3> QED
      BY <3>5, <3>6, <3>7, Zenon
  <2>2. CASE /\ sessions' = sessions \ {s}
             /\ ops' = started
             /\ UNCHANGED <<called, seq, data, pending>>
    BY <2>1, <2>2, Zenon DEF TypeOK
  <2>3. ASSUME NEW c \in Calls \ called,
               called' = called \cup {c},
               SendInLoop(c, sessions \ {s}, started)
        PROVE  /\ called' \in SUBSET Calls
               /\ seq' \in Nat
               /\ sessions' \in SUBSET (0..(seq' - 1))
               /\ data' \in [0..(seq' - 1) -> RPCDatas]
               /\ pending' \in Seq(0..(seq' - 1))
               /\ ops' \in SUBSET Ops
    <3>1. sessions \ {s} \in SUBSET (0..(seq - 1)) /\ seq \in Nat
      BY Zenon DEF TypeOK
    <3>2. /\ seq' = seq + 1
          /\ sessions' = (sessions \ {s}) \cup {seq}
          /\ pending' \in Seq(0..seq)
          /\ data' \in [0..seq -> RPCDatas]
          /\ ops' \in SUBSET Ops
      BY <2>3, <3>1, SendInLoopType, Zenon
    <3>3. seq' - 1 = seq /\ seq' \in Nat
      BY <3>1, <3>2
    <3>4. sessions' \in SUBSET (0..seq)
      BY <3>1, <3>2
    <3>5. called' \in SUBSET Calls
      BY <2>3, Zenon DEF TypeOK
    <3> QED
      BY <3>2, <3>3, <3>4, <3>5, Zenon
  <2> QED
    BY <1>2, <2>1, <2>2, <2>3, Zenon DEF ReceivePackage, ReleaseSession
<1> QED
  BY <1>1, <1>2, Zenon

(* A function on an initial segment of the positive numbers is a sequence. *)
LEMMA FunctionIsSeq ==
  ASSUME NEW S, NEW n \in Nat, NEW q \in [1..n -> S]
  PROVE  q \in Seq(S)
OBVIOUS

(* The sessions in the order of their numbers are a sequence of them. *)
LEMMA InSeqOrderType ==
  ASSUME TypeOK, NEW queue \in InSeqOrder(sessions)
  PROVE  queue \in Seq(0..(seq - 1))
<1>1. seq \in Nat /\ sessions \in SUBSET (0..(seq - 1))
  BY Zenon DEF TypeOK
<1>2. PICK n \in 0..seq : queue \in [1..n -> sessions]
  BY Zenon DEF InSeqOrder
<1>3. n \in Nat
  BY <1>1
<1>4. queue \in [1..n -> 0..(seq - 1)]
  BY <1>1, <1>2, Zenon
<1> QED
  BY <1>3, <1>4, FunctionIsSeq, Zenon

(* SendPendingSessions keeps every RPCData and its request. *)
LEMMA SendPendingSessionsType ==
  ASSUME TypeOK, NEW started \in SUBSET Ops, SendPendingSessions(started)
  PROVE  /\ pending' \in Seq(0..(seq - 1))
         /\ data' \in [0..(seq - 1) -> RPCDatas]
         /\ ops' \in SUBSET Ops
         /\ \A d \in 0..(seq - 1) : data'[d].call = data[d].call
<1> DEFINE heap == [d \in DOMAIN data |->
                      IF d \in sessions
                      THEN [data[d] EXCEPT !.is_pending = FALSE] ELSE data[d]]
<1>1. /\ heap \in [0..(seq - 1) -> RPCDatas]
      /\ \A d \in 0..(seq - 1) : heap[d].call = data[d].call
  <2>1. DOMAIN data = 0..(seq - 1)
    BY Zenon DEF TypeOK
  <2>2. ASSUME NEW d \in 0..(seq - 1)
        PROVE  /\ [data[d] EXCEPT !.is_pending = FALSE] \in RPCDatas
               /\ [data[d] EXCEPT !.is_pending = FALSE].call = data[d].call
               /\ data[d] \in RPCDatas
    BY Zenon DEF TypeOK, RPCDatas
  <2> QED
    BY <2>1, <2>2, Zenon
<1>2. PICK queue \in InSeqOrder(sessions) :
        WriteInLoop(socket + 1, queue, heap, started)
  BY Zenon DEF SendPendingSessions
<1>3. queue \in Seq(0..(seq - 1))
  BY InSeqOrderType, Zenon
<1>4. seq - 1 \in Int /\ socket + 1 \in Nat
  BY DEF TypeOK
<1> HIDE DEF heap
<1> QED
  BY <1>1, <1>2, <1>3, <1>4, WriteInLoopType, Zenon

-----------------------------------------------------------------------------
(* Type correctness *)

(* The client that Connect leaves behind is well typed. *)
LEMMA TypeInit == Init => TypeOK
<1> SUFFICES ASSUME Init PROVE TypeOK
  BY Zenon
<1>1. ReadOp(1) \in Ops /\ NoPartial \in Partials
  BY OpMade, Zenon DEF NoPartial, Partials
<1>2. sessions \subseteq 0..(seq - 1) /\ data \in [0..(seq - 1) -> RPCDatas]
  BY DEF Init
<1>3. /\ doneRuns \in [Calls -> Nat] /\ executed \in [Calls -> Nat]
      /\ answer \in [Calls -> {"none", "own", "garbled"}]
      /\ link \in [Conns -> {"unborn", "up", "down"}]
  BY Zenon DEF Init
<1>4. /\ c2s \in [Conns -> Seq(Requests)] /\ s2c \in [Conns -> Seq(Parts)]
      /\ pending \in Seq(0..(seq - 1)) /\ inbuf \in Seq(Parts)
      /\ ready \in Seq(Handlers)
  BY DEF Init
<1>5. ops \subseteq Ops /\ partial \in Partials
  BY <1>1, Zenon DEF Init
<1>6. /\ called \subseteq Calls /\ closing \in BOOLEAN /\ seq \in Nat
      /\ closed_by_peer \in BOOLEAN /\ terminated \in BOOLEAN /\ socket \in Nat
      /\ aborted = "no"
  BY Zenon DEF Init
<1> QED
  BY <1>2, <1>3, <1>4, <1>5, <1>6, Zenon DEF TypeOK

(* A handler appended to those that are ready: still handlers only. *)
LEMMA PostType ==
  ASSUME TypeOK, NEW handler \in Handlers, Post(handler)
  PROVE  ready' \in Seq(Handlers)
BY DEF TypeOK, Post

USE DEF appVars, sessionVars, readVars, channelVars, asioVars, netVars

(* CallMethod and the destructor keep the types. *)
LEMMA TypeApplication ==
  ASSUME TypeOK, (\E c \in Calls : CallMethod(c)) \/ Destroy
  PROVE  TypeOK'
<1>1. ready' \in Seq(Handlers)
  BY HandlerMade, PostType, Zenon DEF CallMethod, Destroy
<1> QED
  BY <1>1, Zenon DEF TypeOK, CallMethod, Destroy

(* A posted SendInLoop keeps the types. *)
LEMMA TypeRunSend == TypeOK /\ RunSend => TypeOK'
<1> SUFFICES ASSUME TypeOK, RunSend PROVE TypeOK'
  BY Zenon
<1>1. ready' \in Seq(Handlers) /\ Head(ready) \in Handlers
  BY DEF TypeOK, RunSend, Runs
<1>2. Head(ready).call \in Calls
  BY <1>1, HandlerFields, Zenon DEF RunSend, Runs
<1>3. CASE seq \in sessions
  BY <1>1, <1>3, Zenon DEF TypeOK, RunSend
<1>4. CASE seq \notin sessions
  <2>1. SendInLoop(Head(ready).call, sessions, ops)
    BY <1>4, Zenon DEF RunSend
  <2>2. sessions \in SUBSET (0..(seq - 1)) /\ ops \in SUBSET Ops
    BY Zenon DEF TypeOK
  <2>3. /\ seq' = seq + 1
        /\ sessions' = sessions \cup {seq}
        /\ pending' \in Seq(0..seq)
        /\ data' \in [0..seq -> RPCDatas]
        /\ ops' \in SUBSET Ops
    BY <1>2, <2>1, <2>2, SendInLoopType, Zenon
  <2>4. seq' - 1 = seq /\ seq' \in Nat /\ sessions' \subseteq 0..seq
    BY <2>3 DEF TypeOK
  <2> QED
    BY <1>1, <1>4, <2>3, <2>4, Zenon DEF TypeOK, RunSend
<1> QED
  BY <1>3, <1>4, Zenon

(* Written keeps the types. *)
LEMMA TypeRunWritten == TypeOK /\ RunWritten => TypeOK'
<1> SUFFICES ASSUME TypeOK, RunWritten PROVE TypeOK'
  BY Zenon
<1>1. ready' \in Seq(Handlers)
  BY DEF TypeOK, RunWritten, Runs
<1>2. CASE UNCHANGED <<data, pending, ops, aborted>>
  BY <1>1, <1>2, Zenon DEF TypeOK, RunWritten
<1>3. CASE aborted' = "written" /\ UNCHANGED <<data, pending, ops>>
  BY <1>1, <1>3, Zenon DEF TypeOK, RunWritten
<1>4. CASE /\ aborted' = "no" /\ pending # <<>>
           /\ WriteInLoop(socket, Tail(pending), data, ops)
  <2>1. /\ Tail(pending) \in Seq(0..(seq - 1)) /\ seq - 1 \in Int
        /\ socket \in Nat /\ data \in [0..(seq - 1) -> RPCDatas]
        /\ ops \in SUBSET Ops
    BY <1>4 DEF TypeOK
  <2>2. /\ pending' \in Seq(0..(seq - 1))
        /\ data' \in [0..(seq - 1) -> RPCDatas]
        /\ ops' \in SUBSET Ops
    BY <1>4, <2>1, WriteInLoopType, Zenon
  <2> QED
    BY <1>1, <1>4, <2>2, Zenon DEF TypeOK, RunWritten
<1> QED
  BY <1>2, <1>3, <1>4, Zenon DEF RunWritten

(* ReadInLoop up to its loop keeps the types. *)
LEMMA TypeRunRead == TypeOK /\ RunRead => TypeOK'
<1> SUFFICES ASSUME TypeOK, RunRead PROVE TypeOK'
  BY Zenon
<1>1. ready' \in Seq(Handlers) /\ Head(ready) \in Handlers
  BY DEF TypeOK, RunRead, Runs, ReconnectOrFail
<1>2. Head(ready).parts \in Seq(Parts)
  BY <1>1, HandlerFields, Zenon DEF RunRead, Runs, ReconnectOrFail
<1>3. ops \cup {ConnectOp} \in SUBSET Ops
  BY OpMade, Zenon DEF TypeOK
<1>4. inbuf' \in Seq(Parts) /\ closed_by_peer' \in BOOLEAN /\ ops' \subseteq Ops
  BY <1>2, <1>3, Zenon DEF TypeOK, RunRead, ReconnectOrFail
<1> QED
  BY <1>1, <1>4, Zenon DEF TypeOK, RunRead, ReconnectOrFail

(* Started, the operations in progress after a turn of the read loop. *)
LEMMA StartedType ==
  ASSUME TypeOK, NEW rest
  PROVE  Started(rest) \in SUBSET Ops
BY OpMade, Zenon DEF TypeOK, Started

(* So does a turn of its loop that parses meta data, *)
LEMMA TypeReadHead == TypeOK /\ ReadHead => TypeOK'
<1> SUFFICES ASSUME TypeOK, ReadHead PROVE TypeOK'
  BY Zenon
<1>1. Head(inbuf) \in Parts /\ inbuf' \in Seq(Parts)
  BY DEF TypeOK, ReadHead
<1>2. partial' \in Partials
  BY <1>1, Zenon DEF ReadHead, Parts, Partials
<1>3. ops' \in SUBSET Ops
  BY StartedType, Zenon DEF ReadHead
<1> QED
  BY <1>1, <1>2, <1>3, Zenon DEF TypeOK, ReadHead

(* one that is left with an incomplete message, *)
LEMMA TypeReadPiece == TypeOK /\ (ReadPiece \/ ReadSplitHead) => TypeOK'
<1> SUFFICES ASSUME TypeOK, ReadPiece \/ ReadSplitHead PROVE TypeOK'
  BY Zenon
<1>1. CASE ReadPiece
  <2>1. inbuf' \in Seq(Parts)
    BY <1>1 DEF TypeOK, ReadPiece
  <2>2. partial' \in Partials
    BY <1>1 DEF TypeOK, ReadPiece, Garbled, Partials
  <2>3. ops' \in SUBSET Ops
    BY <1>1, StartedType, Zenon DEF ReadPiece
  <2> QED
    BY <1>1, <2>1, <2>2, <2>3, Zenon DEF TypeOK, ReadPiece
<1>2. CASE ReadSplitHead
  BY <1>2, Zenon DEF TypeOK, ReadSplitHead
<1> QED
  BY <1>1, <1>2, Zenon

(* one that completes a response, *)
LEMMA TypeReadBody == TypeOK /\ ReadBody => TypeOK'
<1> SUFFICES ASSUME TypeOK, ReadBody PROVE TypeOK'
  BY Zenon
<1>1. inbuf' \in Seq(Parts) /\ partial' \in Partials
  BY DEF TypeOK, ReadBody, NoPartial, Partials
<1>2. partial.seq \in Nat
  BY Zenon DEF TypeOK, Partials
<1>3. Started(Tail(inbuf)) \in SUBSET Ops
  BY StartedType, Zenon
<1>4. /\ called' \in SUBSET Calls
      /\ doneRuns' \in [Calls -> Nat]
      /\ answer' \in [Calls -> {"none", "own", "garbled"}]
      /\ seq' \in Nat
      /\ sessions' \in SUBSET (0..(seq' - 1))
      /\ data' \in [0..(seq' - 1) -> RPCDatas]
      /\ pending' \in Seq(0..(seq' - 1))
      /\ ops' \in SUBSET Ops
      /\ aborted' \in {"no", "release"}
  BY <1>2, <1>3, ReceivePackageType, Zenon DEF ReadBody
<1> QED
  BY <1>1, <1>4, Zenon DEF TypeOK, ReadBody

(* and one that finds bytes that do not fit. *)
LEMMA TypeReadMisfit == TypeOK /\ ReadMisfit => TypeOK'
<1> SUFFICES ASSUME TypeOK, ReadMisfit PROVE TypeOK'
  BY Zenon
<1>1. Garbled \in Partials /\ NoPartial \in Partials
  BY Zenon DEF Garbled, NoPartial, Partials
<1>2. Tail(inbuf) \in Seq(Parts)
  BY DEF TypeOK, ReadMisfit, ReleaseSession
<1>3. Started(Tail(inbuf)) \in SUBSET Ops /\ Started(<<>>) \in SUBSET Ops
  BY StartedType, Zenon
<1>4. CASE /\ partial' = Garbled
           /\ inbuf' = Tail(inbuf)
           /\ ops' = Started(Tail(inbuf))
           /\ UNCHANGED <<called, doneRuns, answer, sessionVars, pending,
                          aborted>>
  BY <1>1, <1>2, <1>3, <1>4, Zenon DEF TypeOK, ReadMisfit, ReleaseSession
<1>5. ASSUME NEW s \in Nat,
             partial' \in {NoPartial, Garbled},
             inbuf' = Tail(inbuf),
             ReceivePackage(s, "garbled", Started(Tail(inbuf)))
      PROVE  TypeOK'
  <2>1. /\ called' \in SUBSET Calls
        /\ doneRuns' \in [Calls -> Nat]
        /\ answer' \in [Calls -> {"none", "own", "garbled"}]
        /\ seq' \in Nat
        /\ sessions' \in SUBSET (0..(seq' - 1))
        /\ data' \in [0..(seq' - 1) -> RPCDatas]
        /\ pending' \in Seq(0..(seq' - 1))
        /\ ops' \in SUBSET Ops
        /\ aborted' \in {"no", "release"}
    BY <1>3, <1>5, ReceivePackageType, Zenon DEF ReadMisfit, ReleaseSession
  <2>2. partial' \in Partials
    BY <1>1, <1>5, Zenon
  <2> QED
    BY <1>2, <1>5, <2>1, <2>2, Zenon DEF TypeOK, ReadMisfit, ReleaseSession
<1>6. ASSUME NEW s,
             sessions' = sessions \ {s},
             aborted' = "parse",
             UNCHANGED <<called, doneRuns, answer, seq, data, pending,
                         readVars, ops>>
      PROVE  TypeOK'
  BY <1>6, Zenon DEF TypeOK, ReadMisfit, ReleaseSession
<1>7. CASE /\ partial' = NoPartial
           /\ inbuf' = <<>>
           /\ ops' = Started(<<>>)
           /\ UNCHANGED <<called, doneRuns, answer, sessionVars, pending,
                          aborted>>
  BY <1>1, <1>3, <1>7 DEF TypeOK, ReadMisfit, ReleaseSession
<1>8. CASE /\ aborted' = "garbage"
           /\ UNCHANGED <<called, doneRuns, answer, sessionVars, pending,
                          readVars, ops>>
  BY <1>8, Zenon DEF TypeOK, ReadMisfit, ReleaseSession
<1>9. partial.seq \in Nat /\ 0..(seq - 1) \subseteq Nat
  BY DEF TypeOK, Partials
<1> QED
  BY <1>4, <1>5, <1>6, <1>7, <1>8, <1>9, Zenon DEF ReadMisfit, ReleaseSession

(* ClientRPCChannel::Connected keeps the types. *)
LEMMA TypeRunConnected == TypeOK /\ RunConnected => TypeOK'
<1> SUFFICES ASSUME TypeOK, RunConnected PROVE TypeOK'
  BY Zenon
<1>1. ready' \in Seq(Handlers)
  BY DEF TypeOK, RunConnected, Runs
<1>2. link' \in [Conns -> {"unborn", "up", "down"}]
  BY Zenon DEF TypeOK, RunConnected
<1>3. CASE UNCHANGED <<data, pending, closed_by_peer, socket, ops>>
  BY <1>1, <1>2, <1>3, Zenon DEF TypeOK, RunConnected
<1>4. CASE /\ ops' = ops \cup {ConnectOp}
           /\ UNCHANGED <<data, pending, closed_by_peer, socket>>
  <2>1. ops' \subseteq Ops
    BY <1>4, OpMade, Zenon DEF TypeOK
  <2> QED
    BY <1>1, <1>2, <1>4, <2>1, Zenon DEF TypeOK, RunConnected
<1>5. CASE RebuildSocket /\ SendPendingSessions(ops \cup {ReadOp(socket + 1)})
  <2>1. ops \cup {ReadOp(socket + 1)} \in SUBSET Ops
    BY OpMade DEF TypeOK
  <2>2. /\ pending' \in Seq(0..(seq - 1))
        /\ data' \in [0..(seq - 1) -> RPCDatas]
        /\ ops' \in SUBSET Ops
    BY <1>5, <2>1, SendPendingSessionsType, Zenon
  <2>3. socket' = socket + 1 /\ closed_by_peer' = FALSE
    BY <1>5, Zenon DEF RebuildSocket
  <2>4. socket' \in Nat
    BY <2>3 DEF TypeOK
  <2> QED
    BY <1>1, <1>2, <2>2, <2>3, <2>4, Zenon DEF TypeOK, RunConnected
<1> QED
  BY <1>3, <1>4, <1>5, Zenon DEF RunConnected

(* TerminateInLoop keeps the types. *)
LEMMA TypeRunTerminate == TypeOK /\ RunTerminate => TypeOK'
<1> SUFFICES ASSUME TypeOK, RunTerminate PROVE TypeOK'
  BY Zenon
<1>1. ready' \in Seq(Handlers)
  BY DEF TypeOK, RunTerminate, Runs
<1>2. link' \in [Conns -> {"unborn", "up", "down"}]
  BY Zenon DEF TypeOK, RunTerminate
<1> QED
  BY <1>1, <1>2, Zenon DEF TypeOK, RunTerminate

(* The completion of a read keeps the types. *)
LEMMA TypeCompleteRead ==
  ASSUME TypeOK, NEW k \in Conns, CompleteRead(k)
  PROVE  TypeOK'
<1>1. s2c[k] \in Seq(Parts)
  BY Zenon DEF TypeOK
<1>2. ready' \in Seq(Handlers) /\ s2c' \in [Conns -> Seq(Parts)]
  <2>1. ASSUME NEW n \in 1..Len(s2c[k]),
               Post([h |-> "read", err |-> FALSE,
                     parts |-> SubSeq(s2c[k], 1, n)]),
               s2c' = [s2c EXCEPT ![k] = SubSeq(@, n + 1, Len(@))]
        PROVE  ready' \in Seq(Handlers) /\ s2c' \in [Conns -> Seq(Parts)]
    <3>1. /\ SubSeq(s2c[k], 1, n) \in Seq(Parts)
          /\ SubSeq(s2c[k], n + 1, Len(s2c[k])) \in Seq(Parts)
      BY <1>1
    <3>2. ready' \in Seq(Handlers)
      BY <2>1, <3>1, HandlerMade, PostType, Zenon
    <3> QED
      BY <2>1, <3>1, <3>2, Zenon DEF TypeOK
  <2>2. CASE /\ Post([h |-> "read", err |-> TRUE, parts |-> <<>>])
             /\ UNCHANGED s2c
    <3>1. <<>> \in Seq(Parts)
      OBVIOUS
    <3>2. ready' \in Seq(Handlers)
      BY <2>2, <3>1, HandlerMade, PostType, Zenon
    <3> QED
      BY <2>2, <3>2, Zenon DEF TypeOK
  <2> QED
    BY <2>1, <2>2, Zenon DEF CompleteRead
<1> QED
  BY <1>2, Zenon DEF TypeOK, CompleteRead

(* The completion of a write keeps the types. *)
LEMMA TypeCompleteWrite ==
  ASSUME TypeOK, NEW k \in Conns, NEW d \in 0..(seq - 1), CompleteWrite(k, d)
  PROVE  TypeOK'
<1>1. d \in Nat /\ data[d].call \in Calls /\ c2s[k] \in Seq(Requests)
  BY DEF TypeOK, RPCDatas
<1>2. ready' \in Seq(Handlers)
  BY <1>1, HandlerMade, PostType, Zenon DEF CompleteWrite
<1>3. c2s' \in [Conns -> Seq(Requests)]
  <2>1. ASSUME NEW whole \in BOOLEAN
        PROVE  [seq |-> d, call |-> data[d].call, whole |-> whole] \in Requests
    BY <1>1, Zenon DEF Requests
  <2>2. ASSUME NEW whole \in BOOLEAN
        PROVE  Append(c2s[k], [seq |-> d, call |-> data[d].call,
                               whole |-> whole]) \in Seq(Requests)
    BY <1>1, <2>1
  <2>3. CASE UNCHANGED c2s
    BY <2>3, Zenon DEF TypeOK
  <2>4. ASSUME NEW whole \in BOOLEAN,
               c2s' = [c2s EXCEPT ![k] =
                         Append(@, [seq |-> d, call |-> data[d].call,
                                    whole |-> whole])]
        PROVE  c2s' \in [Conns -> Seq(Requests)]
    <3>1. c2s \in [Conns -> Seq(Requests)]
      BY Zenon DEF TypeOK
    <3> QED
      BY <2>2, <2>4, <3>1, Zenon
  <2> QED
    BY <2>3, <2>4, Zenon DEF CompleteWrite
<1> QED
  BY <1>2, <1>3, Zenon DEF TypeOK, CompleteWrite

(* The completion of an async_connect keeps the types. *)
LEMMA TypeConnect == TypeOK /\ (ConnectSucceeds \/ ConnectFails) => TypeOK'
<1> SUFFICES ASSUME TypeOK, ConnectSucceeds \/ ConnectFails PROVE TypeOK'
  BY Zenon
<1>1. ready' \in Seq(Handlers)
  BY HandlerMade, PostType, Zenon DEF ConnectSucceeds, ConnectFails
<1>2. link' \in [Conns -> {"unborn", "up", "down"}]
  BY Zenon DEF TypeOK, ConnectSucceeds, ConnectFails
<1> QED
  BY <1>1, <1>2, Zenon DEF TypeOK, ConnectSucceeds, ConnectFails

(* What is left of a sequence of parts that is cut has parts, too. *)
LEMMA PrefixType ==
  ASSUME NEW S, NEW q \in Seq(S), NEW n \in 0..Len(q)
  PROVE  SubSeq(q, 1, n) \in Seq(S)
OBVIOUS

(* The server, and a break, keep the types. *)
LEMMA TypeServer ==
  ASSUME TypeOK, NEW k \in Conns, Serve(k) \/ ServeMixed(k) \/ Break(k)
  PROVE  TypeOK'
<1>1. c2s[k] \in Seq(Requests) /\ s2c[k] \in Seq(Parts)
  BY Zenon DEF TypeOK
<1>2. CASE Serve(k)
  <2>1. Head(c2s[k]) \in Requests /\ Tail(c2s[k]) \in Seq(Requests)
    <3>1. c2s[k] # <<>>
      BY <1>2, Zenon DEF Serve
    <3> QED
      BY <1>1, <3>1, SMTT(30)
  <2>2. Head(c2s[k]).seq \in Nat /\ Head(c2s[k]).call \in Calls
    BY <2>1, Zenon DEF Requests
  <2>3. /\ [seq |-> Head(c2s[k]).seq, kind |-> "head"] \in Parts
        /\ [seq |-> Head(c2s[k]).seq, kind |-> "body"] \in Parts
    BY <2>2, Zenon DEF Parts
  <2>4. s2c[k] \o <<[seq |-> Head(c2s[k]).seq, kind |-> "head"],
                    [seq |-> Head(c2s[k]).seq, kind |-> "body"]>> \in Seq(Parts)
    BY <1>1, <2>3, SMTT(30)
  <2>5. s2c' \in [Conns -> Seq(Parts)]
    BY <1>2, <2>4, Zenon DEF TypeOK, Serve
  <2>6. c2s' \in [Conns -> Seq(Requests)]
    BY <1>2, <2>1, Zenon DEF TypeOK, Serve
  <2>7. executed' \in [Calls -> Nat]
    <3>1. executed' = [executed EXCEPT ![Head(c2s[k]).call] = @ + 1]
      BY <1>2, Zenon DEF Serve
    <3>2. executed \in [Calls -> Nat]
      BY Zenon DEF TypeOK
    <3> QED
      BY <2>2, <3>1, <3>2, SMTT(30)
  <2> QED
    BY <1>2, <2>5, <2>6, <2>7, Zenon DEF TypeOK, Serve
<1>3. CASE ServeMixed(k)
  BY <1>1, <1>3 DEF TypeOK, ServeMixed
<1>4. CASE Break(k)
  <2>1. PICK n \in 0..Len(s2c[k]) :
          \/ s2c' = [s2c EXCEPT ![k] = SubSeq(@, 1, n)]
          \/ /\ n < Len(s2c[k])
             /\ s2c' = [s2c EXCEPT ![k] =
                          Append(SubSeq(@, 1, n),
                                 [seq |-> @[n + 1].seq, kind |-> "piece"])]
    BY <1>4, Zenon DEF Break
  <2>2. SubSeq(s2c[k], 1, n) \in Seq(Parts)
    BY <1>1, PrefixType, Zenon
  <2>3. s2c' \in [Conns -> Seq(Parts)]
    <3>1. CASE s2c' = [s2c EXCEPT ![k] = SubSeq(@, 1, n)]
      BY <2>2, <3>1, Zenon DEF TypeOK
    <3>2. CASE /\ n < Len(s2c[k])
               /\ s2c' = [s2c EXCEPT ![k] =
                            Append(SubSeq(@, 1, n),
                                   [seq |-> @[n + 1].seq, kind |-> "piece"])]
      <4>1. s2c[k][n + 1] \in Parts
        BY <1>1, <3>2
      <4>2. [seq |-> s2c[k][n + 1].seq, kind |-> "piece"] \in Parts
        BY <4>1, Zenon DEF Parts
      <4>3. Append(SubSeq(s2c[k], 1, n),
                   [seq |-> s2c[k][n + 1].seq, kind |-> "piece"]) \in Seq(Parts)
        BY <2>2, <4>2
      <4> QED
        BY <3>2, <4>3, Zenon DEF TypeOK
    <3> QED
      BY <2>1, <3>1, <3>2, Zenon
  <2>4. link' \in [Conns -> {"unborn", "up", "down"}]
    BY <1>4, Zenon DEF TypeOK, Break
  <2> QED
    BY <1>4, <2>3, <2>4, Zenon DEF TypeOK, Break
<1> QED
  BY <1>2, <1>3, <1>4, Zenon

(* Every step of the client and its surroundings keeps the types. *)
LEMMA TypeNext == TypeOK /\ [Next]_vars => TypeOK'
<1> SUFFICES ASSUME TypeOK, [Next]_vars PROVE TypeOK'
  BY Zenon
<1>1. CASE TouchFreed
  BY <1>1, Zenon DEF TypeOK, TouchFreed
<1>2. CASE UNCHANGED vars
  BY <1>2, Zenon DEF TypeOK, vars
<1> QED
  BY <1>1, <1>2, TypeApplication, TypeRunSend, TypeRunWritten, TypeRunRead,
     TypeRunConnected, TypeRunTerminate, TypeReadHead, TypeReadPiece,
     TypeReadBody, TypeReadMisfit, TypeCompleteRead, TypeCompleteWrite, TypeConnect,
     TypeServer, Zenon
     DEF Next, LoopThread

(***************************************************************************)
(* Every variable keeps its type; sessions and pending_ only ever name     *)
(* RPCDatas that SaveSession has made.                                     *)
(***************************************************************************)
THEOREM TypeCorrect == Spec => []TypeOK
BY TypeInit, TypeNext, PTL DEF Spec

-----------------------------------------------------------------------------
(* Every call is in one place at a time *)

(***************************************************************************)
(* Where the handlers of a step's `ready' come from, when the step takes   *)
(* the first one away and may add r.                                       *)
(***************************************************************************)
LEMMA TailPositions ==
  ASSUME NEW S, NEW q \in Seq(S), q # <<>>
  PROVE  /\ DOMAIN Tail(q) = 1..(Len(q) - 1)
         /\ \A i \in DOMAIN Tail(q) : i + 1 \in DOMAIN q /\ Tail(q)[i] = q[i + 1]
         /\ \A i \in DOMAIN Tail(q) : i + 1 # 1
         /\ 1 \in DOMAIN q /\ q[1] = Head(q)
OBVIOUS

(* What is at each position after a handler was posted. *)
LEMMA AppendPositions ==
  ASSUME NEW S, NEW q \in Seq(S), NEW r
  PROVE  /\ DOMAIN Append(q, r) = (DOMAIN q) \cup {Len(q) + 1}
         /\ \A i \in DOMAIN q : Append(q, r)[i] = q[i]
         /\ Append(q, r)[Len(q) + 1] = r
         /\ Len(q) + 1 \notin DOMAIN q
OBVIOUS

(***************************************************************************)
(* A step that makes no call, no RPCData and runs no closure.              *)
(***************************************************************************)
Quiet ==
  /\ UNCHANGED <<called, doneRuns, seq>>
  /\ sessions' \subseteq sessions
  /\ \A d \in 0..(seq - 1) : data'[d].call = data[d].call
  /\ \/ ready' = ready
     \/ ready # <<>> /\ ready' = Tail(ready)
     \/ \E r : r.h # "send" /\ ready' = Append(ready, r)

(* A quiet step leaves every call where it is. *)
LEMMA QuietKeeps ==
  ASSUME TypeOK, CallInOnePlace, Quiet
  PROVE  CallInOnePlace'
<1>1. /\ \A d, e \in 0..(seq - 1) : data'[d].call = data'[e].call => d = e
      /\ \A d \in 0..(seq - 1) : data'[d].call \in called
  BY Zenon DEF Quiet, CallInOnePlace
<1>2. \A c \in Calls :
        doneRuns[c] > 0 =>
          /\ doneRuns[c] = 1
          /\ \E d \in 0..(seq - 1) : d \notin sessions' /\ data'[d].call = c
  BY DEF Quiet, CallInOnePlace
<1> DEFINE Posted(q) ==
      \A i \in DOMAIN q :
        q[i].h = "send" =>
          /\ q[i].call \in called
          /\ \A d \in 0..(seq - 1) : data[d].call # q[i].call
          /\ \A j \in DOMAIN q :
               q[j].h = "send" /\ q[j].call = q[i].call => j = i
<1>3. Posted(ready)
  BY Zenon DEF CallInOnePlace
<1>4. Posted(ready')
  <2>0. ready \in Seq(Handlers)
    BY Zenon DEF TypeOK
  <2>1. CASE ready' = ready
    BY <1>3, <2>1, Zenon
  <2>2. CASE ready # <<>> /\ ready' = Tail(ready)
    <3>1. /\ \A i \in DOMAIN ready' :
               i + 1 \in DOMAIN ready /\ ready'[i] = ready[i + 1]
          /\ DOMAIN ready' \subseteq Int
      BY <2>0, <2>2, TailPositions
    <3> QED
      BY <1>3, <3>1
  <2>3. ASSUME NEW r, r.h # "send", ready' = Append(ready, r)
        PROVE  Posted(ready')
    <3>1. /\ DOMAIN ready' = (DOMAIN ready) \cup {Len(ready) + 1}
          /\ \A i \in DOMAIN ready : ready'[i] = ready[i]
          /\ ready'[Len(ready) + 1] = r
      BY <2>0, <2>3, AppendPositions
    <3> QED
      BY <1>3, <2>3, <3>1
  <2> QED
    BY <2>1, <2>2, <2>3, Zenon DEF Quiet
<1>5. /\ called' = called /\ seq' = seq /\ doneRuns' = doneRuns
      /\ \A d \in 0..(seq - 1) : data'[d].call = data[d].call
  BY Zenon DEF Quiet
<1> QED
  BY <1>1, <1>2, <1>4, <1>5, SMTT(30) DEF CallInOnePlace

(* The handlers that neither save nor release a session are quiet. *)
LEMMA QuietHandlers ==
  ASSUME TypeOK, RunWritten \/ RunRead \/ RunConnected \/ RunTerminate
  PROVE  Quiet
<1>1. /\ UNCHANGED <<called, doneRuns, seq, sessions>>
      /\ ready # <<>> /\ ready' = Tail(ready)
  BY Zenon DEF RunWritten, RunRead, RunConnected, RunTerminate, Runs, ReconnectOrFail
<1>2. \A d \in 0..(seq - 1) : data'[d].call = data[d].call
  <2>1. CASE RunRead \/ RunTerminate
    BY <2>1, Zenon DEF RunRead, RunTerminate, ReconnectOrFail
  <2>2. CASE RunWritten
    <3>1. CASE UNCHANGED data
      BY <3>1, Zenon
    <3>2. CASE pending # <<>> /\ WriteInLoop(socket, Tail(pending), data, ops)
      <4>1. /\ Tail(pending) \in Seq(0..(seq - 1)) /\ seq - 1 \in Int
            /\ socket \in Nat /\ data \in [0..(seq - 1) -> RPCDatas]
            /\ ops \in SUBSET Ops
        BY <3>2 DEF TypeOK
      <4> QED
        BY <3>2, <4>1, WriteInLoopType, Zenon
    <3> QED
      BY <2>2, <3>1, <3>2, Zenon DEF RunWritten
  <2>3. CASE RunConnected
    <3>1. CASE UNCHANGED data
      BY <3>1, Zenon
    <3>2. CASE SendPendingSessions(ops \cup {ReadOp(socket + 1)})
      <4>1. ops \cup {ReadOp(socket + 1)} \in SUBSET Ops
        BY OpMade DEF TypeOK
      <4> QED
        BY <3>2, <4>1, SendPendingSessionsType, Zenon
    <3> QED
      BY <2>3, <3>1, <3>2, Zenon DEF RunConnected
  <2> QED
    BY <2>1, <2>2, <2>3, Zenon
<1> QED
  BY <1>1, <1>2, Zenon DEF Quiet

(* The kernel, the network and the server are quiet. *)
LEMMA QuietEnvironment ==
  ASSUME NEW k, NEW d,
         \/ Destroy \/ ReadHead \/ ReadSplitHead \/ ReadPiece \/ TouchFreed
         \/ CompleteRead(k) \/ CompleteWrite(k, d)
         \/ ConnectSucceeds \/ ConnectFails
         \/ Serve(k) \/ ServeMixed(k) \/ Break(k)
  PROVE  Quiet
<1>1. UNCHANGED <<called, doneRuns, seq, sessions, data>>
  BY Zenon DEF Destroy, ReadHead, ReadSplitHead, ReadPiece, TouchFreed,
         CompleteRead, CompleteWrite,
         ConnectSucceeds, ConnectFails, Serve, ServeMixed, Break
<1>2. ready' = ready \/ \E r : r.h # "send" /\ ready' = Append(ready, r)
  <2>1. CASE \/ ReadHead \/ ReadSplitHead \/ ReadPiece \/ TouchFreed
             \/ Serve(k) \/ ServeMixed(k) \/ Break(k)
    BY <2>1, Zenon DEF ReadHead, ReadSplitHead, ReadPiece, TouchFreed, Serve,
                ServeMixed, Break
  <2>2. CASE Destroy
    BY <2>2, Zenon DEF Destroy, Post
  <2>3. CASE CompleteRead(k)
    BY <2>3, Zenon DEF CompleteRead, Post
  <2>4. CASE CompleteWrite(k, d)
    BY <2>4, Zenon DEF CompleteWrite, Post
  <2>5. CASE ConnectSucceeds \/ ConnectFails
    BY <2>5, Zenon DEF ConnectSucceeds, ConnectFails, Post
  <2> QED
    BY <2>1, <2>2, <2>3, <2>4, <2>5, Zenon
<1> QED
  BY <1>1, <1>2, Zenon DEF Quiet

(* CallMethod posts a call that nobody has made before. *)
LEMMA CallMethodKeeps ==
  ASSUME TypeOK, CallInOnePlace, NEW c \in Calls, CallMethod(c)
  PROVE  CallInOnePlace'
<1> DEFINE r == [h |-> "send", call |-> c]
<1>1. /\ ready' = Append(ready, r)
      /\ c \notin called /\ called' = called \cup {c}
      /\ UNCHANGED <<doneRuns, seq, sessions, data>>
  BY Zenon DEF CallMethod, Post
<1>2. ready \in Seq(Handlers)
  BY Zenon DEF TypeOK
<1>3. /\ DOMAIN ready' = (DOMAIN ready) \cup {Len(ready) + 1}
      /\ \A i \in DOMAIN ready : ready'[i] = ready[i]
      /\ ready'[Len(ready) + 1] = r
      /\ Len(ready) + 1 \notin DOMAIN ready
  BY <1>1, <1>2, AppendPositions, SMTT(30)
<1>4. \A i \in DOMAIN ready' :
        ready'[i].h = "send" =>
          /\ ready'[i].call \in called'
          /\ \A d \in 0..(seq - 1) : data[d].call # ready'[i].call
          /\ \A j \in DOMAIN ready' :
               ready'[j].h = "send" /\ ready'[j].call = ready'[i].call => j = i
  BY <1>1, <1>3, SMTT(30) DEF CallInOnePlace
<1> QED
  BY <1>1, <1>4, SMTT(30) DEF CallInOnePlace

(* SaveSession gives a call that has none an RPCData. *)
LEMMA RunSendKeeps ==
  ASSUME TypeOK, CallInOnePlace, RunSend
  PROVE  CallInOnePlace'
<1>1. /\ ready # <<>> /\ ready' = Tail(ready)
      /\ UNCHANGED <<called, doneRuns>>
      /\ Head(ready).h = "send"
  BY Zenon DEF RunSend, Runs
<1>2. ready \in Seq(Handlers) /\ Head(ready) \in Handlers
  BY <1>1 DEF TypeOK
<1>3. CASE UNCHANGED <<seq, sessions, data>>
  BY <1>1, <1>3, QuietKeeps, Zenon DEF Quiet
<1>4. CASE SendInLoop(Head(ready).call, sessions, ops)
  <2> DEFINE c == Head(ready).call
  <2>1. c \in Calls
    BY <1>1, <1>2, HandlerFields, Zenon
  <2>2. sessions \in SUBSET (0..(seq - 1)) /\ ops \in SUBSET Ops /\ seq \in Nat
    BY Zenon DEF TypeOK
  <2>3. /\ seq' = seq + 1
        /\ sessions' = sessions \cup {seq}
        /\ \A d \in 0..(seq - 1) : data'[d].call = data[d].call
        /\ data'[seq].call = c
    BY <1>4, <2>1, <2>2, SendInLoopType, Zenon
  <2>4. /\ \A i \in DOMAIN ready' : /\ i + 1 \in DOMAIN ready
                                    /\ ready'[i] = ready[i + 1]
                                    /\ i \in Int /\ i + 1 # 1
        /\ 1 \in DOMAIN ready /\ ready[1] = Head(ready)
    BY <1>1, <1>2, TailPositions
  <2>5. c \in called /\ \A d \in 0..(seq - 1) : data[d].call # c
    BY <1>1, <2>4, SMTT(30) DEF CallInOnePlace
  <2>6. \A i \in DOMAIN ready' :
          ready'[i].h = "send" =>
            /\ ready'[i].call \in called
            /\ ready'[i].call # c
            /\ \A d \in 0..(seq - 1) : data[d].call # ready'[i].call
            /\ \A j \in DOMAIN ready' :
                 ready'[j].h = "send" /\ ready'[j].call = ready'[i].call => j = i
    BY <1>1, <2>4, SMTT(30) DEF CallInOnePlace
  <2>7. 0..(seq' - 1) = (0..(seq - 1)) \cup {seq} /\ seq \notin 0..(seq - 1)
    BY <2>2, <2>3
  <2>8. \A x \in Calls :
          doneRuns[x] > 0 =>
            /\ doneRuns[x] = 1
            /\ \E d \in 0..(seq' - 1) : d \notin sessions' /\ data'[d].call = x
    BY <2>3, <2>7 DEF CallInOnePlace
  <2>9. /\ \A d, e \in 0..(seq' - 1) : data'[d].call = data'[e].call => d = e
        /\ \A d \in 0..(seq' - 1) : data'[d].call \in called
    BY <2>3, <2>5, <2>7 DEF CallInOnePlace
  <2>10. \A i \in DOMAIN ready' :
           ready'[i].h = "send" =>
             \A d \in 0..(seq' - 1) : data'[d].call # ready'[i].call
    BY <2>3, <2>6, <2>7, Zenon
  <2> QED
    BY <1>1, <2>6, <2>8, <2>9, <2>10, Zenon DEF CallInOnePlace
<1> QED
  BY <1>3, <1>4, Zenon DEF RunSend

(***************************************************************************)
(* The closure of a call that has a session has not run: had it, a         *)
(* released RPCData would carry the same call, and there is only one       *)
(* RPCData per call.                                                       *)
(***************************************************************************)
LEMMA NotDoneYet ==
  ASSUME TypeOK, CallInOnePlace, NEW s \in sessions
  PROVE  doneRuns[data[s].call] = 0
<1>1. s \in 0..(seq - 1) /\ data[s].call \in Calls
  BY Zenon DEF TypeOK, RPCDatas
<1>2. doneRuns[data[s].call] \in Nat
  BY <1>1, Zenon DEF TypeOK
<1>3. ~(doneRuns[data[s].call] > 0)
  BY <1>1 DEF CallInOnePlace
<1> QED
  BY <1>2, <1>3

(* ReceivePackage runs the closure of the session it has just released. *)
LEMMA ReceivePackageKeeps ==
  ASSUME TypeOK, CallInOnePlace, NEW s \in Nat, NEW content,
         NEW started \in SUBSET Ops,
         ReceivePackage(s, content, started), UNCHANGED ready
  PROVE  CallInOnePlace'
<1>1. CASE s \notin sessions
  BY <1>1, QuietKeeps, Zenon DEF ReceivePackage, Quiet, ReleaseSession
<1>2. CASE s \in sessions
  <2> DEFINE c == data[s].call
  <2>1. s \in 0..(seq - 1) /\ c \in Calls /\ seq \in Nat
    BY <1>2, Zenon DEF TypeOK, RPCDatas
  <2>2. doneRuns' = [doneRuns EXCEPT ![c] = @ + 1]
    BY <1>2, Zenon DEF ReceivePackage, ReleaseSession
  <2>3. doneRuns[c] = 0
    BY <1>2, NotDoneYet, Zenon
  <2>4. /\ doneRuns'[c] = 1
        /\ \A x \in Calls \ {c} : doneRuns'[x] = doneRuns[x]
    BY <2>1, <2>2, <2>3, SMTT(30) DEF TypeOK
  <2>5. CASE sessions' = sessions \ {s} /\ UNCHANGED <<called, seq, data>>
    <3>1. \A x \in Calls :
            doneRuns'[x] > 0 =>
              /\ doneRuns'[x] = 1
              /\ \E d \in 0..(seq - 1) : d \notin sessions' /\ data[d].call = x
      BY <2>1, <2>4, <2>5, Zenon DEF CallInOnePlace
    <3> QED
      BY <2>5, <3>1, Zenon DEF CallInOnePlace
  <2>6. ASSUME NEW n \in Calls \ called, called' = called \cup {n},
               SendInLoop(n, sessions \ {s}, started)
        PROVE  CallInOnePlace'
    <3>1. sessions \ {s} \in SUBSET (0..(seq - 1))
      BY Zenon DEF TypeOK
    <3>2. /\ seq' = seq + 1
          /\ sessions' = (sessions \ {s}) \cup {seq}
          /\ \A d \in 0..(seq - 1) : data'[d].call = data[d].call
          /\ data'[seq].call = n
      BY <2>6, <3>1, SendInLoopType, Zenon
    <3>3. 0..(seq' - 1) = (0..(seq - 1)) \cup {seq} /\ seq \notin 0..(seq - 1)
      BY <2>1, <3>2
    <3>4. \A x \in Calls :
            doneRuns'[x] > 0 =>
              /\ doneRuns'[x] = 1
              /\ \E d \in 0..(seq' - 1) : d \notin sessions' /\ data'[d].call = x
      <4> SUFFICES ASSUME NEW x \in Calls, doneRuns'[x] > 0
                   PROVE  /\ doneRuns'[x] = 1
                          /\ \E d \in 0..(seq' - 1) :
                               d \notin sessions' /\ data'[d].call = x
        BY Zenon
      <4>1. CASE x = c
        <5>1. s \notin sessions' /\ data'[s].call = x /\ s \in 0..(seq' - 1)
          BY <2>1, <3>2, <3>3, <4>1, Zenon
        <5> QED
          BY <2>4, <4>1, <5>1, Zenon
      <4>2. CASE x # c
        <5>1. doneRuns'[x] = doneRuns[x]
          BY <2>4, <4>2, Zenon
        <5>2. PICK d \in 0..(seq - 1) : d \notin sessions /\ data[d].call = x
          BY <5>1, Zenon DEF CallInOnePlace
        <5>3. d \notin sessions' /\ data'[d].call = x /\ d \in 0..(seq' - 1)
          BY <3>2, <3>3, <5>2, Zenon
        <5> QED
          BY <5>1, <5>3, Zenon DEF CallInOnePlace
      <4> QED
        BY <4>1, <4>2, Zenon
    <3>5. /\ \A d, e \in 0..(seq' - 1) : data'[d].call = data'[e].call => d = e
          /\ \A d \in 0..(seq' - 1) : data'[d].call \in called'
      BY <2>6, <3>2, <3>3, SMTT(30) DEF CallInOnePlace
    <3>6. \A i \in DOMAIN ready :
            ready[i].h = "send" =>
              /\ ready[i].call \in called'
              /\ \A d \in 0..(seq' - 1) : data'[d].call # ready[i].call
      BY <2>6, <3>2, <3>3, SMTT(30) DEF CallInOnePlace
    <3> QED
      BY <3>4, <3>5, <3>6, Zenon DEF CallInOnePlace
  <2> QED
    BY <1>2, <2>5, <2>6, Zenon DEF ReceivePackage, ReleaseSession
<1> QED
  BY <1>1, <1>2, Zenon

(* The turns of ReadInLoop that deliver keep each call in one place. *)
LEMMA ReadKeeps ==
  ASSUME TypeOK, CallInOnePlace, ReadBody \/ ReadMisfit
  PROVE  CallInOnePlace'
<1>1. UNCHANGED ready
  BY Zenon DEF ReadBody, ReadMisfit, ReleaseSession
<1>2. Started(Tail(inbuf)) \in SUBSET Ops
  BY StartedType, Zenon
<1>3. partial.seq \in Nat /\ 0..(seq - 1) \subseteq Nat
  BY DEF TypeOK, Partials
<1>4. ASSUME NEW s \in Nat, NEW content,
             ReceivePackage(s, content, Started(Tail(inbuf)))
      PROVE  CallInOnePlace'
  BY <1>1, <1>2, <1>4, ReceivePackageKeeps, Zenon
<1>5. CASE sessions' \subseteq sessions /\ UNCHANGED <<called, doneRuns, seq, data>>
  BY <1>1, <1>5, QuietKeeps, Zenon DEF Quiet
<1>6. CASE ReadBody
  BY <1>3, <1>4, <1>6, Zenon DEF ReadBody
<1>7. CASE ReadMisfit
  BY <1>3, <1>4, <1>5, <1>7, Zenon DEF ReadMisfit, ReleaseSession
<1> QED
  BY <1>6, <1>7, Zenon

(* At first no call has been made. *)
LEMMA CallInOnePlaceInit == Init => CallInOnePlace
<1> SUFFICES ASSUME Init PROVE CallInOnePlace
  BY Zenon
<1>1. 0..(seq - 1) = {} /\ DOMAIN ready = {}
  BY DEF Init
<1>2. \A c \in Calls : ~(doneRuns[c] > 0)
  BY DEF Init
<1> QED
  BY <1>1, <1>2, Zenon DEF CallInOnePlace

(* Every step keeps each call in one place. *)
LEMMA CallInOnePlaceNext ==
  TypeOK /\ CallInOnePlace /\ [Next]_vars => CallInOnePlace'
<1> SUFFICES ASSUME TypeOK, CallInOnePlace, [Next]_vars PROVE CallInOnePlace'
  BY Zenon
<1>1. CASE UNCHANGED vars
  BY <1>1, QuietKeeps, Zenon DEF Quiet, vars
<1> QED
  BY <1>1, CallMethodKeeps, RunSendKeeps, ReadKeeps, QuietKeeps, QuietHandlers,
     QuietEnvironment, Zenon
     DEF Next, LoopThread

(***************************************************************************)
(* A call is in one place at a time: posted, in a session, or done.        *)
(***************************************************************************)
THEOREM CallsInOnePlace == Spec => []CallInOnePlace
BY TypeInit, TypeNext, CallInOnePlaceInit, CallInOnePlaceNext, PTL DEF Spec

(***************************************************************************)
(* The closure of a call runs at most once, for any calls, with and        *)
(* without auto_reconnect, for any number of connections that break in any *)
(* of the ways modelled: ReceivePackage finds a session at most once.      *)
(***************************************************************************)
THEOREM ClosureRunsOnce == Spec => []DoneAtMostOnce
<1>1. TypeOK /\ CallInOnePlace => DoneAtMostOnce
  <2> SUFFICES ASSUME TypeOK, CallInOnePlace, NEW c \in Calls
               PROVE  doneRuns[c] <= 1
    BY Zenon DEF DoneAtMostOnce
  <2>1. doneRuns[c] \in Nat
    BY Zenon DEF TypeOK
  <2>2. doneRuns[c] > 0 => doneRuns[c] = 1
    BY Zenon DEF CallInOnePlace
  <2> QED
    BY <2>1, <2>2
<1> QED
  BY <1>1, TypeCorrect, CallsInOnePlace, PTL

-----------------------------------------------------------------------------
(* No closure runs after TerminateInLoop *)

(* ReadInLoop holds no bytes of a terminated channel. *)
NothingLeftToRead == terminated => inbuf = <<>>

(* After TerminateInLoop ReadInLoop is not given bytes any more. *)
LEMMA NothingLeftNext ==
  TypeOK /\ NothingLeftToRead /\ [Next]_vars => NothingLeftToRead'
<1> SUFFICES ASSUME TypeOK, NothingLeftToRead, [Next]_vars
             PROVE  NothingLeftToRead'
  BY Zenon
<1>1. CASE UNCHANGED <<terminated, inbuf>>
  BY <1>1, Zenon DEF NothingLeftToRead
<1>2. CASE RunRead
  BY <1>2, Zenon DEF NothingLeftToRead, RunRead, ReconnectOrFail
<1>3. CASE RunTerminate
  BY <1>3, Zenon DEF NothingLeftToRead, RunTerminate, Runs
<1>4. CASE ReadHead \/ ReadSplitHead \/ ReadPiece \/ ReadBody \/ ReadMisfit
  BY <1>4, Zenon DEF NothingLeftToRead, ReadHead, ReadSplitHead, ReadPiece, ReadBody,
              ReadMisfit, ReleaseSession
<1>5. CASE RunSend \/ RunWritten \/ RunConnected \/ TouchFreed \/ Destroy
  BY <1>1, <1>5, Zenon DEF RunSend, RunWritten, RunConnected, TouchFreed, Destroy
<1>6. CASE (\E c \in Calls : CallMethod(c)) \/ ConnectSucceeds \/ ConnectFails
  BY <1>1, <1>6, Zenon DEF CallMethod, ConnectSucceeds, ConnectFails
<1>7. ASSUME NEW k, NEW d,
             \/ CompleteRead(k) \/ CompleteWrite(k, d) \/ Serve(k)
             \/ ServeMixed(k) \/ Break(k)
      PROVE  NothingLeftToRead'
  BY <1>1, <1>7, Zenon DEF CompleteRead, CompleteWrite, Serve, ServeMixed, Break
<1>8. CASE UNCHANGED vars
  BY <1>1, <1>8, Zenon DEF vars
<1> QED
  BY <1>2, <1>3, <1>4, <1>5, <1>6, <1>7, <1>8, Zenon DEF Next, LoopThread

(* So no step after TerminateInLoop runs a closure. *)
LEMMA SilentStep ==
  NothingLeftToRead /\ [Next]_vars => [terminated => doneRuns' = doneRuns]_vars
<1> SUFFICES ASSUME NothingLeftToRead, Next, terminated
             PROVE  doneRuns' = doneRuns
  BY Zenon
<1>1. ~ReadBody /\ ~ReadMisfit
  BY Zenon DEF NothingLeftToRead, ReadBody, ReadMisfit, ReleaseSession
<1>2. CASE RunSend \/ RunWritten \/ RunRead \/ RunConnected \/ RunTerminate
  BY <1>2, Zenon
     DEF RunSend, RunWritten, RunRead, RunConnected, RunTerminate,
         ReconnectOrFail
<1>3. CASE \/ ReadHead \/ ReadSplitHead \/ ReadPiece \/ TouchFreed
           \/ Destroy \/ \E c \in Calls : CallMethod(c)
  BY <1>3, Zenon
     DEF ReadHead, ReadSplitHead, ReadPiece, TouchFreed, Destroy, CallMethod
<1>4. CASE ConnectSucceeds \/ ConnectFails
  BY <1>4, Zenon DEF ConnectSucceeds, ConnectFails
<1>5. ASSUME NEW k, NEW d,
             \/ CompleteRead(k) \/ CompleteWrite(k, d) \/ Serve(k)
             \/ ServeMixed(k) \/ Break(k)
      PROVE  doneRuns' = doneRuns
  BY <1>5, Zenon DEF CompleteRead, CompleteWrite, Serve, ServeMixed, Break
<1> QED
  BY <1>1, <1>2, <1>3, <1>4, <1>5, Zenon DEF Next, LoopThread

(***************************************************************************)
(* Once TerminateInLoop has run no closure runs, although bytes that were  *)
(* read before may still be queued for ReadInLoop.                         *)
(***************************************************************************)
THEOREM NoClosureAfterTerminate == Spec => SilentAfterTerminate
<1>1. Init => NothingLeftToRead
  BY Zenon DEF Init, NothingLeftToRead
<1> QED
  BY <1>1, TypeInit, TypeNext, NothingLeftNext, SilentStep, PTL
     DEF Spec, SilentAfterTerminate

-----------------------------------------------------------------------------
(* No call is forgotten *)

(* The elements of a sequence are what is at its positions. *)
LEMMA RangeOfSeq ==
  ASSUME NEW S, NEW q \in Seq(S), NEW r, NEW x \in Range(q)
  PROVE  /\ x \in Range(Append(q, r))
         /\ r \in Range(Append(q, r))
         /\ q # <<>> /\ x # Head(q) => x \in Range(Tail(q))
<1>1. x \in Range(Append(q, r)) /\ r \in Range(Append(q, r))
  BY AppendPositions DEF Range
<1>2. ASSUME q # <<>>, x # Head(q)
      PROVE  x \in Range(Tail(q))
  <2>1. PICK i \in DOMAIN q : x = q[i]
    BY Zenon DEF Range
  <2>2. i - 1 \in DOMAIN Tail(q) /\ Tail(q)[i - 1] = x
    BY <1>2, <2>1
  <2> QED
    BY <2>2, Zenon DEF Range
<1> QED
  BY <1>1, <1>2, Zenon

Send(c) == [h |-> "send", call |-> c]

(* A step that loses no call, or ends the process. *)
LosesNone ==
  \/ aborted' # "no"
  \/ /\ UNCHANGED <<called, doneRuns>>
     /\ \A s \in sessions : s \in sessions' /\ data'[s].call = data[s].call
     /\ \A c \in Calls : Send(c) \in Range(ready) => Send(c) \in Range(ready')

(* A step that loses no post, session or result forgets no call. *)
LEMMA LosesNoneKeeps ==
  ASSUME TypeOK, aborted = "no", NoCallForgotten, LosesNone
  PROVE  NoCallForgotten'
<1> SUFFICES ASSUME aborted' = "no", NEW c \in called'
             PROVE  \/ Send(c) \in Range(ready')
                    \/ \E s \in sessions' : data'[s].call = c
                    \/ doneRuns'[c] = 1
  BY ZenonT(30) DEF NoCallForgotten, Send
<1>1. c \in called /\ c \in Calls /\ UNCHANGED doneRuns
  BY Zenon DEF LosesNone, TypeOK
<1>2. \/ Send(c) \in Range(ready)
      \/ \E s \in sessions : data[s].call = c
      \/ doneRuns[c] = 1
  BY <1>1, Zenon DEF NoCallForgotten, Send
<1> QED
  BY <1>1, <1>2, Zenon DEF LosesNone

(* The handlers that release no session lose none. *)
LEMMA HandlersLoseNone ==
  ASSUME TypeOK, RunWritten \/ RunRead \/ RunConnected \/ RunTerminate
  PROVE  LosesNone
<1>1. /\ UNCHANGED <<called, doneRuns, sessions>>
      /\ ready # <<>> /\ ready' = Tail(ready) /\ Head(ready).h # "send"
  BY Zenon DEF RunWritten, RunRead, RunConnected, RunTerminate, Runs, ReconnectOrFail
<1>2. \A s \in sessions : data'[s].call = data[s].call
  BY QuietHandlers, Zenon DEF Quiet, TypeOK
<1>3. ASSUME NEW c \in Calls, Send(c) \in Range(ready)
      PROVE  Send(c) \in Range(ready')
  <2>1. Send(c) # Head(ready)
    BY <1>1 DEF Send
  <2>2. ready \in Seq(Handlers)
    BY Zenon DEF TypeOK
  <2> QED
    BY <1>1, <1>3, <2>1, <2>2, RangeOfSeq, Zenon
<1> QED
  BY <1>1, <1>2, <1>3, Zenon DEF LosesNone

(* The kernel, the network, the server and the destructor lose none. *)
LEMMA EnvironmentLosesNone ==
  ASSUME TypeOK, NEW k, NEW d,
         \/ Destroy \/ ReadHead \/ ReadSplitHead \/ ReadPiece \/ TouchFreed
         \/ CompleteRead(k) \/ CompleteWrite(k, d)
         \/ ConnectSucceeds \/ ConnectFails
         \/ Serve(k) \/ ServeMixed(k) \/ Break(k)
  PROVE  LosesNone
<1>1. UNCHANGED <<called, doneRuns, sessions, data>>
  BY Zenon DEF Destroy, ReadHead, ReadSplitHead, ReadPiece, TouchFreed,
         CompleteRead, CompleteWrite,
         ConnectSucceeds, ConnectFails, Serve, ServeMixed, Break
<1>2. ready' = ready \/ \E r : ready' = Append(ready, r)
  BY Zenon DEF Destroy, ReadHead, ReadSplitHead, ReadPiece, TouchFreed,
         CompleteRead, CompleteWrite,
         ConnectSucceeds, ConnectFails, Serve, ServeMixed, Break, Post
<1>3. ready \in Seq(Handlers)
  BY Zenon DEF TypeOK
<1>4. \A c \in Calls : Send(c) \in Range(ready) => Send(c) \in Range(ready')
  BY <1>2, <1>3, RangeOfSeq, Zenon
<1> QED
  BY <1>1, <1>4, Zenon DEF LosesNone

(* The head of `ready' that RunSend takes becomes a session. *)
LEMMA RunSendForgetsNone ==
  ASSUME TypeOK, NoCallForgotten, RunSend
  PROVE  NoCallForgotten'
<1> SUFFICES ASSUME aborted' = "no", NEW c \in called'
             PROVE  \/ Send(c) \in Range(ready')
                    \/ \E s \in sessions' : data'[s].call = c
                    \/ doneRuns'[c] = 1
  BY Zenon DEF NoCallForgotten, Send
<1>1. /\ aborted = "no" /\ ready # <<>> /\ ready' = Tail(ready)
      /\ Head(ready).h = "send" /\ UNCHANGED <<called, doneRuns>>
      /\ SendInLoop(Head(ready).call, sessions, ops)
  BY Zenon DEF RunSend, Runs
<1>2. ready \in Seq(Handlers) /\ Head(ready) \in Handlers /\ c \in Calls
  BY <1>1, SMTT(30) DEF TypeOK
<1>3. Head(ready).call \in Calls
  BY <1>1, <1>2, HandlerFields, Zenon
<1>4. /\ sessions \in SUBSET (0..(seq - 1)) /\ ops \in SUBSET Ops
  BY Zenon DEF TypeOK
<1>5. /\ sessions' = sessions \cup {seq}
      /\ \A d \in 0..(seq - 1) : data'[d].call = data[d].call
      /\ data'[seq].call = Head(ready).call
  BY <1>1, <1>3, <1>4, SendInLoopType, Zenon
<1>6. CASE Head(ready).call = c
  BY <1>5, <1>6, Zenon
<1>7. CASE Head(ready).call # c
  <2>1. Send(c) # Head(ready)
    BY <1>7 DEF Send
  <2>2. Send(c) \in Range(ready) => Send(c) \in Range(ready')
    BY <1>1, <1>2, <2>1, RangeOfSeq, Zenon
  <2>3. \/ Send(c) \in Range(ready)
        \/ \E s \in sessions : data[s].call = c
        \/ doneRuns[c] = 1
    BY <1>1, Zenon DEF NoCallForgotten, Send
  <2> QED
    BY <1>1, <1>4, <1>5, <2>2, <2>3, Zenon
<1> QED
  BY <1>6, <1>7, Zenon

(* CallMethod posts the call it makes. *)
LEMMA CallMethodForgetsNone ==
  ASSUME TypeOK, NoCallForgotten, NEW c \in Calls, CallMethod(c)
  PROVE  NoCallForgotten'
<1>1. /\ ready' = Append(ready, Send(c)) /\ called' = called \cup {c}
      /\ aborted = "no" /\ UNCHANGED <<doneRuns, sessions, data>>
  BY Zenon DEF CallMethod, Post, Send
<1>2. ready \in Seq(Handlers)
  BY Zenon DEF TypeOK
<1>3. Send(c) \in Range(ready')
  BY <1>1, <1>2, AppendPositions, SMTT(30) DEF Range
<1>4. \A x \in Range(ready) : x \in Range(ready')
  BY <1>1, <1>2, RangeOfSeq, Zenon
<1> QED
  BY <1>1, <1>3, <1>4, Zenon DEF NoCallForgotten, Send

(* The session ReceivePackage releases has its closure run. *)
LEMMA ReceivePackageForgetsNone ==
  ASSUME TypeOK, CallInOnePlace, NoCallForgotten, aborted = "no",
         NEW s \in Nat, NEW content, NEW started \in SUBSET Ops,
         ReceivePackage(s, content, started), UNCHANGED ready
  PROVE  NoCallForgotten'
<1>1. CASE s \notin sessions
  <2>1. LosesNone
    BY <1>1, Zenon DEF ReceivePackage, LosesNone, ReleaseSession
  <2> QED
    BY <2>1, LosesNoneKeeps, Zenon
<1>2. CASE s \in sessions
  <2> SUFFICES ASSUME aborted' = "no", NEW c \in called'
               PROVE  \/ Send(c) \in Range(ready)
                      \/ \E t \in sessions' : data'[t].call = c
                      \/ doneRuns'[c] = 1
    BY Zenon DEF NoCallForgotten, Send
  <2>1. s \in 0..(seq - 1) /\ data[s].call \in Calls /\ seq \in Nat
    BY <1>2, Zenon DEF TypeOK, RPCDatas
  <2>2. doneRuns' = [doneRuns EXCEPT ![data[s].call] = @ + 1]
    BY <1>2, Zenon DEF ReceivePackage, ReleaseSession
  <2>3. doneRuns[data[s].call] = 0
    BY <1>2, NotDoneYet, Zenon
  <2>4. /\ doneRuns'[data[s].call] = 1
        /\ \A x \in Calls \ {data[s].call} : doneRuns'[x] = doneRuns[x]
    BY <2>1, <2>2, <2>3, SMTT(30) DEF TypeOK
  <2>5. /\ \A t \in sessions \ {s} :
             t \in sessions' /\ data'[t].call = data[t].call
        /\ called' \subseteq Calls
        /\ c \notin called => \E t \in sessions' : data'[t].call = c
    <3>1. CASE sessions' = sessions \ {s} /\ UNCHANGED <<called, data>>
      BY <3>1, Zenon DEF TypeOK
    <3>2. ASSUME NEW n \in Calls \ called, called' = called \cup {n},
                 SendInLoop(n, sessions \ {s}, started)
          PROVE  /\ \A t \in sessions \ {s} :
                      t \in sessions' /\ data'[t].call = data[t].call
                 /\ called' \subseteq Calls
                 /\ c \notin called => \E t \in sessions' : data'[t].call = c
      <4>1. sessions \ {s} \in SUBSET (0..(seq - 1))
        BY Zenon DEF TypeOK
      <4>2. /\ sessions' = (sessions \ {s}) \cup {seq}
            /\ \A d \in 0..(seq - 1) : data'[d].call = data[d].call
            /\ data'[seq].call = n
        BY <3>2, <4>1, SendInLoopType, Zenon
      <4> QED
        BY <3>2, <4>1, <4>2, Zenon DEF TypeOK
    <3> QED
      BY <1>2, <3>1, <3>2, Zenon DEF ReceivePackage, ReleaseSession
  <2>6. CASE c \notin called
    BY <2>5, <2>6, Zenon
  <2>7. CASE c \in called
    <3>1. \/ Send(c) \in Range(ready)
          \/ \E t \in sessions : data[t].call = c
          \/ doneRuns[c] = 1
      BY <2>7, Zenon DEF NoCallForgotten, Send
    <3> QED
      BY <2>4, <2>5, <3>1, Zenon
  <2> QED
    BY <2>6, <2>7, Zenon
<1> QED
  BY <1>1, <1>2, Zenon

(* A turn of ReadInLoop releases a session only to run its closure. *)
LEMMA ReadForgetsNone ==
  ASSUME TypeOK, CallInOnePlace, NoCallForgotten, ReadBody \/ ReadMisfit
  PROVE  NoCallForgotten'
<1>1. UNCHANGED ready /\ aborted = "no"
  BY Zenon DEF ReadBody, ReadMisfit, ReleaseSession
<1>2. Started(Tail(inbuf)) \in SUBSET Ops
  BY StartedType, Zenon
<1>3. partial.seq \in Nat /\ 0..(seq - 1) \subseteq Nat
  BY DEF TypeOK, Partials
<1>4. ASSUME NEW s \in Nat, NEW content,
             ReceivePackage(s, content, Started(Tail(inbuf)))
      PROVE  NoCallForgotten'
  BY <1>1, <1>2, <1>4, ReceivePackageForgetsNone, Zenon
<1>5. CASE aborted' # "no" \/ UNCHANGED <<called, doneRuns, sessions, data>>
  BY <1>1, <1>5, LosesNoneKeeps, Zenon DEF LosesNone
<1>6. CASE ReadBody
  BY <1>3, <1>4, <1>6, Zenon DEF ReadBody
<1>7. CASE ReadMisfit
  BY <1>3, <1>4, <1>5, <1>7, Zenon DEF ReadMisfit, ReleaseSession
<1> QED
  BY <1>6, <1>7, Zenon

(* No step forgets a call. *)
LEMMA NoCallForgottenNext ==
  TypeOK /\ CallInOnePlace /\ NoCallForgotten /\ [Next]_vars => NoCallForgotten'
<1> SUFFICES ASSUME TypeOK, CallInOnePlace, NoCallForgotten, [Next]_vars
             PROVE  NoCallForgotten'
  BY Zenon
<1>1. CASE UNCHANGED vars
  BY <1>1, Zenon DEF NoCallForgotten, vars
<1>2. CASE aborted # "no"
  <2>1. ASSUME NEW k, NEW d
        PROVE  /\ ~RunSend /\ ~RunWritten /\ ~RunRead /\ ~RunConnected
               /\ ~RunTerminate /\ ~ReadHead /\ ~ReadSplitHead
               /\ ~ReadPiece /\ ~ReadBody /\ ~ReadMisfit
               /\ ~TouchFreed /\ ~Destroy /\ ~CallMethod(k)
               /\ ~CompleteRead(k) /\ ~CompleteWrite(k, d)
               /\ ~ConnectSucceeds /\ ~ConnectFails
    BY <1>2, Zenon DEF RunSend, RunWritten, RunRead, RunConnected, RunTerminate,
                ReadHead, ReadSplitHead, ReadPiece, ReadBody, ReadMisfit,
                TouchFreed, Destroy, CallMethod,
                CompleteRead, CompleteWrite, ConnectSucceeds, ConnectFails, Runs,
                ReleaseSession, ReconnectOrFail
  <2>2. ASSUME NEW k, Serve(k) \/ ServeMixed(k) \/ Break(k)
        PROVE  aborted' # "no"
    BY <1>2, <2>2, Zenon DEF Serve, ServeMixed, Break
  <2>3. aborted' # "no"
    BY <1>2, <2>1, <2>2, Zenon DEF Next, LoopThread, vars
  <2> QED
    BY <2>3, Zenon DEF NoCallForgotten
<1>3. CASE aborted = "no" /\ Next
  BY <1>3, CallMethodForgetsNone, RunSendForgetsNone, ReadForgetsNone,
     LosesNoneKeeps, HandlersLoseNone, EnvironmentLosesNone, Zenon
     DEF Next, LoopThread
<1> QED
  BY <1>1, <1>2, <1>3, Zenon

(***************************************************************************)
(* While the process lives, a call that was made is waiting to be sent,    *)
(* has a session, or has had its closure run: none of the handlers, the    *)
(* reconnection included, drops a call.                                    *)
(***************************************************************************)
THEOREM CallsRemembered == Spec => []NoCallForgotten
<1>1. Init => NoCallForgotten
  BY Zenon DEF Init, NoCallForgotten
<1> QED
  BY <1>1, TypeCorrect, CallsInOnePlace, NoCallForgottenNext, PTL DEF Spec

-----------------------------------------------------------------------------
(* The requests and the connections they are sent on *)

(***************************************************************************)
(* What a step of WriteInLoop on socket k does to RPCData d: it leaves it  *)
(* alone or, if d is the first of the queue and not pending, hands it to   *)
(* an async_write.                                                         *)
(***************************************************************************)
HandsOver(d, k, queue, heap) ==
  /\ queue # <<>> /\ d = Head(queue) /\ ~heap[d].is_pending
  /\ data'[d].is_pending /\ data'[d].conn = k /\ data'[d].call = heap[d].call

(* WriteInLoop hands over at most one RPCData, and starts its write only. *)
LEMMA WriteInLoopHands ==
  ASSUME NEW n \in Int, NEW k \in Nat, NEW queue \in Seq(0..n),
         NEW heap \in [0..n -> RPCDatas], NEW started,
         WriteInLoop(k, queue, heap, started)
  PROVE  /\ pending' = queue
         /\ \A d \in 0..n : data'[d] = heap[d] \/ HandsOver(d, k, queue, heap)
         /\ \A o \in ops' :
              \/ o \in started
              \/ \E d \in 0..n : o = WriteOp(k, d) /\ HandsOver(d, k, queue, heap)
<1>1. CASE queue # <<>> /\ ~heap[Head(queue)].is_pending
  <2> DEFINE h == Head(queue)
             new == [heap[h] EXCEPT !.is_pending = TRUE, !.conn = k]
  <2>1. h \in 0..n
    BY <1>1
  <2>2. new.is_pending = TRUE /\ new.conn = k /\ new.call = heap[h].call
    BY <2>1, Zenon DEF RPCDatas
  <2>3. /\ pending' = queue
        /\ data' = [heap EXCEPT ![h] = new]
        /\ ops' = started \cup {WriteOp(k, h)}
    BY <1>1, Zenon DEF WriteInLoop
  <2> HIDE DEF new
  <2>4. data'[h] = new /\ \A d \in 0..n : d # h => data'[d] = heap[d]
    BY <2>1, <2>3, Zenon
  <2>5. HandsOver(h, k, queue, heap)
    BY <1>1, <2>2, <2>4, Zenon DEF HandsOver
  <2> QED
    BY <2>1, <2>3, <2>4, <2>5, Zenon
<1>2. CASE ~(queue # <<>> /\ ~heap[Head(queue)].is_pending)
  BY <1>2, Zenon DEF WriteInLoop
<1> QED
  BY <1>1, <1>2, Zenon

(* The RPCDatas after SaveSession has made one for c. *)
LEMMA NewRPCDataIs ==
  ASSUME TypeOK, NEW c \in Calls
  PROVE  /\ NewRPCData(c) \in [0..seq -> RPCDatas]
         /\ \A d \in 0..(seq - 1) : NewRPCData(c)[d] = data[d]
         /\ NewRPCData(c)[seq].call = c
         /\ ~NewRPCData(c)[seq].is_pending
         /\ NewRPCData(c)[seq].conn = 0
<1>1. [call |-> c, is_pending |-> FALSE, conn |-> 0] \in RPCDatas
  BY Zenon DEF RPCDatas
<1>2. /\ seq \in 0..seq
      /\ \A d \in 0..(seq - 1) : d \in 0..seq /\ d # seq
      /\ \A d \in 0..seq : d = seq \/ d \in 0..(seq - 1)
  BY DEF TypeOK
<1>3. \A d \in 0..(seq - 1) : data[d] \in RPCDatas
  BY Zenon DEF TypeOK
<1> QED
  BY <1>1, <1>2, <1>3, Zenon DEF NewRPCData

(* What SendInLoop does to each RPCData, old and new. *)
LEMMA SendInLoopHands ==
  ASSUME TypeOK, NEW c \in Calls, NEW others, NEW started,
         SendInLoop(c, others, started)
  PROVE  /\ seq' = seq + 1 /\ sessions' = others \cup {seq}
         /\ pending' = Append(pending, seq)
         /\ \A d \in 0..seq :
              \/ data'[d] = NewRPCData(c)[d]
              \/ HandsOver(d, socket, Append(pending, seq), NewRPCData(c))
         /\ \A o \in ops' :
              \/ o \in started
              \/ \E d \in 0..seq :
                   /\ o = WriteOp(socket, d)
                   /\ HandsOver(d, socket, Append(pending, seq), NewRPCData(c))
<1>1. NewRPCData(c) \in [0..seq -> RPCDatas]
  BY NewRPCDataIs, Zenon
<1>2. Append(pending, seq) \in Seq(0..seq)
  <2>1. seq - 1 \in Int /\ (seq - 1) + 1 = seq /\ seq >= 0
    BY DEF TypeOK
  <2>2. pending \in Seq(0..(seq - 1))
    BY Zenon DEF TypeOK
  <2> QED
    BY <2>1, <2>2, SeqWiden, Zenon
<1>3. seq \in Int /\ socket \in Nat
  BY DEF TypeOK
<1>4. /\ WriteInLoop(socket, Append(pending, seq), NewRPCData(c), started)
      /\ seq' = seq + 1 /\ sessions' = others \cup {seq}
  BY Zenon DEF SendInLoop, SaveSession
<1> QED
  BY <1>1, <1>2, <1>3, <1>4, WriteInLoopHands, ZenonT(30)

-----------------------------------------------------------------------------
(* Every open session is sent, or to be sent, on the present connection *)

(***************************************************************************)
(* The flag of an RPCData that still has its session was set by this very  *)
(* connection: SendPendingSessions has cleared the others.  Written, which *)
(* takes the first RPCData off pending_ because of its flag, would         *)
(* otherwise drop a request that only an earlier connection was given.     *)
(***************************************************************************)
FlaggedHere == \A s \in sessions : data[s].is_pending => data[s].conn = socket

SentInv == FlaggedHere /\ SentOnThisConnection

(* A step that leaves RPCDatas, queue and socket alone. *)
Still ==
  /\ UNCHANGED <<data, pending, socket>>
  /\ sessions' \subseteq sessions
  /\ closed_by_peer => closed_by_peer'

(* Such a step keeps every request where it is. *)
LEMMA StillKeeps == SentInv /\ Still => SentInv'
BY Zenon DEF SentInv, FlaggedHere, SentOnThisConnection, Still

(* The handlers and the surroundings that write nothing. *)
LEMMA StillSteps ==
  ASSUME NEW k, NEW d,
         \/ CallMethod(k) \/ Destroy \/ RunRead \/ RunTerminate
         \/ ReadHead \/ ReadSplitHead \/ ReadPiece \/ TouchFreed
         \/ CompleteRead(k) \/ CompleteWrite(k, d)
         \/ ConnectSucceeds \/ ConnectFails
         \/ Serve(k) \/ ServeMixed(k) \/ Break(k)
  PROVE  Still
<1>1. CASE CallMethod(k) \/ Destroy \/ RunRead \/ RunTerminate
  BY <1>1, SMTT(30) DEF Still, CallMethod, Destroy, RunRead, RunTerminate, ReconnectOrFail
<1>2. CASE ReadHead \/ ReadSplitHead \/ ReadPiece \/ TouchFreed
  BY <1>2, SMTT(30) DEF Still, ReadHead, ReadSplitHead, ReadPiece, TouchFreed
<1>3. CASE \/ CompleteRead(k) \/ CompleteWrite(k, d)
           \/ ConnectSucceeds \/ ConnectFails
  <2>1. CASE CompleteRead(k)
    BY <2>1, Zenon DEF Still, CompleteRead
  <2>2. CASE CompleteWrite(k, d)
    BY <2>2, Zenon DEF Still, CompleteWrite
  <2>3. CASE ConnectSucceeds \/ ConnectFails
    BY <2>3 DEF Still, ConnectSucceeds, ConnectFails
  <2> QED
    BY <1>3, <2>1, <2>2, <2>3, Zenon
<1>4. CASE Serve(k) \/ ServeMixed(k) \/ Break(k)
  <2>1. UNCHANGED <<sessionVars, channelVars>>
    <3>1. CASE Serve(k)
      BY <3>1, Zenon DEF Serve
    <3>2. CASE ServeMixed(k)
      BY <3>2, Zenon DEF ServeMixed
    <3>3. CASE Break(k)
      BY <3>3, Zenon DEF Break
    <3> QED
      BY <1>4, <3>1, <3>2, <3>3, Zenon
  <2> QED
    BY <2>1, Zenon DEF Still
<1> QED
  BY <1>1, <1>2, <1>3, <1>4, Zenon

(* The elements of a sequence: at its head, or in its tail. *)
LEMMA HeadOrTail ==
  ASSUME NEW S, NEW q \in Seq(S), q # <<>>, NEW x \in Range(q)
  PROVE  x = Head(q) \/ x \in Range(Tail(q))
<1>1. PICK i \in DOMAIN q : x = q[i]
  BY Zenon DEF Range
<1>2. CASE i = 1
  BY <1>1, <1>2
<1>3. CASE i # 1
  <2>1. i - 1 \in DOMAIN Tail(q) /\ Tail(q)[i - 1] = x
    BY <1>1, <1>3
  <2> QED
    BY <2>1, Zenon DEF Range
<1> QED
  BY <1>2, <1>3, Zenon

(* SendInLoop, of a posted call or of one a closure makes, keeps SentInv. *)
LEMMA SendInLoopSent ==
  ASSUME TypeOK, SentInv, NEW c \in Calls, NEW others \in SUBSET sessions,
         NEW started, SendInLoop(c, others, started),
         UNCHANGED <<socket, closed_by_peer>>
  PROVE  SentInv'
<1>1. /\ sessions' = others \cup {seq}
      /\ pending' = Append(pending, seq)
      /\ \A d \in 0..seq :
           \/ data'[d] = NewRPCData(c)[d]
           \/ HandsOver(d, socket, Append(pending, seq), NewRPCData(c))
  BY SendInLoopHands, Zenon
<1>2. /\ \A d \in 0..(seq - 1) : NewRPCData(c)[d] = data[d]
      /\ ~NewRPCData(c)[seq].is_pending
  BY NewRPCDataIs, Zenon
<1>3. /\ seq \in Nat /\ sessions \subseteq 0..(seq - 1)
      /\ pending \in Seq(0..(seq - 1))
  BY ZenonT(40) DEF TypeOK
<1>4. seq \in Range(pending') /\ Range(pending) \subseteq Range(pending')
  BY <1>1, <1>3, AppendPositions, SMTT(20) DEF Range
<1>5. ASSUME NEW s \in sessions'
      PROVE  /\ data'[s].is_pending => data'[s].conn = socket
             /\ ~closed_by_peer => s \in Range(pending') \/ data'[s].conn = socket
  <2>1. s = seq \/ (s \in sessions /\ s \in 0..(seq - 1))
    BY <1>1, <1>3, Zenon
  <2>0. s \in 0..seq
    BY <1>3, <2>1
  <2>2. CASE data'[s] = NewRPCData(c)[s]
    BY <1>2, <1>4, <2>1, <2>2, Zenon DEF SentInv, FlaggedHere, SentOnThisConnection
  <2>3. CASE HandsOver(s, socket, Append(pending, seq), NewRPCData(c))
    BY <2>3, Zenon DEF HandsOver
  <2> QED
    BY <1>1, <2>0, <2>2, <2>3, Zenon
<1> QED
  BY <1>5, Zenon DEF SentInv, FlaggedHere, SentOnThisConnection

(* Written takes the RPCData off that this connection was given. *)
LEMMA RunWrittenSent ==
  ASSUME TypeOK, SentInv, RunWritten
  PROVE  SentInv'
<1>1. CASE UNCHANGED <<data, pending>>
  BY <1>1, StillKeeps, Zenon DEF RunWritten, Still
<1>2. CASE /\ pending # <<>> /\ data[Head(pending)].is_pending
           /\ WriteInLoop(socket, Tail(pending), data, ops)
  <2>1. /\ Tail(pending) \in Seq(0..(seq - 1)) /\ seq - 1 \in Int
        /\ socket \in Nat /\ data \in [0..(seq - 1) -> RPCDatas]
        /\ pending \in Seq(0..(seq - 1)) /\ sessions \subseteq 0..(seq - 1)
    BY <1>2 DEF TypeOK
  <2>2. /\ pending' = Tail(pending)
        /\ \A d \in 0..(seq - 1) :
             data'[d] = data[d] \/ HandsOver(d, socket, Tail(pending), data)
    BY <1>2, <2>1, WriteInLoopHands, Zenon
  <2>3. UNCHANGED <<sessions, socket, closed_by_peer>>
    BY Zenon DEF RunWritten
  <2>4. \A x \in Range(pending) : x = Head(pending) \/ x \in Range(pending')
    BY <1>2, <2>1, <2>2, HeadOrTail, Zenon
  <2>5. ASSUME NEW s \in sessions
        PROVE  /\ data'[s].is_pending => data'[s].conn = socket
               /\ ~closed_by_peer => s \in Range(pending') \/ data'[s].conn = socket
    <3>1. CASE data'[s] = data[s]
      BY <1>2, <2>4, <3>1, Zenon DEF SentInv, FlaggedHere, SentOnThisConnection
    <3>2. CASE HandsOver(s, socket, Tail(pending), data)
      BY <3>2, Zenon DEF HandsOver
    <3> QED
      BY <2>1, <2>2, <3>1, <3>2, Zenon
  <2> QED
    BY <2>3, <2>5, Zenon DEF SentInv, FlaggedHere, SentOnThisConnection
<1> QED
  BY <1>1, <1>2, Zenon DEF RunWritten

(* The queue that SendPendingSessions makes holds all the sessions. *)
LEMMA InSeqOrderAll ==
  ASSUME TypeOK, NEW queue \in InSeqOrder(sessions)
  PROVE  sessions \subseteq Range(queue)
BY Zenon DEF InSeqOrder

(* The RPCDatas as SendPendingSessions finds them when it starts to write. *)
Unflagged ==
  [d \in DOMAIN data |-> IF d \in sessions
                         THEN [data[d] EXCEPT !.is_pending = FALSE]
                         ELSE data[d]]

(* Unflagged clears the flag of every session and keeps the rest. *)
LEMMA UnflaggedIs ==
  ASSUME TypeOK
  PROVE  /\ Unflagged \in [0..(seq - 1) -> RPCDatas]
         /\ \A d \in 0..(seq - 1) :
              /\ Unflagged[d].call = data[d].call
              /\ Unflagged[d].conn = data[d].conn
              /\ d \in sessions => ~Unflagged[d].is_pending
<1>1. DOMAIN data = 0..(seq - 1) /\ \A d \in 0..(seq - 1) : data[d] \in RPCDatas
  BY Zenon DEF TypeOK
<1>2. ASSUME NEW d \in 0..(seq - 1)
      PROVE  /\ [data[d] EXCEPT !.is_pending = FALSE] \in RPCDatas
             /\ [data[d] EXCEPT !.is_pending = FALSE].call = data[d].call
             /\ [data[d] EXCEPT !.is_pending = FALSE].conn = data[d].conn
             /\ [data[d] EXCEPT !.is_pending = FALSE].is_pending = FALSE
  BY <1>1, Zenon DEF RPCDatas
<1> QED
  BY <1>1, <1>2, Zenon DEF Unflagged

(* What SendPendingSessions does to the queue, the RPCDatas and the writes. *)
LEMMA SendPendingSessionsHands ==
  ASSUME TypeOK, NEW started, SendPendingSessions(started)
  PROVE  /\ sessions \subseteq Range(pending')
         /\ \A d \in 0..(seq - 1) :
              \/ data'[d] = Unflagged[d]
              \/ HandsOver(d, socket + 1, pending', Unflagged)
         /\ \A o \in ops' :
              \/ o \in started
              \/ \E d \in 0..(seq - 1) :
                   /\ o = WriteOp(socket + 1, d)
                   /\ HandsOver(d, socket + 1, pending', Unflagged)
<1>1. PICK queue \in InSeqOrder(sessions) :
        WriteInLoop(socket + 1, queue, Unflagged, started)
  BY Zenon DEF SendPendingSessions, Unflagged
<1>2. queue \in Seq(0..(seq - 1)) /\ sessions \subseteq Range(queue)
  BY InSeqOrderType, InSeqOrderAll, Zenon
<1>3. seq - 1 \in Int /\ socket + 1 \in Nat
  BY DEF TypeOK
<1>4. Unflagged \in [0..(seq - 1) -> RPCDatas]
  BY UnflaggedIs, Zenon
<1>5. /\ pending' = queue
      /\ \A d \in 0..(seq - 1) :
           data'[d] = Unflagged[d] \/ HandsOver(d, socket + 1, queue, Unflagged)
      /\ \A o \in ops' :
           \/ o \in started
           \/ \E d \in 0..(seq - 1) :
                /\ o = WriteOp(socket + 1, d)
                /\ HandsOver(d, socket + 1, queue, Unflagged)
  BY <1>1, <1>2, <1>3, <1>4, WriteInLoopHands, ZenonT(30)
<1> QED
  BY <1>2, <1>5, Zenon

(* Connected sends every session again. *)
LEMMA RunConnectedSent ==
  ASSUME TypeOK, SentInv, RunConnected
  PROVE  SentInv'
<1>1. CASE UNCHANGED <<data, pending, socket, closed_by_peer>>
  BY <1>1, StillKeeps, Zenon DEF RunConnected, Still
<1>2. CASE RebuildSocket /\ SendPendingSessions(ops \cup {ReadOp(socket + 1)})
  <2>1. /\ sessions \subseteq Range(pending')
        /\ \A d \in 0..(seq - 1) :
             \/ data'[d] = Unflagged[d]
             \/ HandsOver(d, socket + 1, pending', Unflagged)
    BY <1>2, SendPendingSessionsHands, Zenon
  <2>2. \A d \in sessions : d \in 0..(seq - 1) /\ ~Unflagged[d].is_pending
    BY UnflaggedIs, Zenon DEF TypeOK
  <2>3. sessions' = sessions /\ socket' = socket + 1
    BY <1>2, Zenon DEF RunConnected, RebuildSocket
  <2>4. ASSUME NEW s \in sessions, data'[s].is_pending
        PROVE  data'[s].conn = socket + 1
    BY <2>1, <2>2, <2>4, Zenon DEF HandsOver
  <2> QED
    BY <2>1, <2>3, <2>4, Zenon DEF SentInv, FlaggedHere, SentOnThisConnection
<1> QED
  BY <1>1, <1>2, Zenon DEF RunConnected

(* A turn of ReadInLoop that delivers keeps SentInv, also with a new call. *)
LEMMA ReadSent ==
  ASSUME TypeOK, SentInv, ReadBody \/ ReadMisfit
  PROVE  SentInv'
<1>1. UNCHANGED <<socket, closed_by_peer>>
  BY Zenon DEF ReadBody, ReadMisfit
<1>2. CASE sessions' \subseteq sessions /\ UNCHANGED <<data, pending>>
  BY <1>1, <1>2, StillKeeps, Zenon DEF Still
<1>3. ASSUME NEW s, NEW content, NEW started, ReceivePackage(s, content, started)
      PROVE  SentInv'
  <2>1. CASE \E c \in Calls \ called : SendInLoop(c, ReleaseSession(s), started)
    <3>1. ReleaseSession(s) \in SUBSET sessions
      BY Zenon DEF ReleaseSession
    <3> QED
      BY <1>1, <2>1, <3>1, SendInLoopSent, Zenon
  <2> QED
    BY <1>2, <1>3, <2>1, Zenon DEF ReceivePackage, ReleaseSession
<1>4. CASE ReadBody
  BY <1>3, <1>4, Zenon DEF ReadBody
<1>5. CASE ReadMisfit
  BY <1>2, <1>3, <1>5, Zenon DEF ReadMisfit, ReleaseSession
<1> QED
  BY <1>4, <1>5, Zenon

(* A posted SendInLoop keeps SentInv. *)
LEMMA RunSendSent ==
  ASSUME TypeOK, SentInv, RunSend
  PROVE  SentInv'
<1>1. UNCHANGED <<socket, closed_by_peer>>
  BY Zenon DEF RunSend
<1>2. CASE UNCHANGED <<sessionVars, pending>>
  BY <1>1, <1>2, StillKeeps, Zenon DEF Still
<1>3. CASE SendInLoop(Head(ready).call, sessions, ops)
  <2>1. Head(ready) \in Handlers /\ Head(ready).h = "send"
    BY DEF TypeOK, RunSend, Runs
  <2>2. Head(ready).call \in Calls
    BY <2>1, HandlerFields, Zenon
  <2>3. sessions \in SUBSET sessions
    BY Zenon
  <2> QED
    BY <1>1, <1>3, <2>2, <2>3, SendInLoopSent, Zenon
<1> QED
  BY <1>2, <1>3, Zenon DEF RunSend

(* Every step keeps SentInv. *)
LEMMA SentNext == TypeOK /\ SentInv /\ [Next]_vars => SentInv'
<1> SUFFICES ASSUME TypeOK, SentInv, [Next]_vars PROVE SentInv'
  BY Zenon
<1>1. CASE UNCHANGED vars
  BY <1>1, StillKeeps, Zenon DEF Still, vars
<1> QED
  BY <1>1, StillKeeps, StillSteps, RunSendSent, RunWrittenSent, RunConnectedSent,
     ReadSent, Zenon
     DEF Next, LoopThread

(***************************************************************************)
(* While the channel believes in its connection, every open session has    *)
(* its request in pending_ or was handed to this connection, whatever      *)
(* broke before: a reconnection sends again all that is still open.        *)
(***************************************************************************)
THEOREM SessionsAreSent == Spec => []SentOnThisConnection
<1>1. Init => SentInv
  BY Zenon DEF Init, SentInv, FlaggedHere, SentOnThisConnection
<1>2. SentInv => SentOnThisConnection
  BY Zenon DEF SentInv
<1> QED
  BY <1>1, <1>2, TypeInit, TypeNext, SentNext, PTL DEF Spec

-----------------------------------------------------------------------------
(* No connection carries a request twice *)

(* Request d is on its way on connection k: written, or being written. *)
Carries(k, d) == k \in Conns /\ \E i \in DOMAIN c2s[k] : c2s[k][i].seq = d

OnWay(k, d) == WriteOp(k, d) \in ops \/ Carries(k, d)

(* Connection k can still have the server execute call c. *)
Unsent(c, k) ==
  k = socket /\ \A d \in 0..(seq - 1) : data[d].call = c => data[d].conn # socket

OpenFor(c) ==
  {k \in 1..socket :
     Unsent(c, k) \/ \E d \in 0..(seq - 1) : data[d].call = c /\ OnWay(k, d)}

(***************************************************************************)
(* An RPCData that the present connection was given stays flagged, so that *)
(* WriteInLoop does not give it to the connection again;                   *)
(***************************************************************************)
FlagStays ==
  /\ socket >= 1
  /\ \A d \in 0..(seq - 1) : /\ data[d].conn <= socket
                             /\ data[d].conn = socket => data[d].is_pending

(* a write in progress is of an RPCData that its connection was given; *)
WritesGiven ==
  \A o \in ops :
    o.op = "write" => /\ o.data \in 0..(seq - 1) /\ o.conn \in 1..socket
                      /\ o.conn = socket => data[o.data].conn = socket

(* what was written is so, too, is not being written and was not before; *)
Written(k, i) ==
  LET d == c2s[k][i].seq
  IN  /\ d \in 0..(seq - 1) /\ k <= socket
      /\ c2s[k][i].call = data[d].call
      /\ k = socket => data[d].conn = socket
      /\ WriteOp(k, d) \notin ops
      /\ \A j \in DOMAIN c2s[k] : c2s[k][j].seq = d => j = i

WrittenOnce == \A k \in Conns : \A i \in DOMAIN c2s[k] : Written(k, i)

(***************************************************************************)
(* and so a call was executed at most as often as there are connections    *)
(* that it is not open for any more.  There is room for e executions if    *)
(* some h with h[k] no less than the number of connections up to k that    *)
(* are in S leaves that many of the n.                                     *)
(***************************************************************************)
Counts(h, S, n) ==
  /\ \A i, j \in 0..n : i <= j => h[i] <= h[j]
  /\ \A k \in 1..n : k \in S => h[k - 1] < h[k]

Room(S, n, e) == \E h \in [0..n -> 0..n] : Counts(h, S, n) /\ e + h[n] <= n

ExecutedInv == \A c \in Calls : Room(OpenFor(c), socket, executed[c])

OnceInv == FlagStays /\ WritesGiven /\ WrittenOnce /\ ExecutedInv

\* One less than i is below k exactly when i is, unless they are the same.
LEMMA JustBelow == \A n \in Nat : \A i, k \in 1..n : i # k => (i - 1 < k <=> i < k)
  OBVIOUS

(* There is as much room when no connection is opened, *)
LEMMA RoomKept ==
  ASSUME NEW n, NEW e, NEW S, Room(S, n, e), NEW T \in SUBSET S
  PROVE  Room(T, n, e)
BY Zenon DEF Room, Counts

(* for one more execution when one is closed, *)
LEMMA RoomUsed ==
  ASSUME NEW n \in Nat, NEW e \in Nat, NEW S, Room(S, n, e),
         NEW k \in 1..n, k \in S, NEW T \in SUBSET (S \ {k})
  PROVE  Room(T, n, e + 1)
<1>1. PICK h \in [0..n -> 0..n] : Counts(h, S, n) /\ e + h[n] <= n
  BY Zenon DEF Room
<1>2. /\ \A i \in 0..n : h[i] \in Nat /\ h[i] <= n
      /\ \A i, j \in 0..n : i <= j => h[i] <= h[j]
      /\ \A j \in 1..n : j \in S => h[j - 1] < h[j]
  <2>1. \A i \in 0..n : h[i] \in 0..n
    BY <1>1, Zenon
  <2> QED
    BY <1>1, <2>1 DEF Counts
<1>3. PICK g : g = [i \in 0..n |-> IF i < k THEN h[i] ELSE h[i] - 1]
  BY Zenon
<1>4. \A i \in 0..n : g[i] = IF i < k THEN h[i] ELSE h[i] - 1
  BY <1>3, Zenon
<1>5. /\ k - 1 \in 0..n /\ k \in 0..n /\ n \in 0..n /\ k <= n /\ h[k - 1] < h[k]
      /\ \A i \in 0..n : i < k => i <= k - 1
  BY <1>2
<1>6. \A i \in 0..n : ~(i < k) => h[k - 1] <= h[i] - 1
  <2> SUFFICES ASSUME NEW i \in 0..n, ~(i < k) PROVE h[k - 1] <= h[i] - 1
    BY Zenon
  <2>1. h[k] <= h[i]
    BY <1>2, <1>5
  <2>2. h[k - 1] \in Nat /\ h[k] \in Nat /\ h[i] \in Nat
    BY <1>2, <1>5, Zenon
  <2> QED
    BY <1>5, <2>1, <2>2
<1>7. \A i \in 0..n : i < k => h[i] <= h[k - 1]
  BY <1>2, <1>5, Zenon
<1>8. g \in [0..n -> 0..n]
  <2>1. ASSUME NEW i \in 0..n PROVE (IF i < k THEN h[i] ELSE h[i] - 1) \in 0..n
    <3>1. h[i] \in Nat /\ h[i] <= n /\ h[k - 1] \in Nat
      BY <1>2, <1>5, Zenon
    <3>2. CASE i < k
      BY <3>1, <3>2
    <3>3. CASE ~(i < k)
      <4>1. h[k - 1] <= h[i] - 1
        BY <1>6, <3>3, Zenon
      <4>2. PICK a \in Nat, b \in Nat : a = h[i] /\ b = h[k - 1]
        BY <3>1, Zenon
      <4>3. a <= n /\ b <= a - 1
        BY <3>1, <4>1, <4>2, Zenon
      <4>4. a - 1 \in 0..n
        BY <4>3
      <4> QED
        BY <3>3, <4>2, <4>4, Zenon
    <3> QED
      BY <3>2, <3>3, Zenon
  <2> QED
    BY <1>3, <2>1, Zenon
<1>9. Counts(g, T, n)
  <2>1. ASSUME NEW i \in 0..n, NEW j \in 0..n, i <= j PROVE g[i] <= g[j]
    <3>1. /\ h[i] \in Nat /\ h[j] \in Nat /\ h[k - 1] \in Nat /\ h[i] <= h[j]
          /\ g[i] = (IF i < k THEN h[i] ELSE h[i] - 1)
          /\ g[j] = (IF j < k THEN h[j] ELSE h[j] - 1)
      BY <1>2, <1>4, <1>5, <2>1, Zenon
    <3>2. CASE i < k /\ ~(j < k)
      <4>1. h[k - 1] <= h[j] - 1 /\ h[i] <= h[k - 1] /\ g[i] = h[i] /\ g[j] = h[j] - 1
        BY <1>6, <1>7, <3>1, <3>2, Zenon
      <4>2. PICK a \in Nat, b \in Nat, m \in Nat : a = h[i] /\ b = h[j] /\ m = h[k - 1]
        BY <3>1, Zenon
      <4>3. m <= b - 1 /\ a <= m
        BY <4>1, <4>2, Zenon
      <4>4. a <= b - 1
        BY <4>3
      <4> QED
        BY <4>1, <4>2, <4>4, Zenon
    <3>3. CASE i < k /\ j < k
      BY <3>1, <3>3, Zenon
    <3>4. CASE ~(i < k)
      <4>1. ~(j < k)
        BY <2>1, <3>4
      <4>2. g[i] = h[i] - 1 /\ g[j] = h[j] - 1
        BY <3>1, <3>4, <4>1, Zenon
      <4> QED
        BY <3>1, <4>2
    <3> QED
      BY <3>2, <3>3, <3>4, Zenon
  <2>2. ASSUME NEW j \in 1..n, j \in T PROVE g[j - 1] < g[j]
    <3>1. j \in S /\ j # k /\ j - 1 \in 0..n /\ j \in 0..n
      BY <2>2
    <3>2. /\ h[j - 1] \in Nat /\ h[j] \in Nat /\ h[j - 1] < h[j]
          /\ g[j - 1] = (IF j - 1 < k THEN h[j - 1] ELSE h[j - 1] - 1)
          /\ g[j] = (IF j < k THEN h[j] ELSE h[j] - 1)
      <4>1. h[j - 1] \in Nat /\ h[j] \in Nat
        BY <1>2, <3>1, Zenon
      <4>2. h[j - 1] < h[j]
        BY <1>2, <3>1, Zenon
      <4>3. PICK i : i = j - 1
        BY Zenon
      <4>4. g[i] = (IF i < k THEN h[i] ELSE h[i] - 1)
        BY <1>4, <3>1, <4>3, Zenon
      <4>5. g[j] = (IF j < k THEN h[j] ELSE h[j] - 1)
        BY <1>4, <3>1, Zenon
      <4> QED
        BY <4>1, <4>2, <4>3, <4>4, <4>5, Zenon
    <3>3. j - 1 < k <=> j < k
      BY <3>1, JustBelow, Zenon
    <3>4. CASE j < k
      BY <3>2, <3>3, <3>4, Zenon
    <3>5. CASE ~(j < k)
      <4>1. g[j - 1] = h[j - 1] - 1 /\ g[j] = h[j] - 1
        BY <3>2, <3>3, <3>5, Zenon
      <4> QED
        BY <3>2, <4>1
    <3> QED
      BY <3>4, <3>5, Zenon
  <2> QED
    BY <2>1, <2>2, Zenon DEF Counts
<1>10. e + 1 + g[n] <= n
  <2>1. g[n] = h[n] - 1 /\ h[n] \in Nat
    BY <1>2, <1>4, <1>5
  <2> QED
    BY <1>1, <2>1
<1> QED
  BY <1>8, <1>9, <1>10, Zenon DEF Room

(* and as much when one is made and opened. *)
LEMMA RoomMade ==
  ASSUME NEW n \in Nat, NEW e \in Nat, NEW S, Room(S, n, e),
         NEW T \in SUBSET (S \cup {n + 1})
  PROVE  Room(T, n + 1, e)
<1>1. PICK h \in [0..n -> 0..n] : Counts(h, S, n) /\ e + h[n] <= n
  BY Zenon DEF Room
<1>2. /\ \A i \in 0..n : h[i] \in Nat /\ h[i] <= n
      /\ \A i, j \in 0..n : i <= j => h[i] <= h[j]
      /\ \A j \in 1..n : j \in S => h[j - 1] < h[j]
      /\ n \in 0..n
  BY <1>1 DEF Counts
<1>3. PICK g : g = [i \in 0..(n + 1) |-> IF i = n + 1 THEN h[n] + 1 ELSE h[i]]
  BY Zenon
<1>4. /\ \A i \in 0..n : i \in 0..(n + 1) /\ i # n + 1
      /\ \A i \in 0..(n + 1) : i \in 0..n \/ i = n + 1
      /\ n + 1 \in 0..(n + 1)
  OBVIOUS
<1>5. g[n + 1] = h[n] + 1 /\ \A i \in 0..n : g[i] = h[i]
  BY <1>3, <1>4, Zenon
<1>6. h[n] \in Nat /\ h[n] <= n
  BY <1>2, Zenon
<1>7. g \in [0..(n + 1) -> 0..(n + 1)]
  <2>1. ASSUME NEW i \in 0..(n + 1)
        PROVE  (IF i = n + 1 THEN h[n] + 1 ELSE h[i]) \in 0..(n + 1)
    BY <1>2, <1>4, <1>6, SMTT(20)
  <2> QED
    BY <1>3, <2>1, Zenon
<1>8. Counts(g, T, n + 1)
  <2>1. ASSUME NEW i \in 0..(n + 1), NEW j \in 0..(n + 1), i <= j PROVE g[i] <= g[j]
    <3>1. CASE j \in 0..n
      <4>1. i \in 0..n
        BY <2>1, <3>1
      <4> QED
        BY <1>2, <1>5, <2>1, <3>1, <4>1, Zenon
    <3>2. CASE j = n + 1
      <4>1. CASE i \in 0..n
        <5>1. g[i] = h[i] /\ g[j] = h[n] + 1 /\ h[i] \in Nat
          BY <1>2, <1>5, <3>2, <4>1, Zenon
        <5>2. h[i] <= h[n]
          BY <1>2, <4>1
        <5> QED
          BY <1>6, <5>1, <5>2, SMTT(20)
      <4>2. CASE i = n + 1
        BY <1>5, <1>6, <3>2, <4>2
      <4> QED
        BY <1>4, <4>1, <4>2, Zenon
    <3> QED
      BY <1>4, <3>1, <3>2, Zenon
  <2>2. ASSUME NEW j \in 1..(n + 1), j \in T PROVE g[j - 1] < g[j]
    <3>1. CASE j = n + 1
      <4>1. g[j - 1] = h[n] /\ g[j] = h[n] + 1
        BY <1>2, <1>5, <3>1
      <4> QED
        BY <1>6, <4>1
    <3>2. CASE j # n + 1
      <4>1. j \in 1..n /\ j \in S /\ j - 1 \in 0..n /\ j \in 0..n
        BY <2>2, <3>2
      <4> QED
        BY <1>2, <1>5, <4>1, Zenon
    <3> QED
      BY <3>1, <3>2, Zenon
  <2> QED
    BY <2>1, <2>2, Zenon DEF Counts
<1>9. e + g[n + 1] <= n + 1
  BY <1>1, <1>5, <1>6
<1> QED
  BY <1>7, <1>8, <1>9, Zenon DEF Room

(* The present connection is given d in this step. *)
GivenNow(d) ==
  /\ d \in 0..(seq' - 1)
  /\ data'[d].conn = socket /\ data'[d].is_pending
  /\ d \in 0..(seq - 1) => ~data[d].is_pending

(* A step of the client on its present connection. *)
Local ==
  /\ UNCHANGED <<socket, executed, c2s>>
  /\ \/ seq' = seq
     \/ /\ seq' = seq + 1
        /\ \A d \in 0..(seq - 1) : data[d].call # data'[seq].call
        /\ data'[seq].conn = 0 \/ GivenNow(seq)
  /\ \A d \in 0..(seq - 1) : /\ data'[d].call = data[d].call
                             /\ data'[d] = data[d] \/ GivenNow(d)
  /\ \A o \in ops' :
       \/ o.op # "write" \/ o \in ops
       \/ \E d \in 0..(seq' - 1) : o = WriteOp(socket, d) /\ GivenNow(d)

(* The fields of a write in progress. *)
LEMMA WriteOpGiven ==
  ASSUME WritesGiven, NEW k, NEW d, WriteOp(k, d) \in ops
  PROVE  /\ d \in 0..(seq - 1) /\ k \in 1..socket
         /\ k = socket => data[d].conn = socket
BY Zenon DEF WritesGiven, WriteOp

(* A step on the present connection keeps the first three parts, *)
LEMMA LocalKeepsWrites ==
  ASSUME TypeOK, OnceInv, Local
  PROVE  FlagStays' /\ WritesGiven' /\ WrittenOnce'
<1>1. /\ socket' = socket /\ c2s' = c2s /\ seq \in Nat /\ socket \in Nat
      /\ socket >= 1 /\ seq' \in Nat
      /\ \A d \in 0..(seq - 1) : d \in 0..(seq' - 1)
      /\ \A d \in 0..(seq' - 1) : d \in 0..(seq - 1) \/ (d = seq /\ seq' = seq + 1)
  BY DEF TypeOK, Local, OnceInv, FlagStays
<1>2. ASSUME NEW d \in 0..(seq' - 1)
      PROVE  data'[d].conn <= socket /\ (data'[d].conn = socket => data'[d].is_pending)
  <2>1. CASE GivenNow(d)
    BY <1>1, <2>1 DEF GivenNow
  <2>2. CASE d \in 0..(seq - 1) /\ data'[d] = data[d]
    BY <2>2, Zenon DEF OnceInv, FlagStays
  <2>3. CASE d = seq /\ data'[seq].conn = 0
    BY <1>1, <2>3
  <2> QED
    BY <1>1, <2>1, <2>2, <2>3, Zenon DEF Local
<1>3. FlagStays'
  BY <1>1, <1>2, Zenon DEF FlagStays
<1>4. ASSUME NEW d \in 0..(seq - 1), data[d].conn = socket
      PROVE  data'[d].conn = socket /\ ~GivenNow(d)
  <2>1. data[d].is_pending
    BY <1>4, Zenon DEF OnceInv, FlagStays
  <2> QED
    BY <1>4, <2>1, Zenon DEF Local, GivenNow
<1>5. WritesGiven'
  <2> SUFFICES ASSUME NEW o \in ops', o.op = "write"
               PROVE  /\ o.data \in 0..(seq' - 1) /\ o.conn \in 1..socket
                      /\ o.conn = socket => data'[o.data].conn = socket
    BY <1>1, Zenon DEF WritesGiven
  <2>1. CASE o \in ops
    <3>1. /\ o.data \in 0..(seq - 1) /\ o.conn \in 1..socket
          /\ o.conn = socket => data[o.data].conn = socket
      BY <2>1, Zenon DEF OnceInv, WritesGiven
    <3> QED
      BY <1>1, <1>4, <3>1, Zenon
  <2>2. ASSUME NEW d \in 0..(seq' - 1), o = WriteOp(socket, d), GivenNow(d)
        PROVE  /\ o.data \in 0..(seq' - 1) /\ o.conn \in 1..socket
               /\ o.conn = socket => data'[o.data].conn = socket
    <3>1. o.data = d /\ o.conn = socket
      BY <2>2, Zenon DEF WriteOp
    <3>2. socket \in 1..socket
      BY <1>1
    <3>3. data'[d].conn = socket
      BY <2>2, Zenon DEF GivenNow
    <3> QED
      BY <3>1, <3>2, <3>3, Zenon
  <2> QED
    BY <2>1, <2>2, Zenon DEF Local
<1>6. ASSUME NEW k, NEW d \in 0..(seq - 1), WriteOp(k, d) \notin ops,
             k = socket => data[d].conn = socket
      PROVE  WriteOp(k, d) \notin ops'
  <2> SUFFICES ASSUME WriteOp(k, d) \in ops' PROVE FALSE
    BY Zenon
  <2>1. WriteOp(k, d).op = "write"
    BY Zenon DEF WriteOp
  <2>2. PICK e \in 0..(seq' - 1) : WriteOp(k, d) = WriteOp(socket, e) /\ GivenNow(e)
    BY <1>6, <2>1, Zenon DEF Local
  <2>3. k = socket /\ d = e
    BY <2>2, Zenon DEF WriteOp
  <2> QED
    BY <1>4, <1>6, <2>2, <2>3, Zenon
<1>7. WrittenOnce'
  <2> SUFFICES ASSUME NEW k \in Conns, NEW i \in DOMAIN c2s[k]
               PROVE  Written(k, i)'
    BY <1>1, Zenon DEF WrittenOnce, Conns
  <2> DEFINE d == c2s[k][i].seq
  <2>1. /\ d \in 0..(seq - 1) /\ k <= socket
        /\ c2s[k][i].call = data[d].call
        /\ k = socket => data[d].conn = socket
        /\ WriteOp(k, d) \notin ops
        /\ \A j \in DOMAIN c2s[k] : c2s[k][j].seq = d => j = i
    BY Zenon DEF OnceInv, WrittenOnce, Written
  <2>2. d \in 0..(seq' - 1) /\ data'[d].call = data[d].call
    BY <1>1, <2>1, Zenon DEF Local
  <2>3. WriteOp(k, d) \notin ops' /\ (k = socket => data'[d].conn = socket)
    BY <1>4, <1>6, <2>1, Zenon
  <2> QED
    BY <1>1, <2>1, <2>2, <2>3, Zenon DEF Written
<1> QED
  BY <1>3, <1>5, <1>7, Zenon

(* and opens no connection for a call. *)
LEMMA LocalKeepsOpen ==
  ASSUME TypeOK, CallInOnePlace, OnceInv, Local, NEW c
  PROVE  OpenFor(c)' \subseteq OpenFor(c)
<1>1. /\ socket' = socket /\ c2s' = c2s
      /\ \A d \in 0..(seq - 1) : d \in 0..(seq' - 1)
      /\ \A d \in 0..(seq' - 1) : d \in 0..(seq - 1) \/ (d = seq /\ seq' = seq + 1)
  BY DEF TypeOK, Local
<1> SUFFICES ASSUME NEW k \in 1..socket, k \in OpenFor(c)'
             PROVE  k \in OpenFor(c)
  BY <1>1, Zenon DEF OpenFor
<1>2. ASSUME NEW d \in 0..(seq - 1), data[d].conn = socket
      PROVE  data'[d].conn = socket /\ ~GivenNow(d)
  <2>1. data[d].is_pending
    BY <1>2, Zenon DEF OnceInv, FlagStays
  <2> QED
    BY <1>2, <2>1, Zenon DEF Local, GivenNow
<1>3. CASE Unsent(c, k)'
  <2>1. Unsent(c, k)
    BY <1>1, <1>2, <1>3, Zenon DEF Unsent, Local
  <2> QED
    BY <2>1, Zenon DEF OpenFor
<1>4. ASSUME NEW d \in 0..(seq' - 1), data'[d].call = c, OnWay(k, d)'
      PROVE  k \in OpenFor(c)
  <2>1. CASE Carries(k, d)'
    <3>1. PICK i \in DOMAIN c2s[k] : k \in Conns /\ c2s[k][i].seq = d
      BY <1>1, <2>1, Zenon DEF Carries, Conns
    <3>2. d \in 0..(seq - 1)
      BY <3>1, Zenon DEF OnceInv, WrittenOnce, Written
    <3>3. data[d].call = c /\ Carries(k, d)
      BY <1>4, <3>1, <3>2, Zenon DEF Local, Carries
    <3> QED
      BY <3>2, <3>3, Zenon DEF OpenFor, OnWay
  <2>2. CASE WriteOp(k, d) \in ops
    <3>1. d \in 0..(seq - 1)
      BY <2>2, WriteOpGiven, Zenon DEF OnceInv
    <3>2. data[d].call = c
      BY <1>4, <3>1, Zenon DEF Local
    <3> QED
      BY <2>2, <3>1, <3>2, Zenon DEF OpenFor, OnWay
  <2>3. CASE WriteOp(k, d) \in ops' /\ WriteOp(k, d) \notin ops
    <3>1. WriteOp(k, d).op = "write"
      BY Zenon DEF WriteOp
    <3>2. PICK e \in 0..(seq' - 1) : WriteOp(k, d) = WriteOp(socket, e) /\ GivenNow(e)
      BY <2>3, <3>1, Zenon DEF Local
    <3>3. k = socket /\ GivenNow(d)
      BY <3>2, Zenon DEF WriteOp
    <3>4. ASSUME NEW x \in 0..(seq - 1), data[x].call = c
          PROVE  data[x].conn # socket
      <4>1. CASE d \in 0..(seq - 1)
        <5>1. d = x
          BY <1>4, <3>4, <4>1 DEF CallInOnePlace, Local
        <5> QED
          BY <1>2, <3>3, <3>4, <5>1, Zenon
      <4>2. CASE d = seq /\ seq' = seq + 1 /\ d \notin 0..(seq - 1)
        <5>1. seq' # seq
          BY <4>2, Zenon DEF TypeOK
        <5> QED
          BY <1>4, <3>4, <4>2, <5>1, Zenon DEF Local
      <4> QED
        BY <1>1, <4>1, <4>2, Zenon
    <3>5. Unsent(c, k)
      BY <3>3, <3>4, Zenon DEF Unsent
    <3> QED
      BY <3>5, Zenon DEF OpenFor
  <2> QED
    BY <1>4, <2>1, <2>2, <2>3, Zenon DEF OnWay
<1> QED
  BY <1>3, <1>4, Zenon DEF OpenFor

(* A step that opens no connection and executes nothing keeps the count. *)
LEMMA CountKept ==
  ASSUME TypeOK, ExecutedInv, UNCHANGED <<socket, executed>>,
         \A c : OpenFor(c)' \subseteq OpenFor(c)
  PROVE  ExecutedInv'
<1> SUFFICES ASSUME NEW c \in Calls PROVE Room(OpenFor(c)', socket, executed[c])
  BY Zenon DEF ExecutedInv
<1>1. Room(OpenFor(c), socket, executed[c]) /\ OpenFor(c)' \in SUBSET OpenFor(c)
  BY Zenon DEF ExecutedInv
<1> QED
  BY <1>1, RoomKept, Zenon

(* So a step on the present connection keeps OnceInv. *)
LEMMA LocalKeeps ==
  ASSUME TypeOK, CallInOnePlace, OnceInv, Local
  PROVE  OnceInv'
<1>1. \A c : OpenFor(c)' \subseteq OpenFor(c)
  BY LocalKeepsOpen, Zenon
<1>2. ExecutedInv /\ UNCHANGED <<socket, executed>>
  BY Zenon DEF OnceInv, Local
<1>3. ExecutedInv'
  BY <1>1, <1>2, CountKept, Zenon
<1> QED
  BY <1>3, LocalKeepsWrites, Zenon DEF OnceInv

(* The steps on the present connection that write nothing. *)
LEMMA LocalSteps ==
  ASSUME NEW k,
         \/ CallMethod(k) \/ Destroy \/ RunRead \/ RunTerminate
         \/ ReadHead \/ ReadSplitHead \/ ReadPiece \/ TouchFreed
         \/ CompleteRead(k) \/ ConnectSucceeds \/ ConnectFails \/ Break(k)
  PROVE  Local
<1> DEFINE same == UNCHANGED <<socket, executed, c2s, seq, data>>
           fewer == \A o \in ops' : o.op # "write" \/ o \in ops
<1>1. same /\ fewer => Local
  BY Zenon DEF Local
<1>2. CASE CallMethod(k) \/ Destroy \/ RunTerminate \/ TouchFreed
  BY <1>1, <1>2, Zenon DEF CallMethod, Destroy, RunTerminate, TouchFreed
<1>3. CASE RunRead
  <2>1. same /\ (ops' = ops \/ ops' = ops \cup {ConnectOp})
    BY <1>3, Zenon DEF RunRead, ReconnectOrFail
  <2>2. ConnectOp.op # "write"
    BY ZenonT(40) DEF ConnectOp
  <2> QED
    BY <1>1, <2>1, <2>2, Zenon
<1>4. CASE ReadHead \/ ReadSplitHead \/ ReadPiece
  BY <1>1, <1>4 DEF ReadHead, ReadSplitHead, ReadPiece, Started, ReadOp
<1>5. CASE CompleteRead(k) \/ ConnectSucceeds \/ ConnectFails
  BY <1>1, <1>5, Zenon DEF CompleteRead, ConnectSucceeds, ConnectFails
<1>6. CASE Break(k)
  <2>1. UNCHANGED <<sessionVars, channelVars, asioVars, c2s, executed>>
    BY <1>6, Zenon DEF Break
  <2> QED
    BY <1>1, <2>1, Zenon
<1> QED
  BY <1>2, <1>3, <1>4, <1>5, <1>6, Zenon

(* SendInLoop makes the first RPCData of a call; it may give it away. *)
LEMMA SendInLoopLocal ==
  ASSUME TypeOK, NEW c \in Calls, NEW others, NEW started,
         SendInLoop(c, others, started),
         \A o \in started : o.op # "write" \/ o \in ops,
         \A d \in 0..(seq - 1) : data[d].call # c,
         UNCHANGED <<socket, executed, c2s>>
  PROVE  Local
<1> DEFINE heap == NewRPCData(c)
           queue == Append(pending, seq)
<1>1. /\ seq' = seq + 1
      /\ \A d \in 0..seq : data'[d] = heap[d] \/ HandsOver(d, socket, queue, heap)
      /\ \A o \in ops' :
           \/ o \in started
           \/ \E d \in 0..seq :
                o = WriteOp(socket, d) /\ HandsOver(d, socket, queue, heap)
  BY SendInLoopHands, Zenon
<1>2. /\ \A d \in 0..(seq - 1) : heap[d] = data[d]
      /\ heap[seq].call = c /\ heap[seq].conn = 0
  BY NewRPCDataIs, Zenon
<1> HIDE DEF heap, queue
<1>3. seq \in Nat /\ seq' - 1 = seq /\ \A d \in 0..(seq - 1) : d \in 0..seq
  <2>1. seq \in Nat /\ seq' = seq + 1
    BY <1>1, Zenon DEF TypeOK
  <2>2. \A n \in Nat : n + 1 - 1 = n /\ \A d \in 0..(n - 1) : d \in 0..n
    OBVIOUS
  <2> QED
    BY <2>1, <2>2
<1>4. ASSUME NEW d \in 0..seq, HandsOver(d, socket, queue, heap)
      PROVE  GivenNow(d) /\ data'[d].call = heap[d].call
  BY <1>2, <1>3, <1>4, Zenon DEF GivenNow, HandsOver
<1>5. data'[seq].call = c /\ (data'[seq].conn = 0 \/ GivenNow(seq))
  <2>1. seq \in 0..seq
    BY <1>3
  <2>2. data'[seq] = heap[seq] \/ HandsOver(seq, socket, queue, heap)
    BY <1>1, <2>1, ZenonT(30)
  <2> QED
    BY <1>2, <1>4, <2>1, <2>2, Zenon
<1>6. \A d \in 0..(seq - 1) : /\ data'[d].call = data[d].call
                              /\ data'[d] = data[d] \/ GivenNow(d)
  BY <1>1, <1>2, <1>3, <1>4, Zenon
<1>7. \A o \in ops' :
        \/ o.op # "write" \/ o \in ops
        \/ \E d \in 0..(seq' - 1) : o = WriteOp(socket, d) /\ GivenNow(d)
  BY <1>1, <1>3, <1>4, Zenon
<1> QED
  BY <1>1, <1>5, <1>6, <1>7, Zenon DEF Local

(* A posted SendInLoop, *)
LEMMA RunSendLocal ==
  ASSUME TypeOK, CallInOnePlace, RunSend
  PROVE  Local
<1>1. /\ UNCHANGED <<socket, executed, c2s>>
      /\ ready # <<>> /\ Head(ready).h = "send" /\ ready \in Seq(Handlers)
  BY Zenon DEF RunSend, Runs, TypeOK
<1>2. CASE UNCHANGED <<sessionVars, pending, ops>>
  BY <1>1, <1>2, Zenon DEF Local
<1>3. CASE SendInLoop(Head(ready).call, sessions, ops)
  <2>1. Head(ready) \in Handlers
    BY <1>1
  <2>2. Head(ready).call \in Calls
    BY <1>1, <2>1, HandlerFields, Zenon
  <2>3. 1 \in DOMAIN ready /\ ready[1] = Head(ready)
    BY <1>1, SMTT(20)
  <2>4. \A d \in 0..(seq - 1) : data[d].call # Head(ready).call
    BY <1>1, <2>3, SMTT(30) DEF CallInOnePlace
  <2>5. \A o \in ops : o.op # "write" \/ o \in ops
    BY Zenon
  <2> QED
    BY <1>1, <1>3, <2>2, <2>4, <2>5, SendInLoopLocal, Zenon
<1> QED
  BY <1>2, <1>3, Zenon DEF RunSend

(* a turn of ReadInLoop that delivers, *)
LEMMA ReadLocal ==
  ASSUME TypeOK, CallInOnePlace, ReadBody \/ ReadMisfit
  PROVE  Local
<1>1. UNCHANGED <<socket, executed, c2s>>
  BY Zenon DEF ReadBody, ReadMisfit
<1>2. ASSUME NEW rest
      PROVE  \A o \in Started(rest) : o.op # "write" \/ o \in ops
  BY SMTT(30) DEF Started, ReadOp
<1>3. ASSUME NEW rest, ops' = Started(rest) \/ ops' = ops, UNCHANGED <<seq, data>>
      PROVE  Local
  BY <1>1, <1>2, <1>3, Zenon DEF Local
<1>4. ASSUME NEW s, NEW content, NEW rest,
             ReceivePackage(s, content, Started(rest))
      PROVE  Local
  <2>1. ASSUME NEW c \in Calls \ called,
               SendInLoop(c, ReleaseSession(s), Started(rest))
        PROVE  Local
    <3>1. \A d \in 0..(seq - 1) : data[d].call # c
      BY DEF CallInOnePlace
    <3> QED
      BY <1>1, <1>2, <2>1, <3>1, SendInLoopLocal, Zenon
  <2>2. CASE ops' = Started(rest) /\ UNCHANGED <<seq, data>>
    BY <1>3, <2>2, Zenon
  <2> QED
    BY <1>4, <2>1, <2>2, Zenon DEF ReceivePackage
<1>5. CASE ReadBody
  BY <1>4, <1>5, Zenon DEF ReadBody
<1>6. CASE ReadMisfit
  BY <1>3, <1>4, <1>6, Zenon DEF ReadMisfit
<1> QED
  BY <1>5, <1>6, Zenon

(* and Written, which gives away the next RPCData. *)
LEMMA RunWrittenLocal ==
  ASSUME TypeOK, RunWritten
  PROVE  Local
<1>1. UNCHANGED <<socket, executed, c2s, seq>>
  BY Zenon DEF RunWritten
<1>2. CASE UNCHANGED <<data, ops>>
  BY <1>1, <1>2, Zenon DEF Local
<1>3. CASE pending # <<>> /\ WriteInLoop(socket, Tail(pending), data, ops)
  <2>1. /\ Tail(pending) \in Seq(0..(seq - 1)) /\ seq - 1 \in Int
        /\ socket \in Nat /\ data \in [0..(seq - 1) -> RPCDatas]
    BY <1>3 DEF TypeOK
  <2>2. /\ \A d \in 0..(seq - 1) :
             data'[d] = data[d] \/ HandsOver(d, socket, Tail(pending), data)
        /\ \A o \in ops' :
             \/ o \in ops
             \/ \E d \in 0..(seq - 1) :
                  o = WriteOp(socket, d) /\ HandsOver(d, socket, Tail(pending), data)
    BY <1>3, <2>1, WriteInLoopHands, ZenonT(30)
  <2>3. ASSUME NEW d \in 0..(seq - 1), HandsOver(d, socket, Tail(pending), data)
        PROVE  GivenNow(d) /\ data'[d].call = data[d].call
    BY <1>1, <2>3, Zenon DEF GivenNow, HandsOver
  <2> QED
    BY <1>1, <2>2, <2>3, Zenon DEF Local
<1> QED
  BY <1>2, <1>3, Zenon DEF RunWritten

(* The completion of a write: what was being written is written, or lost. *)
LEMMA CompleteWriteKeeps ==
  ASSUME TypeOK, OnceInv, NEW k \in Conns, NEW d, CompleteWrite(k, d)
  PROVE  OnceInv'
<1>1. /\ UNCHANGED <<socket, executed, seq, data>>
      /\ WriteOp(k, d) \in ops /\ ops' = ops \ {WriteOp(k, d)}
  BY Zenon DEF CompleteWrite
<1>2. /\ d \in 0..(seq - 1) /\ k \in 1..socket
      /\ k = socket => data[d].conn = socket
  BY <1>1, WriteOpGiven, Zenon DEF OnceInv
<1>3. FlagStays' /\ WritesGiven'
  BY <1>1, Zenon DEF OnceInv, FlagStays, WritesGiven
<1>4. \/ c2s' = c2s
      \/ \E r : /\ r.seq = d /\ r.call = data[d].call
                /\ c2s' = [c2s EXCEPT ![k] = Append(@, r)]
  BY Zenon DEF CompleteWrite
<1>5. CASE c2s' = c2s
  <2>1. WrittenOnce'
    BY <1>1, <1>5, SMTT(30) DEF OnceInv, WrittenOnce, Written, Conns
  <2>2. \A c : OpenFor(c)' \subseteq OpenFor(c)
    BY <1>1, <1>5, Zenon DEF OpenFor, Unsent, OnWay, Carries, Conns
  <2>3. ExecutedInv'
    BY <1>1, <2>2, CountKept, Zenon DEF OnceInv
  <2> QED
    BY <1>3, <2>1, <2>3, Zenon DEF OnceInv
<1>6. ASSUME NEW r, r.seq = d, r.call = data[d].call,
             c2s' = [c2s EXCEPT ![k] = Append(@, r)]
      PROVE  OnceInv'
  <2>0. PICK n : n = Len(c2s[k]) + 1
    BY Zenon
  <2>1. c2s \in [Conns -> Seq(Requests)] /\ c2s[k] \in Seq(Requests)
    BY Zenon DEF TypeOK
  <2>2. /\ DOMAIN c2s'[k] = (DOMAIN c2s[k]) \cup {n}
        /\ \A i \in DOMAIN c2s[k] : c2s'[k][i] = c2s[k][i]
        /\ c2s'[k][n] = r
        /\ \A j \in Conns : j # k => c2s'[j] = c2s[j]
    <3>1. c2s'[k] = Append(c2s[k], r) /\ \A j \in Conns : j # k => c2s'[j] = c2s[j]
      BY <1>6, <2>1, Zenon
    <3> QED
      BY <2>0, <2>1, <3>1, AppendPositions
  <2>3. \A i \in DOMAIN c2s[k] : c2s[k][i].seq # d
    BY <1>1, Zenon DEF OnceInv, WrittenOnce, Written
  <2>4. ASSUME NEW j \in Conns, NEW i \in DOMAIN c2s[j], j # k \/ c2s[j][i].seq # d
        PROVE  Written(j, i)'
    <3>1. Written(j, i)
      BY Zenon DEF OnceInv, WrittenOnce
    <3>2. /\ i \in DOMAIN c2s'[j] /\ c2s'[j][i] = c2s[j][i]
          /\ \A h \in DOMAIN c2s'[j] :
               h \in DOMAIN c2s[j] \/ (j = k /\ h = n /\ c2s'[j][h].seq = d)
          /\ \A h \in DOMAIN c2s[j] : c2s'[j][h] = c2s[j][h]
      BY <1>6, <2>2, Zenon
    <3> QED
      BY <1>1, <2>3, <2>4, <3>1, <3>2, Zenon DEF Written
  <2>5. Written(k, n)'
    <3>1. WriteOp(k, d) \notin ops'
      BY <1>1, Zenon
    <3>2. \A j \in DOMAIN c2s'[k] : c2s'[k][j].seq = d => j = n
      BY <2>2, <2>3, Zenon
    <3>3. k <= socket /\ c2s'[k][n].seq = d /\ c2s'[k][n].call = data[d].call
      BY <1>2, <1>6, <2>2, SMTT(30)
    <3> QED
      BY <1>1, <1>2, <3>1, <3>2, <3>3, Zenon DEF Written
  <2>6. WrittenOnce'
    BY <2>2, <2>3, <2>4, <2>5, Zenon DEF WrittenOnce, Conns
  <2>7. ASSUME NEW j, NEW e, OnWay(j, e)'
        PROVE  OnWay(j, e)
    BY <1>1, <1>6, <2>2, <2>7, ZenonT(40) DEF OnWay, Carries, Conns
  <2>8. \A c : OpenFor(c)' \subseteq OpenFor(c)
    BY <1>1, <2>7, Zenon DEF OpenFor, Unsent
  <2>9. ExecutedInv'
    BY <1>1, <2>8, CountKept, Zenon DEF OnceInv
  <2> QED
    BY <1>3, <2>6, <2>9, Zenon DEF OnceInv
<1> QED
  BY <1>4, <1>5, <1>6, Zenon

(* The server takes the next request of connection k. *)
Takes(k) ==
  /\ c2s[k] # <<>>
  /\ c2s' = [c2s EXCEPT ![k] = Tail(@)]
  /\ UNCHANGED <<socket, seq, data, ops>>

(* What is left was written once still, and no connection was opened; *)
LEMMA TakesKeeps ==
  ASSUME TypeOK, OnceInv, NEW k \in Conns, Takes(k)
  PROVE  /\ FlagStays' /\ WritesGiven' /\ WrittenOnce'
         /\ \A c : OpenFor(c)' \subseteq OpenFor(c)
         /\ \A i \in DOMAIN c2s'[k] : c2s'[k][i].seq # Head(c2s[k]).seq
<1>1. FlagStays' /\ WritesGiven'
  BY Zenon DEF Takes, OnceInv, FlagStays, WritesGiven
<1>2. c2s \in [Conns -> Seq(Requests)] /\ c2s[k] \in Seq(Requests)
  BY Zenon DEF TypeOK
<1>3. c2s'[k] = Tail(c2s[k]) /\ \A j \in Conns : j # k => c2s'[j] = c2s[j]
  BY <1>2, Zenon DEF Takes
<1>4. /\ \A i \in DOMAIN c2s'[k] : /\ i + 1 \in DOMAIN c2s[k] /\ i \in Int
                                   /\ c2s'[k][i] = c2s[k][i + 1] /\ i + 1 # 1
      /\ 1 \in DOMAIN c2s[k] /\ c2s[k][1] = Head(c2s[k])
  <2>1. c2s[k] # <<>>
    BY Zenon DEF Takes
  <2>2. /\ DOMAIN Tail(c2s[k]) = 1..(Len(c2s[k]) - 1)
        /\ \A i \in DOMAIN Tail(c2s[k]) :
             i + 1 \in DOMAIN c2s[k] /\ Tail(c2s[k])[i] = c2s[k][i + 1]
        /\ \A i \in DOMAIN Tail(c2s[k]) : i + 1 # 1
        /\ 1 \in DOMAIN c2s[k] /\ c2s[k][1] = Head(c2s[k])
    BY <1>2, <2>1, TailPositions, Zenon
  <2> QED
    BY <1>3, <2>2
<1>5. ASSUME NEW j \in Conns, NEW i \in DOMAIN c2s'[j]
      PROVE  Written(j, i)'
  <2>1. CASE j # k
    <3>1. Written(j, i) /\ c2s'[j] = c2s[j]
      BY <1>3, <1>5, <2>1, Zenon DEF OnceInv, WrittenOnce
    <3>2. UNCHANGED <<socket, seq, data, ops>>
      BY Zenon DEF Takes
    <3> QED
      BY <3>1, <3>2, Zenon DEF Written
  <2>2. CASE j = k
    <3>1. Written(k, i + 1) /\ c2s'[k][i] = c2s[k][i + 1]
      BY <1>4, <1>5, <2>2, Zenon DEF OnceInv, WrittenOnce
    <3>2. \A h \in DOMAIN c2s'[k] : c2s'[k][h].seq = c2s'[k][i].seq => h = i
      BY <1>4, <1>5, <2>2, <3>1 DEF Written
    <3>3. UNCHANGED <<socket, seq, data, ops>>
      BY Zenon DEF Takes
    <3> QED
      BY <2>2, <3>1, <3>2, <3>3, Zenon DEF Written
  <2> QED
    BY <2>1, <2>2, Zenon
<1>6. WrittenOnce'
  BY <1>5, Zenon DEF WrittenOnce, Conns
<1>7. ASSUME NEW j, NEW e, OnWay(j, e)'
      PROVE  OnWay(j, e)
  BY <1>3, <1>4, <1>7 DEF OnWay, Carries, Conns, Takes
<1>8. \A c : OpenFor(c)' \subseteq OpenFor(c)
  BY <1>7, Zenon DEF OpenFor, Unsent, Takes
<1>9. \A i \in DOMAIN c2s'[k] : c2s'[k][i].seq # Head(c2s[k]).seq
  <2>1. Written(k, 1)
    BY <1>4, Zenon DEF OnceInv, WrittenOnce
  <2> QED
    BY <1>4, <2>1, Zenon DEF Written
<1> QED
  BY <1>1, <1>6, <1>8, <1>9, Zenon

(* and if it executes the request, the connection is closed for the call. *)
LEMMA ServeKeeps ==
  ASSUME TypeOK, CallInOnePlace, OnceInv, NEW k \in Conns, Serve(k)
  PROVE  OnceInv'
<1>0. PICK d, x : d = Head(c2s[k]).seq /\ x = Head(c2s[k]).call
  BY Zenon
<1>1. Takes(k) /\ UNCHANGED <<socket, seq, data, ops>>
  BY Zenon DEF Serve, Takes
<1>2. executed' = [executed EXCEPT ![x] = @ + 1]
  BY <1>0, Zenon DEF Serve
<1>3. /\ FlagStays' /\ WritesGiven' /\ WrittenOnce'
      /\ \A c : OpenFor(c)' \subseteq OpenFor(c)
      /\ \A i \in DOMAIN c2s'[k] : c2s'[k][i].seq # d
  BY <1>0, <1>1, TakesKeeps, Zenon
<1>4. 1 \in DOMAIN c2s[k] /\ c2s[k][1].seq = d /\ c2s[k][1].call = x
  <2>1. c2s[k] \in Seq(Requests) /\ c2s[k] # <<>>
    BY <1>1, Zenon DEF TypeOK, Takes
  <2> QED
    BY <1>0, <2>1
<1>5. /\ d \in 0..(seq - 1) /\ k <= socket /\ data[d].call = x
      /\ k = socket => data[d].conn = socket
      /\ WriteOp(k, d) \notin ops
  BY <1>4, Zenon DEF OnceInv, WrittenOnce, Written
<1>6. k \in OpenFor(x)
  <2>1. k \in 1..socket
    BY <1>5 DEF Conns, TypeOK
  <2>2. OnWay(k, d)
    BY <1>4, Zenon DEF OnWay, Carries
  <2> QED
    BY <1>5, <2>1, <2>2, Zenon DEF OpenFor
<1>7. k \notin OpenFor(x)'
  <2>1. ~Unsent(x, k)'
    BY <1>1, <1>5, Zenon DEF Unsent
  <2>2. ASSUME NEW e \in 0..(seq - 1), data[e].call = x
        PROVE  ~OnWay(k, e)'
    <3>1. e = d
      BY <1>5, <2>2, ZenonT(40) DEF CallInOnePlace
    <3> QED
      BY <1>1, <1>3, <1>5, <3>1, Zenon DEF OnWay, Carries
  <2> QED
    BY <1>1, <2>1, <2>2, Zenon DEF OpenFor
<1>8. ASSUME NEW c \in Calls PROVE Room(OpenFor(c)', socket, executed'[c])
  <2>1. Room(OpenFor(c), socket, executed[c])
    BY Zenon DEF OnceInv, ExecutedInv
  <2>2. executed \in [Calls -> Nat] /\ socket \in Nat
    BY Zenon DEF TypeOK
  <2>3. OpenFor(c) \in SUBSET (1..socket) /\ OpenFor(c)' \in SUBSET OpenFor(c)
    BY <1>3, Zenon DEF OpenFor
  <2>4. CASE c = x
    <3>1. OpenFor(c)' \in SUBSET (OpenFor(c) \ {k}) /\ k \in OpenFor(c) /\ k \in 1..socket
      BY <1>6, <1>7, <2>3, <2>4, Zenon
    <3>2. executed'[c] = executed[c] + 1 /\ executed[c] \in Nat
      BY <1>2, <2>2, <2>4, Zenon
    <3> QED
      <4>1. PICK e \in Nat : e = executed[c]
        BY <3>2, Zenon
      <4>2. Room(OpenFor(c)', socket, e + 1)
        BY <2>1, <2>2, <3>1, <4>1, RoomUsed, Zenon
      <4> QED
        BY <3>2, <4>1, <4>2, Zenon
  <2>5. CASE c # x
    <3>1. executed'[c] = executed[c]
      BY <1>2, <2>2, <2>5, Zenon
    <3> QED
      BY <2>1, <2>3, <3>1, RoomKept, Zenon
  <2> QED
    BY <2>4, <2>5, Zenon
<1> QED
  BY <1>1, <1>3, <1>8, Zenon DEF OnceInv, ExecutedInv

(* Mixed bytes are taken, too, and nothing is executed. *)
LEMMA ServeMixedKeeps ==
  ASSUME TypeOK, OnceInv, NEW k \in Conns, ServeMixed(k)
  PROVE  OnceInv'
<1>1. Takes(k) /\ UNCHANGED <<socket, executed>>
  BY Zenon DEF ServeMixed, Takes
<1>2. /\ FlagStays' /\ WritesGiven' /\ WrittenOnce'
      /\ \A c : OpenFor(c)' \subseteq OpenFor(c)
  BY <1>1, TakesKeeps, Zenon
<1>3. ExecutedInv'
  BY <1>1, <1>2, CountKept, Zenon DEF OnceInv
<1> QED
  BY <1>2, <1>3, Zenon DEF OnceInv

(* A new connection as Connected leaves it: nothing was written to it, and  *)
(* it was given what was not flagged any more.                              *)
Renewed ==
  /\ socket' = socket + 1 /\ UNCHANGED <<seq, c2s, executed>>
  /\ \A d \in 0..(seq - 1) :
       /\ data'[d].call = data[d].call
       /\ \/ data'[d].conn = data[d].conn
          \/ data'[d].conn = socket + 1 /\ data'[d].is_pending
  /\ \A o \in ops' :
       \/ o.op # "write" \/ o \in ops
       \/ \E d \in 0..(seq - 1) : o = WriteOp(socket + 1, d) /\ data'[d].conn = socket + 1

LEMMA RunConnectedIs ==
  ASSUME TypeOK, RunConnected
  PROVE  Local \/ Renewed
<1>1. UNCHANGED <<seq, c2s, executed>>
  BY Zenon DEF RunConnected
<1>2. CASE UNCHANGED <<data, socket>> /\ (ops' = ops \/ ops' = ops \cup {ConnectOp})
  BY <1>1, <1>2, SMTT(30) DEF Local, ConnectOp
<1>3. CASE RebuildSocket /\ SendPendingSessions(ops \cup {ReadOp(socket + 1)})
  <2>1. /\ \A d \in 0..(seq - 1) :
             \/ data'[d] = Unflagged[d]
             \/ HandsOver(d, socket + 1, pending', Unflagged)
        /\ \A o \in ops' :
             \/ o \in ops \cup {ReadOp(socket + 1)}
             \/ \E d \in 0..(seq - 1) :
                  /\ o = WriteOp(socket + 1, d)
                  /\ HandsOver(d, socket + 1, pending', Unflagged)
    BY <1>3, SendPendingSessionsHands, Zenon
  <2>2. \A d \in 0..(seq - 1) :
          Unflagged[d].call = data[d].call /\ Unflagged[d].conn = data[d].conn
    BY UnflaggedIs, Zenon
  <2>3. socket' = socket + 1 /\ ReadOp(socket + 1).op # "write"
    BY <1>3, Zenon DEF RebuildSocket, ReadOp
  <2>4. ASSUME NEW d \in 0..(seq - 1)
        PROVE  /\ data'[d].call = data[d].call
               /\ \/ data'[d].conn = data[d].conn
                  \/ data'[d].conn = socket + 1 /\ data'[d].is_pending
    BY <2>1, <2>2, Zenon DEF HandsOver
  <2>5. ASSUME NEW o \in ops'
        PROVE  \/ o.op # "write" \/ o \in ops
               \/ \E d \in 0..(seq - 1) :
                    o = WriteOp(socket + 1, d) /\ data'[d].conn = socket + 1
    BY <2>1, <2>3, Zenon DEF HandsOver
  <2> QED
    BY <1>1, <2>3, <2>4, <2>5, Zenon DEF Renewed
<1> QED
  BY <1>2, <1>3, Zenon DEF RunConnected

(* Connected opens one connection at most for a call. *)
LEMMA RenewedKeeps ==
  ASSUME TypeOK, OnceInv, Renewed
  PROVE  OnceInv'
<1>1. /\ socket \in Nat /\ socket + 1 \in Nat /\ socket >= 1 /\ socket' = socket + 1
      /\ UNCHANGED <<seq, c2s, executed>>
      /\ \A d \in 0..(seq - 1) : data[d].conn \in Nat /\ data[d].conn <= socket
  BY SMTT(30) DEF TypeOK, RPCDatas, OnceInv, FlagStays, Renewed
<1>2. FlagStays'
  BY <1>1, SMTT(30) DEF Renewed, FlagStays
<1>3. WritesGiven'
  <2> SUFFICES ASSUME NEW o \in ops', o.op = "write"
               PROVE  /\ o.data \in 0..(seq - 1) /\ o.conn \in 1..(socket + 1)
                      /\ o.conn = socket + 1 => data'[o.data].conn = socket + 1
    BY <1>1, Zenon DEF WritesGiven
  <2>1. CASE o \in ops
    <3>1. o.data \in 0..(seq - 1) /\ o.conn \in 1..socket
      BY <2>1, Zenon DEF OnceInv, WritesGiven
    <3> QED
      BY <1>1, <3>1
  <2>2. ASSUME NEW d \in 0..(seq - 1), o = WriteOp(socket + 1, d),
               data'[d].conn = socket + 1
        PROVE  /\ o.data \in 0..(seq - 1) /\ o.conn \in 1..(socket + 1)
               /\ o.conn = socket + 1 => data'[o.data].conn = socket + 1
    <3>1. o.data = d /\ o.conn = socket + 1
      BY <2>2, Zenon DEF WriteOp
    <3>2. socket + 1 \in 1..(socket + 1)
      BY <1>1
    <3> QED
      BY <2>2, <3>1, <3>2, Zenon
  <2> QED
    BY <2>1, <2>2, Zenon DEF Renewed
<1>4. ASSUME NEW k, NEW d, k \in 1..socket, WriteOp(k, d) \in ops'
      PROVE  WriteOp(k, d) \in ops
  <2> SUFFICES ASSUME WriteOp(k, d) \notin ops PROVE FALSE
    BY Zenon
  <2>1. WriteOp(k, d).op = "write"
    BY Zenon DEF WriteOp
  <2>2. PICK e \in 0..(seq - 1) : WriteOp(k, d) = WriteOp(socket + 1, e)
    BY <1>4, <2>1, Zenon DEF Renewed
  <2>3. k = socket + 1
    BY <2>2, Zenon DEF WriteOp
  <2> QED
    BY <1>1, <1>4, <2>3
<1>5. WrittenOnce'
  <2> SUFFICES ASSUME NEW k \in Conns, NEW i \in DOMAIN c2s[k]
               PROVE  Written(k, i)'
    BY <1>1, Zenon DEF WrittenOnce, Conns
  <2> DEFINE d == c2s[k][i].seq
  <2>1. /\ d \in 0..(seq - 1) /\ k <= socket
        /\ c2s[k][i].call = data[d].call
        /\ WriteOp(k, d) \notin ops
        /\ \A j \in DOMAIN c2s[k] : c2s[k][j].seq = d => j = i
    BY Zenon DEF OnceInv, WrittenOnce, Written
  <2>2. k \in 1..socket /\ k <= socket + 1 /\ k # socket + 1
    BY <1>1, <2>1, SMTT(30) DEF Conns
  <2>3. data'[d].call = data[d].call /\ WriteOp(k, d) \notin ops'
    BY <1>4, <2>1, <2>2, Zenon DEF Renewed
  <2> QED
    BY <1>1, <2>1, <2>2, <2>3, Zenon DEF Written
<1>6. ASSUME NEW c PROVE OpenFor(c)' \subseteq OpenFor(c) \cup {socket + 1}
  <2> SUFFICES ASSUME NEW k \in 1..socket, k \in OpenFor(c)'
               PROVE  k \in OpenFor(c)
    BY <1>1 DEF OpenFor
  <2>1. k # socket + 1
    BY <1>1
  <2>2. PICK d \in 0..(seq - 1) : data'[d].call = c /\ OnWay(k, d)'
    BY <1>1, <2>1, Zenon DEF OpenFor, Unsent
  <2>3. data[d].call = c
    BY <2>2, Zenon DEF Renewed
  <2>4. OnWay(k, d)
    BY <1>1, <1>4, <2>2, Zenon DEF OnWay, Carries, Conns
  <2> QED
    BY <2>3, <2>4, Zenon DEF OpenFor
<1>7. ExecutedInv'
  <2> SUFFICES ASSUME NEW c \in Calls PROVE Room(OpenFor(c)', socket + 1, executed[c])
    BY <1>1, Zenon DEF ExecutedInv
  <2>1. Room(OpenFor(c), socket, executed[c]) /\ executed[c] \in Nat /\ socket \in Nat
    BY Zenon DEF OnceInv, ExecutedInv, TypeOK
  <2>2. OpenFor(c)' \in SUBSET (OpenFor(c) \cup {socket + 1})
    BY <1>6, Zenon DEF OpenFor
  <2> QED
    BY <2>1, <2>2, RoomMade, Zenon
<1> QED
  BY <1>2, <1>3, <1>5, <1>7, Zenon DEF OnceInv

LEMMA OnceInit == Init => OnceInv
<1> SUFFICES ASSUME Init PROVE OnceInv
  BY Zenon
<1>1. FlagStays /\ WritesGiven /\ WrittenOnce
  BY DEF Init, FlagStays, WritesGiven, WrittenOnce, ReadOp
<1>2. ASSUME NEW c \in Calls PROVE Room(OpenFor(c), socket, executed[c])
  <2>1. socket = 0 + 1 /\ executed[c] = 0
    BY DEF Init
  <2>2. OpenFor(c) \in SUBSET ({} \cup {0 + 1})
    BY <2>1 DEF OpenFor
  <2>3. [i \in 0..0 |-> 0] \in [0..0 -> 0..0] /\ 0 + [i \in 0..0 |-> 0][0] <= 0
    OBVIOUS
  <2>4. Counts([i \in 0..0 |-> 0], {}, 0)
    BY DEF Counts
  <2>5. Room({}, 0, 0)
    BY <2>3, <2>4, Zenon DEF Room
  <2>6. Room(OpenFor(c), 0 + 1, 0)
    BY <2>2, <2>5, RoomMade, 0 \in Nat, Zenon
  <2> QED
    BY <2>1, <2>6, Zenon
<1> QED
  BY <1>1, <1>2, Zenon DEF OnceInv, ExecutedInv

(* Every step keeps OnceInv. *)
LEMMA OnceNext == TypeOK /\ CallInOnePlace /\ OnceInv /\ [Next]_vars => OnceInv'
<1> SUFFICES ASSUME TypeOK, CallInOnePlace, OnceInv, [Next]_vars PROVE OnceInv'
  BY Zenon
<1>1. CASE UNCHANGED vars
  <2>1. Local
    BY <1>1, Zenon DEF Local, vars
  <2> QED
    BY <2>1, LocalKeeps, Zenon
<1>2. ASSUME NEW c \in Calls, CallMethod(c) PROVE OnceInv'
  BY <1>2, LocalSteps, LocalKeeps, Zenon
<1>3. CASE Destroy \/ ConnectSucceeds \/ ConnectFails
  BY <1>3, LocalSteps, LocalKeeps, Zenon
<1>4. CASE LoopThread
  BY <1>4, LocalSteps, LocalKeeps, RunSendLocal, RunWrittenLocal, ReadLocal,
     RunConnectedIs, RenewedKeeps, Zenon DEF LoopThread
<1>5. ASSUME NEW k \in Conns, CompleteRead(k) \/ Break(k) PROVE OnceInv'
  BY <1>5, LocalSteps, LocalKeeps, Zenon
<1>6. ASSUME NEW k \in Conns, NEW d \in 0..(seq - 1), CompleteWrite(k, d)
      PROVE  OnceInv'
  BY <1>6, CompleteWriteKeeps, Zenon
<1>7. ASSUME NEW k \in Conns, Serve(k) \/ ServeMixed(k) PROVE OnceInv'
  BY <1>7, ServeKeeps, ServeMixedKeeps, Zenon
<1> QED
  BY <1>1, <1>2, <1>3, <1>4, <1>5, <1>6, <1>7, Zenon DEF Next

(* How often a call was executed, from what is still open for it. *)
LEMMA OnceHolds == TypeOK /\ OnceInv => OnceAConnection
<1> SUFFICES ASSUME TypeOK, OnceInv, NEW c \in Calls
             PROVE  executed[c] <= socket
  BY Zenon DEF OnceAConnection
<1>1. Room(OpenFor(c), socket, executed[c]) /\ executed[c] \in Nat /\ socket \in Nat
  BY Zenon DEF OnceInv, ExecutedInv, TypeOK
<1>2. PICK h \in [0..socket -> 0..socket] : executed[c] + h[socket] <= socket
  BY <1>1, Zenon DEF Room
<1>3. socket \in 0..socket
  BY <1>1
<1>4. h[socket] \in 0..socket
  BY <1>3, Zenon
<1> QED
  BY <1>1, <1>2, <1>4

(***************************************************************************)
(* The server executes a call at most once per connection the client has   *)
(* had, for any calls and any number of connections that break in any of   *)
(* the ways modelled: WriteInLoop writes no RPCData twice to a connection, *)
(* because is_pending of one that was written is cleared only by           *)
(* SendPendingSessions, on the next connection.                            *)
(***************************************************************************)
THEOREM ExecutedOncePerConnection == Spec => []OnceAConnection
BY OnceHolds, OnceInit, OnceNext, TypeInit, TypeNext, CallInOnePlaceInit,
   CallInOnePlaceNext, PTL DEF Spec

-----------------------------------------------------------------------------
(* Parts of responses that follow one another *)

(* partial_message_ after part x. *)
After(x) ==
  IF x.kind = "head" THEN [state |-> "head", seq |-> x.seq]
  ELSE IF x.kind = "body" THEN NoPartial ELSE Garbled

(* Part x continues what is in partial_message_, p. *)
Fits(p, x) ==
  \/ p.state = "none" /\ x.kind \in {"head", "piece"}
  \/ p.state = "head" /\ x.seq = p.seq /\ x.kind \in {"body", "piece"}

Chain(p, q) ==
  /\ q # <<>> => Fits(p, q[1])
  /\ \A i \in 1..(Len(q) - 1) : Fits(After(q[i]), q[i + 1])

End(p, q) == IF q = <<>> THEN p ELSE After(q[Len(q)])

(***************************************************************************)
(* ReadInLoop holds p and the parts q, and r is to come; if `whole', the   *)
(* last response ends with r.                                              *)
(***************************************************************************)
Feeds(p, q, r, whole) ==
  /\ Chain(p, q) /\ Chain(End(p, q), r)
  /\ whole => End(End(p, q), r).state = "none"

(* The empty sequence is the one of length zero. *)
LEMMA EmptySeqIs ==
  ASSUME NEW S, NEW q \in Seq(S)
  PROVE  q = <<>> <=> Len(q) = 0
OBVIOUS

(* The two halves of a sequence that is cut after n of its elements. *)
LEMMA Halves ==
  ASSUME NEW S, NEW r \in Seq(S), NEW n \in 0..Len(r)
  PROVE  /\ SubSeq(r, 1, n) \in Seq(S) /\ Len(SubSeq(r, 1, n)) = n
         /\ \A i \in 1..n : SubSeq(r, 1, n)[i] = r[i]
         /\ SubSeq(r, n + 1, Len(r)) \in Seq(S)
         /\ Len(SubSeq(r, n + 1, Len(r))) = Len(r) - n
         /\ \A i \in 1..(Len(r) - n) : SubSeq(r, n + 1, Len(r))[i] = r[n + i]
<1>1. SubSeq(r, 1, n) \in Seq(S) /\ Len(SubSeq(r, 1, n)) = n
  OBVIOUS
<1>2. \A i \in 1..n : SubSeq(r, 1, n)[i] = r[i]
  OBVIOUS
<1>3. /\ SubSeq(r, n + 1, Len(r)) \in Seq(S)
      /\ Len(SubSeq(r, n + 1, Len(r))) = Len(r) - n
  OBVIOUS
<1>4. \A i \in 1..(Len(r) - n) : SubSeq(r, n + 1, Len(r))[i] = r[n + i]
  OBVIOUS
<1> QED
  BY <1>1, <1>2, <1>3, <1>4, Zenon

(* Nothing continues a piece. *)
LEMMA NothingFits ==
  ASSUME NEW q, Chain(Garbled, q)
  PROVE  q = <<>>
BY Zenon DEF Chain, Fits, Garbled

(* A chain without its first part, *)
LEMMA ChainTail ==
  ASSUME NEW p, NEW q \in Seq(Parts), q # <<>>, Chain(p, q)
  PROVE  /\ Fits(p, Head(q)) /\ Chain(After(Head(q)), Tail(q))
         /\ End(After(Head(q)), Tail(q)) = End(p, q)
<1> DEFINE t == Tail(q)
<1>1. /\ Head(q) = q[1] /\ Len(q) \in Nat /\ Len(q) > 0 /\ Len(t) = Len(q) - 1
      /\ \A i \in 1..(Len(q) - 1) : t[i] = q[i + 1]
      /\ t \in Seq(Parts)
  OBVIOUS
<1> HIDE DEF t
<1>5. t = <<>> <=> Len(q) = 1
  BY <1>1, EmptySeqIs
<1>2. Fits(p, Head(q))
  BY <1>1, Zenon DEF Chain
<1>3. Chain(After(Head(q)), t)
  <2>1. t # <<>> => Fits(After(q[1]), t[1])
    BY <1>1, <1>5 DEF Chain
  <2>2. ASSUME NEW i \in 1..(Len(t) - 1) PROVE Fits(After(t[i]), t[i + 1])
    <3>1. t[i] = q[i + 1] /\ t[i + 1] = q[(i + 1) + 1] /\ i + 1 \in 1..(Len(q) - 1)
      BY <1>1, <2>2
    <3> QED
      BY <3>1, Zenon DEF Chain
  <2> QED
    BY <1>1, <2>1, <2>2, Zenon DEF Chain
<1>4. End(After(Head(q)), t) = End(p, q)
  <2>1. CASE t = <<>>
    BY <1>1, <1>5, <2>1, Zenon DEF End
  <2>2. CASE t # <<>>
    <3>1. t[Len(t)] = q[Len(q)]
      BY <1>1, <1>5, <2>2
    <3> QED
      BY <2>2, <3>1, Zenon DEF End
  <2> QED
    BY <2>1, <2>2, Zenon
<1> QED
  BY <1>2, <1>3, <1>4, Zenon DEF t

(* one that is cut in two, *)
LEMMA ChainHalves ==
  ASSUME NEW p, NEW r \in Seq(Parts), Chain(p, r), NEW n \in 0..Len(r),
         NEW s \in Seq(Parts), Len(s) = n, \A i \in 1..n : s[i] = r[i],
         NEW t \in Seq(Parts), Len(t) = Len(r) - n,
         \A i \in 1..(Len(r) - n) : t[i] = r[n + i]
  PROVE  /\ Chain(p, s) /\ Chain(End(p, s), t) /\ End(End(p, s), t) = End(p, r)
         /\ n < Len(r) => Fits(End(p, s), r[n + 1])
<1>1. Len(r) \in Nat
  OBVIOUS
<1>2. /\ s = <<>> <=> n = 0
      /\ t = <<>> <=> n = Len(r)
      /\ r = <<>> <=> Len(r) = 0
  BY <1>1, EmptySeqIs
<1>3. Chain(p, s)
  BY <1>1, <1>2 DEF Chain
<1>4. n < Len(r) => Fits(End(p, s), r[n + 1])
  <2>1. CASE n = 0
    BY <1>2, <2>1 DEF Chain, End
  <2>2. CASE n > 0 /\ n < Len(r)
    <3>1. n \in 1..(Len(r) - 1) /\ End(p, s) = After(r[n])
      BY <1>1, <1>2, <2>2 DEF End
    <3> QED
      BY <3>1, Zenon DEF Chain
  <2> QED
    BY <1>1, <2>1, <2>2
<1>5. Chain(End(p, s), t)
  <2>1. t # <<>> => Fits(End(p, s), t[1])
    <3> SUFFICES ASSUME t # <<>> PROVE Fits(End(p, s), t[1])
      BY Zenon
    <3>1. n < Len(r) /\ t[1] = r[n + 1]
      BY <1>1, <1>2
    <3> QED
      BY <1>4, <3>1, Zenon
  <2>2. ASSUME NEW i \in 1..(Len(t) - 1) PROVE Fits(After(t[i]), t[i + 1])
    <3>1. /\ t[i] = r[n + i] /\ t[i + 1] = r[(n + i) + 1]
          /\ n + i \in 1..(Len(r) - 1)
      <4>1. /\ i \in 1..(Len(r) - n) /\ i + 1 \in 1..(Len(r) - n)
            /\ n + (i + 1) = (n + i) + 1 /\ n + i \in 1..(Len(r) - 1)
        BY <1>1, <2>2
      <4> QED
        BY <4>1, Zenon
    <3> QED
      BY <3>1, Zenon DEF Chain
  <2> QED
    BY <2>1, <2>2, Zenon DEF Chain
<1>6. End(End(p, s), t) = End(p, r)
  <2>1. CASE n = Len(r)
    BY <1>1, <1>2, <2>1 DEF End
  <2>2. CASE n < Len(r)
    <3>1. t[Len(t)] = r[Len(r)]
      BY <1>1, <2>2
    <3> QED
      BY <1>1, <1>2, <2>2, <3>1 DEF End
  <2> QED
    BY <1>1, <2>1, <2>2
<1> QED
  BY <1>3, <1>4, <1>5, <1>6, Zenon

(* the same with the two halves as the model writes them, *)
LEMMA ChainCut ==
  ASSUME NEW p, NEW r \in Seq(Parts), Chain(p, r), NEW n \in 0..Len(r)
  PROVE  LET s == SubSeq(r, 1, n)
             t == SubSeq(r, n + 1, Len(r))
         IN  /\ Chain(p, s) /\ Chain(End(p, s), t) /\ End(End(p, s), t) = End(p, r)
             /\ n < Len(r) => Fits(End(p, s), r[n + 1])
<1>1. /\ SubSeq(r, 1, n) \in Seq(Parts) /\ Len(SubSeq(r, 1, n)) = n
      /\ \A i \in 1..n : SubSeq(r, 1, n)[i] = r[i]
      /\ SubSeq(r, n + 1, Len(r)) \in Seq(Parts)
      /\ Len(SubSeq(r, n + 1, Len(r))) = Len(r) - n
      /\ \A i \in 1..(Len(r) - n) : SubSeq(r, n + 1, Len(r))[i] = r[n + i]
  BY Halves, Zenon
<1> QED
  BY <1>1, ChainHalves, Zenon

(* and one that is continued. *)
LEMMA ChainAppend ==
  ASSUME NEW p, NEW r \in Seq(Parts), Chain(p, r), NEW x, Fits(End(p, r), x)
  PROVE  Chain(p, Append(r, x)) /\ End(p, Append(r, x)) = After(x)
<1> DEFINE t == Append(r, x)
<1>1. /\ Len(r) \in Nat /\ Len(t) = Len(r) + 1 /\ t[Len(r) + 1] = x /\ t # <<>>
      /\ \A i \in 1..Len(r) : t[i] = r[i]
      /\ r = <<>> <=> Len(r) = 0
  OBVIOUS
<1> HIDE DEF t
<1>2. Fits(p, t[1])
  BY <1>1 DEF Chain, End
<1>3. ASSUME NEW i \in 1..(Len(t) - 1) PROVE Fits(After(t[i]), t[i + 1])
  <2>1. CASE i = Len(r)
    BY <1>1, <1>3, <2>1 DEF End
  <2>2. CASE i < Len(r)
    <3>1. i \in 1..(Len(r) - 1) /\ t[i] = r[i] /\ t[i + 1] = r[i + 1]
      BY <1>1, <1>3, <2>2
    <3> QED
      BY <3>1, Zenon DEF Chain
  <2> QED
    BY <1>1, <1>3, <2>1, <2>2
<1> QED
  BY <1>1, <1>2, <1>3, Zenon DEF Chain, End, t

(* A turn of ReadInLoop takes a part that fits, and goes on with the rest. *)
LEMMA FeedsTurn ==
  ASSUME NEW p, NEW q \in Seq(Parts), q # <<>>, NEW r, NEW whole,
         Feeds(p, q, r, whole)
  PROVE  Fits(p, Head(q)) /\ Feeds(After(Head(q)), Tail(q), r, whole)
BY ChainTail, Zenon DEF Feeds

(* After a piece nothing is left, and nothing to come. *)
LEMMA FeedsPiece ==
  ASSUME NEW q, NEW r, NEW whole, Feeds(Garbled, q, r, whole)
  PROVE  q = <<>> /\ r = <<>> /\ ~whole
<1>1. q = <<>> /\ End(Garbled, q) = Garbled
  BY NothingFits, Zenon DEF Feeds, End
<1>2. r = <<>> /\ End(Garbled, r) = Garbled
  BY <1>1, NothingFits, Zenon DEF Feeds, End
<1>3. Garbled.state # "none"
  BY Zenon DEF Garbled
<1> QED
  BY <1>1, <1>2, <1>3, Zenon DEF Feeds

(* Nothing left and nothing to come, of whole responses: none was begun. *)
LEMMA FeedsNothing ==
  ASSUME NEW p, Feeds(p, <<>>, <<>>, TRUE)
  PROVE  p.state = "none"
BY Zenon DEF Feeds, End

(* A read takes some of what is to come. *)
LEMMA FeedsRead ==
  ASSUME NEW p, NEW r \in Seq(Parts), NEW n \in 1..Len(r), NEW whole,
         Feeds(p, <<>>, r, whole)
  PROVE  Feeds(p, SubSeq(r, 1, n), SubSeq(r, n + 1, Len(r)), whole)
<1>1. n \in 0..Len(r) /\ End(p, <<>>) = p
  BY DEF End
<1>2. Chain(p, r) /\ (whole => End(p, r).state = "none")
  BY <1>1, Zenon DEF Feeds
<1> QED
  BY <1>1, <1>2, ChainCut, Zenon DEF Feeds

(* The server answers with a whole response. *)
LEMMA FeedsServe ==
  ASSUME NEW p, NEW q, NEW r \in Seq(Parts), Feeds(p, q, r, TRUE), NEW d \in Nat,
         NEW whole
  PROVE  Feeds(p, q, r \o <<[seq |-> d, kind |-> "head"],
                            [seq |-> d, kind |-> "body"]>>, whole)
<1> DEFINE h == [seq |-> d, kind |-> "head"]
           b == [seq |-> d, kind |-> "body"]
           e == End(p, q)
           t == Append(r, h)
<1>1. h \in Parts /\ b \in Parts /\ t \in Seq(Parts)
  BY DEF Parts
<1>2. r \o <<h, b>> = Append(t, b)
  BY <1>1
<1>3. Fits(End(e, r), h)
  BY Zenon DEF Feeds, Fits
<1>4. After(h) = [state |-> "head", seq |-> d] /\ After(b) = NoPartial
  BY Zenon DEF After
<1>5. Fits(After(h), b)
  BY <1>4 DEF Fits
<1> HIDE DEF h, b, e, t
<1>6. Chain(e, r) /\ Chain(p, q)
  BY Zenon DEF Feeds, e
<1>7. Chain(e, t) /\ End(e, t) = After(h)
  BY <1>3, <1>6, ChainAppend, Zenon DEF t
<1>8. Chain(e, Append(t, b)) /\ End(e, Append(t, b)) = After(b)
  BY <1>1, <1>5, <1>7, ChainAppend, Zenon
<1>9. NoPartial.state = "none"
  BY Zenon DEF NoPartial
<1>10. Feeds(p, q, Append(t, b), whole)
  BY <1>4, <1>6, <1>8, <1>9, Zenon DEF Feeds, e
<1> QED
  BY <1>2, <1>10, Zenon DEF h, b

(* A break keeps whole responses, or tears the last one. *)
LEMMA FeedsBreak ==
  ASSUME NEW p, NEW q, NEW r \in Seq(Parts), Feeds(p, q, r, TRUE), NEW n \in 0..Len(r)
  PROVE  /\ Feeds(p, q, SubSeq(r, 1, n), FALSE)
         /\ BetweenResponses(r, n) => Feeds(p, q, SubSeq(r, 1, n), TRUE)
         /\ n < Len(r) => Feeds(p, q, Append(SubSeq(r, 1, n),
                                             [seq |-> r[n + 1].seq, kind |-> "piece"]), FALSE)
<1> DEFINE e == End(p, q)
           s == SubSeq(r, 1, n)
           x == [seq |-> r[n + 1].seq, kind |-> "piece"]
<1>1. Chain(p, q) /\ Chain(e, r) /\ End(e, r).state = "none"
  BY Zenon DEF Feeds
<1>2. /\ s \in Seq(Parts) /\ Len(s) = n /\ \A i \in 1..n : s[i] = r[i]
      /\ Len(r) \in Nat
  BY Halves
<1> HIDE DEF e
<1>3. Chain(e, s) /\ (n < Len(r) => Fits(End(e, s), r[n + 1]))
  BY <1>1, ChainCut, Zenon
<1> HIDE DEF s
<1>4. Feeds(p, q, s, FALSE)
  BY <1>1, <1>3, Zenon DEF Feeds, e
<1>5. ASSUME BetweenResponses(r, n) PROVE End(e, s).state = "none"
  <2>1. CASE n = Len(r)
    <3>1. r = <<>> <=> s = <<>>
      BY <1>2, <2>1, EmptySeqIs, Zenon
    <3>2. r # <<>> => s[Len(s)] = r[Len(r)]
      BY <1>2, <2>1, EmptySeqIs
    <3> QED
      BY <1>1, <3>1, <3>2, Zenon DEF End
  <2>2. CASE n < Len(r)
    <3>1. n + 1 \in DOMAIN r
      BY <2>2
    <3>2. r[n + 1].kind = "head"
      BY <1>5, <3>1, Zenon DEF BetweenResponses
    <3> QED
      BY <1>3, <2>2, <3>2, Zenon DEF Fits
  <2> QED
    BY <1>2, <2>1, <2>2
<1>6. ASSUME n < Len(r) PROVE Feeds(p, q, Append(s, x), FALSE)
  <2>1. Fits(End(e, s), x)
    <3>1. x.seq = r[n + 1].seq /\ x.kind = "piece"
      BY Zenon
    <3> HIDE DEF x
    <3> QED
      BY <1>3, <1>6, <3>1, Zenon DEF Fits
  <2> HIDE DEF x
  <2>2. Chain(e, Append(s, x))
    BY <1>2, <1>3, <2>1, ChainAppend, Zenon
  <2> QED
    BY <1>1, <2>2, Zenon DEF Feeds, e
<1>7. BetweenResponses(r, n) => Feeds(p, q, s, TRUE)
  BY <1>1, <1>3, <1>5, Zenon DEF Feeds, e
<1> QED
  BY <1>4, <1>6, <1>7, Zenon DEF s

-----------------------------------------------------------------------------
(* The channel reads in one place at a time *)

Reads(r) == r.h \in {"read", "connected"}

(* The read or the connection attempt in progress. *)
Waits == {o \in ops : o.op # "write"}

(* A read is no write. *)
LEMMA ReadOpIs == \A k : ReadOp(k).op # "write"
BY DEF ReadOp

(* The handler that is to run after it. *)
Arrived == {r \in Range(ready) : Reads(r)}

SoleRead(q) == \A i, j \in DOMAIN q : Reads(q[i]) /\ Reads(q[j]) => i = j

(* No response of this connection is torn. *)
Whole == link[socket] = "up" \/ "torn" \notin Faults

(* ReadInLoop, holding q, finds whole responses, but for a torn last one. *)
Feed(q) == Feeds(partial, q, s2c[socket], Whole)

(* The connection is lost and there was no response in the middle of it. *)
Replacing == socket <= MaxBreaks /\ partial.state = "none"

ReadFailed == s2c[socket] = <<>> /\ link[socket] = "down"

NotReading == Waits = {} /\ Arrived = {} /\ inbuf = <<>>

InRead == Waits = {ReadOp(socket)} /\ Arrived = {} /\ inbuf = <<>> /\ Feed(<<>>)

HasRead ==
  /\ Waits = {} /\ inbuf = <<>>
  /\ \E r \in Arrived :
       /\ Arrived = {r} /\ r.h = "read" /\ Feed(r.parts)
       /\ r.err => r.parts = <<>> /\ ReadFailed

InLoop == Waits = {} /\ Arrived = {} /\ inbuf # <<>> /\ Feed(inbuf)

InConnect == Waits = {ConnectOp} /\ Arrived = {} /\ inbuf = <<>> /\ Replacing

HasConnected ==
  /\ Waits = {} /\ inbuf = <<>> /\ Replacing
  /\ \E r \in Arrived : Arrived = {r} /\ r.h = "connected"

(***************************************************************************)
(* A read, ReadInLoop or an attempt to connect is under way, never two of  *)
(* them, and the bytes ReadInLoop is to find are responses one after the   *)
(* other.                                                                  *)
(***************************************************************************)
Reader == NotReading \/ InRead \/ HasRead \/ InLoop \/ InConnect \/ HasConnected

(* The connections: which may be down, and which have responses on them. *)
Ends ==
  /\ socket \in Conns
  /\ \A k \in Conns : /\ link[k] = "down" => k <= MaxBreaks
                      /\ s2c[k] # <<>> => k <= socket

ReaderInv == ~terminated => SoleRead(ready) /\ Ends /\ Reader

(* No response is torn, or no connection is replaced. *)
Sound == "torn" \notin Faults \/ ~AutoReconnect

(* The io_service takes the first handler away, *)
LEMMA ReadyTaken ==
  ASSUME TypeOK, SoleRead(ready), ready # <<>>, ready' = Tail(ready)
  PROVE  /\ SoleRead(ready)'
         /\ Reads(Head(ready)) => Arrived = {Head(ready)} /\ Arrived' = {}
         /\ ~Reads(Head(ready)) => Arrived' = Arrived
<1> DEFINE q == ready
<1>1. /\ ready \in Seq(Handlers)
      /\ DOMAIN Tail(q) = 1..(Len(q) - 1) /\ DOMAIN q = 1..Len(q) /\ Len(q) \in Nat
      /\ \A i \in DOMAIN Tail(q) : i + 1 \in DOMAIN q /\ Tail(q)[i] = q[i + 1]
      /\ \A i \in DOMAIN Tail(q) : i \in Int /\ i + 1 # 1
      /\ 1 \in DOMAIN q /\ q[1] = Head(q)
  BY TailPositions DEF TypeOK
<1>2. SoleRead(Tail(q))
  <2> SUFFICES ASSUME NEW i \in DOMAIN Tail(q), NEW j \in DOMAIN Tail(q),
                      Reads(Tail(q)[i]), Reads(Tail(q)[j])
               PROVE  i = j
    BY Zenon DEF SoleRead
  <2>1. i + 1 = j + 1
    BY <1>1, Zenon DEF SoleRead
  <2> QED
    BY <1>1, <2>1
<1>3. ASSUME Reads(Head(q))
      PROVE  /\ \A i \in DOMAIN q : Reads(q[i]) => i = 1
             /\ \A i \in DOMAIN Tail(q) : ~Reads(Tail(q)[i])
  BY <1>1, <1>3, Zenon DEF SoleRead
<1>4. \A i \in DOMAIN q : i = 1 \/ (i - 1 \in DOMAIN Tail(q) /\ Tail(q)[i - 1] = q[i])
  <2> SUFFICES ASSUME NEW i \in DOMAIN q, i # 1
               PROVE  i - 1 \in DOMAIN Tail(q) /\ Tail(q)[i - 1] = q[i]
    BY Zenon
  <2>1. i - 1 \in 1..(Len(q) - 1) /\ (i - 1) + 1 = i
    BY <1>1
  <2> QED
    BY <1>1, <2>1, Zenon
<1> HIDE DEF q
<1>5. ASSUME Reads(Head(q))
      PROVE  Arrived = {Head(q)} /\ Arrived' = {}
  BY <1>1, <1>3, <1>5, Zenon DEF Arrived, Range, q
<1>6. ASSUME ~Reads(Head(q)) PROVE Arrived' = Arrived
  <2>1. Range(q) = Range(Tail(q)) \cup {Head(q)}
    <3>1. q \in Seq(Handlers) /\ q # <<>>
      BY <1>1, Zenon DEF q
    <3>2. \A x \in Range(q) : x = Head(q) \/ x \in Range(Tail(q))
      BY <3>1, HeadOrTail, Zenon
    <3>3. \A x \in Range(Tail(q)) : x \in Range(q)
      BY <1>1, Zenon DEF Range
    <3>4. Head(q) \in Range(q)
      BY <1>1, Zenon DEF Range
    <3> QED
      BY <3>2, <3>3, <3>4, Zenon
  <2> QED
    BY <1>6, <2>1, Zenon DEF Arrived, q
<1>7. SoleRead(ready')
  BY <1>2, Zenon DEF q
<1> QED
  BY <1>5, <1>6, <1>7, Zenon DEF q

(* or gets one more. *)
LEMMA ReadyPosted ==
  ASSUME TypeOK, SoleRead(ready), NEW x, Post(x), Reads(x) => Arrived = {}
  PROVE  /\ SoleRead(ready)'
         /\ Range(ready') = Range(ready) \cup {x}
         /\ Reads(x) => Arrived' = {x}
         /\ ~Reads(x) => Arrived' = Arrived
<1> DEFINE n == Len(ready) + 1
<1>1. /\ DOMAIN ready' = (DOMAIN ready) \cup {n}
      /\ \A i \in DOMAIN ready : ready'[i] = ready[i]
      /\ ready'[n] = x
  BY AppendPositions DEF TypeOK, Post
<1> HIDE DEF n
<1>2. Range(ready') = Range(ready) \cup {x}
  BY <1>1, ZenonT(40) DEF Range
<1>3. Reads(x) => \A i \in DOMAIN ready : ~Reads(ready[i])
  BY Zenon DEF Arrived, Range
<1>4. SoleRead(ready')
  BY <1>1, <1>3, Zenon DEF SoleRead
<1> QED
  BY <1>2, <1>4, Zenon DEF Arrived, SoleRead

(* WriteInLoop starts no read. *)
LEMMA WriteInLoopWaits ==
  ASSUME NEW k, NEW queue, NEW heap, NEW started, WriteInLoop(k, queue, heap, started)
  PROVE  Waits' = {o \in started : o.op # "write"}
BY DEF WriteInLoop, Waits, WriteOp

(* What is under way, by one sign of it. *)
LEMMA UnderWay ==
  ASSUME Reader
  PROVE  /\ \A k : ReadOp(k) \in ops => InRead /\ k = socket
         /\ ConnectOp \in ops => InConnect
         /\ inbuf # <<>> => InLoop
         /\ \A r \in Arrived : /\ r.h = "read" => HasRead
                               /\ r.h = "connected" => HasConnected
<1>1. /\ \A k : ReadOp(k).op = "read" /\ ReadOp(k).conn = k
      /\ ConnectOp.op = "connect"
  BY Zenon DEF ReadOp, ConnectOp
<1>2. /\ \A k : ReadOp(k) \in ops => ReadOp(k) \in Waits
      /\ ConnectOp \in ops => ConnectOp \in Waits
  BY <1>1, Zenon DEF Waits
<1>3. ASSUME NEW k, ReadOp(k) \in Waits PROVE InRead /\ k = socket
  <2>1. ReadOp(k) # ConnectOp /\ Waits # {}
    BY <1>1, <1>3, Zenon
  <2>2. InRead
    BY <1>3, <2>1
       DEF Reader, NotReading, HasRead, InLoop, InConnect, HasConnected
  <2>3. ReadOp(k) = ReadOp(socket)
    BY <1>3, <2>2, Zenon DEF InRead
  <2> QED
    BY <1>1, <2>2, <2>3
<1>4. ASSUME ConnectOp \in Waits PROVE InConnect
  <2>1. ConnectOp # ReadOp(socket) /\ Waits # {}
    BY <1>1, <1>4, Zenon
  <2> QED
    BY <1>4, <2>1
       DEF Reader, NotReading, HasRead, InLoop, InRead, HasConnected
<1>5. inbuf # <<>> => InLoop
  BY Zenon DEF Reader, NotReading, HasRead, InRead, InConnect, HasConnected
<1>6. ASSUME NEW r \in Arrived
      PROVE  (r.h = "read" => HasRead) /\ (r.h = "connected" => HasConnected)
  <2>1. HasRead \/ HasConnected
    BY <1>6, Zenon DEF Reader, NotReading, InLoop, InRead, InConnect
  <2>2. HasRead => r.h = "read"
    BY <1>6, Zenon DEF HasRead
  <2>3. HasConnected => r.h = "connected"
    BY <1>6, Zenon DEF HasConnected
  <2> QED
    BY <2>1, <2>2, <2>3, Zenon
<1> QED
  BY <1>2, <1>3, <1>4, <1>5, <1>6, Zenon

(* A step that leaves the reader alone, and its connection fit to be read. *)
LEMMA ReaderGoesOn ==
  ASSUME Reader, Waits' = Waits, Arrived' = Arrived,
         UNCHANGED <<inbuf, partial, socket>>,
         \A q : Feed(q) => Feed(q)', ReadFailed => ReadFailed'
  PROVE  Reader'
<1>1. Replacing' = Replacing
  BY Zenon DEF Replacing
<1>2. /\ NotReading => NotReading'
      /\ InRead => InRead'
      /\ InLoop => InLoop'
  <2>1. Feed(inbuf) => Feed(inbuf)'
    <3>1. PICK q : q = inbuf
      BY Zenon
    <3>2. Feed(q) => Feed(q)'
      BY Zenon
    <3> QED
      BY <3>1, <3>2, Zenon DEF Feed
  <2>2. Feed(<<>>) => Feed(<<>>)'
    BY Zenon
  <2> QED
    BY <2>1, <2>2, Zenon DEF NotReading, InRead, InLoop
<1>3. HasRead => HasRead'
  BY Zenon DEF HasRead
<1>4. (InConnect => InConnect') /\ (HasConnected => HasConnected')
  BY <1>1, Zenon DEF InConnect, HasConnected
<1> QED
  BY <1>2, <1>3, <1>4, Zenon DEF Reader

(* A step that leaves the reader and its connection alone. *)
LEMMA ReaderStays ==
  ASSUME Reader, Waits' = Waits, Arrived' = Arrived,
         UNCHANGED <<inbuf, partial, socket>>,
         s2c'[socket] = s2c[socket], link'[socket] = link[socket]
  PROVE  Reader'
<1>1. Whole' = Whole /\ ReadFailed' = ReadFailed
  BY Zenon DEF Whole, ReadFailed
<1>2. \A q : Feed(q)' = Feed(q)
  BY <1>1, Zenon DEF Feed
<1> QED
  BY <1>1, <1>2, ReaderGoesOn, Zenon

(* The same for the network. *)
LEMMA EndsStay ==
  ASSUME Ends, UNCHANGED <<socket, link, s2c>>
  PROVE  Ends'
BY Zenon DEF Ends, Conns

(* CallMethod, the destructor, what is written, and the ends of the process *)
(* start no read and no attempt to connect, and complete none;              *)
LEMMA OthersWait ==
  ASSUME NEW k, NEW d,
         \/ CallMethod(k) \/ Destroy \/ RunSend \/ RunWritten \/ TouchFreed
         \/ ReadSplitHead \/ CompleteWrite(k, d) \/ ServeMixed(k)
  PROVE  Waits' = Waits
<1>1. CASE ops' = ops
  BY <1>1, Zenon DEF Waits
<1>2. ASSUME NEW j, NEW queue, NEW heap, WriteInLoop(j, queue, heap, ops)
      PROVE  Waits' = Waits
  BY <1>2, WriteInLoopWaits, Zenon DEF Waits
<1>3. CASE RunSend \/ RunWritten
  BY <1>1, <1>2, <1>3, Zenon DEF RunSend, RunWritten, SendInLoop
<1>4. CASE CompleteWrite(k, d)
  <2>1. ops' = ops \ {WriteOp(k, d)} /\ WriteOp(k, d).op = "write"
    BY <1>4, Zenon DEF CompleteWrite, WriteOp
  <2> QED
    BY <2>1, Zenon DEF Waits
<1>5. CASE \/ CallMethod(k) \/ Destroy \/ TouchFreed
           \/ ReadSplitHead \/ ServeMixed(k)
  BY <1>1, <1>5, Zenon
     DEF CallMethod, Destroy, TouchFreed, ReadSplitHead, ServeMixed
<1> QED
  BY <1>3, <1>4, <1>5, Zenon

(* they leave the reader where it is. *)
LEMMA OthersRead ==
  ASSUME TypeOK, ReaderInv, NEW k, NEW d,
         \/ CallMethod(k) \/ Destroy \/ RunSend \/ RunWritten \/ TouchFreed
         \/ ReadSplitHead \/ CompleteWrite(k, d) \/ ServeMixed(k)
  PROVE  ReaderInv'
<1>1. UNCHANGED <<inbuf, partial, socket, terminated, link, s2c>>
  BY Zenon DEF CallMethod, Destroy, RunSend, RunWritten, TouchFreed, ReadSplitHead,
            CompleteWrite, ServeMixed
<1> SUFFICES ASSUME ~terminated, SoleRead(ready), Ends, Reader
             PROVE  SoleRead(ready)' /\ Ends' /\ Reader'
  BY <1>1, Zenon DEF ReaderInv
<1>2. Waits' = Waits
  BY OthersWait, Zenon
<1>3. SoleRead(ready)' /\ Arrived' = Arrived
  <2>1. CASE ready' = ready
    BY <2>1, Zenon DEF SoleRead, Arrived
  <2>2. ASSUME NEW x, Post(x), ~Reads(x)
        PROVE  SoleRead(ready)' /\ Arrived' = Arrived
    BY <2>2, ReadyPosted, Zenon
  <2>3. CASE ready # <<>> /\ ready' = Tail(ready) /\ ~Reads(Head(ready))
    BY <2>3, ReadyTaken, Zenon
  <2>4. CASE RunSend \/ RunWritten
    BY <2>3, <2>4, Zenon DEF RunSend, RunWritten, Runs, Reads
  <2>5. CASE CompleteWrite(k, d) \/ CallMethod(k) \/ Destroy
    <3>1. PICK x : Post(x) /\ x.h \in {"written", "send", "terminate"}
      BY <2>5, WorkersPost, Zenon
    <3> QED
      BY <2>2, <3>1, Zenon DEF Reads
  <2>6. CASE TouchFreed \/ ReadSplitHead \/ ServeMixed(k)
    BY <2>1, <2>6, Zenon DEF TouchFreed, ReadSplitHead, ServeMixed
  <2> QED
    BY <2>4, <2>5, <2>6, Zenon
<1> QED
  BY <1>1, <1>2, <1>3, ReaderStays, EndsStay, Zenon

(* A read completes: what it has read is to be handled. *)
LEMMA CompleteReadReads ==
  ASSUME TypeOK, ReaderInv, NEW k \in Conns, CompleteRead(k)
  PROVE  ReaderInv'
<1>1. /\ UNCHANGED <<inbuf, partial, socket, terminated, link>>
      /\ ReadOp(k) \in ops /\ ops' = ops \ {ReadOp(k)}
  BY Zenon DEF CompleteRead
<1> SUFFICES ASSUME ~terminated, SoleRead(ready), Ends, Reader
             PROVE  SoleRead(ready)' /\ Ends' /\ Reader'
  BY <1>1, Zenon DEF ReaderInv
<1>2. /\ k = socket /\ Waits = {ReadOp(socket)} /\ Arrived = {} /\ inbuf = <<>>
      /\ Feeds(partial, <<>>, s2c[socket], Whole)
  BY <1>1, UnderWay, Zenon DEF InRead, Feed
<1>3. Waits' = {} /\ inbuf' = <<>> /\ Whole' = Whole
  BY <1>1, <1>2, Zenon DEF Waits, Whole
<1>4. s2c \in [Conns -> Seq(Parts)] /\ s2c[socket] \in Seq(Parts)
  BY <1>2, Zenon DEF TypeOK
<1>5. ASSUME NEW x, Post(x), x.h = "read"
      PROVE  SoleRead(ready)' /\ Arrived' = {x}
  BY <1>2, <1>5, ReadyPosted, Zenon DEF Reads
<1>6. ASSUME NEW n \in 1..Len(s2c[k]),
             Post([h |-> "read", err |-> FALSE, parts |-> SubSeq(s2c[k], 1, n)]),
             s2c' = [s2c EXCEPT ![k] = SubSeq(s2c[k], n + 1, Len(s2c[k]))]
      PROVE  SoleRead(ready)' /\ Ends' /\ Reader'
  <2>0. PICK x : x = [h |-> "read", err |-> FALSE, parts |-> SubSeq(s2c[k], 1, n)]
    BY Zenon
  <2>1. x.h = "read" /\ x.err = FALSE /\ x.parts = SubSeq(s2c[socket], 1, n)
    BY <1>2, <2>0, Zenon
  <2>2. SoleRead(ready)' /\ Arrived' = {x}
    BY <1>5, <1>6, <2>0, <2>1, Zenon
  <2>3. /\ s2c'[socket] = SubSeq(s2c[socket], n + 1, Len(s2c[socket]))
        /\ \A j \in Conns : j # socket => s2c'[j] = s2c[j]
    BY <1>2, <1>4, <1>6, Zenon
  <2>4. Feeds(partial, x.parts, s2c'[socket], Whole)
    <3>1. n \in 1..Len(s2c[socket])
      BY <1>2, Zenon
    <3>2. Feeds(partial, SubSeq(s2c[socket], 1, n),
                SubSeq(s2c[socket], n + 1, Len(s2c[socket])), Whole)
      BY <1>2, <1>4, <3>1, FeedsRead, Zenon
    <3> QED
      BY <2>1, <2>3, <3>2, Zenon
  <2>5. Feed(x.parts)'
    BY <1>1, <1>3, <2>4, Zenon DEF Feed
  <2>6. HasRead'
    BY <1>3, <2>1, <2>2, <2>5, Zenon DEF HasRead
  <2>7. Ends'
    <3>1. socket <= socket
      BY <1>2 DEF Conns
    <3> QED
      BY <1>1, <2>3, <3>1, Zenon DEF Ends, Conns
  <2> QED
    BY <2>2, <2>6, <2>7, Zenon DEF Reader
<1>7. ASSUME s2c[k] = <<>>, link[k] = "down", UNCHANGED s2c,
             Post([h |-> "read", err |-> TRUE, parts |-> <<>>])
      PROVE  SoleRead(ready)' /\ Ends' /\ Reader'
  <2>0. PICK x : x = [h |-> "read", err |-> TRUE, parts |-> <<>>]
    BY Zenon
  <2>1. x.h = "read" /\ x.parts = <<>>
    BY <2>0, Zenon
  <2>2. SoleRead(ready)' /\ Arrived' = {x}
    BY <1>5, <1>7, <2>0, <2>1, Zenon
  <2>3. Feed(x.parts)' /\ ReadFailed'
    BY <1>1, <1>2, <1>3, <1>7, <2>1, Zenon DEF Feed, ReadFailed
  <2>4. HasRead'
    BY <1>3, <2>1, <2>2, <2>3, Zenon DEF HasRead
  <2> QED
    BY <1>1, <1>7, <2>2, <2>4, EndsStay, Zenon DEF Reader
<1> QED
  BY <1>6, <1>7, Zenon DEF CompleteRead

(* An attempt to connect ends. *)
LEMMA ConnectReads ==
  ASSUME TypeOK, ReaderInv, ConnectSucceeds \/ ConnectFails
  PROVE  ReaderInv'
<1>1. /\ UNCHANGED <<inbuf, partial, socket, terminated, s2c>>
      /\ ConnectOp \in ops /\ ops' = ops \ {ConnectOp}
  BY Zenon DEF ConnectSucceeds, ConnectFails
<1> SUFFICES ASSUME ~terminated, SoleRead(ready), Ends, Reader
             PROVE  SoleRead(ready)' /\ Ends' /\ Reader'
  BY <1>1, Zenon DEF ReaderInv
<1>2. Waits = {ConnectOp} /\ Arrived = {} /\ inbuf = <<>> /\ Replacing
  BY <1>1, UnderWay, Zenon DEF InConnect
<1>3. Waits' = {} /\ inbuf' = <<>> /\ Replacing'
  BY <1>1, <1>2, Zenon DEF Waits, Replacing
<1>4. PICK x : Post(x) /\ x.h = "connected"
  BY ConnectPosts, Zenon
<1>5. SoleRead(ready)' /\ Arrived' = {x}
  BY <1>2, <1>4, ReadyPosted, Zenon DEF Reads
<1>6. HasConnected'
  BY <1>3, <1>4, <1>5, Zenon DEF HasConnected
<1>7. Ends'
  <2>1. link' = link \/ link' = [link EXCEPT ![socket + 1] = "up"]
    BY Zenon DEF ConnectSucceeds, ConnectFails
  <2>2. \A k \in Conns : link'[k] = "down" => link[k] = "down"
    BY <2>1, Zenon DEF TypeOK
  <2> QED
    BY <1>1, <2>2, Zenon DEF Ends, Conns
<1> QED
  BY <1>5, <1>6, <1>7, Zenon DEF Reader

(***************************************************************************)
(* ReadInLoop, up to its loop.  The connection is replaced only if nothing *)
(* of a response is in partial_message_.                                   *)
(***************************************************************************)
LEMMA RunReadReads ==
  ASSUME Sound, TypeOK, ReaderInv, RunRead
  PROVE  ReaderInv'
<1>1. /\ UNCHANGED <<partial, socket, terminated, s2c, link>>
      /\ ready # <<>> /\ ready' = Tail(ready) /\ Head(ready).h = "read"
  BY Zenon DEF RunRead, Runs
<1> SUFFICES ASSUME ~terminated, SoleRead(ready), Ends, Reader
             PROVE  SoleRead(ready)' /\ Ends' /\ Reader'
  BY <1>1, Zenon DEF ReaderInv
<1> DEFINE r == Head(ready)
<1>2. SoleRead(ready)' /\ Arrived = {r} /\ Arrived' = {}
  BY <1>1, ReadyTaken, Zenon DEF Reads
<1>3. HasRead
  BY <1>1, <1>2, UnderWay, Zenon
<1> HIDE DEF r
<1>4. /\ Waits = {} /\ inbuf = <<>> /\ Feed(r.parts)
      /\ r.err => r.parts = <<>> /\ ReadFailed
  BY <1>2, <1>3, Zenon DEF HasRead
<1>5. Whole' = Whole /\ \A q : Feed(q)' = Feed(q)
  BY <1>1, Zenon DEF Feed, Whole
<1>6. CASE ~r.err /\ inbuf' = r.parts /\ ops' = ops
  <2>1. Waits' = {}
    BY <1>4, <1>6, Zenon DEF Waits
  <2>2. Feed(inbuf)'
    BY <1>1, <1>4, <1>6, Zenon DEF Feed, Whole
  <2>3. NotReading' \/ InLoop'
    BY <1>2, <2>1, <2>2, Zenon DEF NotReading, InLoop
  <2> QED
    BY <1>1, <1>2, <2>3, EndsStay, Zenon DEF Reader
<1>7. CASE r.err /\ inbuf' = inbuf /\ (ops' = ops \/ ReconnectOrFail)
  <2>1. ops' = ops \/ (AutoReconnect /\ ops' = ops \cup {ConnectOp})
    BY <1>7, Zenon DEF ReconnectOrFail
  <2>2. CASE ops' = ops
    <3>1. NotReading'
      BY <1>2, <1>4, <1>7, <2>2, Zenon DEF NotReading, Waits
    <3> QED
      BY <1>1, <1>2, <3>1, EndsStay, Zenon DEF Reader
  <2>3. CASE AutoReconnect /\ ops' = ops \cup {ConnectOp}
    <3>1. Waits' = {ConnectOp}
      BY <1>4, <2>3 DEF Waits, ConnectOp
    <3>2. Feeds(partial, <<>>, <<>>, TRUE)
      BY <1>4, <1>7, <2>3, Zenon DEF Feed, ReadFailed, Whole, Sound
    <3>3. partial.state = "none" /\ socket <= MaxBreaks
      BY <1>4, <1>7, <3>2, FeedsNothing, Zenon DEF Ends, ReadFailed
    <3>4. InConnect'
      BY <1>1, <1>2, <1>4, <1>7, <3>1, <3>3, Zenon DEF InConnect, Replacing
    <3> QED
      BY <1>1, <1>2, <3>4, EndsStay, Zenon DEF Reader
  <2> QED
    BY <2>1, <2>2, <2>3, Zenon
<1> QED
  BY <1>6, <1>7, Zenon DEF RunRead, r

(* A part that does not continue partial_message_ is never found. *)
LEMMA NoMisfit ==
  ASSUME TypeOK, ReaderInv, NothingLeftToRead, inbuf # <<>>
  PROVE  /\ ~terminated /\ InLoop /\ ~Misfit
         /\ Fits(partial, Head(inbuf))
         /\ Feeds(After(Head(inbuf)), Tail(inbuf), s2c[socket], Whole)
<1>1. ~terminated
  BY Zenon DEF NothingLeftToRead
<1>2. InLoop
  BY <1>1, UnderWay, Zenon DEF ReaderInv
<1>3. Feeds(partial, inbuf, s2c[socket], Whole) /\ inbuf \in Seq(Parts)
  BY <1>2, Zenon DEF InLoop, Feed, TypeOK
<1>4. /\ Fits(partial, Head(inbuf))
      /\ Feeds(After(Head(inbuf)), Tail(inbuf), s2c[socket], Whole)
  BY <1>3, FeedsTurn, Zenon
<1>5. partial.state \in {"none", "head", "garbled"}
  BY Zenon DEF TypeOK, Partials
<1>6. ~Misfit
  BY <1>4, <1>5, Zenon DEF Fits, Misfit
<1> QED
  BY <1>1, <1>2, <1>4, <1>6, Zenon

(* A turn of the loop: it goes on, or starts the next read. *)
LEMMA TurnReads ==
  ASSUME TypeOK, ReaderInv, NothingLeftToRead, inbuf # <<>>,
         UNCHANGED <<socket, terminated, ready, link, s2c>>,
         inbuf' = Tail(inbuf),
         Waits' = {o \in Started(Tail(inbuf)) : o.op # "write"},
         Feeds(partial', Tail(inbuf), s2c[socket], Whole)
  PROVE  ReaderInv'
<1>1. ~terminated /\ InLoop
  BY NoMisfit, Zenon
<1> SUFFICES ASSUME ~terminated, SoleRead(ready), Ends, Reader
             PROVE  SoleRead(ready)' /\ Ends' /\ Reader'
  BY <1>1, Zenon DEF ReaderInv
<1>2. SoleRead(ready)' /\ Arrived' = Arrived /\ Arrived = {} /\ Waits = {}
  BY <1>1, Zenon DEF SoleRead, Arrived, InLoop
<1>3. Feed(inbuf)'
  BY Zenon DEF Feed, Whole
<1>4. Waits' = IF Tail(inbuf) = <<>> THEN {ReadOp(socket)} ELSE {}
  BY <1>2, Zenon DEF Started, Waits, ReadOp
<1>5. InLoop' \/ InRead'
  BY <1>2, <1>3, <1>4, Zenon DEF InLoop, InRead
<1> QED
  BY <1>2, <1>5, EndsStay, Zenon DEF Reader

(* The turns of ReadInLoop. *)
LEMMA ReadReads ==
  ASSUME TypeOK, ReaderInv, NothingLeftToRead,
         ReadHead \/ ReadPiece \/ ReadBody \/ ReadMisfit
  PROVE  ReaderInv'
<1>1. /\ inbuf # <<>> /\ UNCHANGED <<socket, terminated, ready, link, s2c>>
  BY Zenon DEF ReadHead, ReadPiece, ReadBody, ReadMisfit
<1>2. /\ ~Misfit /\ Fits(partial, Head(inbuf))
      /\ Feeds(After(Head(inbuf)), Tail(inbuf), s2c[socket], Whole)
  BY <1>1, NoMisfit, Zenon
<1>3. ~ReadMisfit
  BY <1>2, Zenon DEF ReadMisfit
<1>4. CASE ReadHead
  <2>1. After(Head(inbuf)) = partial' /\ ops' = Started(Tail(inbuf)) /\ inbuf' = Tail(inbuf)
    BY <1>4, Zenon DEF ReadHead, After
  <2> QED
    BY <1>1, <1>2, <2>1, TurnReads, Zenon DEF Waits
<1>5. CASE ReadPiece
  <2>1. After(Head(inbuf)) = Garbled /\ ops' = Started(Tail(inbuf)) /\ inbuf' = Tail(inbuf)
    BY <1>5, Zenon DEF ReadPiece, After
  <2>2. Tail(inbuf) = <<>> /\ s2c[socket] = <<>> /\ ~Whole
    BY <1>2, <2>1, FeedsPiece, Zenon
  <2>3. Feeds(partial', Tail(inbuf), s2c[socket], Whole)
    BY <2>2, SMTT(20) DEF Feeds, Chain
  <2> QED
    BY <1>1, <2>1, <2>3, TurnReads, Zenon DEF Waits
<1>6. CASE ReadBody
  <2>1. After(Head(inbuf)) = partial' /\ inbuf' = Tail(inbuf)
    BY <1>6 DEF ReadBody, After
  <2>2. Waits' = {o \in Started(Tail(inbuf)) : o.op # "write"}
    BY <1>6, WriteInLoopWaits, Zenon DEF ReadBody, ReceivePackage, SendInLoop, Waits
  <2> QED
    BY <1>1, <1>2, <2>1, <2>2, TurnReads, Zenon
<1> QED
  BY <1>3, <1>4, <1>5, <1>6, Zenon

(* Connected: the new connection is read from its beginning. *)
LEMMA RunConnectedReads ==
  ASSUME TypeOK, ReaderInv, RunConnected
  PROVE  ReaderInv'
<1>1. /\ UNCHANGED <<partial, inbuf, terminated, s2c>>
      /\ ready # <<>> /\ ready' = Tail(ready) /\ Head(ready).h = "connected"
  BY Zenon DEF RunConnected, Runs
<1> SUFFICES ASSUME ~terminated, SoleRead(ready), Ends, Reader
             PROVE  SoleRead(ready)' /\ Ends' /\ Reader'
  BY <1>1, Zenon DEF ReaderInv
<1>2. SoleRead(ready)' /\ Head(ready) \in Arrived /\ Arrived' = {}
  BY <1>1, ReadyTaken, Zenon DEF Reads
<1>3. Waits = {} /\ inbuf = <<>> /\ Replacing
  BY <1>1, <1>2, UnderWay, Zenon DEF HasConnected
<1>4. link' = link
  BY Zenon DEF RunConnected
<1>5. CASE ops' = ops \cup {ConnectOp} /\ socket' = socket
  <2>1. Waits' = {ConnectOp}
    BY <1>3, <1>5 DEF Waits, ConnectOp
  <2>2. InConnect'
    BY <1>1, <1>2, <1>3, <1>5, <2>1, Zenon DEF InConnect, Replacing
  <2> QED
    BY <1>1, <1>2, <1>4, <1>5, <2>2, EndsStay, Zenon DEF Reader
<1>6. CASE RebuildSocket /\ SendPendingSessions(ops \cup {ReadOp(socket + 1)})
  <2>1. socket' = socket + 1
    BY <1>6, Zenon DEF RebuildSocket
  <2>2. Waits' = {o \in ops \cup {ReadOp(socket + 1)} : o.op # "write"}
    BY <1>6, WriteInLoopWaits, Zenon DEF SendPendingSessions
  <2>3. Waits' = {ReadOp(socket + 1)}
    BY <1>3, <2>2, ReadOpIs, Zenon DEF Waits
  <2>4. /\ socket \in Nat /\ socket \in Conns /\ socket + 1 \in Conns
        /\ ~(socket + 1 <= socket) /\ MaxBreaks \in Nat
    BY <1>3, ConstantsAssumption DEF Ends, Conns, Replacing, TypeOK
  <2>5. s2c[socket + 1] = <<>>
    BY <2>4, Zenon DEF Ends
  <2>6. Feed(<<>>)'
    <3>1. partial.state = "none"
      BY <1>3, Zenon DEF Replacing
    <3>2. ASSUME NEW w PROVE Feeds(partial, <<>>, <<>>, w)
      BY <3>1 DEF Feeds, Chain, End
    <3> QED
      BY <1>1, <2>1, <2>5, <3>2, Zenon DEF Feed
  <2>7. InRead'
    BY <1>1, <1>2, <1>3, <2>1, <2>3, <2>6, Zenon DEF InRead
  <2>8. Ends'
    <3>1. \A k \in Conns : k \in Int /\ (k <= socket => k <= socket + 1)
      BY <2>4 DEF Conns
    <3>2. Conns' = Conns
      BY Zenon DEF Conns
    <3> QED
      BY <1>1, <1>4, <2>1, <2>4, <3>1, <3>2, Zenon DEF Ends
  <2> QED
    BY <1>2, <2>7, <2>8, Zenon DEF Reader
<1> QED
  BY <1>5, <1>6, Zenon DEF RunConnected

(* The server answers. *)
LEMMA ServeReads ==
  ASSUME TypeOK, OnceInv, ReaderInv, NEW k \in Conns, Serve(k)
  PROVE  ReaderInv'
<1>1. /\ UNCHANGED <<inbuf, partial, socket, terminated, link, ops, ready>>
      /\ c2s[k] # <<>>
  BY Zenon DEF Serve
<1> SUFFICES ASSUME ~terminated, SoleRead(ready), Ends, Reader
             PROVE  SoleRead(ready)' /\ Ends' /\ Reader'
  BY <1>1, Zenon DEF ReaderInv
<1>2. SoleRead(ready)' /\ Arrived' = Arrived /\ Waits' = Waits
  BY <1>1, Zenon DEF SoleRead, Arrived, Waits
<1>3. c2s[k] \in Seq(Requests) /\ s2c \in [Conns -> Seq(Parts)]
  BY Zenon DEF TypeOK
<1>4. 1 \in DOMAIN c2s[k] /\ Head(c2s[k]) = c2s[k][1] /\ Head(c2s[k]) \in Requests
  BY <1>1, <1>3
<1>5. k <= socket /\ Head(c2s[k]).seq \in Nat
  BY <1>4, Zenon DEF OnceInv, WrittenOnce, Written, Requests
<1>6. CASE link[k] = "up"
  <2> DEFINE d == Head(c2s[k]).seq
             more == <<[seq |-> d, kind |-> "head"], [seq |-> d, kind |-> "body"]>>
  <2>1. s2c' = [s2c EXCEPT ![k] = s2c[k] \o more]
    BY <1>6, Zenon DEF Serve
  <2>2. s2c'[k] = s2c[k] \o more /\ \A j \in Conns : j # k => s2c'[j] = s2c[j]
    BY <1>3, <2>1, Zenon
  <2>3. Ends'
    <3> HIDE DEF more
    <3>1. Conns' = Conns
      BY Zenon DEF Conns
    <3> QED
      BY <1>1, <1>5, <2>2, <3>1, Zenon DEF Ends
  <2>4. CASE k # socket
    <3>1. s2c'[socket] = s2c[socket]
      BY <2>2, <2>4, Zenon DEF Ends
    <3> QED
      BY <1>1, <1>2, <2>3, <3>1, ReaderStays, Zenon
  <2>5. CASE k = socket
    <3>1. Whole /\ Whole' /\ ~ReadFailed
      BY <1>1, <1>6, <2>5, Zenon DEF Whole, ReadFailed
    <3>2. ASSUME NEW q, Feed(q) PROVE Feed(q)'
      <4>1. Feeds(partial, q, s2c[k], TRUE)
        BY <2>5, <3>1, <3>2, Zenon DEF Feed
      <4>2. Feeds(partial, q, s2c[k] \o more, TRUE)
        BY <1>3, <1>5, <4>1, FeedsServe, Zenon
      <4> HIDE DEF more
      <4>3. Feeds(partial, q, s2c'[socket], TRUE)
        BY <2>2, <2>5, <4>2, Zenon
      <4> QED
        BY <1>1, <3>1, <4>3, Zenon DEF Feed
    <3> QED
      BY <1>1, <1>2, <2>3, <3>1, <3>2, ReaderGoesOn, Zenon
  <2> QED
    BY <2>4, <2>5, Zenon
<1>7. CASE link[k] # "up"
  <2>1. s2c' = s2c
    BY <1>7, Zenon DEF Serve
  <2> QED
    BY <1>1, <1>2, <2>1, ReaderStays, EndsStay, Zenon
<1> QED
  BY <1>6, <1>7, Zenon

(* A break after n parts of r may leave t of them. *)
Leaves(r, n, t) ==
  /\ n \in 0..Len(r)
  /\ "torn" \notin Faults => BetweenResponses(r, n)
  /\ \/ t = SubSeq(r, 1, n)
     \/ /\ "torn" \in Faults /\ n < Len(r)
        /\ t = Append(SubSeq(r, 1, n), [seq |-> r[n + 1].seq, kind |-> "piece"])

(* It does so on the connection that breaks, and no other. *)
LEMMA BreakLeaves ==
  ASSUME TypeOK, NEW k \in Conns, Break(k)
  PROVE  \E n, t : /\ Leaves(s2c[k], n, t) /\ s2c'[k] = t
                   /\ \A j \in Conns : j # k => s2c'[j] = s2c[j]
<1>1. s2c \in [Conns -> Seq(Parts)]
  BY Zenon DEF TypeOK
<1>2. \E n, t : Leaves(s2c[k], n, t) /\ s2c' = [s2c EXCEPT ![k] = t]
  BY Zenon DEF Break, Leaves
<1>3. ASSUME NEW t, s2c' = [s2c EXCEPT ![k] = t]
      PROVE  s2c'[k] = t /\ \A j \in Conns : j # k => s2c'[j] = s2c[j]
  BY <1>1, <1>3, Zenon
<1> QED
  BY <1>2, <1>3, Zenon

(* A connection breaks. *)
LEMMA BreakReads ==
  ASSUME TypeOK, ReaderInv, NEW k \in Conns, Break(k)
  PROVE  ReaderInv'
<1>1. /\ UNCHANGED <<inbuf, partial, socket, terminated, ops, ready>>
      /\ k <= MaxBreaks /\ link[k] = "up" /\ link' = [link EXCEPT ![k] = "down"]
  BY Zenon DEF Break
<1> SUFFICES ASSUME ~terminated, SoleRead(ready), Ends, Reader
             PROVE  SoleRead(ready)' /\ Ends' /\ Reader'
  BY <1>1, Zenon DEF ReaderInv
<1>2. SoleRead(ready)' /\ Arrived' = Arrived /\ Waits' = Waits
  BY <1>1, Zenon DEF SoleRead, Arrived, Waits
<1>3. s2c \in [Conns -> Seq(Parts)] /\ link \in [Conns -> {"unborn", "up", "down"}]
  BY Zenon DEF TypeOK
<1>4. link'[k] = "down" /\ \A j \in Conns : j # k => link'[j] = link[j]
  BY <1>1, <1>3, Zenon
<1>5. PICK n, t : /\ Leaves(s2c[k], n, t) /\ s2c'[k] = t
                  /\ \A j \in Conns : j # k => s2c'[j] = s2c[j]
  BY BreakLeaves, Zenon
<1>6. s2c[k] = <<>> => t = <<>>
  <2> SUFFICES ASSUME s2c[k] = <<>> PROVE t = <<>>
    BY Zenon
  <2>1. Len(s2c[k]) = 0 /\ n = 0 /\ ~(n < Len(s2c[k]))
    BY <1>5 DEF Leaves
  <2>2. t = SubSeq(s2c[k], 1, n)
    BY <1>5, <2>1, Zenon DEF Leaves
  <2>3. SubSeq(s2c[k], 1, n) \in Seq(Parts) /\ Len(SubSeq(s2c[k], 1, n)) = 0
    BY <1>3, <2>1, Halves
  <2> QED
    BY <2>2, <2>3, EmptySeqIs, Zenon
<1>7. Ends'
  <2>1. Conns' = Conns
    BY Zenon DEF Conns
  <2> QED
    BY <1>1, <1>4, <1>5, <1>6, <2>1, Zenon DEF Ends
<1>8. CASE k # socket
  <2>1. s2c'[socket] = s2c[socket] /\ link'[socket] = link[socket]
    BY <1>4, <1>5, <1>8, Zenon DEF Ends
  <2> QED
    BY <1>1, <1>2, <1>7, <2>1, ReaderStays, Zenon
<1>9. CASE k = socket
  <2>1. Whole /\ ~ReadFailed /\ Whole' = ("torn" \notin Faults)
    BY <1>1, <1>4, <1>9, Zenon DEF Whole, ReadFailed
  <2>2. ASSUME NEW q, Feed(q) PROVE Feed(q)'
    <3>1. /\ Feeds(partial, q, s2c[k], TRUE) /\ s2c[k] \in Seq(Parts)
          /\ n \in 0..Len(s2c[k])
      BY <1>3, <1>5, <1>9, <2>1, <2>2, Zenon DEF Feed, Leaves
    <3>2. /\ Feeds(partial, q, SubSeq(s2c[k], 1, n), FALSE)
          /\ BetweenResponses(s2c[k], n) => Feeds(partial, q, SubSeq(s2c[k], 1, n), TRUE)
          /\ n < Len(s2c[k]) =>
               Feeds(partial, q, Append(SubSeq(s2c[k], 1, n),
                                        [seq |-> s2c[k][n + 1].seq, kind |-> "piece"]), FALSE)
      BY <3>1, FeedsBreak, Zenon
    <3>3. CASE "torn" \in Faults
      <4>1. Feeds(partial, q, t, FALSE)
        BY <1>5, <3>2, Zenon DEF Leaves
      <4> QED
        BY <1>1, <1>5, <1>9, <2>1, <3>3, <4>1, Zenon DEF Feed
    <3>4. CASE "torn" \notin Faults
      <4>1. Feeds(partial, q, t, TRUE)
        BY <1>5, <3>2, <3>4, Zenon DEF Leaves
      <4> QED
        BY <1>1, <1>5, <1>9, <2>1, <3>4, <4>1, Zenon DEF Feed
    <3> QED
      BY <3>3, <3>4, Zenon
  <2> QED
    BY <1>1, <1>2, <1>7, <2>1, <2>2, ReaderGoesOn, Zenon
<1> QED
  BY <1>8, <1>9, Zenon

(* Every step keeps ReaderInv, as long as Sound is so. *)
LEMMA ReaderNext ==
  ASSUME Sound, TypeOK, OnceInv, NothingLeftToRead, ReaderInv, [Next]_vars
  PROVE  ReaderInv'
<1>1. CASE UNCHANGED vars
  BY <1>1, ReaderStays, EndsStay, Zenon DEF vars, ReaderInv, SoleRead, Waits, Arrived
<1>2. CASE RunTerminate
  BY <1>2, Zenon DEF RunTerminate, ReaderInv
<1>3. CASE LoopThread
  BY <1>2, <1>3, OthersRead, RunReadReads, ReadReads, RunConnectedReads, Zenon DEF LoopThread
<1>4. ASSUME NEW c \in Calls, CallMethod(c) PROVE ReaderInv'
  BY <1>4, OthersRead, Zenon
<1>5. CASE Destroy \/ ConnectSucceeds \/ ConnectFails
  BY <1>5, OthersRead, ConnectReads, Zenon
<1>6. ASSUME NEW k \in Conns, CompleteRead(k) \/ Serve(k) \/ ServeMixed(k) \/ Break(k)
      PROVE  ReaderInv'
  BY <1>6, CompleteReadReads, ServeReads, BreakReads, OthersRead, Zenon
<1>7. ASSUME NEW k, NEW d, CompleteWrite(k, d) PROVE ReaderInv'
  BY <1>7, OthersRead, Zenon
<1> QED
  BY <1>1, <1>3, <1>4, <1>5, <1>6, <1>7, Zenon DEF Next

-----------------------------------------------------------------------------
(* Where handlers come from *)

(* The handlers that are to run are those that were, but for one posted. *)
LEMMA ReadyFrom ==
  ASSUME TypeOK, [Next]_vars, NEW r \in Range(ready')
  PROVE  r \in Range(ready) \/ Post(r)
<1>0. ready \in Seq(Handlers)
  BY Zenon DEF TypeOK
<1>1. CASE ready' = ready
  BY <1>1, Zenon
<1>2. CASE ready # <<>> /\ ready' = Tail(ready)
  <2>1. \A i \in DOMAIN Tail(ready) :
          i + 1 \in DOMAIN ready /\ Tail(ready)[i] = ready[i + 1]
    BY <1>0, <1>2, TailPositions, Zenon
  <2> QED
    BY <1>2, <2>1, Zenon DEF Range
<1>3. ASSUME NEW x, Post(x)
      PROVE  r \in Range(ready) \/ Post(r)
  <2>1. PICK n : n = Len(ready) + 1
    BY Zenon
  <2>2. /\ DOMAIN ready' = (DOMAIN ready) \cup {n}
        /\ \A i \in DOMAIN ready : ready'[i] = ready[i]
        /\ ready'[n] = x
    BY <1>0, <1>3, <2>1, AppendPositions DEF Post
  <2>3. r \in Range(ready) \/ r = x
    BY <2>2, Zenon DEF Range
  <2> QED
    BY <1>3, <2>3, Zenon
<1>4. CASE RunSend \/ RunWritten \/ RunRead \/ RunConnected \/ RunTerminate
  BY <1>2, <1>4, Zenon
     DEF RunSend, RunWritten, RunRead, RunConnected, RunTerminate, Runs
<1>5. CASE \/ ReadHead \/ ReadSplitHead \/ ReadPiece \/ ReadBody \/ ReadMisfit
           \/ TouchFreed \/ UNCHANGED vars
  BY <1>1, <1>5, Zenon
     DEF ReadHead, ReadSplitHead, ReadPiece, ReadBody, ReadMisfit, TouchFreed, vars
<1>6. ASSUME NEW k, NEW d, \/ CallMethod(k) \/ Destroy \/ CompleteRead(k)
                           \/ CompleteWrite(k, d) \/ ConnectSucceeds \/ ConnectFails
      PROVE  r \in Range(ready) \/ Post(r)
  BY <1>3, <1>6, Zenon
     DEF CallMethod, Destroy, CompleteRead, CompleteWrite, ConnectSucceeds, ConnectFails
<1>7. ASSUME NEW k, Serve(k) \/ ServeMixed(k) \/ Break(k)
      PROVE  r \in Range(ready) \/ Post(r)
  <2>1. ready' = ready
    BY <1>7, Zenon DEF Serve, ServeMixed, Break
  <2> QED
    BY <1>1, <2>1, Zenon
<1> QED
  BY <1>4, <1>5, <1>6, <1>7, Zenon DEF Next, LoopThread

(* One handler is posted at a time. *)
LEMMA PostIsOne ==
  ASSUME TypeOK, NEW x, NEW y, Post(x), Post(y)
  PROVE  x = y
<1>1. ready \in Seq(Handlers)
  BY Zenon DEF TypeOK
<1>2. Append(ready, x) = Append(ready, y)
  BY Zenon DEF Post
<1>3. Append(ready, x)[Len(ready) + 1] = x /\ Append(ready, y)[Len(ready) + 1] = y
  BY <1>1, AppendPositions, Zenon
<1> QED
  BY <1>2, <1>3, Zenon

(* A handler that takes no bytes and makes no connection. *)
LEMMA OthersPost ==
  ASSUME TypeOK, NEW r, NEW k, NEW d, Post(r),
         \/ CallMethod(k) \/ Destroy \/ CompleteWrite(k, d)
         \/ RunSend \/ RunWritten \/ RunRead \/ RunConnected \/ RunTerminate
         \/ ReadHead \/ ReadSplitHead \/ ReadPiece \/ ReadBody \/ ReadMisfit
         \/ TouchFreed \/ Serve(k) \/ ServeMixed(k) \/ Break(k) \/ UNCHANGED vars
  PROVE  ~Reads(r)
<1>1. /\ ready \in Seq(Handlers) /\ Len(Append(ready, r)) = Len(ready) + 1
      /\ Len(ready) \in Nat
      /\ ready # <<>> => Len(Tail(ready)) = Len(ready) - 1
  BY DEF TypeOK
<1>2. ready' # ready /\ (ready # <<>> => ready' # Tail(ready))
  BY <1>1 DEF Post
<1>3. CASE CallMethod(k) \/ Destroy \/ CompleteWrite(k, d)
  <2>1. PICK x : Post(x) /\ x.h \in {"written", "send", "terminate"}
    BY <1>3, WorkersPost, Zenon
  <2> QED
    BY <2>1, PostIsOne, Zenon DEF Reads
<1>4. CASE RunSend \/ RunWritten \/ RunRead \/ RunConnected \/ RunTerminate
  BY <1>2, <1>4, Zenon
     DEF RunSend, RunWritten, RunRead, RunConnected, RunTerminate, Runs
<1>5. CASE \/ ReadHead \/ ReadSplitHead \/ ReadPiece \/ ReadBody \/ ReadMisfit
           \/ TouchFreed \/ UNCHANGED vars
  BY <1>2, <1>5, Zenon
     DEF ReadHead, ReadSplitHead, ReadPiece, ReadBody, ReadMisfit, TouchFreed, vars
<1>6. CASE Serve(k) \/ ServeMixed(k) \/ Break(k)
  <2>1. ready' = ready
    BY <1>6, Zenon DEF Serve, ServeMixed, Break
  <2> QED
    BY <1>2, <2>1, Zenon
<1> QED
  BY <1>3, <1>4, <1>5, <1>6, Zenon

-----------------------------------------------------------------------------
(* Without auto_reconnect there is one connection *)

Kept ==
  ~AutoReconnect => /\ socket = 1 /\ ConnectOp \notin ops
                    /\ \A r \in Range(ready) : r.h # "connected"

(* No step then starts an attempt to connect. *)
LEMMA KeptNext ==
  ASSUME TypeOK, Kept, [Next]_vars
  PROVE  Kept'
<1> SUFFICES ASSUME ~AutoReconnect
             PROVE  /\ socket' = 1 /\ ConnectOp \notin ops'
                    /\ \A r \in Range(ready') : r.h # "connected"
  BY Zenon DEF Kept
<1>1. /\ socket = 1 /\ ConnectOp \notin ops
      /\ \A r \in Range(ready) : r.h # "connected"
  BY Zenon DEF Kept
<1>2. ~RunConnected
  <2> SUFFICES ASSUME RunConnected PROVE FALSE
    BY Zenon
  <2>1. ready # <<>> /\ Head(ready).h = "connected" /\ ready \in Seq(Handlers)
    BY Zenon DEF RunConnected, Runs, TypeOK
  <2>2. Head(ready) \in Range(ready)
    BY <2>1, TailPositions, Zenon DEF Range
  <2> QED
    BY <1>1, <2>1, <2>2, Zenon
<1>3. ~ConnectSucceeds /\ ~ConnectFails
  BY <1>1, Zenon DEF ConnectSucceeds, ConnectFails
<1>4. \A o : o = ConnectOp => o.op = "connect"
  BY DEF ConnectOp
<1>5. /\ ConnectOp \in ops' <=> ConnectOp \in Waits'
      /\ ConnectOp \in ops <=> ConnectOp \in Waits
  BY <1>4, Zenon DEF Waits
<1>6. ASSUME NEW rest PROVE ConnectOp \notin Started(rest)
  BY <1>1, <1>4 DEF Started, ReadOp
<1>7. ASSUME RunRead \/ RunTerminate
      PROVE  socket' = 1 /\ ConnectOp \notin ops'
  BY <1>1, <1>7, Zenon DEF RunRead, RunTerminate, ReconnectOrFail
<1>8. ASSUME ReadHead \/ ReadPiece
      PROVE  socket' = 1 /\ ConnectOp \notin ops'
  BY <1>1, <1>6, <1>8, Zenon DEF ReadHead, ReadPiece
<1>9. ASSUME ReadBody \/ ReadMisfit
      PROVE  socket' = 1 /\ ConnectOp \notin ops'
  <2>1. socket' = socket
    BY <1>9, Zenon DEF ReadBody, ReadMisfit
  <2>2. ASSUME NEW rest, ops' = Started(rest) \/ ops' = ops
        PROVE  ConnectOp \notin ops'
    BY <1>1, <1>6, <2>2, Zenon
  <2>3. ASSUME NEW rest, NEW k, NEW queue, NEW heap,
               WriteInLoop(k, queue, heap, Started(rest))
        PROVE  ConnectOp \notin ops'
    BY <1>5, <1>6, <2>3, WriteInLoopWaits, Zenon
  <2>4. ASSUME NEW x, NEW content, NEW rest, ReceivePackage(x, content, Started(rest))
        PROVE  ConnectOp \notin ops'
    BY <2>2, <2>3, <2>4, Zenon DEF ReceivePackage, SendInLoop
  <2>5. CASE ReadBody
    BY <1>1, <2>1, <2>4, <2>5, Zenon DEF ReadBody
  <2>6. CASE ReadMisfit
    BY <1>1, <2>1, <2>2, <2>4, <2>6, Zenon DEF ReadMisfit
  <2> QED
    BY <1>9, <2>5, <2>6, Zenon
<1>10. ASSUME NEW k, NEW d,
              \/ CallMethod(k) \/ Destroy \/ RunSend \/ RunWritten \/ TouchFreed
              \/ ReadSplitHead \/ CompleteWrite(k, d) \/ ServeMixed(k)
       PROVE  socket' = 1 /\ ConnectOp \notin ops'
  <2>1. socket' = socket
    BY <1>10, Zenon DEF CallMethod, Destroy, RunSend, RunWritten, TouchFreed,
                        ReadSplitHead, CompleteWrite, ServeMixed
  <2> QED
    BY <1>1, <1>5, <1>10, <2>1, OthersWait, Zenon
<1>11. ASSUME NEW k, CompleteRead(k) \/ Serve(k) \/ Break(k)
       PROVE  socket' = 1 /\ ConnectOp \notin ops'
  <2>1. socket' = socket /\ \A o \in ops' : o \in ops
    BY <1>11, Zenon DEF CompleteRead, Serve, Break
  <2> QED
    BY <1>1, <2>1, Zenon
<1>12. ASSUME UNCHANGED vars
      PROVE  socket' = 1 /\ ConnectOp \notin ops'
  BY <1>1, <1>12, Zenon DEF vars
<1>13. socket' = 1 /\ ConnectOp \notin ops'
  BY <1>2, <1>3, <1>7, <1>8, <1>9, <1>10, <1>11, <1>12, Zenon DEF Next, LoopThread
<1>14. ASSUME NEW r \in Range(ready') PROVE r.h # "connected"
  <2>1. CASE r \in Range(ready)
    BY <1>1, <2>1, Zenon
  <2>2. ASSUME Post(r), NEW k \in Conns, CompleteRead(k)
        PROVE  r.h # "connected"
    <3>0. \A e, q : [h |-> "read", err |-> e, parts |-> q].h = "read"
      BY Zenon
    <3>1. PICK x : Post(x) /\ x.h = "read"
      BY <2>2, <3>0, Zenon DEF CompleteRead
    <3> QED
      BY <2>2, <3>1, PostIsOne, Zenon
  <2>3. CASE Post(r) /\ ~\E k \in Conns : CompleteRead(k)
    <3>1. ~Reads(r)
      BY <1>3, <2>3, OthersPost, Zenon DEF Next, LoopThread
    <3> QED
      BY <3>1, Zenon DEF Reads
  <2> QED
    BY <2>1, <2>2, <2>3, ReadyFrom, Zenon
<1> QED
  BY <1>13, <1>14, Zenon

-----------------------------------------------------------------------------
(* What is answered was executed *)

(* A part of the response numbered d is in q, *)
PartIn(d, q) == \E i \in DOMAIN q : q[i].seq = d

(* on a connection, in a handler's hands, or in partial_message_. *)
Flies(d) ==
  \/ \E k \in Conns : PartIn(d, s2c[k])
  \/ PartIn(d, inbuf)
  \/ \E r \in Range(ready) : r.h = "read" /\ PartIn(d, r.parts)
  \/ partial.state = "head" /\ partial.seq = d

(* The server has executed the call of d. *)
HasAnswer(d) == d \in 0..(seq - 1) /\ executed[data[d].call] > 0

AnswerInv == \A d : Flies(d) => HasAnswer(d)

(* The parts of a sequence that is shortened, cut or continued. *)
LEMMA PartsOf ==
  ASSUME NEW q \in Seq(Parts), NEW d
  PROVE  /\ q # <<>> /\ PartIn(d, Tail(q)) => PartIn(d, q)
         /\ q # <<>> => PartIn(Head(q).seq, q)
         /\ \A n \in 0..Len(q) : /\ PartIn(d, SubSeq(q, 1, n)) => PartIn(d, q)
                                 /\ PartIn(d, SubSeq(q, n + 1, Len(q))) => PartIn(d, q)
         /\ \A x : PartIn(d, Append(q, x)) => PartIn(d, q) \/ d = x.seq
<1>1. ASSUME q # <<>> PROVE PartIn(Head(q).seq, q) /\ (PartIn(d, Tail(q)) => PartIn(d, q))
  BY <1>1, TailPositions, Zenon DEF PartIn
<1>2. ASSUME NEW n \in 0..Len(q)
      PROVE  /\ PartIn(d, SubSeq(q, 1, n)) => PartIn(d, q)
             /\ PartIn(d, SubSeq(q, n + 1, Len(q))) => PartIn(d, q)
  <2> DEFINE s == SubSeq(q, 1, n)
             t == SubSeq(q, n + 1, Len(q))
  <2>1. /\ s \in Seq(Parts) /\ Len(s) = n /\ \A i \in 1..n : s[i] = q[i]
        /\ t \in Seq(Parts) /\ Len(t) = Len(q) - n
        /\ \A i \in 1..(Len(q) - n) : t[i] = q[n + i]
    BY Halves
  <2> HIDE DEF s, t
  <2>2. ASSUME NEW i \in DOMAIN s PROVE i \in DOMAIN q /\ q[i] = s[i]
    BY <2>1, <2>2
  <2>3. ASSUME NEW i \in DOMAIN t PROVE n + i \in DOMAIN q /\ q[n + i] = t[i]
    <3>1. i \in 1..(Len(q) - n) /\ n + i \in 1..Len(q)
      BY <2>1, <2>3
    <3> QED
      BY <2>1, <3>1
  <2>4. (PartIn(d, s) => PartIn(d, q)) /\ (PartIn(d, t) => PartIn(d, q))
    BY <2>2, <2>3, Zenon DEF PartIn
  <2> QED
    BY <2>4, Zenon DEF s, t
<1>3. ASSUME NEW x PROVE PartIn(d, Append(q, x)) => PartIn(d, q) \/ d = x.seq
  <2>1. PICK n : n = Len(q) + 1
    BY Zenon
  <2>2. /\ DOMAIN Append(q, x) = (DOMAIN q) \cup {n}
        /\ \A i \in DOMAIN q : Append(q, x)[i] = q[i]
        /\ Append(q, x)[n] = x
    BY <2>1, AppendPositions, Zenon
  <2> QED
    BY <2>2, Zenon DEF PartIn
<1> QED
  BY <1>1, <1>2, <1>3, Zenon

(* Nothing is in nothing. *)
LEMMA NothingIn == \A d : ~PartIn(d, <<>>)
BY DEF PartIn

(* An answer that was computed stays so. *)
LEMMA AnswerStays ==
  ASSUME TypeOK, CallInOnePlace, [Next]_vars, NEW d, HasAnswer(d)
  PROVE  HasAnswer(d)'
<1>1. /\ d \in 0..(seq - 1) /\ executed[data[d].call] > 0
      /\ data[d].call \in Calls /\ seq \in Nat /\ executed \in [Calls -> Nat]
  BY Zenon DEF HasAnswer, TypeOK, RPCDatas
<1>2. CASE Local
  BY <1>1, <1>2 DEF Local, HasAnswer
<1>3. CASE Quiet /\ executed' = executed
  BY <1>1, <1>3, Zenon DEF Quiet, HasAnswer
<1>4. ASSUME NEW k \in Conns, Serve(k) PROVE HasAnswer(d)'
  <2>1. UNCHANGED <<seq, data>>
    BY <1>4, Zenon DEF Serve
  <2>2. \E c : executed' = [executed EXCEPT ![c] = @ + 1]
    BY <1>4, Zenon DEF Serve
  <2>3. executed'[data[d].call] > 0
    BY <1>1, <2>2
  <2> QED
    BY <1>1, <2>1, <2>3, Zenon DEF HasAnswer
<1>5. CASE RunConnected
  <2>1. Quiet /\ executed' = executed
    BY <1>5, QuietHandlers, Zenon DEF RunConnected
  <2> QED
    BY <1>3, <2>1, Zenon
<1>6. ASSUME NEW k, NEW e, CompleteWrite(k, e) \/ ServeMixed(k) PROVE HasAnswer(d)'
  <2>1. executed' = executed
    BY <1>6, Zenon DEF CompleteWrite, ServeMixed
  <2> QED
    BY <1>3, <1>6, <2>1, QuietEnvironment, Zenon
<1>7. CASE UNCHANGED vars
  BY <1>1, <1>7, Zenon DEF vars, HasAnswer
<1>8. CASE LoopThread
  BY <1>2, <1>5, <1>8, LocalSteps, RunSendLocal, RunWrittenLocal, ReadLocal, Zenon
     DEF LoopThread
<1>9. ASSUME NEW k, \/ CallMethod(k) \/ Destroy \/ CompleteRead(k) \/ Break(k)
                    \/ ConnectSucceeds \/ ConnectFails
      PROVE  HasAnswer(d)'
  BY <1>2, <1>9, LocalSteps, Zenon
<1> QED
  BY <1>4, <1>6, <1>7, <1>8, <1>9, Zenon DEF Next

(* The parts on the connections were there before, or the server has just *)
(* answered;                                                              *)
LEMMA SentFlies ==
  ASSUME TypeOK, [Next]_vars, NEW k \in Conns, NEW d, PartIn(d, s2c'[k])
  PROVE  Flies(d) \/ (Serve(k) /\ d = Head(c2s[k]).seq)
<1>0. s2c \in [Conns -> Seq(Parts)] /\ s2c[k] \in Seq(Parts)
  BY Zenon DEF TypeOK
<1>1. CASE s2c'[k] = s2c[k] \/ PartIn(d, s2c[k])
  BY <1>1, Zenon DEF Flies
<1>2. ASSUME NEW j \in Conns, CompleteRead(j) PROVE PartIn(d, s2c[k])
  <2>1. CASE s2c' = s2c
    BY <2>1, Zenon
  <2>2. ASSUME NEW n \in 1..Len(s2c[j]),
               s2c' = [s2c EXCEPT ![j] = SubSeq(s2c[j], n + 1, Len(s2c[j]))]
        PROVE  PartIn(d, s2c[k])
    <3>1. CASE j # k
      <4>1. s2c'[k] = s2c[k]
        BY <1>0, <2>2, <3>1, Zenon
      <4> QED
        BY <4>1, Zenon
    <3>2. CASE j = k
      <4>1. s2c'[k] = SubSeq(s2c[k], n + 1, Len(s2c[k])) /\ n \in 0..Len(s2c[k])
        BY <1>0, <2>2, <3>2
      <4>2. PartIn(d, SubSeq(s2c[k], n + 1, Len(s2c[k])))
        BY <4>1, Zenon
      <4> QED
        BY <1>0, <4>1, <4>2, PartsOf, Zenon
    <3> QED
      BY <3>1, <3>2, Zenon
  <2> QED
    BY <1>2, <2>1, <2>2, Zenon DEF CompleteRead
<1>3. ASSUME NEW j \in Conns, Break(j) PROVE PartIn(d, s2c[k])
  <2>1. PICK n, t : /\ Leaves(s2c[j], n, t) /\ s2c'[j] = t
                    /\ \A i \in Conns : i # j => s2c'[i] = s2c[i]
    BY <1>3, BreakLeaves, Zenon
  <2>2. CASE j # k
    <3>1. s2c'[k] = s2c[k]
      BY <2>1, <2>2, Zenon
    <3> QED
      BY <3>1, Zenon
  <2>3. CASE j = k
    <3>1. PartIn(d, t) /\ n \in 0..Len(s2c[k])
      BY <2>1, <2>3, Zenon DEF Leaves
    <3>2. PartIn(d, SubSeq(s2c[k], 1, n)) => PartIn(d, s2c[k])
      BY <1>0, <3>1, PartsOf, Zenon
    <3>3. ASSUME NEW x, t = Append(SubSeq(s2c[k], 1, n), x), n < Len(s2c[k]),
                 x.seq = s2c[k][n + 1].seq
          PROVE  PartIn(d, s2c[k])
      <4>1. SubSeq(s2c[k], 1, n) \in Seq(Parts)
        BY <1>0, <3>1, Halves, Zenon
      <4>2. PartIn(d, SubSeq(s2c[k], 1, n)) \/ d = x.seq
        BY <3>1, <3>3, <4>1, PartsOf, Zenon
      <4>3. n + 1 \in DOMAIN s2c[k]
        BY <1>0, <3>1, <3>3
      <4>4. PartIn(s2c[k][n + 1].seq, s2c[k])
        BY <4>3, Zenon DEF PartIn
      <4> QED
        BY <3>2, <3>3, <4>2, <4>4, Zenon
    <3>4. \A x : x = [seq |-> s2c[k][n + 1].seq, kind |-> "piece"] =>
                   x.seq = s2c[k][n + 1].seq
      OBVIOUS
    <3> QED
      BY <2>1, <2>3, <3>1, <3>2, <3>3, <3>4, Zenon DEF Leaves
  <2> QED
    BY <2>2, <2>3, Zenon
<1>4. ASSUME NEW j \in Conns, Serve(j)
      PROVE  PartIn(d, s2c[k]) \/ (j = k /\ d = Head(c2s[k]).seq)
  <2>1. CASE s2c' = s2c
    BY <2>1, Zenon
  <2>2. CASE s2c' # s2c
    <3> DEFINE e == Head(c2s[j]).seq
               h == [seq |-> e, kind |-> "head"]
               b == [seq |-> e, kind |-> "body"]
    <3>1. s2c' = [s2c EXCEPT ![j] = s2c[j] \o <<h, b>>]
      BY <1>4, <2>2, Zenon DEF Serve
    <3>2. CASE j # k
      <4> HIDE DEF h, b
      <4>1. s2c'[k] = s2c[k]
        BY <1>0, <3>1, <3>2, Zenon
      <4> QED
        BY <4>1, Zenon
    <3>3. CASE j = k
      <4>1. c2s[k] # <<>> /\ c2s[k] \in Seq(Requests)
        BY <1>4, <3>3, Zenon DEF Serve, TypeOK
      <4>2. e \in Nat
        <5>1. Head(c2s[k]) \in Requests
          BY <4>1
        <5> QED
          BY <3>3, <5>1, Zenon DEF Requests
      <4>3. h \in Parts /\ b \in Parts /\ h.seq = e /\ b.seq = e
        BY <4>2, Zenon DEF Parts
      <4> HIDE DEF h, b
      <4>4. s2c'[k] = Append(Append(s2c[k], h), b) /\ Append(s2c[k], h) \in Seq(Parts)
        <5>1. s2c'[k] = s2c[k] \o <<h, b>>
          BY <1>0, <3>1, <3>3, Zenon
        <5> QED
          BY <1>0, <4>3, <5>1
      <4>5. PartIn(d, s2c[k]) \/ d = e
        <5>1. PICK q : q = Append(s2c[k], h)
          BY Zenon
        <5>2. q \in Seq(Parts) /\ PartIn(d, Append(q, b))
          BY <4>4, <5>1, Zenon
        <5>3. PartIn(d, q) \/ d = b.seq
          BY <5>2, PartsOf, Zenon
        <5>4. PartIn(d, Append(s2c[k], h)) \/ d = b.seq
          BY <5>1, <5>3, Zenon
        <5> QED
          BY <1>0, <4>3, <5>4, PartsOf, Zenon
      <4> QED
        BY <3>3, <4>5, Zenon
    <3> QED
      BY <3>2, <3>3, Zenon
  <2> QED
    BY <2>1, <2>2, Zenon
<1>5. CASE \/ \E c \in Calls : CallMethod(c)
           \/ Destroy \/ LoopThread \/ ConnectSucceeds \/ ConnectFails
           \/ \E j \in Conns : \/ ServeMixed(j)
                               \/ \E e \in 0..(seq - 1) : CompleteWrite(j, e)
           \/ UNCHANGED vars
  <2>1. CASE LoopThread
    BY <2>1, Zenon DEF LoopThread, RunSend, RunWritten, RunRead, RunConnected,
       RunTerminate, ReadHead, ReadSplitHead, ReadPiece, ReadBody, ReadMisfit,
       TouchFreed, Flies
  <2>2. s2c' = s2c \/ LoopThread
    BY <1>5, Zenon DEF CallMethod, Destroy, ConnectSucceeds, ConnectFails, ServeMixed,
       CompleteWrite, vars
  <2> QED
    BY <1>1, <2>1, <2>2, Zenon
<1> QED
  BY <1>1, <1>2, <1>3, <1>4, <1>5, Zenon DEF Next

(* those in the hands of ReadInLoop, *)
LEMMA HeldFlies ==
  ASSUME TypeOK, [Next]_vars, NEW d, PartIn(d, inbuf')
  PROVE  Flies(d)
<1>0. inbuf \in Seq(Parts) /\ ready \in Seq(Handlers)
  BY Zenon DEF TypeOK
<1>1. CASE inbuf' = inbuf
  BY <1>1, Zenon DEF Flies
<1>2. CASE inbuf # <<>> /\ inbuf' = Tail(inbuf)
  <2>1. PartIn(d, inbuf)
    BY <1>0, <1>2, PartsOf, Zenon
  <2> QED
    BY <2>1, Zenon DEF Flies
<1>3. CASE inbuf' = <<>>
  BY <1>3, NothingIn, Zenon
<1>4. CASE RunRead
  <2>1. ready # <<>> /\ Head(ready).h = "read"
    BY <1>4, Zenon DEF RunRead, Runs
  <2>2. Head(ready) \in Range(ready)
    BY <1>0, <2>1, TailPositions, Zenon DEF Range
  <2>3. inbuf' = inbuf \/ inbuf' = Head(ready).parts
    BY <1>4, Zenon DEF RunRead
  <2>4. CASE inbuf' = Head(ready).parts
    BY <2>1, <2>2, <2>4, Zenon DEF Flies
  <2> QED
    BY <1>1, <2>3, <2>4, Zenon
<1>5. CASE ReadHead \/ ReadPiece \/ ReadBody \/ ReadMisfit
  BY <1>1, <1>2, <1>3, <1>5, Zenon DEF ReadHead, ReadPiece, ReadBody, ReadMisfit
<1>6. CASE RunSend \/ RunWritten \/ RunConnected \/ RunTerminate
           \/ ReadSplitHead \/ TouchFreed \/ UNCHANGED vars
  BY <1>1, <1>6, Zenon DEF RunSend, RunWritten, RunConnected, RunTerminate,
     ReadSplitHead, TouchFreed, vars
<1>7. ASSUME NEW k, NEW e,
             \/ CallMethod(k) \/ Destroy \/ CompleteRead(k) \/ CompleteWrite(k, e)
             \/ ConnectSucceeds \/ ConnectFails
             \/ Serve(k) \/ ServeMixed(k) \/ Break(k)
      PROVE  Flies(d)
  <2>1. inbuf' = inbuf
    BY <1>7, Zenon DEF CallMethod, Destroy, CompleteRead, CompleteWrite,
       ConnectSucceeds, ConnectFails, Serve, ServeMixed, Break
  <2> QED
    BY <1>1, <2>1, Zenon
<1> QED
  BY <1>4, <1>5, <1>6, <1>7, Zenon DEF Next, LoopThread

(* those in a handler that is to run, *)
LEMMA ArrivedFlies ==
  ASSUME TypeOK, [Next]_vars, NEW d, NEW r \in Range(ready'), r.h = "read",
         PartIn(d, r.parts)
  PROVE  Flies(d)
<1>1. CASE r \in Range(ready)
  BY <1>1, Zenon DEF Flies
<1>2. ASSUME NEW k \in Conns, CompleteRead(k), Post(r) PROVE Flies(d)
  <2>0. s2c[k] \in Seq(Parts)
    BY Zenon DEF TypeOK
  <2>1. \A e, q : [h |-> "read", err |-> e, parts |-> q].parts = q
    BY Zenon
  <2>2. \E x : /\ Post(x)
               /\ \/ x.parts = <<>>
                  \/ \E n \in 1..Len(s2c[k]) : x.parts = SubSeq(s2c[k], 1, n)
    BY <1>2, <2>1, Zenon DEF CompleteRead
  <2>3. r.parts = <<>> \/ \E n \in 1..Len(s2c[k]) : r.parts = SubSeq(s2c[k], 1, n)
    BY <1>2, <2>2, PostIsOne, Zenon
  <2>4. PICK n \in 1..Len(s2c[k]) : r.parts = SubSeq(s2c[k], 1, n)
    BY <2>3, NothingIn, Zenon
  <2>5. n \in 0..Len(s2c[k])
    BY <2>4
  <2>6. PartIn(d, s2c[k])
    <3>1. PartIn(d, SubSeq(s2c[k], 1, n))
      BY <2>4, Zenon
    <3> QED
      BY <2>0, <2>5, <3>1, PartsOf, Zenon
  <2> QED
    BY <2>6, Zenon DEF Flies
<1>3. CASE Post(r) /\ (ConnectSucceeds \/ ConnectFails)
  <2>1. PICK x : Post(x) /\ x.h = "connected"
    BY <1>3, ConnectPosts, Zenon
  <2> QED
    BY <1>3, <2>1, PostIsOne, Zenon
<1>4. CASE /\ Post(r) /\ ~ConnectSucceeds /\ ~ConnectFails
           /\ ~\E k \in Conns : CompleteRead(k)
  <2>1. ~Reads(r)
    BY <1>4, OthersPost, Zenon DEF Next, LoopThread
  <2> QED
    BY <2>1, Zenon DEF Reads
<1> QED
  BY <1>1, <1>2, <1>3, <1>4, ReadyFrom, Zenon

(* and the one that partial_message_ is of. *)
LEMMA PartialFlies ==
  ASSUME TypeOK, [Next]_vars, partial'.state = "head"
  PROVE  Flies(partial'.seq)
<1>0. /\ inbuf \in Seq(Parts)
      /\ NoPartial.state # "head" /\ Garbled.state # "head"
  BY Zenon DEF TypeOK, NoPartial, Garbled
<1>1. CASE partial' = partial
  BY <1>1, Zenon DEF Flies
<1>2. CASE ReadHead
  <2>1. inbuf # <<>> /\ partial'.seq = Head(inbuf).seq
    BY <1>2, Zenon DEF ReadHead
  <2> QED
    BY <1>0, <2>1, PartsOf, Zenon DEF Flies
<1>3. CASE ReadPiece \/ ReadBody \/ ReadMisfit
  BY <1>0, <1>1, <1>3, Zenon DEF ReadPiece, ReadBody, ReadMisfit
<1>4. CASE RunSend \/ RunWritten \/ RunRead \/ RunConnected \/ RunTerminate
           \/ ReadSplitHead \/ TouchFreed \/ UNCHANGED vars
  BY <1>1, <1>4, Zenon DEF RunSend, RunWritten, RunRead, RunConnected, RunTerminate,
     ReadSplitHead, TouchFreed, vars
<1>5. ASSUME NEW k, NEW e,
             \/ CallMethod(k) \/ Destroy \/ CompleteRead(k) \/ CompleteWrite(k, e)
             \/ ConnectSucceeds \/ ConnectFails
             \/ Serve(k) \/ ServeMixed(k) \/ Break(k)
      PROVE  Flies(partial'.seq)
  <2>1. partial' = partial
    BY <1>5, Zenon DEF CallMethod, Destroy, CompleteRead, CompleteWrite,
       ConnectSucceeds, ConnectFails, Serve, ServeMixed, Break
  <2> QED
    BY <1>1, <2>1, Zenon
<1> QED
  BY <1>2, <1>3, <1>4, <1>5, Zenon DEF Next, LoopThread

(* Nothing flies but what the server has just sent, or has sent before. *)
LEMMA FliesSince ==
  ASSUME TypeOK, [Next]_vars, NEW d, Flies(d)'
  PROVE  Flies(d) \/ \E k \in Conns : Serve(k) /\ d = Head(c2s[k]).seq
<1>1. ASSUME NEW k \in Conns, PartIn(d, s2c'[k])
      PROVE  Flies(d) \/ (Serve(k) /\ d = Head(c2s[k]).seq)
  BY <1>1, SentFlies, Zenon
<1>2. ASSUME NEW r \in Range(ready'), r.h = "read", PartIn(d, r.parts)
      PROVE  Flies(d)
  BY <1>2, ArrivedFlies, Zenon
<1>3. \/ \E k \in Conns : PartIn(d, s2c'[k])
      \/ PartIn(d, inbuf')
      \/ \E r \in Range(ready') : r.h = "read" /\ PartIn(d, r.parts)
      \/ partial'.state = "head" /\ partial'.seq = d
  BY Zenon DEF Flies, PartIn, Range
<1> QED
  BY <1>1, <1>2, <1>3, HeldFlies, PartialFlies, Zenon

(* The server answers what it has executed. *)
LEMMA ServeAnswers ==
  ASSUME TypeOK, OnceInv, NEW k \in Conns, Serve(k),
         NEW d, d = Head(c2s[k]).seq, NEW c, c = Head(c2s[k]).call
  PROVE  /\ HasAnswer(d)' /\ d \in 0..(seq - 1) /\ c = data[d].call /\ c \in Calls
<1>1. c2s[k] # <<>> /\ c2s[k] \in Seq(Requests)
  BY Zenon DEF Serve, TypeOK
<1>2. 1 \in DOMAIN c2s[k] /\ d = c2s[k][1].seq /\ c = c2s[k][1].call /\ c \in Calls
  <2>1. /\ 1 \in DOMAIN c2s[k] /\ Head(c2s[k]) = c2s[k][1]
        /\ Head(c2s[k]) \in Requests
    BY <1>1
  <2> QED
    BY <2>1, Zenon DEF Requests
<1>3. d \in 0..(seq - 1) /\ c = data[d].call
  BY <1>2, Zenon DEF OnceInv, WrittenOnce, Written
<1>4. executed' = [executed EXCEPT ![c] = @ + 1] /\ UNCHANGED <<seq, data>>
  BY Zenon DEF Serve
<1>5. executed[c] \in Nat /\ executed \in [Calls -> Nat]
  BY <1>2, Zenon DEF TypeOK
<1>6. executed'[c] > 0
  BY <1>2, <1>4, <1>5
<1> QED
  BY <1>2, <1>3, <1>4, <1>6, Zenon DEF HasAnswer

LEMMA AnswerNext ==
  ASSUME TypeOK, CallInOnePlace, OnceInv, AnswerInv, [Next]_vars
  PROVE  AnswerInv'
<1> SUFFICES ASSUME NEW d, Flies(d)' PROVE HasAnswer(d)'
  BY Zenon DEF AnswerInv
<1>1. CASE Flies(d)
  BY <1>1, AnswerStays, Zenon DEF AnswerInv
<1>2. ASSUME NEW k \in Conns, Serve(k), d = Head(c2s[k]).seq
      PROVE  HasAnswer(d)'
  BY <1>2, ServeAnswers, Zenon
<1> QED
  BY <1>1, <1>2, FliesSince, Zenon

-----------------------------------------------------------------------------
(* What an application sees *)

(* The closure of c runs with the answer to c and makes the calls `next'. *)
Completes(c, next) ==
  /\ c \in called /\ doneRuns[c] = 0 /\ executed[c] > 0
  /\ next \cap called = {}
  /\ doneRuns' = [doneRuns EXCEPT ![c] = @ + 1]
  /\ answer' = [answer EXCEPT ![c] = "own"]
  /\ called' = called \cup next
  /\ executed' = executed

Unseen == UNCHANGED <<called, doneRuns, answer, executed>>

(* A response that is complete completes the call it answers. *)
LEMMA BodyCompletes ==
  ASSUME TypeOK, CallInOnePlace, AnswerInv, ReadBody
  PROVE  \/ Unseen
         \/ \E c \in Calls : \E next \in {{}} \cup {{x} : x \in Calls} :
              Completes(c, next)
<1>1. PICK s, q : s = partial.seq /\ q = Started(Tail(inbuf))
  BY Zenon
<1>2. ReceivePackage(s, "own", q) /\ executed' = executed
  BY <1>1, Zenon DEF ReadBody
<1>3. CASE s \notin sessions
  BY <1>2, <1>3, Zenon DEF ReceivePackage, Unseen
<1>4. CASE s \in sessions
  <2>1. PICK c : c = data[s].call
    BY Zenon
  <2>2. c \in Calls /\ c \in called /\ doneRuns[c] = 0
    <3>1. s \in 0..(seq - 1) /\ data[s] \in RPCDatas
      BY <1>4, Zenon DEF TypeOK
    <3>2. c \in Calls /\ c \in called
      BY <2>1, <3>1, Zenon DEF RPCDatas, CallInOnePlace
    <3>3. doneRuns[c] = 0
      BY <1>4, <2>1, NotDoneYet, Zenon
    <3> QED
      BY <3>2, <3>3, Zenon
  <2>3. executed[c] > 0
    <3>1. Flies(s)
      BY <1>1, Zenon DEF ReadBody, Flies
    <3> QED
      BY <2>1, <3>1, Zenon DEF AnswerInv, HasAnswer
  <2>4. /\ doneRuns' = [doneRuns EXCEPT ![c] = @ + 1]
        /\ answer' = [answer EXCEPT ![c] = "own"]
        /\ called' = called \/ \E x \in Calls \ called : called' = called \cup {x}
    BY <1>2, <1>4, <2>1, Zenon DEF ReceivePackage
  <2>5. \E next \in {{}} \cup {{x} : x \in Calls} :
          next \cap called = {} /\ called' = called \cup next
    <3>1. CASE called' = called
      <4>1. {} \cap called = {} /\ called' = called \cup {}
        BY <3>1, Zenon
      <4> QED
        BY <4>1, Zenon
    <3>2. ASSUME NEW x \in Calls \ called, called' = called \cup {x}
          PROVE  \E next \in {{}} \cup {{y} : y \in Calls} :
                   next \cap called = {} /\ called' = called \cup next
      <4>1. {x} \cap called = {} /\ {x} \in {{}} \cup {{y} : y \in Calls}
        BY Zenon
      <4> QED
        BY <3>2, <4>1, Zenon
    <3> QED
      BY <2>4, <3>1, <3>2, Zenon
  <2> QED
    BY <1>2, <2>2, <2>3, <2>4, <2>5, Zenon DEF Completes
<1> QED
  BY <1>3, <1>4, Zenon

(* What the application and the server do is all that can be seen. *)
LEMMA VisibleSteps ==
  ASSUME TypeOK, CallInOnePlace, NothingLeftToRead, ReaderInv, AnswerInv, [Next]_vars
  PROVE  \/ Unseen
         \/ \E c \in Calls : CallMethod(c)
         \/ \E k \in Conns : Serve(k)
         \/ \E c \in Calls : \E next \in {{}} \cup {{x} : x \in Calls} :
              Completes(c, next)
<1>1. CASE ReadMisfit
  BY <1>1, NoMisfit, Zenon DEF ReadMisfit
<1>2. CASE RunSend \/ RunWritten \/ RunRead \/ RunConnected \/ RunTerminate
           \/ ReadHead \/ ReadSplitHead \/ ReadPiece \/ TouchFreed \/ UNCHANGED vars
  <2>1. Unseen
    BY <1>2, Zenon DEF RunSend, RunWritten, RunRead, RunConnected, RunTerminate,
       ReadHead, ReadSplitHead, ReadPiece, TouchFreed, vars, Unseen
  <2> QED
    BY <2>1, Zenon
<1>3. ASSUME NEW k, NEW e,
             \/ Destroy \/ CompleteRead(k) \/ CompleteWrite(k, e) \/ ConnectSucceeds
             \/ ConnectFails \/ ServeMixed(k) \/ Break(k)
      PROVE  Unseen
  BY <1>3, Zenon DEF Destroy, CompleteRead, CompleteWrite, ConnectSucceeds,
     ConnectFails, ServeMixed, Break, Unseen
<1> QED
  BY <1>1, <1>2, <1>3, BodyCompletes, Zenon DEF Next, LoopThread

LEMMA OwnNext ==
  ASSUME TypeOK, CallInOnePlace, NothingLeftToRead, ReaderInv, AnswerInv, OwnAnswer,
         [Next]_vars
  PROVE  OwnAnswer'
<1>0. /\ doneRuns \in [Calls -> Nat] /\ executed \in [Calls -> Nat]
      /\ answer \in [Calls -> {"none", "own", "garbled"}]
  BY Zenon DEF TypeOK
<1>1. CASE Unseen
  BY <1>1, Zenon DEF Unseen, OwnAnswer
<1>2. ASSUME NEW c \in Calls, CallMethod(c) PROVE OwnAnswer'
  BY <1>2, Zenon DEF CallMethod, OwnAnswer
<1>3. ASSUME NEW k \in Conns, Serve(k) PROVE OwnAnswer'
  <2>1. PICK x : executed' = [executed EXCEPT ![x] = @ + 1]
    BY <1>3, Zenon DEF Serve
  <2>2. UNCHANGED <<doneRuns, answer>>
    BY <1>3, Zenon DEF Serve
  <2> QED
    BY <1>0, <2>1, <2>2 DEF OwnAnswer
<1>4. ASSUME NEW c \in Calls, NEW next, Completes(c, next) PROVE OwnAnswer'
  BY <1>0, <1>4, Zenon DEF Completes, OwnAnswer
<1> QED
  BY <1>1, <1>2, <1>3, <1>4, VisibleSteps, Zenon

(***************************************************************************)
(* The inductive invariant: what is read fits together, no connection is   *)
(* replaced without auto_reconnect, and what was answered was executed.    *)
(***************************************************************************)
AnswersInv ==
  /\ TypeOK /\ CallInOnePlace /\ OnceInv /\ NothingLeftToRead
  /\ ReaderInv /\ Kept /\ AnswerInv /\ OwnAnswer

LEMMA AnswersInit == Init => AnswersInv
<1> SUFFICES ASSUME Init PROVE AnswersInv
  BY Zenon
<1>1. SoleRead(ready) /\ ready = <<>> /\ inbuf = <<>> /\ Range(ready) = {}
  BY DEF Init, SoleRead, Range
<1>2. socket = 1 /\ 1 \in Conns /\ \A k \in Conns : link[k] # "down" /\ s2c[k] = <<>>
  BY ConstantsAssumption DEF Init, Conns
<1>3. Ends
  BY <1>2, Zenon DEF Ends
<1>4. Waits = {ReadOp(socket)} /\ Arrived = {}
  <2>1. ops = {ReadOp(1)}
    BY Zenon DEF Init
  <2> QED
    BY <1>1, <1>2, <2>1, ReadOpIs, Zenon DEF Waits, Arrived
<1>5. Feed(<<>>)
  <2>1. partial = NoPartial /\ s2c[socket] = <<>>
    BY <1>2, Zenon DEF Init
  <2> QED
    BY <2>1 DEF Feed, Feeds, Chain, End, NoPartial
<1>6. ReaderInv
  BY <1>1, <1>3, <1>4, <1>5, Zenon DEF ReaderInv, Reader, InRead
<1>7. Kept
  BY <1>1, <1>2, Zenon DEF Init, Kept, ReadOp, ConnectOp
<1>8. AnswerInv
  <2>1. partial.state # "head"
    BY Zenon DEF Init, NoPartial
  <2> QED
    BY <1>1, <1>2, <2>1, NothingIn, Zenon DEF AnswerInv, Flies
<1>9. OwnAnswer /\ NothingLeftToRead
  BY DEF Init, OwnAnswer, NothingLeftToRead
<1> QED
  BY <1>6, <1>7, <1>8, <1>9, TypeInit, CallInOnePlaceInit, OnceInit, Zenon DEF AnswersInv

LEMMA AnswersNext ==
  ASSUME Sound, AnswersInv, [Next]_vars
  PROVE  AnswersInv'
<1>1. /\ TypeOK /\ CallInOnePlace /\ OnceInv /\ NothingLeftToRead
      /\ ReaderInv /\ Kept /\ AnswerInv /\ OwnAnswer
  BY Zenon DEF AnswersInv
<1>2. TypeOK' /\ CallInOnePlace' /\ OnceInv' /\ NothingLeftToRead'
  BY <1>1, TypeNext, CallInOnePlaceNext, OnceNext, NothingLeftNext, Zenon
<1>3. ReaderInv' /\ Kept' /\ AnswerInv' /\ OwnAnswer'
  BY <1>1, ReaderNext, KeptNext, AnswerNext, OwnNext, Zenon
<1> QED
  BY <1>2, <1>3, Zenon DEF AnswersInv

(***************************************************************************)
(* Unless a torn response is followed by another connection, a closure     *)
(* that runs finds the response the server computed for its own call:      *)
(* ReadInLoop, however its bytes are cut into reads, never takes the bytes *)
(* of one response for those of another.                                   *)
(***************************************************************************)
THEOREM AnswersAreOwn ==
  ASSUME Sound
  PROVE  Spec => []OwnAnswer
<1>1. AnswersInv /\ [Next]_vars => AnswersInv'
  BY AnswersNext, Zenon
<1>2. AnswersInv => OwnAnswer
  BY Zenon DEF AnswersInv
<1> QED
  BY <1>1, <1>2, AnswersInit, PTL DEF Spec

-----------------------------------------------------------------------------
(* The contract *)

(* Only a call that was made has had its closure run. *)
LEMMA DoneWasCalled ==
  ASSUME TypeOK, CallInOnePlace, NEW c \in Calls
  PROVE  doneRuns[c] \in Nat /\ (c \notin called => doneRuns[c] = 0)
<1>1. doneRuns[c] \in Nat
  BY Zenon DEF TypeOK
<1>2. doneRuns[c] > 0 => \E d \in 0..(seq - 1) : data[d].call = c
  BY Zenon DEF CallInOnePlace
<1>3. \A d \in 0..(seq - 1) : data[d].call \in called
  BY Zenon DEF CallInOnePlace
<1>4. doneRuns[c] > 0 => c \in called
  BY <1>2, <1>3, Zenon
<1> QED
  BY <1>1, <1>4, SMTT(20)

(* CallMethod is a call, *)
LEMMA CallStep ==
  ASSUME TypeOK, CallInOnePlace, NEW c \in Calls, CallMethod(c)
  PROVE  Contract!Call(c)
<1>1. /\ c \notin called /\ called' = called \cup {c}
      /\ doneRuns' = doneRuns /\ executed' = executed
  BY Zenon DEF CallMethod
<1>2. doneRuns[c] = 0
  BY <1>1, DoneWasCalled, Zenon
<1> DEFINE Seen(x) == IF doneRuns[x] > 0 THEN "done"
                      ELSE IF x \in called THEN "waiting" ELSE "idle"
<1>3. Seen(c) = "idle" /\ Seen(c)' = "waiting"
  BY <1>1, <1>2
<1>4. \A x \in Calls : x # c => Seen(x)' = Seen(x)
  BY <1>1, Zenon
<1>5. [x \in Calls |-> Seen(x)'] = [x \in Calls |-> IF x = c THEN "waiting" ELSE Seen(x)]
  BY <1>3, <1>4, Zenon
<1>6. /\ [x \in Calls |-> Seen(x)][c] = Seen(c)
      /\ [[x \in Calls |-> Seen(x)] EXCEPT ![c] = "waiting"]
           = [x \in Calls |-> IF x = c THEN "waiting" ELSE Seen(x)]
  <2> HIDE DEF Seen
  <2>1. \A f : f = [x \in Calls |-> Seen(x)] =>
                [f EXCEPT ![c] = "waiting"]
                  = [x \in Calls |-> IF x = c THEN "waiting" ELSE Seen(x)]
    BY Zenon
  <2>2. [x \in Calls |-> Seen(x)][c] = Seen(c)
    BY Zenon
  <2> QED
    BY <2>1, <2>2, Zenon
<1>7. /\ [x \in Calls |-> Seen(x)][c] = "idle"
      /\ [x \in Calls |-> Seen(x)'] = [[x \in Calls |-> Seen(x)] EXCEPT ![c] = "waiting"]
  <2> HIDE DEF Seen
  <2> QED
    BY <1>3, <1>5, <1>6, Zenon
<1> QED
  BY <1>1, <1>7, Zenon DEF Contract!Call

(* Serve executes a call that was made, again only on another connection, *)
LEMMA ServeStep ==
  ASSUME AnswersInv, AnswersInv', NEW k \in Conns, Serve(k)
  PROVE  \E c \in Calls : Contract!Execute(c)
<1>0. TypeOK /\ CallInOnePlace /\ OnceInv /\ TypeOK' /\ OnceInv' /\ Kept'
  BY Zenon DEF AnswersInv
<1>1. PICK c, d : c = Head(c2s[k]).call /\ d = Head(c2s[k]).seq
  BY Zenon
<1>2. d \in 0..(seq - 1) /\ c = data[d].call /\ c \in Calls
  BY <1>0, <1>1, ServeAnswers, Zenon
<1>3. c \in called
  BY <1>0, <1>2, Zenon DEF CallInOnePlace
<1>4. /\ executed' = [executed EXCEPT ![c] = @ + 1]
      /\ UNCHANGED <<called, doneRuns>>
  BY <1>1, Zenon DEF Serve
<1>5. executed[c] = 0 \/ AutoReconnect
  <2> SUFFICES ASSUME ~AutoReconnect PROVE executed[c] = 0
    BY Zenon
  <2>1. socket' = 1
    BY <1>0, Zenon DEF Kept
  <2>2. OnceAConnection'
    BY <1>0, OnceHolds, PTL
  <2>3. executed'[c] <= socket'
    BY <1>2, <2>2, Zenon DEF OnceAConnection
  <2>4. executed \in [Calls -> Nat] /\ executed[c] \in Nat
    BY <1>0, <1>2, Zenon DEF TypeOK
  <2> QED
    BY <1>2, <1>4, <2>1, <2>3, <2>4, SMTT(20)
<1>6. Contract!Execute(c)
  BY <1>2, <1>3, <1>4, <1>5, Zenon DEF Contract!Execute
<1> QED
  BY <1>2, <1>6, Zenon

(* and a closure that runs completes its call. *)
LEMMA CompleteStep ==
  ASSUME TypeOK, CallInOnePlace, NEW c \in Calls,
         NEW next \in {{}} \cup {{x} : x \in Calls}, Completes(c, next)
  PROVE  Contract!Complete(c, next)
<1>0. doneRuns \in [Calls -> Nat] /\ \A x \in Calls : x \notin called => doneRuns[x] = 0
  BY DoneWasCalled, Zenon DEF TypeOK
<1>1. /\ c \in called /\ doneRuns[c] = 0 /\ executed[c] > 0
      /\ \A x \in next : x \in Calls /\ x \notin called
      /\ executed' = executed /\ called' = called \cup next
  BY Zenon DEF Completes
<1>2. doneRuns'[c] = 1 /\ \A x \in Calls : x # c => doneRuns'[x] = doneRuns[x]
  BY <1>0 DEF Completes
<1> QED
  BY <1>0, <1>1, <1>2, SMTT(20) DEF Contract!Complete

LEMMA ContractStep ==
  ASSUME AnswersInv, AnswersInv', [Next]_vars
  PROVE  [Contract!ContractNext]_(Contract!contractVars)
<1>0. /\ TypeOK /\ CallInOnePlace /\ NothingLeftToRead /\ ReaderInv /\ AnswerInv
  BY Zenon DEF AnswersInv
<1>1. CASE Unseen
  BY <1>1, Zenon DEF Unseen, Contract!contractVars
<1>2. ASSUME NEW c \in Calls, CallMethod(c) PROVE Contract!ContractNext
  BY <1>0, <1>2, CallStep, Zenon DEF Contract!ContractNext
<1>3. ASSUME NEW k \in Conns, Serve(k) PROVE Contract!ContractNext
  BY <1>3, ServeStep, Zenon DEF Contract!ContractNext
<1>4. ASSUME NEW c \in Calls, NEW next \in {{}} \cup {{x} : x \in Calls},
             Completes(c, next)
      PROVE  Contract!ContractNext
  <2>1. Contract!Complete(c, next)
    BY <1>0, <1>4, CompleteStep, Zenon
  <2> QED
    BY <2>1, Zenon DEF Contract!ContractNext
<1> QED
  BY <1>0, <1>1, <1>2, <1>3, <1>4, VisibleSteps, Zenon

(***************************************************************************)
(* Unless a torn response is followed by another connection, the client,   *)
(* its connections and the server keep RPCContract: a call is executed     *)
(* only after it was made, again only with auto_reconnect, and its closure *)
(* runs at most once, after it was executed.                               *)
(***************************************************************************)
THEOREM ClientKeepsContract ==
  ASSUME Sound
  PROVE  Spec => KeepsContract
<1>1. AnswersInv /\ [Next]_vars => AnswersInv'
  BY AnswersNext, Zenon
<1>2. AnswersInv /\ AnswersInv' /\ [Next]_vars
        => [Contract!ContractNext]_(Contract!contractVars)
  BY ContractStep, Zenon
<1>3. Init => Contract!ContractInit
  BY DEF Init, Contract!ContractInit
<1> QED
  BY <1>1, <1>2, <1>3, AnswersInit, PTL DEF Spec, KeepsContract, Contract!ContractSpec
=============================================================================
