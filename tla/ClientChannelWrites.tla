------------------------ MODULE ClientChannelWrites ------------------------
(***************************************************************************)
(* The requests ClientChannel writes: as long as no connection that may be *)
(* half closed or torn is replaced, what async_write has in its hands is   *)
(* the first RPCData of pending_, Written is told of that one, and before  *)
(* any part of its response is read.  So nothing that was deleted is used, *)
(* no write is taken for another, and the CHECKs of Written hold.          *)
(***************************************************************************)
EXTENDS ClientChannelProofs

USE DEF appVars, sessionVars, readVars, channelVars, asioVars, netVars

-----------------------------------------------------------------------------
(* The queue of RPCDatas and the write of its first *)

(* The RPCDatas of a queue have sessions, each is there once, and the first *)
(* is the one whose buffer was given to async_write.                        *)
Lined(q, heap, open) ==
  /\ Range(q) \subseteq open
  /\ \A i, j \in DOMAIN q : q[i] = q[j] => i = j
  /\ \A i \in DOMAIN q : heap[q[i]].is_pending <=> i = 1

(* WriteInLoop writes the first unless it was given away before. *)
LEMMA WriteInLoopLines ==
  ASSUME NEW n \in Int, NEW k \in Nat, NEW queue \in Seq(0..n),
         NEW heap \in [0..n -> RPCDatas], NEW started, NEW open,
         WriteInLoop(k, queue, heap, started),
         Range(queue) \subseteq open,
         \A i, j \in DOMAIN queue : queue[i] = queue[j] => i = j,
         \A i \in DOMAIN queue : i # 1 => ~heap[queue[i]].is_pending
  PROVE  /\ pending' = queue /\ Lined(pending', data', open)
         /\ \A o \in ops' :
              \/ o \in started
              \/ /\ queue # <<>> /\ ~heap[queue[1]].is_pending
                 /\ o = WriteOp(k, queue[1])
<1>0. pending' = queue
  BY Zenon DEF WriteInLoop
<1>1. \A i \in DOMAIN queue : queue[i] \in 0..n
  OBVIOUS
<1>2. queue # <<>> => 1 \in DOMAIN queue /\ Head(queue) = queue[1]
  OBVIOUS
<1>3. CASE queue # <<>> /\ ~heap[queue[1]].is_pending
  <2>1. PICK h, new : /\ h = queue[1]
                      /\ new = [heap[h] EXCEPT !.is_pending = TRUE, !.conn = k]
    BY Zenon
  <2>2. h \in 0..n /\ heap[h] \in RPCDatas
    BY <1>1, <1>2, <1>3, <2>1, Zenon
  <2>3. new.is_pending
    BY <2>1, <2>2, Zenon DEF RPCDatas
  <2>4. /\ data' = [heap EXCEPT ![h] = new]
        /\ ops' = started \cup {WriteOp(k, h)}
    BY <1>2, <1>3, <2>1, Zenon DEF WriteInLoop
  <2>5. data'[h] = new /\ \A d \in 0..n : d # h => data'[d] = heap[d]
    BY <2>2, <2>4, Zenon
  <2>6. \A i \in DOMAIN queue : data'[queue[i]].is_pending <=> i = 1
    <3>1. ASSUME NEW i \in DOMAIN queue, i # 1 PROVE ~data'[queue[i]].is_pending
      <4>1. queue[i] \in 0..n /\ queue[i] # h
        BY <1>1, <1>2, <1>3, <2>1, <3>1, Zenon
      <4>2. data'[queue[i]] = heap[queue[i]]
        BY <2>5, <4>1, Zenon
      <4> QED
        BY <3>1, <4>2, Zenon
    <3>2. data'[queue[1]].is_pending
      BY <2>1, <2>3, <2>5, Zenon
    <3> QED
      BY <3>1, <3>2, Zenon
  <2>7. \A o \in ops' : o \in started \/ o = WriteOp(k, queue[1])
    BY <2>1, <2>4, Zenon
  <2> QED
    BY <1>0, <1>3, <2>6, <2>7, Zenon DEF Lined
<1>4. CASE ~(queue # <<>> /\ ~heap[queue[1]].is_pending)
  <2>1. data' = heap /\ ops' = started
    BY <1>2, <1>4, Zenon DEF WriteInLoop
  <2>2. \A i \in DOMAIN queue : heap[queue[i]].is_pending <=> i = 1
    BY <1>2, <1>4
  <2> QED
    BY <1>0, <2>1, <2>2, Zenon DEF Lined
<1> QED
  BY <1>3, <1>4, Zenon

(* A write that has succeeded and whose Written is to run. *)
Succeeds(r) == r.h = "written" /\ ~r.err

(***************************************************************************)
(* Of the handlers that are to run at most one is of such a write, and it  *)
(* runs before the handler of the next connection and before the one that  *)
(* is given a part of the response to what was written.                    *)
(***************************************************************************)
InOrder(q) ==
  \A i, j \in DOMAIN q :
    /\ Succeeds(q[i]) /\ Succeeds(q[j]) => i = j
    /\ Succeeds(q[i]) /\ q[j].h = "connected" => i < j
    /\ Succeeds(q[i]) /\ q[j].h = "read" /\ PartIn(q[i].data, q[j].parts) => i < j

(* The first handler is taken from the queue, *)
LEMMA InOrderTail ==
  ASSUME NEW S, NEW q \in Seq(S), q # <<>>, InOrder(q)
  PROVE  /\ InOrder(Tail(q))
         /\ Succeeds(Head(q)) => \A r \in Range(Tail(q)) : ~Succeeds(r)
         /\ \A r \in Range(q) : Succeeds(r) =>
              /\ Head(q).h # "connected"
              /\ Head(q).h = "read" => ~PartIn(r.data, Head(q).parts)
         /\ \A r \in Range(Tail(q)) : r \in Range(q)
<1>1. /\ DOMAIN Tail(q) = 1..(Len(q) - 1) /\ DOMAIN q = 1..Len(q)
      /\ \A i \in DOMAIN Tail(q) : i + 1 \in DOMAIN q /\ Tail(q)[i] = q[i + 1]
      /\ \A i \in DOMAIN Tail(q) : i + 1 # 1
      /\ 1 \in DOMAIN q /\ q[1] = Head(q)
  BY TailPositions
<1>2. InOrder(Tail(q))
  <2> SUFFICES ASSUME NEW i \in DOMAIN Tail(q), NEW j \in DOMAIN Tail(q)
               PROVE  /\ Succeeds(Tail(q)[i]) /\ Succeeds(Tail(q)[j]) => i = j
                      /\ Succeeds(Tail(q)[i]) /\ Tail(q)[j].h = "connected" => i < j
                      /\ /\ Succeeds(Tail(q)[i]) /\ Tail(q)[j].h = "read"
                         /\ PartIn(Tail(q)[i].data, Tail(q)[j].parts)
                         => i < j
    BY Zenon DEF InOrder
  <2>1. /\ i + 1 \in DOMAIN q /\ j + 1 \in DOMAIN q
        /\ Tail(q)[i] = q[i + 1] /\ Tail(q)[j] = q[j + 1]
        /\ i \in Int /\ j \in Int
    BY <1>1
  <2>2. /\ Succeeds(q[i + 1]) /\ Succeeds(q[j + 1]) => i + 1 = j + 1
        /\ Succeeds(q[i + 1]) /\ q[j + 1].h = "connected" => i + 1 < j + 1
        /\ /\ Succeeds(q[i + 1]) /\ q[j + 1].h = "read"
           /\ PartIn(q[i + 1].data, q[j + 1].parts)
           => i + 1 < j + 1
    BY <2>1, Zenon DEF InOrder
  <2>3. (i + 1 = j + 1 => i = j) /\ (i + 1 < j + 1 => i < j)
    BY <2>1
  <2> QED
    BY <2>1, <2>2, <2>3, Zenon
<1>3. Succeeds(Head(q)) => \A r \in Range(Tail(q)) : ~Succeeds(r)
  BY <1>1, Zenon DEF InOrder, Range
<1>4. \A i \in DOMAIN q : ~(i < 1)
  BY <1>1
<1>5. ASSUME NEW r \in Range(q), Succeeds(r)
      PROVE  /\ Head(q).h # "connected"
             /\ Head(q).h = "read" => ~PartIn(r.data, Head(q).parts)
  <2>1. PICK i \in DOMAIN q : r = q[i]
    BY Zenon DEF Range
  <2> QED
    BY <1>1, <1>4, <1>5, <2>1, Zenon DEF InOrder
<1>6. \A r \in Range(Tail(q)) : r \in Range(q)
  BY <1>1, Zenon DEF Range
<1> QED
  BY <1>2, <1>3, <1>5, <1>6, Zenon

(* and others are put at its end. *)
LEMMA InOrderAppend ==
  ASSUME NEW S, NEW q \in Seq(S), InOrder(q), NEW x,
         Succeeds(x) =>
           \A r \in Range(q) : /\ ~Succeeds(r) /\ r.h # "connected"
                               /\ r.h = "read" => ~PartIn(x.data, r.parts)
  PROVE  /\ InOrder(Append(q, x))
         /\ \A r \in Range(Append(q, x)) : r \in Range(q) \/ r = x
         /\ \A r \in Range(q) : r \in Range(Append(q, x))
         /\ x \in Range(Append(q, x))
<1>1. PICK n : n = Len(q) + 1
  BY Zenon
<1>2. PICK t : t = Append(q, x)
  BY Zenon
<1>3. /\ DOMAIN t = (DOMAIN q) \cup {n} /\ n \notin DOMAIN q
      /\ \A i \in DOMAIN q : t[i] = q[i]
      /\ t[n] = x
  BY <1>1, <1>2, AppendPositions
<1>4. \A i \in DOMAIN q : i < n
  BY <1>1
<1>5. \A r \in Range(t) : r \in Range(q) \/ r = x
  BY <1>3, Zenon DEF Range
<1>6. (\A r \in Range(q) : r \in Range(t)) /\ x \in Range(t)
  BY <1>3, Zenon DEF Range
<1>7. \A i \in DOMAIN q : q[i] \in Range(q)
  BY Zenon DEF Range
<1>8. x.h \in {"connected", "read"} => ~Succeeds(x)
  BY Zenon DEF Succeeds
<1>9. InOrder(t)
  <2> SUFFICES ASSUME NEW i \in DOMAIN t, NEW j \in DOMAIN t
               PROVE  /\ Succeeds(t[i]) /\ Succeeds(t[j]) => i = j
                      /\ Succeeds(t[i]) /\ t[j].h = "connected" => i < j
                      /\ Succeeds(t[i]) /\ t[j].h = "read" /\ PartIn(t[i].data, t[j].parts)
                         => i < j
    BY Zenon DEF InOrder
  <2>1. CASE i \in DOMAIN q /\ j \in DOMAIN q
    BY <1>3, <2>1, Zenon DEF InOrder
  <2>2. CASE i \in DOMAIN q /\ j = n
    BY <1>3, <1>4, <1>7, <2>2, Zenon
  <2>3. CASE i = n /\ j \in DOMAIN q
    BY <1>3, <1>7, <2>3, Zenon
  <2>4. CASE i = n /\ j = n
    BY <1>3, <1>8, <2>4, Zenon
  <2> QED
    BY <1>3, <2>1, <2>2, <2>3, <2>4, Zenon
<1> QED
  BY <1>2, <1>5, <1>6, <1>9, Zenon

-----------------------------------------------------------------------------
(* The connections that are lost *)

(* All that arrived on connection k was read, and no more will. *)
Lost(k) == link[k] = "down" /\ s2c[k] = <<>>

(* Another connection is being made. *)
Attempt == ConnectOp \in ops \/ \E r \in Range(ready) : r.h = "connected"

LinkInv ==
  /\ \A k \in Conns : k < socket => Lost(k)
  /\ Attempt => socket \in Conns /\ Lost(socket)

(* What is lost stays so. *)
LEMMA LostStays ==
  ASSUME TypeOK, [Next]_vars, NEW k \in Conns, k <= socket, Lost(k)
  PROVE  Lost(k)'
<1>0. /\ link \in [Conns -> {"unborn", "up", "down"}] /\ s2c \in [Conns -> Seq(Parts)]
      /\ socket \in Nat /\ k \in Int
      /\ link[k] = "down" /\ s2c[k] = <<>>
  BY DEF TypeOK, Lost, Conns
<1>1. CASE s2c' = s2c /\ (link' = link \/ \E j : link' = [link EXCEPT ![j] = "down"])
  BY <1>0, <1>1, Zenon DEF Lost
<1>2. CASE s2c' = s2c /\ link' = [link EXCEPT ![socket + 1] = "up"]
  BY <1>0, <1>2 DEF Lost
<1>3. CASE link' = link /\ s2c'[k] = s2c[k]
  BY <1>0, <1>3, Zenon DEF Lost
<1>4. ASSUME NEW j \in Conns, CompleteRead(j) PROVE Lost(k)'
  <2>1. link' = link
    BY <1>4, Zenon DEF CompleteRead
  <2>2. ASSUME NEW n \in 1..Len(s2c[j]), NEW t, s2c' = [s2c EXCEPT ![j] = t]
        PROVE  s2c'[k] = s2c[k]
    <3>1. j # k
      BY <1>0, <2>2
    <3> QED
      BY <1>0, <2>2, <3>1, Zenon
  <2>3. s2c'[k] = s2c[k]
    BY <1>4, <2>2, Zenon DEF CompleteRead
  <2> QED
    BY <1>3, <2>1, <2>3, Zenon
<1>5. ASSUME NEW j \in Conns, Serve(j) PROVE Lost(k)'
  <2>1. link' = link
    BY <1>5, Zenon DEF Serve
  <2>2. s2c' = s2c \/ (link[j] = "up" /\ \E t : s2c' = [s2c EXCEPT ![j] = t])
    BY <1>5, Zenon DEF Serve
  <2>3. s2c'[k] = s2c[k]
    BY <1>0, <2>2, Zenon
  <2> QED
    BY <1>3, <2>1, <2>3, Zenon
<1>6. ASSUME NEW j \in Conns, Break(j) PROVE Lost(k)'
  <2>1. link[j] = "up" /\ link' = [link EXCEPT ![j] = "down"]
    BY <1>6, Zenon DEF Break
  <2>2. s2c'[k] = s2c[k]
    BY <1>0, <1>6, <2>1, BreakLeaves, Zenon
  <2> QED
    BY <1>0, <2>1, <2>2, Zenon DEF Lost
<1>7. CASE RunSend \/ RunWritten \/ RunRead \/ RunConnected \/ RunTerminate
  BY <1>1, <1>7, Zenon
     DEF RunSend, RunWritten, RunRead, RunConnected, RunTerminate
<1>8. CASE \/ ReadHead \/ ReadSplitHead \/ ReadPiece \/ ReadBody \/ ReadMisfit
           \/ TouchFreed \/ UNCHANGED vars
  BY <1>1, <1>8, Zenon
     DEF ReadHead, ReadSplitHead, ReadPiece, ReadBody, ReadMisfit, TouchFreed, vars
<1>9. ASSUME NEW j, NEW d,
             CallMethod(j) \/ Destroy \/ CompleteWrite(j, d) \/ ConnectFails \/ ServeMixed(j)
      PROVE  Lost(k)'
  <2>1. s2c' = s2c /\ link' = link
    BY <1>9, Zenon DEF CallMethod, Destroy, CompleteWrite, ConnectFails, ServeMixed
  <2> QED
    BY <1>1, <2>1, Zenon
<1>10. CASE ConnectSucceeds
  BY <1>2, <1>10, Zenon DEF ConnectSucceeds
<1> QED
  BY <1>4, <1>5, <1>6, <1>7, <1>8, <1>9, <1>10, Zenon DEF Next, LoopThread

(* An attempt to connect begins when a read has failed. *)
LEMMA AttemptFrom ==
  ASSUME TypeOK, [Next]_vars, Attempt'
  PROVE  Attempt \/ (RunRead /\ ~terminated /\ Head(ready).err)
<1> SUFFICES ASSUME ~Attempt PROVE RunRead /\ ~terminated /\ Head(ready).err
  BY Zenon
<1>1. /\ ConnectOp \notin ops
      /\ \A r \in Range(ready) : r.h # "connected"
  BY Zenon DEF Attempt
<1>2. ~RunConnected
  <2> SUFFICES ASSUME RunConnected PROVE FALSE
    BY Zenon
  <2>1. ready # <<>> /\ Head(ready).h = "connected" /\ ready \in Seq(Handlers)
    BY Zenon DEF RunConnected, Runs, TypeOK
  <2>2. Head(ready) \in Range(ready)
    BY <2>1, TailPositions, Zenon DEF Range
  <2> QED
    BY <1>1, <2>1, <2>2, Zenon
<1>3. ~ConnectSucceeds /\ ~ConnectFails
  BY <1>1, Zenon DEF ConnectSucceeds, ConnectFails
<1>4. \A o : o = ConnectOp => o.op = "connect"
  BY DEF ConnectOp
<1>5. /\ ConnectOp \in ops' <=> ConnectOp \in Waits'
      /\ ConnectOp \in ops <=> ConnectOp \in Waits
  BY <1>4, Zenon DEF Waits
<1>6. ASSUME NEW rest PROVE ConnectOp \notin Started(rest)
  BY <1>1, <1>4 DEF Started, ReadOp
<1>7. ASSUME RunTerminate \/ ReadHead \/ ReadPiece PROVE ConnectOp \notin ops'
  BY <1>1, <1>6, <1>7, Zenon DEF RunTerminate, ReadHead, ReadPiece
<1>8. ASSUME ReadBody \/ ReadMisfit PROVE ConnectOp \notin ops'
  <2>1. ASSUME NEW rest, ops' = Started(rest) \/ ops' = ops
        PROVE  ConnectOp \notin ops'
    BY <1>1, <1>6, <2>1, Zenon
  <2>2. ASSUME NEW rest, NEW k, NEW queue, NEW heap,
               WriteInLoop(k, queue, heap, Started(rest))
        PROVE  ConnectOp \notin ops'
    BY <1>5, <1>6, <2>2, WriteInLoopWaits, Zenon
  <2>3. ASSUME NEW x, NEW content, NEW rest, ReceivePackage(x, content, Started(rest))
        PROVE  ConnectOp \notin ops'
    BY <2>1, <2>2, <2>3, Zenon DEF ReceivePackage, SendInLoop
  <2> QED
    BY <1>8, <2>1, <2>3, Zenon DEF ReadBody, ReadMisfit
<1>9. ASSUME NEW k, NEW d,
             \/ CallMethod(k) \/ Destroy \/ RunSend \/ RunWritten \/ TouchFreed
             \/ ReadSplitHead \/ CompleteWrite(k, d) \/ ServeMixed(k)
      PROVE  ConnectOp \notin ops'
  BY <1>1, <1>5, <1>9, OthersWait, Zenon
<1>10. ASSUME NEW k, CompleteRead(k) \/ Serve(k) \/ Break(k) \/ UNCHANGED vars
       PROVE  ConnectOp \notin ops'
  <2>1. \A o \in ops' : o \in ops
    BY <1>10, Zenon DEF CompleteRead, Serve, Break, vars
  <2> QED
    BY <1>1, <2>1, Zenon
<1>11. CASE ConnectOp \in ops'
  <2>1. RunRead
    BY <1>2, <1>3, <1>7, <1>8, <1>9, <1>10, <1>11, Zenon DEF Next, LoopThread
  <2> QED
    BY <1>1, <1>11, <2>1, Zenon DEF RunRead
<1>12. ASSUME NEW r \in Range(ready') PROVE r.h # "connected"
  <2>1. CASE r \in Range(ready)
    BY <1>1, <2>1, Zenon
  <2>2. ASSUME Post(r), NEW k \in Conns, CompleteRead(k)
        PROVE  r.h # "connected"
    <3>0. \A e, q : [h |-> "read", err |-> e, parts |-> q].h = "read"
      BY Zenon
    <3>1. PICK x : Post(x) /\ x.h = "read"
      BY <2>2, <3>0, Zenon DEF CompleteRead
    <3> QED
      BY <2>2, <3>1, PostIsOne, Zenon
  <2>3. CASE Post(r) /\ ~\E k \in Conns : CompleteRead(k)
    <3>1. ~Reads(r)
      BY <1>3, <2>3, OthersPost, Zenon DEF Next, LoopThread
    <3> QED
      BY <3>1, Zenon DEF Reads
  <2> QED
    BY <2>1, <2>2, <2>3, ReadyFrom, Zenon
<1> QED
  BY <1>11, <1>12, Zenon DEF Attempt

(* The step that takes the next connection. *)
Reconnects == RunConnected /\ socket' # socket

LEMMA SocketStays ==
  ASSUME [Next]_vars
  PROVE  socket' = socket \/ Reconnects
<1>1. CASE RunSend \/ RunWritten \/ RunRead \/ RunTerminate \/ RunConnected
  BY <1>1, Zenon
     DEF RunSend, RunWritten, RunRead, RunTerminate, Reconnects
<1>2. CASE \/ ReadHead \/ ReadSplitHead \/ ReadPiece \/ ReadBody \/ ReadMisfit
           \/ TouchFreed \/ UNCHANGED vars
  BY <1>2, Zenon
     DEF ReadHead, ReadSplitHead, ReadPiece, ReadBody, ReadMisfit, TouchFreed, vars
<1>3. ASSUME NEW k, NEW d,
             \/ CallMethod(k) \/ Destroy \/ CompleteRead(k) \/ CompleteWrite(k, d)
             \/ ConnectSucceeds \/ ConnectFails \/ Serve(k) \/ ServeMixed(k) \/ Break(k)
      PROVE  socket' = socket
  BY <1>3, Zenon DEF CallMethod, Destroy, CompleteRead, CompleteWrite,
     ConnectSucceeds, ConnectFails, Serve, ServeMixed, Break
<1> QED
  BY <1>1, <1>2, <1>3, Zenon DEF Next, LoopThread

(* It finds nothing of the last connection but writes. *)
LEMMA ReconnectsFinds ==
  ASSUME TypeOK, ReaderInv, Reconnects
  PROVE  /\ ~terminated /\ socket' = socket + 1 /\ socket \in Conns
         /\ SendPendingSessions(ops \cup {ReadOp(socket + 1)})
         /\ ready # <<>> /\ ready' = Tail(ready)
         /\ Waits = {} /\ Arrived = {Head(ready)} /\ Head(ready).h = "connected"
         /\ Waits' = {ReadOp(socket + 1)} /\ Arrived' = {}
         /\ Ends /\ inbuf = <<>> /\ partial.state = "none"
         /\ UNCHANGED <<seq, sessions, inbuf, partial, link, c2s, s2c>>
<1>1. /\ UNCHANGED <<seq, sessions, inbuf, partial, c2s, s2c>>
      /\ ready # <<>> /\ ready' = Tail(ready) /\ Head(ready).h = "connected"
  BY Zenon DEF Reconnects, RunConnected, Runs
<1>2. /\ ~terminated /\ RebuildSocket /\ link' = link
      /\ SendPendingSessions(ops \cup {ReadOp(socket + 1)})
  BY Zenon DEF Reconnects, RunConnected
<1>3. SoleRead(ready) /\ Ends /\ Reader
  BY <1>2, Zenon DEF ReaderInv
<1>4. Arrived = {Head(ready)} /\ Arrived' = {}
  BY <1>1, <1>3, ReadyTaken, Zenon DEF Reads
<1>5. Waits = {} /\ inbuf = <<>> /\ Replacing
  BY <1>1, <1>3, <1>4, UnderWay, Zenon DEF HasConnected
<1>6. Waits' = {o \in ops \cup {ReadOp(socket + 1)} : o.op # "write"}
  BY <1>2, WriteInLoopWaits, Zenon DEF SendPendingSessions
<1>7. Waits' = {ReadOp(socket + 1)}
  BY <1>5, <1>6 DEF Waits, ReadOp
<1>8. socket' = socket + 1 /\ socket \in Conns /\ partial.state = "none"
  BY <1>2, <1>3, <1>5, Zenon DEF RebuildSocket, Ends, Replacing
<1> QED
  BY <1>1, <1>2, <1>3, <1>4, <1>5, <1>7, <1>8, Zenon

(* An attempt to connect has a lost connection before it. *)
LEMMA LinkNext ==
  ASSUME TypeOK, ReaderInv, LinkInv, [Next]_vars
  PROVE  LinkInv'
<1>0. socket \in Nat /\ \A k \in Conns : k \in Int
  BY DEF TypeOK, Conns
<1>1. Conns' = Conns
  BY Zenon DEF Conns
<1>2. CASE Reconnects
  <2>1. /\ socket' = socket + 1 /\ socket \in Conns /\ ready \in Seq(Handlers)
        /\ Arrived = {Head(ready)} /\ Head(ready).h = "connected"
        /\ Waits' = {ReadOp(socket + 1)} /\ Arrived' = {}
    BY <1>2, ReconnectsFinds, Zenon DEF TypeOK
  <2>2. Lost(socket)
    BY <2>1, Zenon DEF LinkInv, Attempt, Arrived
  <2>3. ASSUME NEW k \in Conns, k < socket + 1 PROVE Lost(k)'
    <3>1. k <= socket /\ (k < socket \/ k = socket)
      BY <1>0, <2>3
    <3>2. Lost(k)
      BY <2>2, <3>1, Zenon DEF LinkInv
    <3> QED
      BY <3>1, <3>2, LostStays, Zenon
  <2>4. ~Attempt'
    <3>1. ConnectOp \notin ops'
      BY <2>1 DEF Waits, ConnectOp, ReadOp
    <3>2. \A r \in Range(ready') : r.h # "connected"
      BY <2>1, Zenon DEF Arrived, Reads
    <3> QED
      BY <3>1, <3>2, Zenon DEF Attempt
  <2> QED
    BY <1>1, <2>1, <2>3, <2>4, Zenon DEF LinkInv
<1>3. CASE socket' = socket
  <2>1. ASSUME NEW k \in Conns, k < socket PROVE Lost(k)'
    <3>1. k <= socket /\ Lost(k)
      BY <1>0, <2>1 DEF LinkInv
    <3> QED
      BY <3>1, LostStays, Zenon
  <2>2. ASSUME Attempt' PROVE socket \in Conns /\ Lost(socket)'
    <3>1. CASE Attempt
      <4>1. PICK s : s = socket
        BY Zenon
      <4>2. s \in Conns /\ s <= socket /\ Lost(s)
        BY <1>0, <3>1, <4>1 DEF LinkInv
      <4>3. Lost(s)'
        BY <4>2, LostStays, Zenon
      <4> QED
        BY <1>3, <4>1, <4>2, <4>3, Zenon DEF Lost
    <3>2. CASE RunRead /\ ~terminated /\ Head(ready).err
      <4>1. /\ ready # <<>> /\ ready' = Tail(ready) /\ Head(ready).h = "read"
            /\ UNCHANGED <<link, s2c>>
        BY <3>2, Zenon DEF RunRead, Runs
      <4>2. SoleRead(ready) /\ Ends /\ Reader
        BY <3>2, Zenon DEF ReaderInv
      <4>3. Arrived = {Head(ready)}
        BY <4>1, <4>2, ReadyTaken, Zenon DEF Reads
      <4>4. ReadFailed
        BY <3>2, <4>1, <4>2, <4>3, UnderWay, Zenon DEF HasRead
      <4> QED
        BY <1>3, <4>1, <4>2, <4>4, Zenon DEF ReadFailed, Lost, Ends
    <3> QED
      BY <2>2, <3>1, <3>2, AttemptFrom, Zenon
  <2> QED
    BY <1>1, <1>3, <2>1, <2>2, Zenon DEF LinkInv
<1> QED
  BY <1>2, <1>3, SocketStays, Zenon

-----------------------------------------------------------------------------
(* What the present connection was given and has not finished answering *)

Sent(d) == Flies(d) \/ Carries(socket, d)

(* What a connection carries was there before or has just been written. *)
LEMMA CarriesSince ==
  ASSUME TypeOK, [Next]_vars, NEW k, NEW d, Carries(k, d)'
  PROVE  Carries(k, d) \/ (CompleteWrite(k, d) /\ c2s' # c2s)
<1>0. /\ c2s \in [Conns -> Seq(Requests)] /\ k \in Conns
      /\ \E i \in DOMAIN c2s'[k] : c2s'[k][i].seq = d
  BY Zenon DEF Carries, TypeOK, Conns
<1>1. ASSUME c2s'[k] = c2s[k] PROVE Carries(k, d)
  BY <1>0, <1>1, Zenon DEF Carries
<1>2. ASSUME NEW j \in Conns, Serve(j) \/ ServeMixed(j) PROVE Carries(k, d)
  <2>1. c2s[j] # <<>> /\ c2s' = [c2s EXCEPT ![j] = Tail(@)]
    BY <1>2, Zenon DEF Serve, ServeMixed
  <2>2. CASE j # k
    <3>1. \E t : c2s' = [c2s EXCEPT ![j] = t]
      BY <2>1, Zenon
    <3>2. c2s'[k] = c2s[k]
      BY <1>0, <2>2, <3>1, Zenon
    <3> QED
      BY <1>1, <3>2, Zenon
  <2>3. CASE j = k
    <3>1. c2s'[k] = Tail(c2s[k]) /\ c2s[k] # <<>> /\ c2s[k] \in Seq(Requests)
      BY <1>0, <2>1, <2>3, Zenon
    <3>2. \A i \in DOMAIN Tail(c2s[k]) :
            i + 1 \in DOMAIN c2s[k] /\ Tail(c2s[k])[i] = c2s[k][i + 1]
      BY <3>1, TailPositions, Zenon
    <3> QED
      BY <1>0, <3>1, <3>2, Zenon DEF Carries
  <2> QED
    BY <2>2, <2>3, Zenon
<1>3. ASSUME NEW j \in Conns, NEW e, CompleteWrite(j, e)
      PROVE  Carries(k, d) \/ (CompleteWrite(k, d) /\ c2s' # c2s)
  <2>1. CASE c2s' = c2s
    BY <1>1, <2>1, Zenon
  <2>2. ASSUME NEW x, x.seq = e, c2s' = [c2s EXCEPT ![j] = Append(@, x)]
        PROVE  Carries(k, d) \/ (CompleteWrite(k, d) /\ c2s' # c2s)
    <3>1. CASE j # k
      BY <1>0, <1>1, <2>2, <3>1, Zenon
    <3>2. CASE j = k
      <4>1. c2s'[k] = Append(c2s[k], x) /\ c2s[k] \in Seq(Requests)
        BY <1>0, <2>2, <3>2, Zenon
      <4>2. PICK n : n = Len(c2s[k]) + 1
        BY Zenon
      <4>3. /\ DOMAIN Append(c2s[k], x) = (DOMAIN c2s[k]) \cup {n}
            /\ \A i \in DOMAIN c2s[k] : Append(c2s[k], x)[i] = c2s[k][i]
            /\ Append(c2s[k], x)[n] = x /\ n \notin DOMAIN c2s[k]
        BY <4>1, <4>2, AppendPositions, Zenon
      <4>4. c2s' # c2s
        BY <4>1, <4>3, Zenon
      <4>5. Carries(k, d) \/ d = x.seq
        BY <1>0, <4>1, <4>3, Zenon DEF Carries
      <4> QED
        BY <1>3, <2>2, <3>2, <4>4, <4>5, Zenon
    <3> QED
      BY <3>1, <3>2, Zenon
  <2>3. \A w : [seq |-> e, call |-> data[e].call, whole |-> w].seq = e
    BY Zenon
  <2>4. CASE c2s' # c2s
    <3>1. \E x : x.seq = e /\ c2s' = [c2s EXCEPT ![j] = Append(@, x)]
      BY <1>3, <2>3, <2>4, Zenon DEF CompleteWrite
    <3> QED
      BY <2>2, <3>1, Zenon
  <2> QED
    BY <2>1, <2>4, Zenon
<1>4. CASE RunSend \/ RunWritten \/ RunRead \/ RunConnected \/ RunTerminate
  BY <1>1, <1>4, Zenon
     DEF RunSend, RunWritten, RunRead, RunConnected, RunTerminate
<1>5. CASE \/ ReadHead \/ ReadSplitHead \/ ReadPiece \/ ReadBody \/ ReadMisfit
           \/ TouchFreed \/ UNCHANGED vars
  BY <1>1, <1>5, Zenon
     DEF ReadHead, ReadSplitHead, ReadPiece, ReadBody, ReadMisfit, TouchFreed, vars
<1>6. ASSUME NEW j, \/ CallMethod(j) \/ Destroy \/ CompleteRead(j)
                    \/ ConnectSucceeds \/ ConnectFails \/ Break(j)
      PROVE  Carries(k, d)
  <2>1. c2s' = c2s
    BY <1>6, Zenon DEF CallMethod, Destroy, CompleteRead, ConnectSucceeds,
       ConnectFails, Break
  <2> QED
    BY <1>1, <2>1, Zenon
<1> QED
  BY <1>2, <1>3, <1>4, <1>5, <1>6, Zenon DEF Next, LoopThread

(* The server answers on a connection that was not lost. *)
LEMMA SentSince ==
  ASSUME TypeOK, OnceInv, LinkInv, [Next]_vars, socket' = socket, NEW d, Sent(d)'
  PROVE  Sent(d) \/ (socket \in Conns /\ CompleteWrite(socket, d) /\ c2s' # c2s)
<1>1. CASE Carries(socket, d)'
  <2>1. PICK s : s = socket
    BY Zenon
  <2>2. Carries(s, d)' /\ s \in Conns
    BY <1>1, <2>1, Zenon DEF Carries, Conns
  <2>3. Carries(s, d) \/ (CompleteWrite(s, d) /\ c2s' # c2s)
    BY <2>2, CarriesSince, Zenon
  <2> QED
    BY <2>1, <2>2, <2>3, Zenon DEF Sent
<1>2. CASE Flies(d)'
  <2>1. ASSUME NEW k \in Conns, Serve(k), d = Head(c2s[k]).seq
        PROVE  Sent(d)
    <3>1. CASE link[k] # "up"
      <4>1. UNCHANGED <<s2c, inbuf, ready, partial>>
        BY <2>1, <3>1, Zenon DEF Serve
      <4>2. \/ \E j \in Conns : PartIn(d, s2c'[j])
            \/ PartIn(d, inbuf')
            \/ \E r \in Range(ready') : r.h = "read" /\ PartIn(d, r.parts)
            \/ partial'.state = "head" /\ partial'.seq = d
        BY <1>2, Zenon DEF Flies, PartIn, Range
      <4>3. Flies(d)
        BY <4>1, <4>2, Zenon DEF Flies
      <4> QED
        BY <4>3, Zenon DEF Sent
    <3>2. CASE link[k] = "up"
      <4>0. k \in Int /\ socket \in Int
        BY DEF TypeOK, Conns
      <4>1. c2s[k] # <<>> /\ c2s[k] \in Seq(Requests)
        BY <2>1, Zenon DEF Serve, TypeOK
      <4>2. 1 \in DOMAIN c2s[k] /\ c2s[k][1].seq = d
        BY <2>1, <4>1
      <4>3. k <= socket
        BY <4>2, Zenon DEF OnceInv, WrittenOnce, Written
      <4>4. ~(k < socket)
        BY <3>2, Zenon DEF LinkInv, Lost
      <4>5. k = socket
        BY <4>0, <4>3, <4>4
      <4> QED
        BY <4>2, <4>5, Zenon DEF Sent, Carries
    <3> QED
      BY <3>1, <3>2, Zenon
  <2> QED
    BY <1>2, <2>1, FliesSince, Zenon DEF Sent
<1> QED
  BY <1>1, <1>2, Zenon DEF Sent

(* What the present connection was given stays so. *)
LEMMA GivenStays ==
  ASSUME TypeOK, CallInOnePlace, [Next]_vars, socket' = socket,
         NEW d \in 0..(seq - 1), data[d].conn = socket
  PROVE  d \in 0..(seq' - 1) /\ data'[d].conn = socket
<1>0. seq \in Nat /\ socket \in Nat
  BY Zenon DEF TypeOK
<1>1. ASSUME Local PROVE d \in 0..(seq' - 1) /\ data'[d].conn = socket
  <2>1. d \in 0..(seq' - 1)
    BY <1>0, <1>1 DEF Local
  <2> QED
    BY <1>1, <2>1, Zenon DEF Local, GivenNow
<1>2. ASSUME UNCHANGED <<seq, data>> PROVE d \in 0..(seq' - 1) /\ data'[d].conn = socket
  BY <1>2, Zenon
<1>3. CASE RunConnected
  <2>1. ~Renewed
    BY <1>0 DEF Renewed
  <2> QED
    BY <1>1, <1>3, <2>1, RunConnectedIs, Zenon
<1>4. CASE LoopThread
  BY <1>1, <1>3, <1>4, LocalSteps, RunSendLocal, RunWrittenLocal, ReadLocal, Zenon
     DEF LoopThread
<1>5. ASSUME NEW k, \/ CallMethod(k) \/ Destroy \/ CompleteRead(k) \/ Break(k)
                    \/ ConnectSucceeds \/ ConnectFails
      PROVE  d \in 0..(seq' - 1) /\ data'[d].conn = socket
  BY <1>1, <1>5, LocalSteps, Zenon
<1>6. ASSUME NEW k, NEW e, CompleteWrite(k, e) \/ Serve(k) \/ ServeMixed(k) \/ UNCHANGED vars
      PROVE  d \in 0..(seq' - 1) /\ data'[d].conn = socket
  <2>1. UNCHANGED <<seq, data>>
    BY <1>6, Zenon DEF CompleteWrite, Serve, ServeMixed, vars
  <2> QED
    BY <1>2, <2>1, Zenon
<1> QED
  BY <1>4, <1>5, <1>6, ZenonT(40) DEF Next

(* A new connection has neither requests nor responses on it. *)
LEMMA NewlySent ==
  ASSUME TypeOK, OnceInv, ReaderInv, LinkInv, Reconnects, NEW d
  PROVE  ~Sent(d)'
<1>1. /\ socket' = socket + 1 /\ socket \in Conns /\ Ends
      /\ Arrived = {Head(ready)} /\ Head(ready).h = "connected" /\ Arrived' = {}
      /\ inbuf = <<>> /\ partial.state = "none"
      /\ UNCHANGED <<inbuf, partial, c2s, s2c>>
  BY ReconnectsFinds, Zenon
<1>2. socket \in Int /\ \A k \in Conns : k \in Int
  BY DEF TypeOK, Conns
<1>3. ASSUME NEW k \in Conns PROVE s2c[k] = <<>>
  <2>1. Lost(socket)
    BY <1>1, Zenon DEF LinkInv, Attempt, Arrived
  <2>2. k < socket \/ k = socket \/ ~(k <= socket)
    BY <1>2
  <2> QED
    BY <1>1, <2>1, <2>2, Zenon DEF LinkInv, Lost, Ends
<1>4. ASSUME NEW r \in Range(ready') PROVE r.h # "read"
  BY <1>1, Zenon DEF Arrived, Reads
<1>5. ~Flies(d)'
  <2>1. Flies(d)' => \/ \E k \in Conns : PartIn(d, s2c'[k])
                     \/ PartIn(d, inbuf')
                     \/ \E r \in Range(ready') : r.h = "read" /\ PartIn(d, r.parts)
                     \/ partial'.state = "head" /\ partial'.seq = d
    BY Zenon DEF Flies, PartIn, Range
  <2> QED
    BY <1>1, <1>3, <1>4, <2>1, NothingIn, Zenon
<1>6. ~Carries(socket + 1, d)
  <2>1. ASSUME NEW i \in DOMAIN c2s[socket + 1], socket + 1 \in Conns PROVE FALSE
    <3>1. socket + 1 <= socket
      BY <2>1, Zenon DEF OnceInv, WrittenOnce, Written
    <3> QED
      BY <1>2, <3>1
  <2> QED
    BY <2>1, Zenon DEF Carries
<1> QED
  BY <1>1, <1>5, <1>6, Zenon DEF Sent, Carries

GivenInv == \A d : Sent(d) => d \in 0..(seq - 1) /\ data[d].conn = socket

(* The server answers what this connection was given. *)
LEMMA GivenNext ==
  ASSUME TypeOK, CallInOnePlace, OnceInv, ReaderInv, LinkInv, GivenInv, [Next]_vars
  PROVE  GivenInv'
<1> SUFFICES ASSUME NEW d, Sent(d)' PROVE d \in 0..(seq' - 1) /\ data'[d].conn = socket'
  BY Zenon DEF GivenInv
<1>1. socket' = socket
  BY NewlySent, SocketStays, Zenon
<1>2. CASE Sent(d)
  BY <1>1, <1>2, GivenStays, Zenon DEF GivenInv
<1>3. CASE CompleteWrite(socket, d)
  <2>1. WriteOp(socket, d) \in ops /\ UNCHANGED <<seq, data>>
    BY <1>3, Zenon DEF CompleteWrite
  <2> QED
    BY <1>1, <2>1, WriteOpGiven, Zenon DEF OnceInv
<1> QED
  BY <1>1, <1>2, <1>3, SentSince, Zenon

-----------------------------------------------------------------------------
(* The handlers that are to run *)

(* No connection that may be half closed or torn is replaced. *)
Orderly == ~AutoReconnect \/ ("torn" \notin Faults /\ "halfclose" \notin Faults)

(* What a write that has succeeded posts. *)
Success(d) == [h |-> "written", err |-> FALSE, data |-> d]

LEMMA SuccessIs == \A d : Succeeds(Success(d)) /\ Success(d).data = d
BY Zenon DEF Succeeds, Success

(* A write fails, or it was on the present connection and no other is being made. *)
LEMMA CompleteWriteIs ==
  ASSUME TypeOK, Orderly, Kept, OnceInv, LinkInv, NEW k \in Conns, NEW d,
         CompleteWrite(k, d)
  PROVE  \/ c2s' = c2s /\ \E x : Post(x) /\ ~Succeeds(x)
         \/ /\ k = socket /\ Post(Success(d))
            /\ \A r \in Range(ready) : r.h # "connected"
<1>1. k \in 1..socket /\ socket \in Nat
  BY WriteOpGiven, Zenon DEF CompleteWrite, OnceInv, TypeOK
<1>2. CASE link[k] = "up" /\ Post(Success(d))
  <2>1. k = socket
    BY <1>1, <1>2 DEF LinkInv, Lost
  <2>2. ~Attempt
    BY <1>2, <2>1, Zenon DEF LinkInv, Lost
  <2> QED
    BY <1>2, <2>1, <2>2, Zenon DEF Attempt
<1>3. CASE k = socket /\ "halfclose" \in Faults /\ Post(Success(d))
  BY <1>3, Zenon DEF Orderly, Kept
<1>4. CASE Post([h |-> "written", err |-> TRUE, data |-> d]) /\ c2s' = c2s
  <2>1. \A x : x = [h |-> "written", err |-> TRUE, data |-> d] => ~Succeeds(x)
    BY DEF Succeeds
  <2> QED
    BY <1>4, <2>1, Zenon
<1> QED
  BY <1>2, <1>3, <1>4, Zenon DEF CompleteWrite, Success

(* How a step changes the queue of the io_service. *)
LEMMA ReadySteps ==
  ASSUME [Next]_vars
  PROVE  \/ ready' = ready
         \/ /\ ready # <<>> /\ ready' = Tail(ready)
            /\ Succeeds(Head(ready)) => RunWritten
         \/ \E x : Post(x) /\ ~Succeeds(x)
         \/ \E k \in Conns : \E d \in 0..(seq - 1) : CompleteWrite(k, d)
<1>1. CASE RunSend \/ RunWritten \/ RunRead \/ RunConnected \/ RunTerminate
  <2>1. \/ RunWritten
        \/ /\ ready # <<>> /\ ready' = Tail(ready)
           /\ Head(ready).h \in {"send", "read", "connected", "terminate"}
    BY <1>1, Zenon DEF RunSend, RunRead, RunConnected, RunTerminate, Runs
  <2>2. RunWritten => ready # <<>> /\ ready' = Tail(ready)
    BY Zenon DEF RunWritten, Runs
  <2> QED
    BY <2>1, <2>2, Zenon DEF Succeeds
<1>2. CASE \/ ReadHead \/ ReadSplitHead \/ ReadPiece \/ ReadBody \/ ReadMisfit
           \/ TouchFreed \/ UNCHANGED vars
  BY <1>2, Zenon
     DEF ReadHead, ReadSplitHead, ReadPiece, ReadBody, ReadMisfit, TouchFreed, vars
<1>3. ASSUME NEW k, \/ CallMethod(k) \/ Destroy \/ CompleteRead(k)
                    \/ ConnectSucceeds \/ ConnectFails
      PROVE  \E x : Post(x) /\ ~Succeeds(x)
  <2>1. /\ \A c : ~Succeeds([h |-> "send", call |-> c])
        /\ ~Succeeds([h |-> "terminate"])
        /\ \A e, q : ~Succeeds([h |-> "read", err |-> e, parts |-> q])
        /\ \A e : ~Succeeds([h |-> "connected", err |-> e])
    BY Zenon DEF Succeeds
  <2> QED
    BY <1>3, <2>1, Zenon
       DEF CallMethod, Destroy, CompleteRead, ConnectSucceeds, ConnectFails
<1>4. ASSUME NEW k, Serve(k) \/ ServeMixed(k) \/ Break(k) PROVE ready' = ready
  BY <1>4, Zenon DEF Serve, ServeMixed, Break
<1> QED
  BY <1>1, <1>2, <1>3, <1>4, Zenon DEF Next, LoopThread

HandlersInv == InOrder(ready)

OnSocket(o) == o.op = "write" /\ o.conn = socket

(* A write succeeds in this step: of the first RPCData of the queue, which *)
(* nobody has answered, with nothing before it that matters or under way.  *)
NewSuccess(d) ==
  /\ Post(Success(d))
  /\ \A r \in Range(ready) : ~Succeeds(r) /\ r.h # "connected"
  /\ ~Flies(d)
  /\ pending # <<>> /\ d = pending[1]
  /\ \A o \in ops' : ~OnSocket(o)

(* What is true of the handlers after a step. *)
LEMMA HandlersStep ==
  ASSUME TypeOK, HandlersInv, [Next]_vars,
         \A k \in Conns : \A d \in 0..(seq - 1) : CompleteWrite(k, d) =>
           \/ \E x : Post(x) /\ ~Succeeds(x)
           \/ k = socket /\ NewSuccess(d)
  PROVE  /\ InOrder(ready')
         /\ \A r \in Range(ready') : Succeeds(r) =>
              \/ r \in Range(ready)
              \/ \E d \in 0..(seq - 1) : CompleteWrite(socket, d) /\ NewSuccess(d)
                                         /\ r = Success(d)
         /\ \A r \in Range(ready) : Succeeds(r) =>
              r \in Range(ready') \/ (RunWritten /\ r = Head(ready))
<1>0. ready \in Seq(Handlers) /\ InOrder(ready)
  BY Zenon DEF TypeOK, HandlersInv
<1>1. CASE ready' = ready
  BY <1>0, <1>1, Zenon
<1>2. CASE /\ ready # <<>> /\ ready' = Tail(ready)
           /\ Succeeds(Head(ready)) => RunWritten
  <2>1. InOrder(Tail(ready)) /\ \A r \in Range(Tail(ready)) : r \in Range(ready)
    BY <1>0, <1>2, InOrderTail, Zenon
  <2>2. \A r \in Range(ready) : r = Head(ready) \/ r \in Range(Tail(ready))
    BY <1>0, <1>2, HeadOrTail, Zenon
  <2> QED
    BY <1>2, <2>1, <2>2, Zenon
<1>3. ASSUME NEW x, Post(x), ~Succeeds(x)
      PROVE  /\ InOrder(ready')
             /\ \A r \in Range(ready') : Succeeds(r) => r \in Range(ready)
             /\ \A r \in Range(ready) : r \in Range(ready')
  BY <1>0, <1>3, InOrderAppend DEF Post
<1>4. ASSUME NEW d \in 0..(seq - 1), CompleteWrite(socket, d), NewSuccess(d)
      PROVE  /\ InOrder(ready')
             /\ \A r \in Range(ready') : r \in Range(ready) \/ r = Success(d)
             /\ \A r \in Range(ready) : r \in Range(ready')
  <2>1. PICK x : x = Success(d)
    BY Zenon
  <2>2. x.data = d /\ ready' = Append(ready, x)
    BY <1>4, <2>1, SuccessIs, Zenon DEF NewSuccess, Post
  <2>3. \A r \in Range(ready) : /\ ~Succeeds(r) /\ r.h # "connected"
                                /\ r.h = "read" => ~PartIn(x.data, r.parts)
    BY <1>4, <2>2, Zenon DEF NewSuccess, Flies
  <2>4. /\ InOrder(Append(ready, x))
        /\ \A r \in Range(Append(ready, x)) : r \in Range(ready) \/ r = x
        /\ \A r \in Range(ready) : r \in Range(Append(ready, x))
    BY <1>0, <2>3, InOrderAppend, Zenon
  <2> QED
    BY <2>1, <2>2, <2>4, Zenon
<1> QED
  BY <1>1, <1>2, <1>3, <1>4, ReadySteps, Zenon

-----------------------------------------------------------------------------
(* The first of the queue is the one that is written *)

QueueInv == Lined(pending, data, sessions)

(* The write in progress, or the one that Written is to be told of. *)
FrontInv ==
  /\ \A o \in ops : OnSocket(o) => pending # <<>> /\ o.data = pending[1]
  /\ \A r \in Range(ready) : Succeeds(r) =>
       /\ pending # <<>> /\ r.data = pending[1]
       /\ \A o \in ops : ~OnSocket(o)

(* Until Written has run, ReadInLoop is not given any part of the response, *)
HeldInv ==
  \A r \in Range(ready) : Succeeds(r) =>
    /\ ~PartIn(r.data, inbuf)
    /\ ~(partial.state = "head" /\ partial.seq = r.data)

(* and Written is to run if the request is still in the queue. *)
AwaitInv ==
  \A d \in Range(pending) : Sent(d) =>
    \E r \in Range(ready) : Succeeds(r) /\ r.data = d

(* The fields of a write. *)
LEMMA WriteFields ==
  ASSUME TypeOK
  PROVE  /\ \A k, d : WriteOp(k, d).op = "write" /\ WriteOp(k, d).conn = k
                      /\ WriteOp(k, d).data = d
         /\ \A o \in ops : o.op = "write" => o = WriteOp(o.conn, o.data)
<1>1. ops \subseteq Ops
  BY Zenon DEF TypeOK
<1>2. ASSUME NEW o \in Ops, o.op = "write" PROVE o = WriteOp(o.conn, o.data)
  <2>1. o \in [op : {"write"}, conn : Nat, data : Nat]
    BY <1>2, Zenon DEF Ops
  <2> QED
    BY <2>1, Zenon DEF WriteOp
<1>3. \A k, d : WriteOp(k, d).op = "write" /\ WriteOp(k, d).conn = k
                /\ WriteOp(k, d).data = d
  BY Zenon DEF WriteOp
<1> QED
  BY <1>1, <1>2, <1>3, Zenon

(* A write that succeeds is of the first, which nobody has answered. *)
LEMMA WriteSucceeds ==
  ASSUME TypeOK, Orderly, Kept, OnceInv, LinkInv, FrontInv, AwaitInv,
         NEW k \in Conns, NEW d, CompleteWrite(k, d)
  PROVE  \/ c2s' = c2s /\ \E x : Post(x) /\ ~Succeeds(x)
         \/ k = socket /\ NewSuccess(d)
<1> SUFFICES ASSUME k = socket, Post(Success(d)),
                    \A r \in Range(ready) : r.h # "connected"
             PROVE  NewSuccess(d)
  BY CompleteWriteIs, Zenon
<1>1. WriteOp(socket, d) \in ops /\ ops' = ops \ {WriteOp(socket, d)}
  BY Zenon DEF CompleteWrite
<1>2. OnSocket(WriteOp(socket, d)) /\ WriteOp(socket, d).data = d
  BY WriteFields, Zenon DEF OnSocket
<1>3. pending # <<>> /\ d = pending[1]
  BY <1>1, <1>2, Zenon DEF FrontInv
<1>4. \A r \in Range(ready) : ~Succeeds(r)
  BY <1>1, <1>2, Zenon DEF FrontInv
<1>5. d \in Range(pending)
  <2>1. pending \in Seq(0..(seq - 1))
    BY Zenon DEF TypeOK
  <2>2. 1 \in DOMAIN pending
    BY <1>3, <2>1
  <2> QED
    BY <1>3, <2>2, Zenon DEF Range
<1>6. ~Flies(d)
  BY <1>4, <1>5, Zenon DEF AwaitInv, Sent
<1>7. ASSUME NEW o \in ops', OnSocket(o) PROVE FALSE
  <2>1. o \in ops /\ o # WriteOp(socket, d) /\ o.op = "write" /\ o.conn = socket
    BY <1>1, <1>7, Zenon DEF OnSocket
  <2>2. o.data = d
    BY <1>3, <1>7, <2>1, Zenon DEF FrontInv
  <2> QED
    BY <2>1, <2>2, WriteFields, Zenon
<1> QED
  BY <1>1, <1>3, <1>4, <1>6, <1>7, Zenon DEF NewSuccess

(* The same of every write of a step. *)
LEMMA HandlersNext ==
  ASSUME TypeOK, Orderly, Kept, OnceInv, LinkInv, FrontInv, AwaitInv, HandlersInv,
         [Next]_vars
  PROVE  /\ HandlersInv'
         /\ \A r \in Range(ready') : Succeeds(r) =>
              \/ r \in Range(ready)
              \/ \E d \in 0..(seq - 1) : CompleteWrite(socket, d) /\ NewSuccess(d)
                                         /\ r = Success(d)
         /\ \A r \in Range(ready) : Succeeds(r) =>
              r \in Range(ready') \/ (RunWritten /\ r = Head(ready))
<1>1. \A k \in Conns : \A d \in 0..(seq - 1) : CompleteWrite(k, d) =>
        (\E x : Post(x) /\ ~Succeeds(x)) \/ (k = socket /\ NewSuccess(d))
  BY WriteSucceeds, Zenon
<1> QED
  BY <1>1, HandlersStep, Zenon DEF HandlersInv

(* ReadInLoop is given what a read before it has read. *)
LEMMA HeldSince ==
  ASSUME TypeOK, [Next]_vars, NEW d,
         ~PartIn(d, inbuf), ~(partial.state = "head" /\ partial.seq = d),
         RunRead => ~PartIn(d, Head(ready).parts)
  PROVE  ~PartIn(d, inbuf') /\ ~(partial'.state = "head" /\ partial'.seq = d)
<1>0. /\ inbuf \in Seq(Parts)
      /\ NoPartial.state # "head" /\ Garbled.state # "head"
  BY Zenon DEF TypeOK, NoPartial, Garbled
<1>1. inbuf # <<>> => ~PartIn(d, Tail(inbuf)) /\ Head(inbuf).seq # d
  BY <1>0, PartsOf, Zenon
<1>2. CASE /\ \/ inbuf' = inbuf \/ inbuf' = <<>>
              \/ inbuf # <<>> /\ inbuf' = Tail(inbuf)
              \/ RunRead /\ inbuf' = Head(ready).parts
           /\ \/ partial' = partial \/ partial' = NoPartial \/ partial' = Garbled
              \/ inbuf # <<>> /\ partial' = [state |-> "head", seq |-> Head(inbuf).seq]
  <2>1. ~PartIn(d, inbuf')
    BY <1>1, <1>2, NothingIn, Zenon
  <2>2. \A x : [state |-> "head", seq |-> x].seq = x
    BY Zenon
  <2>3. ~(partial'.state = "head" /\ partial'.seq = d)
    BY <1>0, <1>1, <1>2, <2>2, Zenon
  <2> QED
    BY <2>1, <2>3, Zenon
<1>3. CASE RunSend \/ RunWritten \/ RunRead \/ RunConnected \/ RunTerminate
  BY <1>2, <1>3, Zenon
     DEF RunSend, RunWritten, RunRead, RunConnected, RunTerminate
<1>4. CASE \/ ReadHead \/ ReadSplitHead \/ ReadPiece \/ ReadBody \/ ReadMisfit
           \/ TouchFreed \/ UNCHANGED vars
  <2>1. ASSUME partial' \in {NoPartial, Garbled}
        PROVE  partial' = NoPartial \/ partial' = Garbled
    BY <2>1, SMTT(20)
  <2> QED
    BY <1>2, <1>4, <2>1, Zenon
       DEF ReadHead, ReadSplitHead, ReadPiece, ReadBody, ReadMisfit, TouchFreed, vars
<1>5. ASSUME NEW k, NEW e,
             \/ CallMethod(k) \/ Destroy \/ CompleteRead(k) \/ CompleteWrite(k, e)
             \/ ConnectSucceeds \/ ConnectFails \/ Serve(k) \/ ServeMixed(k) \/ Break(k)
      PROVE  inbuf' = inbuf /\ partial' = partial
  BY <1>5, Zenon DEF CallMethod, Destroy, CompleteRead, CompleteWrite,
     ConnectSucceeds, ConnectFails, Serve, ServeMixed, Break
<1> QED
  BY <1>2, <1>3, <1>4, <1>5, Zenon DEF Next, LoopThread

LEMMA HeldNext ==
  ASSUME TypeOK, Orderly, Kept, OnceInv, LinkInv, FrontInv, AwaitInv, HandlersInv,
         HeldInv, [Next]_vars
  PROVE  HeldInv'
<1> SUFFICES ASSUME NEW r \in Range(ready'), Succeeds(r), NEW d, d = r.data
             PROVE  ~PartIn(d, inbuf') /\ ~(partial'.state = "head" /\ partial'.seq = d)
  BY Zenon DEF HeldInv, PartIn
<1>1. ASSUME NEW e \in 0..(seq - 1), CompleteWrite(socket, e), NewSuccess(e), r = Success(e)
      PROVE  ~PartIn(d, inbuf') /\ ~(partial'.state = "head" /\ partial'.seq = d)
  <2>1. UNCHANGED <<inbuf, partial>>
    BY <1>1, Zenon DEF CompleteWrite
  <2>2. ~Flies(d)
    BY <1>1, SuccessIs, Zenon DEF NewSuccess
  <2> QED
    BY <2>1, <2>2, Zenon DEF Flies
<1>2. CASE r \in Range(ready)
  <2>1. ~PartIn(d, inbuf) /\ ~(partial.state = "head" /\ partial.seq = d)
    BY <1>2, Zenon DEF HeldInv
  <2>2. ASSUME RunRead PROVE ~PartIn(d, Head(ready).parts)
    <3>1. ready # <<>> /\ Head(ready).h = "read" /\ ready \in Seq(Handlers) /\ InOrder(ready)
      BY <2>2, Zenon DEF RunRead, Runs, TypeOK, HandlersInv
    <3> QED
      BY <1>2, <3>1, InOrderTail, Zenon
  <2> QED
    BY <2>1, <2>2, HeldSince, Zenon
<1> QED
  BY <1>1, <1>2, HandlersNext, Zenon

-----------------------------------------------------------------------------
(* The steps by what they do to the queue *)

(* No new write on the part of a step. *)
NoWriteIn(started) == \A o \in started : o \in ops \/ o.op # "write"

(* The queue and its RPCDatas stay, *)
Idle ==
  /\ UNCHANGED <<seq, data, pending, socket>>
  /\ Range(pending) \subseteq sessions'
  /\ NoWriteIn(ops')

(* a request is appended, *)
Sends(c, others, started) ==
  /\ SendInLoop(c, others, started)
  /\ socket' = socket
  /\ Range(pending) \subseteq others /\ NoWriteIn(started)

(* or Written takes the first one off. *)
Finishes ==
  /\ ready # <<>> /\ ready' = Tail(ready) /\ Succeeds(Head(ready))
  /\ WriteInLoop(socket, Tail(pending), data, ops)
  /\ UNCHANGED <<seq, sessions, socket>>

(* No response completes a request that is still in the queue. *)
LEMMA ReceivedNotQueued ==
  ASSUME HeldInv, AwaitInv, partial.state = "head"
  PROVE  partial.seq \notin Range(pending)
<1>1. PICK d : d = partial.seq
  BY Zenon
<1>2. Sent(d)
  BY <1>1, Zenon DEF Sent, Flies
<1> QED
  BY <1>1, <1>2, Zenon DEF HeldInv, AwaitInv

LEMMA ReadBodyKind ==
  ASSUME QueueInv, HeldInv, AwaitInv, ReadBody
  PROVE  Idle \/ \E c \in Calls : \E others, started : Sends(c, others, started)
<1>1. PICK s, q : s = partial.seq /\ q = Started(Tail(inbuf))
  BY Zenon
<1>2. ReceivePackage(s, "own", q) /\ socket' = socket
  BY <1>1, Zenon DEF ReadBody
<1>3. Range(pending) \subseteq sessions \ {s} /\ Range(pending) \subseteq sessions
  BY <1>1, ReceivedNotQueued, Zenon DEF ReadBody, QueueInv, Lined
<1>4. NoWriteIn(q)
  BY <1>1 DEF NoWriteIn, Started, ReadOp
<1>5. CASE s \notin sessions
  BY <1>2, <1>3, <1>4, <1>5, Zenon DEF ReceivePackage, Idle
<1>6. CASE /\ sessions' = ReleaseSession(s) /\ ops' = q /\ UNCHANGED <<seq, data, pending>>
  BY <1>2, <1>3, <1>4, <1>6, Zenon DEF ReleaseSession, Idle
<1>7. CASE \E c \in Calls : SendInLoop(c, ReleaseSession(s), q)
  <2>1. ASSUME NEW c \in Calls, SendInLoop(c, ReleaseSession(s), q)
        PROVE  Sends(c, ReleaseSession(s), q)
    BY <1>2, <1>3, <1>4, <2>1, Zenon DEF Sends, ReleaseSession
  <2> QED
    BY <1>7, <2>1, Zenon
<1> QED
  BY <1>2, <1>5, <1>6, <1>7, Zenon DEF ReceivePackage

LEMMA RunSendKind ==
  ASSUME TypeOK, QueueInv, RunSend
  PROVE  \E c \in Calls : \E others, started : Sends(c, others, started)
<1>1. /\ ready # <<>> /\ Head(ready).h = "send" /\ ready \in Seq(Handlers)
      /\ socket' = socket /\ seq \notin sessions
  BY DEF RunSend, Runs, TypeOK
<1>2. PICK c : c = Head(ready).call
  BY Zenon
<1>3. c \in Calls
  <2>1. Head(ready) \in Handlers
    BY <1>1
  <2> QED
    BY <1>1, <1>2, <2>1, HandlerFields, Zenon
<1>4. SendInLoop(c, sessions, ops)
  BY <1>1, <1>2, Zenon DEF RunSend
<1>5. Sends(c, sessions, ops)
  BY <1>1, <1>4, Zenon DEF Sends, NoWriteIn, QueueInv, Lined
<1> QED
  BY <1>3, <1>5, Zenon

(* Written is told of the first, whose flag is set: its CHECKs hold. *)
LEMMA RunWrittenKind ==
  ASSUME TypeOK, QueueInv, FrontInv, RunWritten
  PROVE  /\ Succeeds(Head(ready)) => Finishes /\ aborted' = "no"
         /\ ~Succeeds(Head(ready)) => Idle /\ aborted' = aborted
<1>1. /\ ready # <<>> /\ ready' = Tail(ready) /\ Head(ready).h = "written"
      /\ ready \in Seq(Handlers) /\ UNCHANGED <<seq, sessions, socket>>
      /\ pending \in Seq(0..(seq - 1))
  BY Zenon DEF RunWritten, Runs, TypeOK
<1>2. ASSUME ~Succeeds(Head(ready)) PROVE Idle /\ aborted' = aborted
  <2>1. Head(ready).err
    BY <1>1, <1>2, Zenon DEF Succeeds
  <2> QED
    BY <1>1, <2>1, Zenon DEF RunWritten, Idle, NoWriteIn, QueueInv, Lined
<1>3. ASSUME Succeeds(Head(ready)) PROVE Finishes /\ aborted' = "no"
  <2>1. Head(ready) \in Range(ready) /\ ~Head(ready).err
    BY <1>1, <1>3, TailPositions, Zenon DEF Range, Succeeds
  <2>2. pending # <<>> /\ Head(ready).data = pending[1]
    BY <1>3, <2>1, Zenon DEF FrontInv
  <2>3. 1 \in DOMAIN pending /\ Head(pending) = pending[1]
    BY <1>1, <2>2
  <2>4. data[Head(pending)].is_pending
    BY <2>3, Zenon DEF QueueInv, Lined
  <2>5. aborted' = "no" /\ WriteInLoop(socket, Tail(pending), data, ops)
    BY <2>1, <2>2, <2>3, <2>4, Zenon DEF RunWritten
  <2> QED
    BY <1>1, <1>3, <2>5, SMTT(20) DEF Finishes
<1> QED
  BY <1>2, <1>3, ZenonT(40)

(* Nothing is found that was deleted. *)
LEMMA NothingFreed == QueueInv => ~TouchFreed
<1>1. ASSUME QueueInv, NEW i \in DOMAIN pending PROVE pending[i] \in sessions
  BY <1>1, Zenon DEF QueueInv, Lined, Range
<1> QED
  BY <1>1, Zenon DEF TouchFreed

LEMMA IdleSteps ==
  ASSUME TypeOK, QueueInv, NEW k, NEW d,
         \/ CallMethod(k) \/ Destroy \/ RunRead \/ RunTerminate
         \/ (RunConnected /\ socket' = socket)
         \/ ReadHead \/ ReadSplitHead \/ ReadPiece
         \/ CompleteRead(k) \/ CompleteWrite(k, d) \/ ConnectSucceeds \/ ConnectFails
         \/ Serve(k) \/ ServeMixed(k) \/ Break(k) \/ UNCHANGED vars
  PROVE  Idle
<1>0. Range(pending) \subseteq sessions
  BY Zenon DEF QueueInv, Lined
<1>1. ASSUME UNCHANGED <<seq, data, pending, socket, sessions>>, NoWriteIn(ops')
      PROVE  Idle
  BY <1>0, <1>1, Zenon DEF Idle
<1>3. NoWriteIn(ops) /\ NoWriteIn(ops \cup {ConnectOp}) /\ \A x : NoWriteIn(ops \ {x})
  BY DEF NoWriteIn, ConnectOp
<1>4. \A q : NoWriteIn(Started(q))
  BY DEF NoWriteIn, Started, ReadOp
<1>5. CASE RunConnected /\ socket' = socket
  <2>1. ~RebuildSocket
    BY <1>5, SMTT(20) DEF RebuildSocket, TypeOK
  <2> QED
    BY <1>1, <1>3, <1>5, <2>1, ZenonT(40) DEF RunConnected
<1>6. CASE RunRead \/ RunTerminate \/ ReadHead \/ ReadSplitHead \/ ReadPiece
  BY <1>1, <1>3, <1>4, <1>6, Zenon
     DEF RunRead, RunTerminate, ReadHead, ReadSplitHead, ReadPiece, ReconnectOrFail
<1>7. CASE CallMethod(k) \/ Destroy \/ CompleteRead(k) \/ CompleteWrite(k, d)
           \/ ConnectSucceeds \/ ConnectFails
  BY <1>1, <1>3, <1>7, Zenon DEF CallMethod, Destroy, CompleteRead, CompleteWrite,
     ConnectSucceeds, ConnectFails
<1>8. CASE Serve(k) \/ ServeMixed(k) \/ Break(k) \/ UNCHANGED vars
  BY <1>1, <1>3, <1>8, Zenon DEF Serve, ServeMixed, Break, vars
<1> QED
  BY <1>5, <1>6, <1>7, <1>8, Zenon

LEMMA StepKinds ==
  ASSUME TypeOK, NothingLeftToRead, ReaderInv, QueueInv, FrontInv, HeldInv, AwaitInv,
         [Next]_vars
  PROVE  \/ Reconnects
         \/ RunWritten /\ Finishes
         \/ Idle /\ (RunWritten => ~Succeeds(Head(ready)))
         \/ /\ ~RunWritten
            /\ \E c \in Calls : \E others, started : Sends(c, others, started)
<1>1. CASE RunWritten
  BY <1>1, RunWrittenKind, Zenon
<1>2. ASSUME ~RunWritten, ~Reconnects
      PROVE  Idle \/ \E c \in Calls : \E others, started : Sends(c, others, started)
  <2>1. ~ReadMisfit /\ ~TouchFreed
    BY NoMisfit, NothingFreed, Zenon DEF ReadMisfit
  <2>2. RunConnected => socket' = socket
    BY <1>2, Zenon DEF Reconnects
  <2>3. CASE LoopThread
    BY <1>2, <2>1, <2>2, <2>3, IdleSteps, RunSendKind, ReadBodyKind, Zenon DEF LoopThread
  <2>4. ASSUME NEW k, NEW d,
               \/ CallMethod(k) \/ Destroy \/ CompleteRead(k) \/ CompleteWrite(k, d)
               \/ ConnectSucceeds \/ ConnectFails \/ Serve(k) \/ ServeMixed(k)
               \/ Break(k) \/ UNCHANGED vars
        PROVE  Idle
    BY <2>4, IdleSteps, Zenon
  <2> QED
    BY <2>3, <2>4, Zenon DEF Next
<1> QED
  BY <1>1, <1>2, Zenon

(* The queue and the writes in progress after SendInLoop, *)
LEMMA SendsLines ==
  ASSUME TypeOK, QueueInv, FrontInv, NEW c \in Calls, NEW others, NEW started,
         Sends(c, others, started)
  PROVE  /\ QueueInv' /\ seq' = seq + 1
         /\ \A d \in Range(pending') : d \in Range(pending) \/ d = seq
         /\ pending # <<>> => pending' # <<>> /\ pending'[1] = pending[1]
         /\ \A o \in ops' : OnSocket(o)' =>
              \/ o \in ops
              \/ /\ pending' # <<>> /\ o.data = pending'[1]
                 /\ pending = <<>>
<1>1. PICK q, h : q = Append(pending, seq) /\ h = NewRPCData(c)
  BY Zenon
<1>2. seq \in Nat /\ seq \in Int /\ socket \in Nat /\ pending \in Seq(0..(seq - 1))
  BY DEF TypeOK
<1>3. /\ h \in [0..seq -> RPCDatas] /\ ~h[seq].is_pending
      /\ \A d \in 0..(seq - 1) : h[d] = data[d]
  BY <1>1, NewRPCDataIs, Zenon
<1>4. q \in Seq(0..seq)
  <2>1. seq - 1 \in Int /\ (seq - 1) + 1 = seq /\ seq >= 0
    BY <1>2
  <2> QED
    BY <1>1, <1>2, <2>1, SeqWiden, Zenon
<1>5. PICK n : n = Len(pending) + 1
  BY Zenon
<1>6. /\ DOMAIN q = (DOMAIN pending) \cup {n} /\ n \notin DOMAIN pending
      /\ \A i \in DOMAIN pending : q[i] = pending[i]
      /\ q[n] = seq
  BY <1>1, <1>2, <1>5, AppendPositions, SMTT(20)
<1>7. /\ \A i \in DOMAIN pending : pending[i] \in 0..(seq - 1) /\ pending[i] # seq
      /\ pending # <<>> => 1 \in DOMAIN pending /\ n # 1
  BY <1>2, <1>5
<1>8. /\ WriteInLoop(socket, q, h, started)
      /\ seq' = seq + 1 /\ sessions' = others \cup {seq} /\ socket' = socket
      /\ Range(pending) \subseteq others /\ NoWriteIn(started)
  BY <1>1, Zenon DEF Sends, SendInLoop, SaveSession
<1>9. Range(q) \subseteq others \cup {seq}
  BY <1>6, <1>8, Zenon DEF Range
<1>10. \A i, j \in DOMAIN q : q[i] = q[j] => i = j
  BY <1>6, <1>7, Zenon DEF QueueInv, Lined
<1>11. \A i \in DOMAIN pending : h[q[i]].is_pending <=> i = 1
  BY <1>3, <1>6, <1>7 DEF QueueInv, Lined
<1>12. \A i \in DOMAIN q : i # 1 => ~h[q[i]].is_pending
  BY <1>3, <1>6, <1>11, Zenon
<1>13. /\ pending' = q /\ Lined(pending', data', others \cup {seq})
       /\ \A o \in ops' : \/ o \in started
                          \/ /\ q # <<>> /\ ~h[q[1]].is_pending
                             /\ o = WriteOp(socket, q[1])
  <2>1. PICK open : open = others \cup {seq}
    BY Zenon
  <2>2. h \in [0..seq -> RPCDatas] /\ WriteInLoop(socket, q, h, started)
    BY <1>3, <1>8, Zenon
  <2>3. Range(q) \subseteq open
    BY <1>9, <2>1, Zenon
  <2>4. /\ pending' = q /\ Lined(pending', data', open)
        /\ \A o \in ops' : \/ o \in started
                           \/ /\ q # <<>> /\ ~h[q[1]].is_pending
                              /\ o = WriteOp(socket, q[1])
    BY <1>2, <1>4, <1>10, <1>12, <2>2, <2>3, WriteInLoopLines, Zenon
  <2> QED
    BY <2>1, <2>4, Zenon
<1>14. QueueInv'
  BY <1>8, <1>13, Zenon DEF QueueInv, Lined, Range
<1>15. pending # <<>> => q # <<>> /\ q[1] = pending[1] /\ h[q[1]].is_pending
  BY <1>2, <1>4, <1>6, <1>7, <1>11, SMTT(20)
<1>16. ASSUME NEW o \in ops', OnSocket(o)'
       PROVE  o \in ops \/ (q # <<>> /\ o.data = q[1] /\ pending = <<>>)
  <2>1. o.op = "write"
    BY <1>16, Zenon DEF OnSocket
  <2>2. \A d : WriteOp(socket, d).data = d
    BY Zenon DEF WriteOp
  <2> QED
    BY <1>8, <1>13, <1>15, <2>1, <2>2, Zenon DEF NoWriteIn
<1>17. \A d \in Range(pending') : d \in Range(pending) \/ d = seq
  BY <1>6, <1>13, Zenon DEF Range
<1> QED
  BY <1>8, <1>13, <1>14, <1>15, <1>16, <1>17, Zenon

(* after Written, *)
LEMMA FinishesLines ==
  ASSUME TypeOK, QueueInv, FrontInv, HandlersInv, Finishes
  PROVE  /\ QueueInv'
         /\ \A d \in Range(pending') : d \in Range(pending) /\ d # pending[1]
         /\ \A r \in Range(ready') : ~Succeeds(r)
         /\ \A o \in ops' : OnSocket(o)' => pending' # <<>> /\ o.data = pending'[1]
<1>1. PICK q : q = Tail(pending)
  BY Zenon
<1>2. /\ ready # <<>> /\ ready' = Tail(ready) /\ Succeeds(Head(ready))
      /\ WriteInLoop(socket, q, data, ops)
      /\ UNCHANGED <<sessions, socket>>
  BY <1>1, Zenon DEF Finishes
<1>3. /\ ready \in Seq(Handlers) /\ InOrder(ready) /\ seq - 1 \in Int /\ socket \in Nat
      /\ pending \in Seq(0..(seq - 1)) /\ data \in [0..(seq - 1) -> RPCDatas]
  BY DEF TypeOK, HandlersInv
<1>4. \A r \in Range(ready') : ~Succeeds(r)
  BY <1>2, <1>3, InOrderTail, Zenon
<1>5. Head(ready) \in Range(ready)
  BY <1>2, <1>3, TailPositions, Zenon DEF Range
<1>6. pending # <<>> /\ \A o \in ops : ~OnSocket(o)
  BY <1>2, <1>5, Zenon DEF FrontInv
<1>7. /\ q \in Seq(0..(seq - 1))
      /\ \A i \in DOMAIN q : i + 1 \in DOMAIN pending /\ q[i] = pending[i + 1]
      /\ \A i \in DOMAIN q : i + 1 # 1 /\ i \in Int
      /\ 1 \in DOMAIN pending
  BY <1>1, <1>3, <1>6
<1>8. \A d \in Range(q) : d \in Range(pending) /\ d # pending[1]
  <2>1. ASSUME NEW i \in DOMAIN q PROVE q[i] \in Range(pending) /\ q[i] # pending[1]
    <3>1. i + 1 \in DOMAIN pending /\ q[i] = pending[i + 1] /\ i + 1 # 1
      BY <1>7, Zenon
    <3>2. pending[i + 1] # pending[1]
      BY <1>7, <3>1, Zenon DEF QueueInv, Lined
    <3> QED
      BY <3>1, <3>2, Zenon DEF Range
  <2> QED
    BY <2>1, Zenon DEF Range
<1>9. Range(q) \subseteq sessions
  BY <1>8, Zenon DEF QueueInv, Lined
<1>10. \A i, j \in DOMAIN q : q[i] = q[j] => i = j
  <2> SUFFICES ASSUME NEW i \in DOMAIN q, NEW j \in DOMAIN q, q[i] = q[j] PROVE i = j
    BY Zenon
  <2>1. i + 1 = j + 1
    BY <1>7, Zenon DEF QueueInv, Lined
  <2> QED
    BY <1>7, <2>1
<1>11. \A i \in DOMAIN q : i # 1 => ~data[q[i]].is_pending
  BY <1>7, Zenon DEF QueueInv, Lined
<1>12. /\ pending' = q /\ Lined(pending', data', sessions)
       /\ \A o \in ops' : \/ o \in ops
                          \/ /\ q # <<>> /\ ~data[q[1]].is_pending
                             /\ o = WriteOp(socket, q[1])
  BY <1>2, <1>3, <1>7, <1>9, <1>10, <1>11, WriteInLoopLines, Zenon
<1>13. QueueInv'
  BY <1>2, <1>12, Zenon DEF QueueInv, Lined, Range
<1>14. ASSUME NEW o \in ops', OnSocket(o)' PROVE pending' # <<>> /\ o.data = pending'[1]
  <2>1. OnSocket(o) /\ \A d : WriteOp(socket, d).data = d
    BY <1>2, <1>14, Zenon DEF OnSocket, WriteOp
  <2> QED
    BY <1>6, <1>12, <2>1, Zenon
<1> QED
  BY <1>4, <1>8, <1>12, <1>13, <1>14, Zenon

(* The positions of a sequence and what is there. *)
LEMMA PositionsAre ==
  ASSUME NEW S, NEW q \in Seq(S)
  PROVE  \A i \in DOMAIN q : i \in Int /\ q[i] \in S
OBVIOUS

(* and after Connected. *)
LEMMA ReconnectsLines ==
  ASSUME TypeOK, OnceInv, ReaderInv, HandlersInv, Reconnects
  PROVE  /\ QueueInv'
         /\ \A r \in Range(ready') : ~Succeeds(r)
         /\ \A o \in ops' : OnSocket(o)' => pending' # <<>> /\ o.data = pending'[1]
<1>1. /\ ready # <<>> /\ ready' = Tail(ready) /\ Head(ready).h = "connected"
      /\ SendPendingSessions(ops \cup {ReadOp(socket + 1)})
      /\ socket' = socket + 1 /\ sessions' = sessions
  BY ReconnectsFinds
<1>2. /\ ready \in Seq(Handlers) /\ InOrder(ready) /\ seq - 1 \in Int /\ socket + 1 \in Nat
      /\ socket \in Nat
  BY DEF TypeOK, HandlersInv
<1>3. \A r \in Range(ready') : ~Succeeds(r)
  BY <1>1, <1>2, InOrderTail, Zenon
<1>4. PICK h, started : h = Unflagged /\ started = ops \cup {ReadOp(socket + 1)}
  BY Zenon
<1>5. PICK queue \in InSeqOrder(sessions) : WriteInLoop(socket + 1, queue, h, started)
  BY <1>1, <1>4, Zenon DEF SendPendingSessions, Unflagged
<1>6. /\ h \in [0..(seq - 1) -> RPCDatas]
      /\ \A d \in 0..(seq - 1) : d \in sessions => ~h[d].is_pending
  BY <1>4, UnflaggedIs, Zenon
<1>7. queue \in Seq(0..(seq - 1))
  BY InSeqOrderType, Zenon
<1>8. PICK n \in 0..seq : queue \in [1..n -> sessions]
  BY Zenon DEF InSeqOrder
<1>9. /\ queue \in [1..n -> sessions] /\ DOMAIN queue = 1..n
      /\ \A i, j \in DOMAIN queue : i < j => queue[i] < queue[j]
  BY <1>8, Zenon DEF InSeqOrder
<1>10. \A i \in DOMAIN queue : queue[i] \in sessions /\ queue[i] \in 0..(seq - 1) /\ i \in Int
  <2>1. \A i \in DOMAIN queue : i \in Int /\ queue[i] \in 0..(seq - 1)
    BY <1>7, PositionsAre, Zenon
  <2>2. \A i \in DOMAIN queue : queue[i] \in sessions
    BY <1>9, Zenon
  <2> QED
    BY <2>1, <2>2, Zenon
<1>11. Range(queue) \subseteq sessions
  BY <1>10, Zenon DEF Range
<1>12. \A i, j \in DOMAIN queue : queue[i] = queue[j] => i = j
  <2> SUFFICES ASSUME NEW i \in DOMAIN queue, NEW j \in DOMAIN queue, i # j
               PROVE  queue[i] # queue[j]
    BY Zenon
  <2>1. queue[i] \in Int /\ queue[j] \in Int /\ (i < j \/ j < i)
    BY <1>10
  <2> QED
    BY <1>9, <2>1
<1>13. \A i \in DOMAIN queue : i # 1 => ~h[queue[i]].is_pending
  BY <1>6, <1>10, Zenon
<1>14. /\ pending' = queue /\ Lined(pending', data', sessions)
       /\ \A o \in ops' : \/ o \in started
                          \/ /\ queue # <<>> /\ ~h[queue[1]].is_pending
                             /\ o = WriteOp(socket + 1, queue[1])
  BY <1>2, <1>5, <1>6, <1>7, <1>11, <1>12, <1>13, WriteInLoopLines, Zenon
<1>15. QueueInv'
  BY <1>1, <1>14, Zenon DEF QueueInv, Lined, Range
<1>16. ASSUME NEW o \in ops', OnSocket(o)' PROVE pending' # <<>> /\ o.data = pending'[1]
  <2>1. o.op = "write" /\ o.conn = socket + 1
    BY <1>1, <1>16, Zenon DEF OnSocket
  <2>2. o \notin ops
    <3> SUFFICES ASSUME o \in ops PROVE FALSE
      BY Zenon
    <3>1. socket + 1 \in 1..socket
      BY <2>1, Zenon DEF OnceInv, WritesGiven
    <3> QED
      BY <1>2, <3>1
  <2>3. o \notin started
    BY <1>4, <2>1, <2>2, SMTT(20) DEF ReadOp
  <2>4. \A d : WriteOp(socket + 1, d).data = d
    BY Zenon DEF WriteOp
  <2> QED
    BY <1>14, <2>3, <2>4, Zenon
<1> QED
  BY <1>3, <1>15, <1>16, Zenon

-----------------------------------------------------------------------------
(* The invariant of the writes *)

WritesInv ==
  /\ LinkInv /\ GivenInv /\ HandlersInv
  /\ QueueInv /\ FrontInv /\ HeldInv /\ AwaitInv

(* Idle steps leave the queue as it is, *)
LEMMA IdleLines ==
  ASSUME QueueInv, Idle
  PROVE  QueueInv'
<1>1. pending' = pending /\ data' = data /\ Range(pending) \subseteq sessions'
  BY Zenon DEF Idle
<1> QED
  BY <1>1, Zenon DEF QueueInv, Lined

LEMMA QueueNext ==
  ASSUME AnswersInv, WritesInv, [Next]_vars
  PROVE  QueueInv'
<1>1. /\ TypeOK /\ OnceInv /\ NothingLeftToRead /\ ReaderInv /\ HandlersInv
      /\ QueueInv /\ FrontInv /\ HeldInv /\ AwaitInv
  BY Zenon DEF AnswersInv, WritesInv
<1> QED
  BY <1>1, StepKinds, IdleLines, SendsLines, FinishesLines, ReconnectsLines, Zenon

(* and the write in progress remains one of the first. *)
LEMMA FrontNext ==
  ASSUME Orderly, AnswersInv, WritesInv, [Next]_vars
  PROVE  FrontInv'
<1>1. /\ TypeOK /\ OnceInv /\ NothingLeftToRead /\ ReaderInv /\ HandlersInv /\ Kept
      /\ LinkInv /\ QueueInv /\ FrontInv /\ HeldInv /\ AwaitInv
  BY Zenon DEF AnswersInv, WritesInv
<1>2. \A r \in Range(ready') : Succeeds(r) =>
        \/ r \in Range(ready)
        \/ \E d \in 0..(seq - 1) : CompleteWrite(socket, d) /\ NewSuccess(d)
                                   /\ r = Success(d)
  BY <1>1, HandlersNext, Zenon
<1>3. ASSUME Finishes \/ Reconnects PROVE FrontInv'
  <2>1. /\ \A r \in Range(ready') : ~Succeeds(r)
        /\ \A o \in ops' : OnSocket(o)' => pending' # <<>> /\ o.data = pending'[1]
    BY <1>1, <1>3, FinishesLines, ReconnectsLines, Zenon
  <2> QED
    BY <2>1, Zenon DEF FrontInv
<1>4. ASSUME NEW c \in Calls, NEW others, NEW started, Sends(c, others, started)
      PROVE  FrontInv'
  <2>0. ASSUME NEW d PROVE ~CompleteWrite(socket, d)
    <3>1. seq' = seq + 1 /\ seq \in Nat
      BY <1>1, <1>4, Zenon DEF Sends, SendInLoop, SaveSession, TypeOK
    <3>2. CompleteWrite(socket, d) => seq' = seq
      BY Zenon DEF CompleteWrite
    <3> QED
      BY <3>1, <3>2, SMTT(20)
  <2>1. /\ pending # <<>> => pending' # <<>> /\ pending'[1] = pending[1]
        /\ \A o \in ops' : OnSocket(o)' =>
             \/ o \in ops
             \/ pending' # <<>> /\ o.data = pending'[1] /\ pending = <<>>
    BY <1>1, <1>4, SendsLines, Zenon
  <2>2. \A o : OnSocket(o)' => OnSocket(o)
    BY <1>4, Zenon DEF Sends, OnSocket
  <2>3. \A o \in ops' : OnSocket(o)' => pending' # <<>> /\ o.data = pending'[1]
    BY <1>1, <2>1, <2>2, Zenon DEF FrontInv
  <2>4. \A r \in Range(ready') : Succeeds(r) =>
          /\ pending' # <<>> /\ r.data = pending'[1]
          /\ \A o \in ops' : ~OnSocket(o)'
    BY <1>1, <1>2, <2>0, <2>1, <2>2, Zenon DEF FrontInv
  <2> QED
    BY <2>3, <2>4, Zenon DEF FrontInv
<1>5. ASSUME Idle PROVE FrontInv'
  <2>1. /\ pending' = pending
        /\ \A o \in ops' : OnSocket(o)' => OnSocket(o) /\ o \in ops
    BY <1>5, Zenon DEF Idle, NoWriteIn, OnSocket
  <2>2. ASSUME NEW r \in Range(ready'), Succeeds(r)
        PROVE  /\ pending # <<>> /\ r.data = pending[1]
               /\ \A o \in ops' : ~OnSocket(o)'
    <3>1. CASE r \in Range(ready)
      BY <1>1, <2>1, <2>2, <3>1, Zenon DEF FrontInv
    <3>2. ASSUME NEW d \in 0..(seq - 1), CompleteWrite(socket, d), NewSuccess(d),
                 r = Success(d)
          PROVE  /\ pending # <<>> /\ r.data = pending[1]
                 /\ \A o \in ops' : ~OnSocket(o)'
      <4>1. r.data = d
        BY <3>2, SuccessIs, Zenon
      <4> QED
        BY <2>1, <3>2, <4>1, Zenon DEF NewSuccess
    <3> QED
      BY <1>2, <2>2, <3>1, <3>2, Zenon
  <2> QED
    BY <1>1, <2>1, <2>2, Zenon DEF FrontInv
<1> QED
  BY <1>1, <1>3, <1>4, <1>5, StepKinds, Zenon

(* A request that the server was sent is in the queue until Written has run. *)
LEMMA AwaitNext ==
  ASSUME Orderly, AnswersInv, WritesInv, [Next]_vars
  PROVE  AwaitInv'
<1>1. /\ TypeOK /\ OnceInv /\ NothingLeftToRead /\ ReaderInv /\ HandlersInv /\ Kept
      /\ LinkInv /\ GivenInv /\ QueueInv /\ FrontInv /\ HeldInv /\ AwaitInv
  BY Zenon DEF AnswersInv, WritesInv
<1> SUFFICES ASSUME NEW d \in Range(pending'), Sent(d)'
             PROVE  \E r \in Range(ready') : Succeeds(r) /\ r.data = d
  BY Zenon DEF AwaitInv
<1>2. socket' = socket
  BY <1>1, NewlySent, SocketStays, Zenon
<1>3. CASE socket \in Conns /\ CompleteWrite(socket, d) /\ c2s' # c2s
  <2>1. Post(Success(d))
    <3>1. PICK k \in Conns : k = socket
      BY <1>3, Zenon
    <3>2. CompleteWrite(k, d)
      BY <1>3, <3>1, Zenon
    <3> QED
      BY <1>1, <1>3, <3>2, WriteSucceeds, Zenon DEF NewSuccess
  <2>2. Success(d) \in Range(ready')
    <3>1. ready \in Seq(Handlers) /\ ready' = Append(ready, Success(d))
      BY <1>1, <2>1, Zenon DEF TypeOK, Post
    <3>2. PICK n : n = Len(ready) + 1
      BY Zenon
    <3>3. n \in DOMAIN ready' /\ ready'[n] = Success(d)
      BY <3>1, <3>2, AppendPositions, Zenon
    <3> QED
      BY <3>3, Zenon DEF Range
  <2> QED
    BY <2>2, SuccessIs, Zenon
<1>4. CASE Sent(d)
  <2>1. d \in 0..(seq - 1) /\ seq \in Nat
    BY <1>1, <1>4, Zenon DEF GivenInv, TypeOK
  <2>2. ASSUME d \in Range(pending)
        PROVE  /\ \E r \in Range(ready) : Succeeds(r) /\ r.data = d
               /\ pending # <<>> /\ d = pending[1]
    BY <1>1, <1>4, <2>2, Zenon DEF AwaitInv, FrontInv
  <2>3. \A r \in Range(ready) : Succeeds(r) =>
          r \in Range(ready') \/ (RunWritten /\ r = Head(ready))
    BY <1>1, HandlersNext, Zenon
  <2>4. CASE Finishes
    <3>1. d \in Range(pending) /\ d # pending[1]
      BY <1>1, <2>4, FinishesLines, Zenon
    <3> QED
      BY <2>2, <3>1, Zenon
  <2>5. ASSUME NEW c \in Calls, NEW others, NEW started, Sends(c, others, started),
               ~RunWritten
        PROVE  \E r \in Range(ready') : Succeeds(r) /\ r.data = d
    <3>1. d \in Range(pending) \/ d = seq
      BY <1>1, <2>5, SendsLines, Zenon
    <3>2. d \in Range(pending)
      BY <2>1, <3>1
    <3> QED
      BY <2>2, <2>3, <2>5, <3>2, Zenon
  <2>6. CASE Idle /\ (RunWritten => ~Succeeds(Head(ready)))
    <3>1. d \in Range(pending)
      BY <2>6, Zenon DEF Idle
    <3> QED
      BY <2>2, <2>3, <2>6, <3>1, Zenon
  <2>7. ~Reconnects
    BY <1>2, Zenon DEF Reconnects
  <2> QED
    BY <1>1, <2>4, <2>5, <2>6, <2>7, StepKinds, Zenon
<1> QED
  BY <1>1, <1>2, <1>3, <1>4, SentSince, Zenon

LEMMA WritesNext ==
  ASSUME Orderly, AnswersInv, WritesInv, [Next]_vars
  PROVE  WritesInv'
<1>1. /\ TypeOK /\ CallInOnePlace /\ OnceInv /\ ReaderInv /\ Kept
      /\ LinkInv /\ GivenInv /\ HandlersInv /\ FrontInv /\ HeldInv /\ AwaitInv
  BY Zenon DEF AnswersInv, WritesInv
<1>2. LinkInv' /\ GivenInv' /\ HandlersInv' /\ HeldInv'
  BY <1>1, LinkNext, GivenNext, HandlersNext, HeldNext, Zenon
<1>3. QueueInv' /\ FrontInv' /\ AwaitInv'
  BY QueueNext, FrontNext, AwaitNext, Zenon
<1> QED
  BY <1>2, <1>3, Zenon DEF WritesInv

LEMMA WritesInit == Init => WritesInv
<1> SUFFICES ASSUME Init PROVE WritesInv
  BY Zenon
<1>1. /\ ready = <<>> /\ pending = <<>> /\ inbuf = <<>> /\ socket = 1
      /\ Range(ready) = {} /\ Range(pending) = {}
      /\ \A k \in Conns : s2c[k] = <<>> /\ c2s[k] = <<>>
      /\ partial.state # "head"
  BY DEF Init, Range, NoPartial
<1>2. LinkInv
  <2>1. ~Attempt
    BY <1>1, Zenon DEF Attempt, Init, ReadOp, ConnectOp
  <2>2. \A k \in Conns : ~(k < socket)
    BY <1>1 DEF Conns
  <2> QED
    BY <2>1, <2>2, Zenon DEF LinkInv
<1>3. \A d : ~Sent(d)
  <2>1. \A k, d : ~Carries(k, d)
    BY <1>1 DEF Carries
  <2>2. \A d : ~Flies(d)
    BY <1>1, NothingIn, Zenon DEF Flies
  <2> QED
    BY <2>1, <2>2, Zenon DEF Sent
<1>4. GivenInv /\ AwaitInv
  BY <1>3, Zenon DEF GivenInv, AwaitInv
<1>5. HandlersInv /\ QueueInv /\ HeldInv
  BY <1>1 DEF HandlersInv, InOrder, QueueInv, Lined, HeldInv
<1>6. FrontInv
  BY <1>1 DEF FrontInv, Init, OnSocket, ReadOp
<1> QED
  BY <1>2, <1>4, <1>5, <1>6, Zenon DEF WritesInv

(***************************************************************************)
(* No CHECK fails: SaveSession's, since the numbers are not used again;    *)
(* Written's, since what it is told of is the first of the queue; and      *)
(* ReceivePackage's, since the server only answers what was handed to it.  *)
(***************************************************************************)
LEMMA ChecksHold ==
  ASSUME AnswersInv, WritesInv, NoCheckFails, [Next]_vars
  PROVE  NoCheckFails'
<1>1. /\ TypeOK /\ OnceInv /\ NothingLeftToRead /\ ReaderInv
      /\ GivenInv /\ QueueInv /\ FrontInv
  BY Zenon DEF AnswersInv, WritesInv
<1>2. CASE aborted' = aborted \/ aborted' = "no" \/ aborted' = "meta"
  BY <1>2, Zenon DEF NoCheckFails
<1>3. CASE RunSend
  <2>1. seq \notin sessions
    BY <1>1, SMTT(20) DEF TypeOK
  <2> QED
    BY <1>2, <1>3, <2>1, ZenonT(40) DEF RunSend
<1>4. CASE RunWritten
  BY <1>1, <1>2, <1>4, RunWrittenKind, Zenon
<1>5. CASE ReadBody
  <2>1. PICK s, q : s = partial.seq /\ q = Started(Tail(inbuf))
    BY Zenon
  <2>2. ReceivePackage(s, "own", q) /\ Flies(s)
    BY <1>5, <2>1, Zenon DEF ReadBody, Flies
  <2>3. data[s].is_pending
    BY <1>1, <2>2, Zenon DEF GivenInv, Sent, OnceInv, FlagStays
  <2> QED
    BY <1>2, <2>2, <2>3, Zenon DEF ReceivePackage
<1>6. CASE ReadMisfit \/ TouchFreed
  BY <1>1, <1>6, NoMisfit, NothingFreed, Zenon DEF ReadMisfit
<1>7. CASE \/ RunRead \/ RunConnected \/ RunTerminate
           \/ ReadHead \/ ReadSplitHead \/ ReadPiece \/ UNCHANGED vars
  BY <1>2, <1>7, Zenon DEF RunRead, RunConnected, RunTerminate,
     ReadHead, ReadSplitHead, ReadPiece, vars
<1>8. ASSUME NEW k, NEW d,
             \/ CallMethod(k) \/ Destroy \/ CompleteRead(k) \/ CompleteWrite(k, d)
             \/ ConnectSucceeds \/ ConnectFails \/ Serve(k) \/ ServeMixed(k) \/ Break(k)
      PROVE  aborted' = aborted
  BY <1>8, Zenon DEF CallMethod, Destroy, CompleteRead, CompleteWrite,
     ConnectSucceeds, ConnectFails, Serve, ServeMixed, Break
<1> QED
  BY <1>2, <1>3, <1>4, <1>5, <1>6, <1>7, <1>8, Zenon DEF Next, LoopThread

(* What the runs check follows. *)
LEMMA WritesShow ==
  ASSUME AnswersInv, WritesInv
  PROVE  NoDanglingData /\ WritesInOrder
<1>1. TypeOK /\ QueueInv /\ FrontInv /\ pending \in Seq(0..(seq - 1))
  BY Zenon DEF AnswersInv, WritesInv, TypeOK
<1>2. ASSUME pending # <<>> PROVE Head(pending) = pending[1] /\ pending[1] \in Range(pending)
  <2>1. Head(pending) = pending[1] /\ 1 \in DOMAIN pending
    BY <1>1, <1>2
  <2> QED
    BY <2>1, Zenon DEF Range
<1>3. ASSUME NEW d, WriteOp(socket, d) \in ops PROVE pending # <<>> /\ d = pending[1]
  <2>1. OnSocket(WriteOp(socket, d)) /\ WriteOp(socket, d).data = d
    BY Zenon DEF OnSocket, WriteOp
  <2> QED
    BY <1>1, <1>3, <2>1, Zenon DEF FrontInv
<1>4. ASSUME NEW d, [h |-> "written", err |-> FALSE, data |-> d] \in Range(ready)
      PROVE  pending # <<>> /\ d = pending[1]
  <2>1. Success(d) \in Range(ready)
    BY <1>4, Zenon DEF Success
  <2> QED
    BY <1>1, <2>1, SuccessIs, Zenon DEF FrontInv
<1>5. NoDanglingData
  <2>1. Range(pending) \subseteq sessions
    BY <1>1, Zenon DEF QueueInv, Lined
  <2>2. ASSUME NEW d, WriteOp(socket, d) \in ops PROVE d \in sessions
    <3>1. d \in Range(pending)
      BY <1>2, <1>3, <2>2, Zenon
    <3> QED
      BY <2>1, <3>1, Zenon
  <2> QED
    BY <2>1, <2>2, Zenon DEF NoDanglingData
<1>6. WritesInOrder
  <2>1. ASSUME NEW d, NEW e, WriteOp(socket, d) \in ops, WriteOp(socket, e) \in ops
        PROVE  d = e
    <3>1. d = pending[1]
      BY <1>3, <2>1, Zenon
    <3>2. e = pending[1]
      BY <1>3, <2>1, Zenon
    <3> QED
      BY <3>1, <3>2, Zenon
  <2>2. ASSUME NEW d,
               \/ WriteOp(socket, d) \in ops
               \/ [h |-> "written", err |-> FALSE, data |-> d] \in Range(ready)
        PROVE  pending # <<>> /\ Head(pending) = d
    BY <1>2, <1>3, <1>4, <2>2, Zenon
  <2> QED
    BY <2>1, <2>2, Zenon DEF WritesInOrder
<1> QED
  BY <1>5, <1>6, Zenon

(* Orderly connections have no torn response before another connection. *)
LEMMA OrderlyIsSound == Orderly => Sound
BY Zenon DEF Orderly, Sound

(***************************************************************************)
(* Unless a half closed or torn connection is followed by another one,     *)
(* ReceivePackage never deletes an RPCData that is still in pending_ or in *)
(* the hands of async_write: on a connection, Written has always run       *)
(* before the response to what was written is read.                        *)
(***************************************************************************)
THEOREM NothingDangles ==
  ASSUME Orderly
  PROVE  Spec => []NoDanglingData
<1>1. Init => AnswersInv /\ WritesInv
  BY AnswersInit, WritesInit, Zenon
<1>2. AnswersInv /\ WritesInv /\ [Next]_vars => AnswersInv' /\ WritesInv'
  BY AnswersNext, WritesNext, OrderlyIsSound, Zenon
<1>3. AnswersInv /\ WritesInv => NoDanglingData
  BY WritesShow, Zenon
<1> QED
  BY <1>1, <1>2, <1>3, PTL DEF Spec

(***************************************************************************)
(* Under the same condition a completed write is taken for the one it was, *)
(* and no two are in progress on one socket: Written pops what was written *)
(* and only then starts the next write.                                    *)
(***************************************************************************)
THEOREM WrittenInOrder ==
  ASSUME Orderly
  PROVE  Spec => []WritesInOrder
<1>1. Init => AnswersInv /\ WritesInv
  BY AnswersInit, WritesInit, Zenon
<1>2. AnswersInv /\ WritesInv /\ [Next]_vars => AnswersInv' /\ WritesInv'
  BY AnswersNext, WritesNext, OrderlyIsSound, Zenon
<1>3. AnswersInv /\ WritesInv => WritesInOrder
  BY WritesShow, Zenon
<1> QED
  BY <1>1, <1>2, <1>3, PTL DEF Spec

(***************************************************************************)
(* Under the same condition no CHECK of the client fails but the one of    *)
(* split meta data: Written finds the RPCData it was called for at the     *)
(* head of pending_, and of the size that was written.                     *)
(***************************************************************************)
THEOREM ChecksNeverFail ==
  ASSUME Orderly
  PROVE  Spec => []NoCheckFails
<1>1. Init => AnswersInv /\ WritesInv /\ NoCheckFails
  BY AnswersInit, WritesInit, Zenon DEF Init, NoCheckFails
<1>2. AnswersInv /\ WritesInv /\ NoCheckFails /\ [Next]_vars
        => AnswersInv' /\ WritesInv' /\ NoCheckFails'
  BY AnswersNext, WritesNext, ChecksHold, OrderlyIsSound, Zenon
<1> QED
  BY <1>1, <1>2, PTL DEF Spec
=============================================================================
