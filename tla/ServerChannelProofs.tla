------------------------ MODULE ServerChannelProofs ------------------------
(***************************************************************************)
(* The server's channels, for any number of connections, requests and      *)
(* services.  First the invariants, and that the one about what waits to   *)
(* be written and what was answered is kept by every step; then the        *)
(* reference counts and the pool; last the theorems: for the connections   *)
(* whose requests are answered in the loop, the counts, the writes and the *)
(* answers, and for all of them the threshold of the pool.                 *)
(***************************************************************************)
EXTENDS ServerChannel, FiniteSetTheorems, TLAPS

Names == {"state", "count", "counted", "starting", "reading", "writes", "pending",
          "closed_by_peer", "terminated"}

Fields(k) == k = [x \in Names |-> k[x]]

IsSeq(w) == \E S : w \in Seq(S)

Shape(k) ==
  /\ k = [x \in Names |-> k[x]]
  /\ k.count \in Int /\ k.starting \in BOOLEAN /\ k.reading \in BOOLEAN
  /\ IsSeq(k.writes)

Holders(k, p) == One(k.starting) + p + One(k.reading) + Len(k.writes)

\* A channel between handlers: p is one when it is in the pool.
Held(k, p) ==
  /\ Shape(k)
  /\ k.count = Holders(k, p)
  /\ k.state \in {"none", "alive", "deleted"}
  /\ k.state = "alive" <=> k.count > 0

\* A live channel inside a handler that has n references to drop.
Owes(k, p, n) ==
  /\ Shape(k)
  /\ k.count = Holders(k, p) + n
  /\ k.state = "alive"

\* Connections that no service with a thread of its own was asked on.  On the
\* others updates of the count may be lost.
Calm == Conns \ Asked(Deferring)

ChanInv ==
  /\ channel = [c \in Conns |-> channel[c]]
  /\ \A c \in Calm : Held(channel[c], One(c \in pool))
  /\ \A c \in Calm :
       channel[c].starting => c \notin pool /\ ~channel[c].reading

\* Nobody refers to a channel that was not made yet.
AwayInv ==
  /\ peer \in [Conns -> {"away", "open", "finished", "gone"}]
  /\ \A c \in Calm : peer[c] = "away" => channel[c].state = "none"

PoolInv ==
  pool \subseteq Conns /\ IsFiniteSet(pool) /\ Cardinality(pool) <= Threshold

Inv == ChanInv /\ AwayInv /\ PoolInv
-----------------------------------------------------------------------------
\* Replacing the first element of a sequence.
LEMMA FirstSet ==
  ASSUME NEW S, NEW w \in Seq(S), 1 \in 1..Len(w), NEW e \in S
  PROVE  /\ [w EXCEPT ![1] = e] \in Seq(S) /\ Len([w EXCEPT ![1] = e]) = Len(w)
         /\ \A i \in 1..Len(w) : [w EXCEPT ![1] = e][i] = IF i = 1 THEN e ELSE w[i]
  OBVIOUS

LEMMA HoldersNat ==
  ASSUME NEW k, Shape(k), NEW p \in Nat
  PROVE  Holders(k, p) \in Nat
<1>1. Len(k.writes) \in Nat
  BY DEF Shape, IsSeq
<1> QED
  BY <1>1 DEF Shape, Holders, One

\* A channel somebody holds is alive.
LEMMA HeldAlive ==
  ASSUME Inv, NEW c \in Calm,
         \/ channel[c].starting \/ channel[c].reading
         \/ channel[c].writes # <<>> \/ c \in pool
  PROVE  channel[c].state = "alive"
<1> DEFINE k == channel[c]
           q == One(c \in pool)
<1>1. Held(k, q) /\ q \in Nat
  BY Zenon DEF Inv, ChanInv, One
<1>7. c \in pool => q = 1
  BY Zenon DEF One
<1> HIDE DEF k, q
<1>2. /\ Len(k.writes) \in Nat /\ (k.writes # <<>> => Len(k.writes) > 0)
      /\ k.starting \in BOOLEAN /\ k.reading \in BOOLEAN
  BY <1>1 DEF Held, Shape, IsSeq
<1>3. One(k.starting) \in Nat /\ One(k.reading) \in Nat
  BY <1>2, Zenon DEF One
<1>4. k.starting \/ k.reading \/ k.writes # <<>> \/ c \in pool
  BY Zenon DEF k
<1>5. Holders(k, q) > 0
  <2>1. CASE k.starting
    <3>1. One(k.starting) = 1
      BY <2>1, Zenon DEF One
    <3> QED
      BY <1>1, <1>2, <1>3, <3>1 DEF Holders
  <2>2. CASE k.reading
    <3>1. One(k.reading) = 1
      BY <2>2, Zenon DEF One
    <3> QED
      BY <1>1, <1>2, <1>3, <3>1 DEF Holders
  <2>3. CASE k.writes # <<>>
    BY <1>1, <1>2, <1>3, <2>3 DEF Holders
  <2>4. CASE c \in pool
    BY <1>1, <1>2, <1>3, <1>7, <2>4 DEF Holders
  <2> QED
    BY <1>4, <2>1, <2>2, <2>3, <2>4, Zenon
<1>6. k.state = "alive"
  BY <1>1, <1>5, Zenon DEF Held
<1> QED
  BY <1>6, Zenon DEF k

\* A channel that is in the pool and read has two references.
LEMMA PoolReading ==
  ASSUME Inv, NEW c \in Calm, channel[c].reading, c \in pool
  PROVE  channel[c].count # 1
<1> DEFINE k == channel[c]
           q == One(c \in pool)
<1>1. Held(k, q) /\ q = 1 /\ One(k.reading) = 1
  BY Zenon DEF Inv, ChanInv, One
<1> HIDE DEF k, q
<1>2. Len(k.writes) \in Nat /\ One(k.starting) \in Nat
  BY <1>1 DEF Held, Shape, IsSeq, One
<1>3. k.count # 1
  BY <1>1, <1>2 DEF Held, Holders
<1> QED
  BY <1>3, Zenon DEF k

LEMMA ThreadBusy ==
  ASSUME ClosureTests \/ ClosureWrites \/ ClosureRefs
  PROVE  thread # Idle
<1>1. Idle.at = "idle"
  BY Zenon DEF Idle
<1>2. thread.at = "test" \/ thread.at = "write" \/ thread.at = "ref"
  BY Zenon DEF ClosureTests, ClosureWrites, ClosureRefs
<1>3. "idle" # "test" /\ "idle" # "write" /\ "idle" # "ref"
  BY Zenon
<1> QED
  BY <1>1, <1>2, <1>3, Zenon

-----------------------------------------------------------------------------
(***************************************************************************)
(* What waits to be written and what was answered, on a connection whose   *)
(* requests are answered in the loop.                                      *)
(***************************************************************************)

\* The first RPCData is with the one write in progress, the others wait: k is
\* the channel, who what its peer does.
Sending(k, who) ==
  /\ Fields(k)
  /\ k.writes \in Seq(Write) /\ k.pending \in Seq(Data)
  /\ Len(k.writes) <= 1
  /\ \A i \in 1..Len(k.pending) : k.pending[i].is_pending = (i = 1)
  /\ k.writes # <<>> =>
       /\ k.pending # <<>>
       /\ k.writes[1].seq = k.pending[1].seq /\ k.writes[1].by = k.pending[1].by
       /\ k.writes[1].result = "failed" => k.terminated \/ who = "gone"
  /\ k.writes = <<>> /\ k.pending # <<>> => k.terminated \/ who = "gone"

\* Changes of fields that the writes do not depend on.
LEMMA SendingSame ==
  ASSUME NEW k, NEW j, NEW who, NEW whom, Sending(k, who),
         Fields(j), j.writes = k.writes, j.pending = k.pending,
         k.terminated => j.terminated, who = "gone" => whom = "gone"
  PROVE  Sending(j, whom)
  BY Zenon DEF Sending

\* A deleted channel, which no write holds, has recycled what was waiting.
LEMMA SendingNothing ==
  ASSUME NEW j, NEW who, Fields(j),
         j.writes = <<>>, j.pending = <<>>
  PROVE  Sending(j, who)
<1>1. <<>> \in Seq(Write) /\ <<>> \in Seq(Data) /\ Len(<<>>) = 0 /\ Len(<<>>) <= 1
  OBVIOUS
<1>2. \A i \in 1..Len(j.pending) : FALSE
  BY <1>1
<1>3. Len(j.writes) <= 1 /\ j.writes \in Seq(Write) /\ j.pending \in Seq(Data)
  BY <1>1, Zenon
<1> QED
  BY <1>2, <1>3, Zenon DEF Sending

\* What HandOver does with the first RPCData and with the others.
HandedOver(k, j) ==
  /\ Fields(j) /\ j.state = k.state /\ j.terminated = k.terminated
  /\ j.writes = Append(k.writes, [seq |-> k.pending[1].seq,
                                  by |-> k.pending[1].by, result |-> "none"])
  /\ j.writes \in Seq(Write)
  /\ j.pending \in Seq(Data) /\ Len(j.pending) = Len(k.pending)
  /\ \A i \in 1..Len(k.pending) :
       /\ j.pending[i].seq = k.pending[i].seq
       /\ j.pending[i].by = k.pending[i].by
       /\ j.pending[i].is_pending = (i = 1 \/ k.pending[i].is_pending)

LEMMA HandOverSends ==
  ASSUME NEW k, Fields(k), k.writes \in Seq(Write),
         k.pending \in Seq(Data), k.pending # <<>>, NEW j, j = HandOver(k)
  PROVE  HandedOver(k, j)
<1> DEFINE p == k.pending
           e == [p[1] EXCEPT !.is_pending = TRUE]
           w == [seq |-> p[1].seq, by |-> p[1].by, result |-> "none"]
<1>1. 1 \in 1..Len(p) /\ p[1] \in Data
  OBVIOUS
<1>2. /\ e \in Data /\ e.seq = p[1].seq /\ e.by = p[1].by /\ e.is_pending = TRUE
      /\ w \in Write
  BY <1>1, Zenon DEF Data, Write
<1>3. /\ Fields(j) /\ j.state = k.state
      /\ j.terminated = k.terminated
      /\ j.writes = Append(k.writes, w) /\ j.pending = [p EXCEPT ![1] = e]
  BY Zenon DEF HandOver, Ref, Names, Fields
<1> HIDE DEF e, w
<1>4. /\ [p EXCEPT ![1] = e] \in Seq(Data) /\ Len([p EXCEPT ![1] = e]) = Len(p)
      /\ \A i \in 1..Len(p) : [p EXCEPT ![1] = e][i] = IF i = 1 THEN e ELSE p[i]
  BY <1>1, <1>2, FirstSet
<1>5. \A i \in 1..Len(p) : p[i] \in Data
  OBVIOUS
<1>6. \A i \in 1..Len(p) :
        /\ j.pending[i].seq = p[i].seq /\ j.pending[i].by = p[i].by
        /\ j.pending[i].is_pending = (i = 1 \/ p[i].is_pending)
  <2> TAKE i \in 1..Len(p)
  <2>1. CASE i = 1
    BY <1>2, <1>3, <1>4, <2>1, Zenon
  <2>2. CASE i # 1
    <3>1. j.pending[i] = p[i] /\ p[i].is_pending \in BOOLEAN
      BY <1>3, <1>4, <1>5, <2>2, Zenon DEF Data
    <3> QED
      BY <2>2, <3>1, Zenon
  <2> QED
    BY <2>1, <2>2, Zenon
<1>7. j.writes \in Seq(Write)
  <2>1. \A q \in Seq(Write) : Append(q, w) \in Seq(Write)
    BY <1>2
  <2> QED
    BY <1>3, <2>1, Zenon
<1> QED
  BY <1>3, <1>4, <1>6, <1>7, Zenon DEF w, HandedOver

\* x answers the request of its number among the requests q, with the services
\* `known' added.
Right(x, q, known) ==
  /\ q[x.seq].parses
  /\ ServiceId[x.by] = ServiceId[q[x.seq].service]
  /\ q[x.seq].service \in known => x.by = q[x.seq].service

Increasing(s) == \A i, j \in 1..Len(s) : i < j => s[i].seq < s[j].seq

Has(s, n) == \E i \in 1..Len(s) : s[i].seq = n

Done(w) == Len(w) > 0 /\ w[1].result = "written"

\* Of the requests q, n were read; p waits in pending_, w are the writes and a
\* the answers.  While the peer is there, every request that was read and could
\* be parsed is answered or waits, and what waits comes after what is answered
\* (the first stays in pending_ until Written has run).
Order(p, w, a, q, n, known, who, state, bad) ==
  /\ n \in 0..Len(q) /\ Len(q) \in Nat /\ Len(p) \in Nat /\ Len(a) \in Nat
  /\ \A i \in 1..Len(a) : a[i].seq \in 1..n /\ Right(a[i], q, known)
  /\ \A i \in 1..Len(p) : p[i].seq \in 1..n /\ Right(p[i], q, known)
  /\ Increasing(a) /\ Increasing(p)
  /\ \A i \in 1..Len(a) : \A m \in 1..(a[i].seq - 1) : q[m].parses => Has(a, m)
  /\ who # "gone" =>
       /\ Done(w) => Len(a) > 0 /\ Len(p) > 0 /\ a[Len(a)].seq = p[1].seq
       /\ \A i \in 1..Len(a), j \in 1..Len(p) :
            a[i].seq < p[j].seq \/ (Done(w) /\ j = 1 /\ i = Len(a))
       /\ state # "deleted" /\ bad = "none" =>
            \A m \in 1..n : q[m].parses => Has(a, m) \/ Has(p, m)

\* Steps that neither read, write nor answer: the peer may go, or send another
\* request; the channel may be deleted, the process end.
LEMMA OrderSame ==
  ASSUME NEW p, NEW r, NEW w, NEW v, NEW a, NEW q, NEW s, NEW n, NEW known,
         NEW who, NEW whom, NEW state, NEW after, NEW bad, NEW worse,
         Order(p, w, a, q, n, known, who, state, bad),
         Len(s) \in Nat, Len(s) >= Len(q), \A i \in 1..Len(q) : s[i] = q[i],
         Len(r) = Len(p),
         \A i \in 1..Len(p) : r[i].seq = p[i].seq /\ r[i].by = p[i].by,
         Done(v) <=> Done(w),
         who = "gone" => whom = "gone", after # "deleted" => state # "deleted",
         worse = "none" => bad = "none"
  PROVE  Order(r, v, a, s, n, known, whom, after, worse)
<1>1. \A m \in 1..n : s[m] = q[m] /\ m \in 1..Len(q)
  BY DEF Order
<1>2. \A i \in 1..Len(p) : Right(r[i], s, known) /\ r[i].seq \in 1..n
  <2> SUFFICES ASSUME NEW i \in 1..Len(p)
               PROVE  Right(r[i], s, known) /\ r[i].seq \in 1..n
    BY Zenon
  <2>1. Right(p[i], q, known) /\ p[i].seq \in 1..n
    BY Zenon DEF Order
  <2>2. r[i].seq = p[i].seq /\ r[i].by = p[i].by /\ s[p[i].seq] = q[p[i].seq]
    BY <1>1, <2>1, Zenon
  <2> QED
    BY <2>1, <2>2, Zenon DEF Right
<1>3. \A i \in 1..Len(a) : Right(a[i], s, known) /\ a[i].seq \in 1..n
  BY <1>1, SMTT(20) DEF Order, Right
<1>4. Increasing(a) /\ Increasing(r) /\ \A m : Has(r, m) <=> Has(p, m)
  BY Zenon DEF Order, Increasing, Has
<1>5. \A i \in 1..Len(a) : \A m \in 1..(a[i].seq - 1) : s[m].parses => Has(a, m)
  <2> TAKE i \in 1..Len(a)
  <2> TAKE m \in 1..(a[i].seq - 1)
  <2>1. a[i].seq \in 1..n /\ n \in Nat
    BY DEF Order
  <2>2. m \in 1..n
    BY <2>1
  <2> QED
    BY <1>1, <2>2, Zenon DEF Order
<1>6. n \in 0..Len(s)
  BY DEF Order
<1>7. whom # "gone" =>
        /\ Done(v) => Len(a) > 0 /\ Len(r) > 0 /\ a[Len(a)].seq = r[1].seq
        /\ \A i \in 1..Len(a), j \in 1..Len(r) :
             a[i].seq < r[j].seq \/ (Done(v) /\ j = 1 /\ i = Len(a))
  <2>1. Len(p) > 0 => 1 \in 1..Len(p)
    BY DEF Order
  <2> QED
    BY <2>1, Zenon DEF Order
<1>8. whom # "gone" /\ after # "deleted" /\ worse = "none" =>
        \A m \in 1..n : s[m].parses => Has(a, m) \/ Has(r, m)
  BY <1>1, <1>4, Zenon DEF Order
<1> QED
  BY <1>2, <1>3, <1>4, <1>5, <1>6, <1>7, <1>8, Zenon DEF Order

\* What waited in a channel is recycled when it is deleted.
LEMMA OrderDeleted ==
  ASSUME NEW p, NEW r, NEW w, NEW v, NEW a, NEW q, NEW n, NEW known,
         NEW who, NEW state, NEW bad,
         Order(p, w, a, q, n, known, who, state, bad), Len(r) = 0, ~Done(v)
  PROVE  Order(r, v, a, q, n, known, who, "deleted", bad)
<1>1. \A i \in 1..Len(r) : FALSE
  OBVIOUS
<1> QED
  BY <1>1 DEF Order, Increasing

\* A request that cannot be parsed is read, or one that ends the process.
LEMMA OrderSkips ==
  ASSUME NEW p, NEW w, NEW a, NEW q, NEW n, NEW known,
         NEW who, NEW state, NEW after, NEW bad, NEW worse,
         Order(p, w, a, q, n, known, who, state, bad), n < Len(q),
         ~q[n + 1].parses \/ worse # "none", worse = "none" => bad = "none",
         after # "deleted" => state # "deleted"
  PROVE  Order(p, w, a, q, n + 1, known, who, after, worse)
<1>1. n \in Nat /\ n + 1 \in 0..Len(q) /\ \A m \in 1..(n + 1) : m \in 1..n \/ m = n + 1
  BY DEF Order
<1>2. \A m \in 1..n : m \in 1..(n + 1)
  BY <1>1
<1> QED
  BY <1>1, <1>2, Zenon DEF Order

\* The answer to the next request is appended to what waits.
LEMMA OrderPushes ==
  ASSUME NEW p, NEW r, NEW w, NEW v, NEW a, NEW q, NEW n, NEW known,
         NEW who, NEW state, NEW bad,
         Order(p, w, a, q, n, known, who, state, bad), n < Len(q),
         Len(r) = Len(p) + 1,
         \A i \in 1..Len(p) : r[i].seq = p[i].seq /\ r[i].by = p[i].by,
         r[Len(p) + 1].seq = n + 1, Right(r[Len(p) + 1], q, known),
         Done(v) <=> Done(w)
  PROVE  Order(r, v, a, q, n + 1, known, who, state, bad)
<1>1. /\ n \in Nat /\ n + 1 \in 0..Len(q) /\ Len(p) \in Nat
      /\ \A m \in 1..(n + 1) : m \in 1..n \/ m = n + 1
      /\ \A m \in 1..n : m \in 1..(n + 1) /\ m < n + 1
      /\ \A i \in 1..Len(r) : i \in 1..Len(p) \/ i = Len(p) + 1
      /\ \A i \in 1..Len(p) : i \in 1..Len(r) /\ i < Len(p) + 1
      /\ Len(p) + 1 \in 1..Len(r) /\ Len(r) \in Nat
  BY DEF Order
<1>2. \A i \in 1..Len(p) : Right(r[i], q, known) /\ r[i].seq \in 1..n
  BY ZenonT(30) DEF Order, Right
<1>3. \A i \in 1..Len(r) : Right(r[i], q, known) /\ r[i].seq \in 1..(n + 1)
  BY <1>1, <1>2
<1>4. Increasing(r)
  <2> SUFFICES ASSUME NEW i \in 1..Len(r), NEW j \in 1..Len(r), i < j
               PROVE  r[i].seq < r[j].seq
    BY Zenon DEF Increasing
  <2>1. i \in 1..Len(p)
    BY <1>1
  <2>2. CASE j \in 1..Len(p)
    BY <2>1, <2>2, Zenon DEF Order, Increasing
  <2>3. CASE j = Len(p) + 1
    BY <1>1, <1>2, <2>1, <2>3, Zenon
  <2> QED
    BY <1>1, <2>2, <2>3, Zenon
<1>5. Has(r, n + 1) /\ \A m : Has(p, m) => Has(r, m)
  BY <1>1, Zenon DEF Has
<1>6. ASSUME who # "gone"
      PROVE  /\ Done(v) => Len(a) > 0 /\ Len(r) > 0 /\ a[Len(a)].seq = r[1].seq
             /\ \A i \in 1..Len(a), j \in 1..Len(r) :
                  a[i].seq < r[j].seq \/ (Done(v) /\ j = 1 /\ i = Len(a))
  <2>1. Done(v) => Len(a) > 0 /\ Len(r) > 0 /\ a[Len(a)].seq = r[1].seq
    BY <1>1, <1>6 DEF Order
  <2>2. \A i \in 1..Len(a) : a[i].seq \in 1..n
    BY Zenon DEF Order
  <2> QED
    BY <1>1, <1>6, <2>1, <2>2, SMTT(20) DEF Order
<1>7. \A i \in 1..Len(a) : a[i].seq \in 1..(n + 1) /\ Right(a[i], q, known)
  BY <1>1, Zenon DEF Order
<1>8. who # "gone" /\ state # "deleted" /\ bad = "none" =>
        \A m \in 1..(n + 1) : q[m].parses => Has(a, m) \/ Has(r, m)
  BY <1>1, <1>5, Zenon DEF Order
<1> QED
  BY <1>1, <1>3, <1>4, <1>6, <1>7, <1>8, Zenon DEF Order

\* The kernel has written the first of what waits: the peer has its answer.
LEMMA OrderAnswers ==
  ASSUME NEW p, NEW w, NEW v, NEW a, NEW b, NEW q, NEW n, NEW known,
         NEW who, NEW state, NEW bad,
         Order(p, w, a, q, n, known, who, state, bad), Len(p) > 0,
         who # "gone", state # "deleted", bad = "none", ~Done(w), Done(v),
         Len(b) = Len(a) + 1, \A i \in 1..Len(a) : b[i] = a[i],
         b[Len(a) + 1].seq = p[1].seq, b[Len(a) + 1].by = p[1].by
  PROVE  Order(p, v, b, q, n, known, who, state, bad)
<1>1. /\ n \in Nat /\ Len(a) \in Nat /\ Len(p) \in Nat /\ 1 \in 1..Len(p)
      /\ \A i \in 1..Len(b) : i \in 1..Len(a) \/ i = Len(a) + 1
      /\ \A i \in 1..Len(a) : i \in 1..Len(b) /\ i < Len(a) + 1
      /\ Len(a) + 1 \in 1..Len(b) /\ Len(b) \in Nat
      /\ \A j \in 1..Len(p) : j = 1 \/ 1 < j
  BY DEF Order
<1>2. p[1].seq \in 1..n /\ Right(p[1], q, known)
  BY <1>1, Zenon DEF Order
<1>3. Right(b[Len(a) + 1], q, known) /\ b[Len(a) + 1].seq \in 1..n
  BY <1>2, Zenon DEF Right
<1>4. \A i \in 1..Len(b) : Right(b[i], q, known) /\ b[i].seq \in 1..n
  BY <1>1, <1>3, Zenon DEF Order
<1>5. \A i \in 1..Len(a) : a[i].seq \in 1..n /\ a[i].seq < p[1].seq
  BY <1>1, Zenon DEF Order
<1>6. Increasing(b)
  <2> SUFFICES ASSUME NEW i \in 1..Len(b), NEW j \in 1..Len(b), i < j
               PROVE  b[i].seq < b[j].seq
    BY Zenon DEF Increasing
  <2>1. i \in 1..Len(a) /\ b[i] = a[i]
    BY <1>1
  <2>2. CASE j \in 1..Len(a)
    <3>1. b[j] = a[j]
      BY <2>2, Zenon
    <3> QED
      BY <2>1, <2>2, <3>1, Zenon DEF Order, Increasing
  <2>3. CASE j = Len(a) + 1
    BY <1>5, <2>1, <2>3, Zenon
  <2> QED
    BY <1>1, <2>2, <2>3, Zenon
<1>7. \A j \in 1..Len(p) : j # 1 => p[1].seq < p[j].seq
  BY <1>1, Zenon DEF Order, Increasing
<1>8. \A m : Has(a, m) => Has(b, m)
  BY <1>1, Zenon DEF Has
<1>9. Has(b, p[1].seq)
  BY <1>1, Zenon DEF Has
<1>10. \A i \in 1..Len(b) : \A m \in 1..(b[i].seq - 1) : q[m].parses => Has(b, m)
  <2> TAKE i \in 1..Len(b)
  <2> TAKE m \in 1..(b[i].seq - 1)
  <2> HAVE q[m].parses
  <2>1. CASE i \in 1..Len(a)
    BY <1>8, <2>1, Zenon DEF Order
  <2>2. CASE i = Len(a) + 1
    <3>1. m \in 1..n /\ m < p[1].seq
      <4>1. b[i].seq = p[1].seq
        BY <2>2, Zenon
      <4> QED
        BY <1>1, <1>2, <4>1
    <3>2. Has(a, m) \/ Has(p, m)
      BY <3>1, Zenon DEF Order
    <3>3. \A j \in 1..Len(p) : p[j].seq \in 1..n
      BY Zenon DEF Order
    <3>4. \A j \in 1..Len(p) : p[j].seq # m
      BY <1>1, <1>2, <1>7, <3>1, <3>3
    <3> QED
      BY <1>8, <3>2, <3>4, Zenon DEF Has
  <2> QED
    BY <1>1, <2>1, <2>2, Zenon
<1>11. \A i \in 1..Len(b), j \in 1..Len(p) :
         b[i].seq < p[j].seq \/ (j = 1 /\ i = Len(b))
  <2> TAKE i \in 1..Len(b), j \in 1..Len(p)
  <2>1. p[j].seq \in 1..n
    BY Zenon DEF Order
  <2>2. CASE i \in 1..Len(a)
    <3>1. b[i] = a[i] /\ a[i].seq < p[1].seq /\ a[i].seq \in 1..n
      BY <1>5, <2>2, Zenon
    <3> QED
      BY <1>2, <1>7, <2>1, <3>1
  <2>3. CASE i = Len(a) + 1
    BY <1>7, <2>3, Zenon
  <2> QED
    BY <1>1, <2>2, <2>3, Zenon
<1>12. \A m \in 1..n : q[m].parses => Has(b, m) \/ Has(p, m)
  BY <1>8, Zenon DEF Order
<1> QED
  BY <1>1, <1>4, <1>6, <1>10, <1>11, <1>12 DEF Order

\* Written takes the first, which the peer has, from what waits.
LEMMA OrderPops ==
  ASSUME NEW p, NEW r, NEW w, NEW v, NEW a, NEW q, NEW n, NEW known,
         NEW who, NEW state, NEW bad,
         Order(p, w, a, q, n, known, who, state, bad), Len(p) > 0, Done(w),
         ~Done(v), Len(r) = Len(p) - 1,
         \A i \in 1..Len(r) : r[i].seq = p[i + 1].seq /\ r[i].by = p[i + 1].by
  PROVE  Order(r, v, a, q, n, known, who, state, bad)
<1>1. /\ n \in Nat /\ Len(a) \in Nat /\ Len(p) \in Nat /\ 1 \in 1..Len(p)
      /\ \A i \in 1..Len(r) : i + 1 \in 1..Len(p) /\ i + 1 # 1 /\ 1 < i + 1
      /\ \A i \in 1..Len(p) : i = 1 \/ (i - 1 \in 1..Len(r) /\ (i - 1) + 1 = i)
      /\ Len(r) \in Nat
  BY DEF Order
<1>2. \A i \in 1..Len(r) : Right(r[i], q, known) /\ r[i].seq \in 1..n
  <2> TAKE i \in 1..Len(r)
  <2>1. Right(p[i + 1], q, known) /\ p[i + 1].seq \in 1..n
    BY <1>1, Zenon DEF Order
  <2>2. r[i].seq = p[i + 1].seq /\ r[i].by = p[i + 1].by
    BY Zenon
  <2> QED
    BY <2>1, <2>2, Zenon DEF Right
<1>3. Increasing(r)
  <2> SUFFICES ASSUME NEW i \in 1..Len(r), NEW j \in 1..Len(r), i < j
               PROVE  r[i].seq < r[j].seq
    BY Zenon DEF Increasing
  <2>1. i + 1 \in 1..Len(p) /\ j + 1 \in 1..Len(p) /\ i + 1 < j + 1
    BY <1>1
  <2>2. p[i + 1].seq < p[j + 1].seq
    BY <2>1, Zenon DEF Order, Increasing
  <2> QED
    BY <2>2, Zenon
<1>4. ASSUME who # "gone"
      PROVE  \A i \in 1..Len(a), j \in 1..Len(r) : a[i].seq < r[j].seq
  BY <1>1, <1>4, SMTT(20) DEF Order
<1>5. ASSUME who # "gone" PROVE Has(a, p[1].seq)
  BY <1>1, <1>5 DEF Order, Has
<1>6. \A m : Has(p, m) => m = p[1].seq \/ Has(r, m)
  <2> TAKE m
  <2> HAVE Has(p, m)
  <2>1. PICK i \in 1..Len(p) : p[i].seq = m
    BY Zenon DEF Has
  <2>2. CASE i = 1
    BY <2>1, <2>2, Zenon
  <2>3. CASE i # 1
    <3>1. i - 1 \in 1..Len(r) /\ (i - 1) + 1 = i
      BY <1>1, <2>3, Zenon
    <3>2. r[i - 1].seq = m
      BY <2>1, <3>1, Zenon
    <3> QED
      BY <3>1, <3>2, Zenon DEF Has
  <2> QED
    BY <2>2, <2>3, Zenon
<1> QED
  BY <1>1, <1>2, <1>3, <1>4, <1>5, <1>6, Zenon DEF Order
-----------------------------------------------------------------------------
\* The channel after UnRef is the one before, or deleted.
LEMMA UnRefSends ==
  ASSUME NEW k, Fields(k), NEW j, j = UnRef(k)
  PROVE  /\ Fields(j)
         /\ j.writes = k.writes /\ j.terminated = k.terminated
         /\ k.state = "deleted" => j.state = "deleted"
         /\ \/ j.pending = k.pending /\ j.state = k.state
            \/ j.pending = <<>> /\ j.state = "deleted"
<1> DEFINE less == [k EXCEPT !.count = @ - 1, !.counted = TRUE]
<1>1. /\ less.writes = k.writes /\ less.terminated = k.terminated
      /\ less.state = k.state /\ less.pending = k.pending
      /\ Fields(less)
  BY Zenon DEF Names, Fields
<1>2. j = IF less.count = 0 THEN Deleted(less) ELSE less
  BY Zenon DEF UnRef
<1> HIDE DEF less
<1>3. /\ Deleted(less).writes = less.writes /\ Deleted(less).pending = <<>>
      /\ Deleted(less).terminated = less.terminated
      /\ Deleted(less).state = "deleted"
      /\ Fields(Deleted(less))
  BY <1>1, Zenon DEF Deleted, Names, Fields
<1> QED
  BY <1>1, <1>2, <1>3, Zenon

\* WriteInLoop with nothing in progress: the first RPCData gets its write.
LEMMA WriteStarts ==
  ASSUME NEW m, NEW who, Fields(m), m.writes = <<>>, m.pending \in Seq(Data),
         \A i \in 1..Len(m.pending) : m.pending[i].is_pending = FALSE,
         NEW j, j = WriteInLoop(m)
  PROVE  /\ Sending(j, who) /\ ~Done(j.writes)
         /\ j.state = m.state /\ j.terminated = m.terminated
         /\ Len(j.pending) = Len(m.pending)
         /\ \A i \in 1..Len(m.pending) : /\ j.pending[i].seq = m.pending[i].seq
                                         /\ j.pending[i].by = m.pending[i].by
<1>1. <<>> \in Seq(Write) /\ Len(<<>>) = 0
  OBVIOUS
<1>2. m.writes \in Seq(Write) /\ Len(m.writes) = 0
  BY <1>1, Zenon
<1>3. CASE m.pending = <<>>
  <2>1. j = m
    BY <1>3, Zenon DEF WriteInLoop
  <2>2. Sending(m, who)
    BY <1>3, SendingNothing, Zenon
  <2>3. ~Done(m.writes)
    BY <1>2 DEF Done
  <2> QED
    BY <2>1, <2>2, <2>3, Zenon
<1>4. CASE m.pending # <<>>
  <2>1. 1 \in 1..Len(m.pending) /\ m.pending[1].is_pending = FALSE
    BY <1>4
  <2>2. j = HandOver(m)
    BY <1>4, <2>1, Zenon DEF WriteInLoop
  <2> DEFINE w == [seq |-> m.pending[1].seq, by |-> m.pending[1].by,
                   result |-> "none"]
  <2>3. HandedOver(m, j)
    BY <1>2, <1>4, <2>2, HandOverSends, Zenon
  <2> HIDE DEF w
  <2>4. /\ w.seq = m.pending[1].seq /\ w.by = m.pending[1].by
        /\ w.result = "none"
    BY Zenon DEF w
  <2>5. Append(<<>>, w) = <<w>> /\ Len(<<w>>) = 1 /\ <<w>>[1] = w /\ <<w>> # <<>>
    OBVIOUS
  <2>6. Len(j.writes) = 1 /\ j.writes[1] = w /\ j.writes # <<>>
    <3>1. j.writes = Append(<<>>, w)
      BY <2>3, Zenon DEF HandedOver, w
    <3> QED
      BY <2>5, <3>1, Zenon
  <2>7. \A i \in 1..Len(j.pending) : j.pending[i].is_pending = (i = 1)
    <3> TAKE i \in 1..Len(j.pending)
    <3>1. m.pending[i].is_pending = FALSE
          /\ j.pending[i].is_pending = (i = 1 \/ m.pending[i].is_pending)
      BY <2>3, Zenon DEF HandedOver
    <3> QED
      BY <3>1, Zenon
  <2>8. j.pending # <<>>
    BY <2>1, <2>3 DEF HandedOver
  <2>9. Sending(j, who)
    BY <2>1, <2>3, <2>4, <2>6, <2>7, <2>8 DEF Sending, HandedOver
  <2>10. ~Done(j.writes)
    BY <2>4, <2>6, Zenon DEF Done
  <2> QED
    BY <2>3, <2>9, <2>10, Zenon DEF HandedOver
<1> QED
  BY <1>3, <1>4, Zenon

\* SendInLoop appends its response; the write in progress stays the first's.
Sent(k, r, j) ==
  /\ j.state = k.state /\ j.terminated = k.terminated
  /\ Len(j.pending) = Len(k.pending) + 1
  /\ \A i \in 1..Len(k.pending) : /\ j.pending[i].seq = k.pending[i].seq
                                  /\ j.pending[i].by = k.pending[i].by
  /\ j.pending[Len(k.pending) + 1].seq = r.seq
  /\ j.pending[Len(k.pending) + 1].by = r.by
  /\ Done(j.writes) <=> Done(k.writes)

LEMMA SendSends ==
  ASSUME NEW k, NEW who, Sending(k, who), NEW r, r.seq \in 1..MaxRequests,
         r.by \in Services, NEW j, j = SendInLoop(k, r)
  PROVE  Sending(j, who) /\ Sent(k, r, j)
<1> DEFINE d == [seq |-> r.seq, by |-> r.by, is_pending |-> FALSE]
           p == k.pending
           m == PushBack(k, r)
<1>1. d \in Data /\ d.seq = r.seq /\ d.by = r.by /\ d.is_pending = FALSE
  BY Zenon DEF Data
<1>2. /\ Fields(m) /\ m.pending = Append(p, d)
      /\ m.writes = k.writes /\ m.state = k.state
      /\ m.terminated = k.terminated
  BY Zenon DEF Sending, PushBack, Names, Fields
<1>3. j = WriteInLoop(m)
  BY Zenon DEF SendInLoop
<1> HIDE DEF d, m
<1>4. p \in Seq(Data) /\ k.writes \in Seq(Write)
  BY Zenon DEF Sending
<1> HIDE DEF p
<1>5. /\ Append(p, d) \in Seq(Data) /\ Len(Append(p, d)) = Len(p) + 1
      /\ Append(p, d)[Len(p) + 1] = d /\ Len(p) \in Nat
      /\ \A i \in 1..Len(p) : Append(p, d)[i] = p[i]
  BY <1>1, <1>4
<1>6. /\ m.pending \in Seq(Data) /\ m.pending # <<>> /\ m.writes \in Seq(Write)
      /\ Len(m.pending) = Len(p) + 1
      /\ \A i \in 1..Len(p) : m.pending[i] = p[i]
      /\ m.pending[Len(p) + 1] = d
  <2>1. Append(p, d) # <<>>
    BY <1>5
  <2> QED
    BY <1>2, <1>4, <1>5, <2>1, Zenon
<1>7. CASE p = <<>>
  <2>1. k.writes = <<>> /\ Len(p) = 0 /\ ~Done(k.writes)
    BY <1>7 DEF Sending, p, Done
  <2>2. \A i \in 1..Len(m.pending) : m.pending[i].is_pending = FALSE
    BY <1>1, <1>6, <2>1
  <2>3. /\ Sending(j, who) /\ ~Done(j.writes)
        /\ j.state = m.state /\ j.terminated = m.terminated
        /\ Len(j.pending) = Len(m.pending)
        /\ \A i \in 1..Len(m.pending) : /\ j.pending[i].seq = m.pending[i].seq
                                        /\ j.pending[i].by = m.pending[i].by
    <3>1. Fields(m) /\ m.writes = <<>> /\ m.pending \in Seq(Data)
      BY <1>2, <1>6, <2>1, Zenon
    <3> QED
      BY <1>3, <2>2, <3>1, WriteStarts, Zenon
  <2>4. 1 \in 1..Len(m.pending) /\ m.pending[1] = d /\ Len(m.pending) = 1
    BY <1>6, <2>1
  <2> QED
    BY <1>1, <1>2, <2>1, <2>3, <2>4 DEF p, Sent
<1>8. CASE p # <<>>
  <2>1. Len(p) > 0 /\ 1 \in 1..Len(p)
    BY <1>4, <1>8
  <2>2. \A i \in 1..Len(p) : p[i].is_pending = (i = 1)
    BY Zenon DEF Sending, p
  <2>3. m.pending[1].is_pending /\ m.pending[1] = p[1]
    BY <1>6, <2>1, <2>2, Zenon
  <2>4. j = m
    BY <1>3, <2>3, Zenon DEF WriteInLoop
  <2>5. \A i \in 1..Len(m.pending) : m.pending[i].is_pending = (i = 1)
    <3> TAKE i \in 1..Len(m.pending)
    <3>1. CASE i \in 1..Len(p)
      BY <1>6, <2>2, <3>1, Zenon
    <3>2. CASE i = Len(p) + 1
      <4>1. m.pending[i].is_pending = FALSE
        BY <1>1, <1>6, <3>2, Zenon
      <4>2. i # 1
        BY <1>5, <2>1, <3>2
      <4> QED
        BY <4>1, <4>2, Zenon
    <3> QED
      BY <1>5, <1>6, <3>1, <3>2
  <2>6. Sending(m, who)
    <3>1. k.pending = p /\ k.pending[1] = m.pending[1]
      BY <2>3, Zenon DEF p
    <3> QED
      BY <1>2, <1>6, <1>8, <2>5, <3>1, Zenon DEF Sending
  <2> QED
    BY <1>1, <1>2, <1>6, <2>4, <2>6, Zenon DEF p, Sent
<1> QED
  BY <1>7, <1>8, Zenon

EndedWith(result, w, v) ==
  /\ v \in Seq(Write) /\ Len(v) = Len(w)
  /\ v[1].seq = w[1].seq /\ v[1].by = w[1].by /\ v[1].result = result

LEMMA FirstEnds ==
  ASSUME NEW w \in Seq(Write), w # <<>>, NEW result \in {"written", "failed"},
         NEW v, v = [w EXCEPT ![1] = [w[1] EXCEPT !.result = result]]
  PROVE  EndedWith(result, w, v)
<1> DEFINE e == [w[1] EXCEPT !.result = result]
<1>1. 1 \in 1..Len(w) /\ w[1] \in Write
  OBVIOUS
<1>2. e \in Write /\ e.seq = w[1].seq /\ e.by = w[1].by /\ e.result = result
  BY <1>1, Zenon DEF Write
<1> HIDE DEF e
<1>3. v = [w EXCEPT ![1] = e]
  BY Zenon DEF e
<1>4. v \in Seq(Write) /\ Len(v) = Len(w) /\ v[1] = e
  BY <1>1, <1>2, <1>3, FirstSet
<1> QED
  BY <1>2, <1>4, Zenon DEF EndedWith

\* The kernel ends the write in progress.
LEMMA CompleteSends ==
  ASSUME NEW k, NEW who, Sending(k, who), k.writes # <<>>,
         NEW result \in {"written", "failed"},
         result = "failed" => who = "gone" \/ k.terminated,
         NEW j, Fields(j), j.pending = k.pending, j.state = k.state,
         j.terminated = k.terminated, EndedWith(result, k.writes, j.writes)
  PROVE  Sending(j, who) /\ (Done(j.writes) <=> result = "written")
<1>1. k.writes \in Seq(Write) /\ Len(k.writes) <= 1
  BY Zenon DEF Sending
<1>2. \A w \in Seq(Write) : w # <<>> => Len(w) > 0
  OBVIOUS
<1>3. Len(j.writes) > 0
  BY <1>1, <1>2, Zenon DEF EndedWith
<1>4. Sending(j, who)
  BY DEF Sending, EndedWith
<1>5. Done(j.writes) <=> result = "written"
  BY <1>3, Zenon DEF Done, EndedWith
<1> QED
  BY <1>4, <1>5, Zenon

\* Written pops what was written and starts the next write.
Popped(k, j) ==
  /\ ~Done(j.writes) /\ j.state = k.state /\ Len(j.pending) = Len(k.pending) - 1
  /\ \A i \in 1..Len(j.pending) : /\ j.pending[i].seq = k.pending[i + 1].seq
                                  /\ j.pending[i].by = k.pending[i + 1].by

LEMMA PopSends ==
  ASSUME NEW k, NEW who, Sending(k, who), k.writes # <<>>, NEW m,
         Fields(m), m.writes = Tail(k.writes), m.pending = Tail(k.pending),
         m.state = k.state, NEW j, j = WriteInLoop(m)
  PROVE  Sending(j, who) /\ Popped(k, j)
<1> DEFINE p == k.pending
           w == k.writes
<1>1. /\ p \in Seq(Data) /\ p # <<>> /\ w \in Seq(Write) /\ w # <<>>
      /\ Len(w) <= 1 /\ \A i \in 1..Len(p) : p[i].is_pending = (i = 1)
  BY Zenon DEF Sending
<1> HIDE DEF p, w
<1>2. Tail(w) = <<>>
  BY <1>1
<1>3. /\ Tail(p) \in Seq(Data) /\ Len(Tail(p)) = Len(p) - 1 /\ Len(p) \in Nat
      /\ \A i \in 1..Len(Tail(p)) : /\ Tail(p)[i] = p[i + 1] /\ i + 1 # 1
                                    /\ i + 1 \in 1..Len(p)
  BY <1>1
<1>4. m.writes = <<>> /\ m.pending = Tail(p) /\ m.pending \in Seq(Data)
  BY <1>2, <1>3, Zenon DEF p, w
<1>5. \A i \in 1..Len(m.pending) : m.pending[i].is_pending = FALSE
  <2> SUFFICES ASSUME NEW i \in 1..Len(m.pending)
               PROVE  m.pending[i].is_pending = FALSE
    BY Zenon
  <2>1. m.pending[i] = p[i + 1] /\ i + 1 # 1 /\ i + 1 \in 1..Len(p)
    BY <1>3, <1>4, Zenon
  <2>2. p[i + 1].is_pending = (i + 1 = 1)
    BY <1>1, <2>1, Zenon
  <2> QED
    BY <2>1, <2>2, Zenon
<1>6. /\ Sending(j, who) /\ ~Done(j.writes)
      /\ j.state = m.state /\ j.terminated = m.terminated
      /\ Len(j.pending) = Len(m.pending)
      /\ \A i \in 1..Len(m.pending) : /\ j.pending[i].seq = m.pending[i].seq
                                      /\ j.pending[i].by = m.pending[i].by
  BY <1>4, <1>5, WriteStarts, ZenonT(30)
<1> QED
  BY <1>3, <1>4, <1>6 DEF p, Popped
-----------------------------------------------------------------------------
\* A channel k with its peer's requests and answers, as in Sending and Order.
Flow(k, a, q, n, known, who, bad) ==
  /\ Sending(k, who)
  /\ Order(k.pending, k.writes, a, q, n, known, who, k.state, bad)

LEMMA FlowSame ==
  ASSUME NEW k, NEW j, NEW a, NEW q, NEW s, NEW n, NEW known, NEW who, NEW whom,
         NEW bad, NEW worse, Flow(k, a, q, n, known, who, bad),
         Fields(j), j.writes = k.writes, j.pending = k.pending,
         j.state = k.state, k.terminated => j.terminated,
         Len(s) \in Nat, Len(s) >= Len(q), \A i \in 1..Len(q) : s[i] = q[i],
         who = "gone" => whom = "gone", worse = "none" => bad = "none"
  PROVE  Flow(j, a, s, n, known, whom, worse)
<1>1. Sending(j, whom)
  BY SendingSame, Zenon DEF Flow
<1>2. Order(k.pending, k.writes, a, q, n, known, who, k.state, bad)
  BY Zenon DEF Flow
<1>3. Order(k.pending, k.writes, a, s, n, known, whom, k.state, worse)
  <2> DEFINE p == k.pending
             w == k.writes
             state == k.state
  <2>1. /\ Order(p, w, a, q, n, known, who, state, bad)
        /\ Len(s) \in Nat /\ Len(s) >= Len(q) /\ \A i \in 1..Len(q) : s[i] = q[i]
        /\ Len(p) = Len(p)
        /\ \A i \in 1..Len(p) : p[i].seq = p[i].seq /\ p[i].by = p[i].by
        /\ Done(w) <=> Done(w)
        /\ who = "gone" => whom = "gone"
        /\ state # "deleted" => state # "deleted"
        /\ worse = "none" => bad = "none"
    BY <1>2, Zenon
  <2> HIDE DEF p, w, state
  <2>2. Order(p, w, a, s, n, known, whom, state, worse)
    BY <2>1, OrderSame, Zenon
  <2> QED
    BY <2>2, Zenon DEF p, w, state
<1> QED
  BY <1>1, <1>3, Zenon DEF Flow

LEMMA FlowUnRef ==
  ASSUME NEW k, NEW j, NEW a, NEW q, NEW n, NEW known, NEW who, NEW bad,
         Flow(k, a, q, n, known, who, bad), j = UnRef(k),
         j.state = "deleted" => j.writes = <<>>
  PROVE  Flow(j, a, q, n, known, who, bad)
<1>1. Fields(k) /\ Sending(k, who)
  BY Zenon DEF Flow, Sending
<1>2. /\ Fields(j) /\ j.writes = k.writes /\ j.terminated = k.terminated
      /\ \/ j.pending = k.pending /\ j.state = k.state
         \/ j.pending = <<>> /\ j.state = "deleted"
  BY <1>1, UnRefSends, Zenon
<1>3. Order(k.pending, k.writes, a, q, n, known, who, k.state, bad)
  BY Zenon DEF Flow
<1>4. CASE j.pending = k.pending /\ j.state = k.state
  <2>1. Sending(j, who)
    BY <1>1, <1>2, <1>4, SendingSame, Zenon
  <2> QED
    BY <1>2, <1>3, <1>4, <2>1, Zenon DEF Flow
<1>5. CASE j.pending = <<>> /\ j.state = "deleted"
  <2>1. Len(<<>>) = 0 /\ ~Done(<<>>)
    BY DEF Done
  <2>2. j.writes = <<>> /\ Len(j.pending) = 0 /\ ~Done(j.writes)
    BY <1>5, <2>1, Zenon
  <2>3. Sending(j, who)
    BY <1>2, <1>5, <2>2, SendingNothing, Zenon
  <2>4. Order(j.pending, j.writes, a, q, n, known, who, "deleted", bad)
    BY <1>3, <2>2, OrderDeleted, Zenon
  <2> QED
    BY <1>5, <2>3, <2>4, Zenon DEF Flow
<1> QED
  BY <1>2, <1>4, <1>5, Zenon

LEMMA FlowSkips ==
  ASSUME NEW k, NEW a, NEW q, NEW n, NEW known, NEW who, NEW bad, NEW worse,
         Flow(k, a, q, n, known, who, bad), n < Len(q),
         ~q[n + 1].parses \/ worse # "none", worse = "none" => bad = "none"
  PROVE  Flow(k, a, q, n + 1, known, who, worse)
<1>1. Order(k.pending, k.writes, a, q, n, known, who, k.state, bad)
  BY Zenon DEF Flow
<1>2. Order(k.pending, k.writes, a, q, n + 1, known, who, k.state, worse)
  BY <1>1, OrderSkips, Zenon
<1> QED
  BY <1>2, Zenon DEF Flow

LEMMA FlowSends ==
  ASSUME NEW k, NEW j, NEW a, NEW q, NEW n, NEW known, NEW who, NEW bad, NEW r,
         Flow(k, a, q, n, known, who, bad), n < Len(q),
         r.seq = n + 1, r.seq \in 1..MaxRequests, r.by \in Services,
         q[n + 1].parses, ServiceId[r.by] = ServiceId[q[n + 1].service],
         q[n + 1].service \in known => r.by = q[n + 1].service,
         j = SendInLoop(k, r)
  PROVE  Flow(j, a, q, n + 1, known, who, bad)
<1>1. /\ Order(k.pending, k.writes, a, q, n, known, who, k.state, bad)
      /\ Sending(k, who)
  BY Zenon DEF Flow
<1>2. Sending(j, who) /\ Sent(k, r, j)
  BY <1>1, SendSends, Zenon
<1>3. Right(j.pending[Len(k.pending) + 1], q, known)
  BY <1>2, Zenon DEF Right, Sent
<1>4. Order(j.pending, j.writes, a, q, n + 1, known, who, k.state, bad)
  <2>1. /\ Len(j.pending) = Len(k.pending) + 1
        /\ \A i \in 1..Len(k.pending) : /\ j.pending[i].seq = k.pending[i].seq
                                        /\ j.pending[i].by = k.pending[i].by
        /\ j.pending[Len(k.pending) + 1].seq = n + 1
        /\ Done(j.writes) <=> Done(k.writes)
    BY <1>2, Zenon DEF Sent
  <2> QED
    BY <1>1, <1>3, <2>1, OrderPushes, Zenon
<1> QED
  BY <1>2, <1>4, Zenon DEF Flow, Sent

\* A write ends: when it was written and the peer is there, it has its answer.
LEMMA FlowCompletes ==
  ASSUME NEW k, NEW j, NEW a, NEW b, NEW q, NEW n, NEW known, NEW who,
         Flow(k, a, q, n, known, who, "none"), k.state # "deleted",
         k.writes # <<>>, k.writes[1].result = "none",
         NEW result \in {"written", "failed"},
         result = "failed" => who = "gone" \/ k.terminated,
         EndedWith(result, k.writes, j.writes), Fields(j),
         j.pending = k.pending, j.state = k.state, j.terminated = k.terminated,
         ~(result = "written" /\ who # "gone") => b = a,
         result = "written" /\ who # "gone" =>
           /\ Len(b) = Len(a) + 1 /\ \A i \in 1..Len(a) : b[i] = a[i]
           /\ b[Len(a) + 1].seq = k.writes[1].seq
           /\ b[Len(a) + 1].by = k.writes[1].by
  PROVE  Flow(j, b, q, n, known, who, "none")
<1>1. /\ Order(k.pending, k.writes, a, q, n, known, who, k.state, "none")
      /\ Sending(k, who) /\ k.writes \in Seq(Write) /\ k.pending \in Seq(Data)
      /\ k.pending # <<>>
      /\ k.writes[1].seq = k.pending[1].seq /\ k.writes[1].by = k.pending[1].by
  BY Zenon DEF Flow, Sending
<1>2. Sending(j, who) /\ (Done(j.writes) <=> result = "written")
  BY <1>1, CompleteSends, Zenon
<1>3. ~Done(k.writes)
  BY Zenon DEF Done
<1>4. \A p \in Seq(Data) : p # <<>> => Len(p) > 0
  BY SMTT(30)
<1>5. Len(k.pending) > 0
  BY <1>1, <1>4, Zenon
<1>6. CASE result = "written" /\ who # "gone"
  <2>1. Order(k.pending, j.writes, b, q, n, known, who, k.state, "none")
    BY <1>1, <1>2, <1>3, <1>5, <1>6, OrderAnswers, Zenon
  <2> QED
    BY <1>2, <2>1, Zenon DEF Flow
<1>7. CASE result = "failed"
  <2>1. ~Done(j.writes) /\ b = a
    BY <1>2, <1>7, Zenon
  <2>2. Order(k.pending, j.writes, a, q, n, known, who, k.state, "none")
    BY <1>1, <1>3, <2>1, Zenon DEF Order
  <2> QED
    BY <1>2, <2>1, <2>2, Zenon DEF Flow
<1>8. CASE who = "gone"
  <2>1. Order(k.pending, j.writes, a, q, n, known, who, k.state, "none")
    BY <1>1, <1>8, Zenon DEF Order
  <2> QED
    BY <1>2, <1>8, <2>1, Zenon DEF Flow
<1> QED
  BY <1>6, <1>7, <1>8, Zenon

\* Written, after a write that failed and after one that did not.
LEMMA FlowFails ==
  ASSUME NEW k, NEW j, NEW a, NEW q, NEW n, NEW known, NEW who, NEW bad,
         Flow(k, a, q, n, known, who, bad),
         k.writes # <<>>, k.writes[1].result = "failed", Fields(j),
         j.writes = Tail(k.writes), j.pending = k.pending, j.state = k.state,
         j.terminated = k.terminated
  PROVE  Flow(j, a, q, n, known, who, bad)
<1>1. /\ Order(k.pending, k.writes, a, q, n, known, who, k.state, bad)
      /\ Sending(k, who) /\ k.writes \in Seq(Write) /\ Len(k.writes) <= 1
      /\ k.terminated \/ who = "gone"
  BY Zenon DEF Flow, Sending
<1>2. \A w \in Seq(Write) : w # <<>> /\ Len(w) <= 1 => Tail(w) = <<>>
  OBVIOUS
<1>3. j.writes = <<>>
  BY <1>1, <1>2, Zenon
<1>4. <<>> \in Seq(Write) /\ Len(<<>>) <= 1 /\ ~Done(<<>>)
  BY DEF Done
<1>5. j.writes \in Seq(Write) /\ Len(j.writes) <= 1 /\ ~Done(j.writes)
  BY <1>3, <1>4, ZenonT(30)
<1>6. Sending(j, who)
  BY <1>1, <1>3, <1>5, Zenon DEF Sending
<1>7. ~Done(k.writes)
  BY Zenon DEF Done
<1>8. Order(k.pending, j.writes, a, q, n, known, who, k.state, bad)
  BY <1>1, <1>5, <1>7, Zenon DEF Order
<1> QED
  BY <1>6, <1>8, Zenon DEF Flow

LEMMA FlowPops ==
  ASSUME NEW k, NEW m, NEW j, NEW a, NEW q, NEW n, NEW known, NEW who, NEW bad,
         Flow(k, a, q, n, known, who, bad),
         k.writes # <<>>, k.writes[1].result = "written", Fields(m),
         m.writes = Tail(k.writes), m.pending = Tail(k.pending),
         m.state = k.state, j = WriteInLoop(m)
  PROVE  Flow(j, a, q, n, known, who, bad)
<1>1. /\ Order(k.pending, k.writes, a, q, n, known, who, k.state, bad)
      /\ Sending(k, who) /\ k.writes \in Seq(Write)
      /\ k.pending \in Seq(Data) /\ k.pending # <<>>
  BY Zenon DEF Flow, Sending
<1>2. /\ Sending(j, who) /\ ~Done(j.writes) /\ j.state = k.state
      /\ Len(j.pending) = Len(k.pending) - 1
      /\ \A i \in 1..Len(j.pending) :
           /\ j.pending[i].seq = k.pending[i + 1].seq
           /\ j.pending[i].by = k.pending[i + 1].by
  <2>1. Sending(j, who) /\ Popped(k, j)
    BY <1>1, PopSends, Zenon
  <2> QED
    BY <2>1, Zenon DEF Popped
<1>3. /\ \A w \in Seq(Write) : w # <<>> => Len(w) > 0
      /\ \A p \in Seq(Data) : p # <<>> => Len(p) > 0
  OBVIOUS
<1>4. Len(k.pending) > 0 /\ Done(k.writes)
  BY <1>1, <1>3, Zenon DEF Done
<1>5. Order(j.pending, j.writes, a, q, n, known, who, k.state, bad)
  BY <1>1, <1>2, <1>4, OrderPops, Zenon
<1> QED
  BY <1>2, <1>5, Zenon DEF Flow

\* Before anything was asked there is nothing to answer.
LEMMA FlowNothing ==
  ASSUME NEW k, NEW a, NEW q, NEW known, NEW who, NEW bad, Fields(k),
         k.writes = <<>>, k.pending = <<>>, Len(a) = 0, Len(q) = 0
  PROVE  Flow(k, a, q, 0, known, who, bad)
<1>1. Len(<<>>) = 0 /\ ~Done(<<>>)
  BY DEF Done
<1>2. Len(k.pending) = 0 /\ ~Done(k.writes)
  BY <1>1, Zenon
<1>3. \A i \in 1..0 : FALSE
  OBVIOUS
<1>4. Order(k.pending, k.writes, a, q, 0, known, who, k.state, bad)
  BY <1>2, <1>3 DEF Order, Increasing
<1> QED
  BY <1>4, SendingNothing, Zenon DEF Flow

LEMMA FlowUnasked ==
  ASSUME NEW k, NEW a, NEW q, NEW n, NEW known, NEW more, NEW who, NEW bad,
         NEW worse, Flow(k, a, q, n, known, who, bad), Len(q) = 0
  PROVE  Flow(k, a, q, n, more, who, worse)
<1>1. Order(k.pending, k.writes, a, q, n, known, who, k.state, bad)
  BY Zenon DEF Flow
<1>2. n = 0 /\ \A i \in 1..n : FALSE
  BY <1>1 DEF Order
<1>3. /\ \A i \in 1..Len(a) : FALSE
      /\ \A i \in 1..Len(k.pending) : FALSE
  BY <1>1, <1>2, Zenon DEF Order
<1>4. Order(k.pending, k.writes, a, q, n, more, who, k.state, worse)
  BY <1>1, <1>2, <1>3, Zenon DEF Order
<1> QED
  BY <1>4, Zenon DEF Flow
-----------------------------------------------------------------------------
\* Requests q are numbered and for services of S; those of u were not read yet.
Queued(q, u, S) ==
  /\ q \in Seq(Request) /\ u \in Seq(Request) /\ Len(u) <= Len(q)
  /\ \A i \in 1..Len(u) : u[i] = q[Len(q) - Len(u) + i]
  /\ \A n \in 1..Len(q) : q[n].seq = n /\ q[n].service \in S

LEMMA QueuedAppend ==
  ASSUME NEW q, NEW u, NEW S, Queued(q, u, S), NEW r \in Request,
         r.seq = Len(q) + 1, r.service \in S
  PROVE  /\ Queued(Append(q, r), Append(u, r), S)
         /\ Len(Append(q, r)) - Len(Append(u, r)) = Len(q) - Len(u)
         /\ Len(Append(q, r)) = Len(q) + 1
         /\ \A i \in 1..Len(q) : Append(q, r)[i] = q[i]
<1>1. q \in Seq(Request) /\ u \in Seq(Request) /\ Len(q) \in Nat /\ Len(u) \in Nat
  BY DEF Queued
<1> DEFINE s == Append(q, r)
           v == Append(u, r)
<1>2. /\ s \in Seq(Request) /\ Len(s) = Len(q) + 1 /\ s[Len(q) + 1] = r
      /\ \A i \in 1..Len(q) : s[i] = q[i]
      /\ v \in Seq(Request) /\ Len(v) = Len(u) + 1 /\ v[Len(u) + 1] = r
      /\ \A i \in 1..Len(u) : v[i] = u[i]
  BY <1>1
<1> HIDE DEF s, v
<1>3. \A i \in 1..Len(v) : v[i] = s[Len(s) - Len(v) + i]
  <2> TAKE i \in 1..Len(v)
  <2>1. CASE i \in 1..Len(u)
    <3>1. u[i] = q[Len(q) - Len(u) + i] /\ Len(q) - Len(u) + i \in 1..Len(q)
      BY <1>1, <2>1 DEF Queued
    <3>2. Len(s) - Len(v) + i = Len(q) - Len(u) + i
      BY <1>1, <1>2, <2>1
    <3> QED
      BY <1>2, <2>1, <3>1, <3>2, Zenon
  <2>2. CASE i = Len(u) + 1
    <3>1. Len(s) - Len(v) + i = Len(q) + 1
      BY <1>1, <1>2, <2>2
    <3> QED
      BY <1>2, <2>2, <3>1, Zenon
  <2> QED
    BY <1>1, <1>2, <2>1, <2>2
<1>4. \A n \in 1..Len(s) : s[n].seq = n /\ s[n].service \in S
  <2> TAKE n \in 1..Len(s)
  <2>1. CASE n \in 1..Len(q)
    BY <1>2, <2>1, Zenon DEF Queued
  <2>2. CASE n = Len(q) + 1
    BY <1>2, <2>2, Zenon
  <2> QED
    BY <1>1, <1>2, <2>1, <2>2
<1>5. Len(v) <= Len(s) /\ Len(s) - Len(v) = Len(q) - Len(u)
  BY <1>1, <1>2 DEF Queued
<1> QED
  BY <1>2, <1>3, <1>4, <1>5, Zenon DEF Queued, s, v

LEMMA QueuedTail ==
  ASSUME NEW q, NEW u, NEW S, Queued(q, u, S), u # <<>>
  PROVE  /\ Queued(q, Tail(u), S)
         /\ Len(q) - Len(Tail(u)) = (Len(q) - Len(u)) + 1
         /\ Len(q) - Len(u) \in Nat /\ Len(q) - Len(u) < Len(q)
         /\ Head(u) = q[Len(q) - Len(u) + 1]
<1>1. /\ q \in Seq(Request) /\ u \in Seq(Request) /\ Len(q) \in Nat
      /\ Len(u) \in Nat /\ Len(u) > 0 /\ Len(u) <= Len(q)
  BY DEF Queued
<1>2. /\ Tail(u) \in Seq(Request) /\ Len(Tail(u)) = Len(u) - 1
      /\ \A i \in 1..Len(Tail(u)) : Tail(u)[i] = u[i + 1] /\ i + 1 \in 1..Len(u)
      /\ Head(u) = u[1] /\ 1 \in 1..Len(u)
  BY <1>1
<1>3. \A i \in 1..Len(Tail(u)) : Tail(u)[i] = q[Len(q) - Len(Tail(u)) + i]
  <2> SUFFICES ASSUME NEW i \in 1..Len(Tail(u))
               PROVE  Tail(u)[i] = q[Len(q) - Len(Tail(u)) + i]
    BY Zenon
  <2>1. u[i + 1] = q[Len(q) - Len(u) + (i + 1)]
    BY <1>2, Zenon DEF Queued
  <2>2. Len(q) - Len(u) + (i + 1) = Len(q) - Len(Tail(u)) + i
    BY <1>1, <1>2
  <2> QED
    BY <1>2, <2>1, <2>2, Zenon
<1>4. Head(u) = q[Len(q) - Len(u) + 1]
  BY <1>2, Zenon DEF Queued
<1> QED
  BY <1>1, <1>2, <1>3, <1>4 DEF Queued
-----------------------------------------------------------------------------
\* A service is found under its identifier, and nowhere else.
PoolOfServices ==
  /\ added \subseteq Services
  /\ \A i \in DOMAIN service_pool :
       service_pool[i] \in added /\ ServiceId[service_pool[i]] = i
  /\ fault # "service added twice" =>
       \A s \in added : /\ ServiceId[s] \in DOMAIN service_pool
                        /\ service_pool[ServiceId[s]] = s
  /\ ~serving => \A c \in Conns : peer[c] = "away"

Requests ==
  /\ asked = [c \in Conns |-> asked[c]] /\ unread = [c \in Conns |-> unread[c]]
  /\ \A c \in Conns : Queued(asked[c], unread[c], added \cup Strangers)
  /\ \A c \in Conns : peer[c] = "away" => Len(asked[c]) = 0

\* Closures are kept only for requests to services that keep them.
KeptClosures ==
  /\ \A d \in deferred : d.conn \in Asked(Deferring)
  /\ thread = Idle \/ thread.conn \in Asked(Deferring)

ReadSoFar(c) == Len(asked[c]) - Len(unread[c])

FlowOf(c) == Flow(channel[c], answers[c], asked[c], ReadSoFar(c), added, peer[c],
                  fault)

Flows ==
  /\ answers = [c \in Conns |-> answers[c]]
  /\ \A c \in Calm : FlowOf(c) /\ answers[c] \in Seq(Response)

FlowInv == PoolOfServices /\ Requests /\ KeptClosures /\ NoFault /\ Flows

LEMMA InitFlow == Init => FlowInv
<1> SUFFICES ASSUME Init PROVE FlowInv
  BY Zenon
<1>1. PoolOfServices
  BY DEF Init, PoolOfServices
<1>2. <<>> \in Seq(Request) /\ <<>> \in Seq(Response) /\ Len(<<>>) = 0
      /\ \A i \in 1..Len(<<>>) : FALSE
  OBVIOUS
<1>3. \A c \in Conns : asked[c] = <<>> /\ unread[c] = <<>> /\ answers[c] = <<>>
                       /\ channel[c] = Absent
  BY Zenon DEF Init
<1>4. Queued(<<>>, <<>>, added \cup Strangers)
  BY <1>2 DEF Queued
<1>5. Requests
  BY <1>2, <1>3, <1>4, Zenon DEF Requests, Init
<1>6. Fields(Absent) /\ Absent.writes = <<>> /\ Absent.pending = <<>>
  BY Zenon DEF Absent, Fields, Names
<1>7. \A c \in Conns : ReadSoFar(c) = 0
  BY <1>2, <1>3 DEF ReadSoFar
<1>8. \A c \in Conns : FlowOf(c)
  <2> TAKE c \in Conns
  <2>1. Flow(Absent, <<>>, <<>>, 0, added, peer[c], fault)
    BY <1>2, <1>6, FlowNothing, Zenon
  <2> QED
    BY <1>3, <1>7, <2>1, Zenon DEF FlowOf
<1>9. Flows
  BY <1>2, <1>3, <1>8, Zenon DEF Flows, Calm, Init
<1> QED
  BY <1>1, <1>5, <1>9, Zenon DEF FlowInv, KeptClosures, NoFault, Init

\* What was asked stays asked.
LEMMA AskedGrows ==
  ASSUME Requests, NEW c \in Conns, NEW r, NEW S,
         asked' = [asked EXCEPT ![c] = Append(@, r)]
  PROVE  Asked(S) \subseteq Asked(S)'
<1> SUFFICES ASSUME NEW b \in Asked(S) PROVE b \in Asked(S)'
  BY Zenon
<1>1. PICK i \in DOMAIN asked[b] : \E s \in S :
        ServiceId[asked[b][i].service] = ServiceId[s]
  BY Zenon DEF Asked
<1>2. b \in Conns /\ asked[b] \in Seq(Request) /\ asked[c] \in Seq(Request)
  BY Zenon DEF Asked, Requests, Queued
<1>3. i \in DOMAIN asked'[b] /\ asked'[b][i] = asked[b][i]
  <2>1. CASE b = c
    <3>1. asked'[b] = Append(asked[c], r)
      BY <1>2, <2>1, Zenon DEF Requests
    <3>2. \A q \in Seq(Request) : \A e : \A n \in DOMAIN q :
            n \in DOMAIN Append(q, e) /\ Append(q, e)[n] = q[n]
      <4> TAKE q \in Seq(Request)
      <4> TAKE e
      <4> TAKE n \in DOMAIN q
      <4>1. q \in Seq(Request \cup {e}) /\ e \in Request \cup {e}
        OBVIOUS
      <4> QED
        BY <4>1
    <3> QED
      BY <1>2, <2>1, <3>1, <3>2
  <2>2. CASE b # c
    BY <1>2, <2>2, Zenon DEF Requests
  <2> QED
    BY <2>1, <2>2, Zenon
<1> QED
  BY <1>1, <1>2, <1>3, Zenon DEF Asked

\* A connection that a step leaves alone, but for what its peer does.
LEMMA Untouched ==
  ASSUME FlowInv, fault = "none", NEW b \in Calm, channel'[b] = channel[b],
         answers'[b] = answers[b], asked'[b] = asked[b], unread'[b] = unread[b],
         added' = added, peer[b] = "gone" => peer'[b] = "gone"
  PROVE  FlowOf(b)' /\ answers'[b] \in Seq(Response)
<1> DEFINE k == channel[b]
           a == answers[b]
           q == asked[b]
           n == ReadSoFar(b)
<1>1. Flow(k, a, q, n, added, peer[b], fault) /\ a \in Seq(Response)
  BY Zenon DEF FlowInv, Flows, FlowOf
<1>2. Fields(k)
  BY <1>1, Zenon DEF Flow, Sending
<1>3. Len(q) \in Nat
  BY DEF FlowInv, Requests, Queued, Calm
<1>4. ReadSoFar(b)' = n
  BY ZenonT(30) DEF ReadSoFar
<1> HIDE DEF k, a, q, n
<1>5. Len(q) >= Len(q) /\ \A i \in 1..Len(q) : q[i] = q[i]
  BY <1>3, SMTT(30)
<1>6. Flow(k, a, q, n, added, peer'[b], fault')
  BY <1>1, <1>2, <1>3, <1>5, FlowSame, Zenon
<1>7. Flow(channel'[b], answers'[b], asked'[b], ReadSoFar(b)', added', peer'[b], fault')
  BY <1>4, <1>6, Zenon DEF k, a, q
<1> QED
  BY <1>1, <1>7, Zenon DEF FlowOf, a

\* A step at the connection c only.
LEMMA OneFlow ==
  ASSUME FlowInv, fault = "none", NEW c \in Conns, asked' = asked, added' = added,
         answers' = [b \in Conns |-> answers'[b]],
         \A b \in Conns \ {c} :
           /\ channel'[b] = channel[b] /\ answers'[b] = answers[b]
           /\ unread'[b] = unread[b] /\ peer'[b] = peer[b],
         c \in Calm => FlowOf(c)' /\ answers'[c] \in Seq(Response)
  PROVE  Flows' /\ Asked(Deferring)' = Asked(Deferring)
<1>1. Asked(Deferring)' = Asked(Deferring) /\ Calm' = Calm
  BY Zenon DEF Asked, Calm
<1>2. ASSUME NEW b \in Calm, b # c
      PROVE  FlowOf(b)' /\ answers'[b] \in Seq(Response)
  <2>1. b \in Conns \ {c}
    BY <1>2, Zenon DEF Calm
  <2> QED
    BY <2>1, Untouched, Zenon
<1>3. \A b \in Calm : FlowOf(b)' /\ answers'[b] \in Seq(Response)
  BY <1>2, Zenon
<1> QED
  BY <1>1, <1>3, Zenon DEF Flows

\* A step at which nobody asks and no fault is found.
LEMMA Rest ==
  ASSUME FlowInv, fault = "none", fault' = fault, asked' = asked, unread' = unread,
         added' = added, service_pool' = service_pool, serving' = serving,
         deferred' \subseteq deferred, thread' \in {thread, Idle},
         \A c \in Conns : peer'[c] = "away" <=> peer[c] = "away"
  PROVE  PoolOfServices' /\ Requests' /\ KeptClosures' /\ NoFault'
<1>1. PoolOfServices'
  BY Zenon DEF FlowInv, PoolOfServices
<1>2. Requests'
  BY Zenon DEF FlowInv, Requests
<1>3. Asked(Deferring)' = Asked(Deferring)
  BY Zenon DEF Asked
<1>4. KeptClosures'
  BY <1>3, Zenon DEF FlowInv, KeptClosures
<1>5. NoFault'
  BY Zenon DEF NoFault
<1> QED
  BY <1>1, <1>2, <1>4, <1>5, Zenon

LEMMA PeerFlow ==
  ASSUME Inv, FlowInv, fault = "none", NEW c \in Conns,
         PeerFinishes(c) \/ PeerGoes(c)
  PROVE  FlowInv'
<1>1. /\ channel' = channel /\ unread' = unread /\ asked' = asked
      /\ answers' = answers /\ fault' = fault /\ added' = added
      /\ service_pool' = service_pool /\ serving' = serving
      /\ deferred' = deferred /\ thread' = thread
      /\ peer[c] \in {"open", "finished"}
      /\ \/ peer' = [peer EXCEPT ![c] = "finished"] /\ peer[c] = "open"
         \/ peer' = [peer EXCEPT ![c] = "gone"]
  BY Zenon DEF PeerFinishes, PeerGoes, serviceVars
<1>2. /\ \A b \in Conns \ {c} : peer'[b] = peer[b]
      /\ peer[c] # "away" /\ peer'[c] # "away" /\ peer[c] # "gone"
  BY <1>1, Zenon DEF Inv, AwayInv
<1>3. PoolOfServices' /\ Requests' /\ KeptClosures' /\ NoFault'
  BY <1>1, <1>2, Rest, Zenon
<1>4. c \in Calm => FlowOf(c)' /\ answers'[c] \in Seq(Response)
  BY <1>1, <1>2, Untouched, Zenon
<1>5. answers' = [b \in Conns |-> answers'[b]]
  BY <1>1, Zenon DEF FlowInv, Flows
<1>6. Flows'
  BY <1>1, <1>2, <1>4, <1>5, OneFlow, Zenon
<1> QED
  BY <1>3, <1>6, Zenon DEF FlowInv

LEMMA PeerSendsFlow ==
  ASSUME Inv, FlowInv, fault = "none", NEW c \in Conns, NEW s \in Services,
         NEW parses \in BOOLEAN, PeerSends(c, s, parses)
  PROVE  FlowInv'
<1> DEFINE r == [seq |-> Len(asked[c]) + 1, service |-> s, parses |-> parses]
           q == asked[c]
           u == unread[c]
           S == added \cup Strangers
<1>1. /\ channel' = channel /\ peer' = peer /\ answers' = answers /\ fault' = fault
      /\ added' = added /\ service_pool' = service_pool /\ serving' = serving
      /\ deferred' = deferred /\ thread' = thread
      /\ asked' = [asked EXCEPT ![c] = Append(@, r)]
      /\ unread' = [unread EXCEPT ![c] = Append(@, r)]
      /\ peer[c] = "open" /\ Len(q) < MaxRequests /\ s \in S
  BY Zenon DEF PeerSends, serviceVars
<1>2. Queued(q, u, S) /\ q \in Seq(Request) /\ Len(q) \in Nat
  BY DEF FlowInv, Requests, Queued
<1>3. r \in Request /\ r.seq = Len(q) + 1 /\ r.service \in S
  BY <1>1, <1>2, ServerAssumption DEF Request
<1> HIDE DEF r
<1>4. /\ asked'[c] = Append(q, r) /\ unread'[c] = Append(u, r)
      /\ \A b \in Conns \ {c} : asked'[b] = asked[b] /\ unread'[b] = unread[b]
      /\ asked' = [b \in Conns |-> asked'[b]]
      /\ unread' = [b \in Conns |-> unread'[b]]
  BY <1>1, ZenonT(30) DEF FlowInv, Requests
<1> HIDE DEF q, u, S
<1>5. /\ Queued(Append(q, r), Append(u, r), S)
      /\ Len(Append(q, r)) - Len(Append(u, r)) = Len(q) - Len(u)
      /\ Len(Append(q, r)) = Len(q) + 1
      /\ \A i \in 1..Len(q) : Append(q, r)[i] = q[i]
  BY <1>2, <1>3, QueuedAppend, Zenon
<1>6. Requests'
  <2>1. \A b \in Conns : Queued(asked'[b], unread'[b], S)
    BY <1>4, <1>5, Zenon DEF FlowInv, Requests, S
  <2>2. \A b \in Conns : peer'[b] = "away" => Len(asked'[b]) = 0
    BY <1>1, <1>4, Zenon DEF FlowInv, Requests
  <2>3. S = added' \cup Strangers
    BY <1>1, Zenon DEF S
  <2> QED
    BY <1>4, <2>1, <2>2, <2>3, Zenon DEF Requests
<1>7. Asked(Deferring) \subseteq Asked(Deferring)'
  BY <1>1, AskedGrows, Zenon DEF FlowInv
<1>8. PoolOfServices' /\ KeptClosures' /\ NoFault'
  BY <1>1, <1>7, Zenon DEF FlowInv, PoolOfServices, KeptClosures, NoFault
<1>9. ASSUME NEW b \in Calm'
      PROVE  FlowOf(b)' /\ answers'[b] \in Seq(Response)
  <2>1. b \in Calm /\ b \in Conns
    BY <1>7, <1>9, Zenon DEF Calm
  <2>2. CASE b # c
    BY <1>1, <1>4, <2>1, <2>2, Untouched, Zenon
  <2>3. CASE b = c
    <3> DEFINE k == channel[c]
               a == answers[c]
               n == Len(q) - Len(u)
    <3>1. Flow(k, a, q, n, added, peer[c], fault) /\ a \in Seq(Response)
      BY <2>1, <2>3, ZenonT(30) DEF FlowInv, Flows, FlowOf, ReadSoFar, q, u
    <3>2. Fields(k)
      BY <3>1, Zenon DEF Flow, Sending
    <3>3. ReadSoFar(c)' = n
      BY <1>4, <1>5, Zenon DEF ReadSoFar
    <3> HIDE DEF k, a, n
    <3>4. Len(Append(q, r)) \in Nat /\ Len(Append(q, r)) >= Len(q)
      BY <1>2, <1>5
    <3>5. Flow(k, a, Append(q, r), n, added, peer[c], fault)
      BY <1>5, <3>1, <3>2, <3>4, FlowSame, Zenon
    <3> QED
      BY <1>1, <1>4, <2>3, <3>1, <3>3, <3>5, Zenon DEF FlowOf, k, a
  <2> QED
    BY <2>2, <2>3, Zenon
<1>10. Flows'
  BY <1>1, <1>9, Zenon DEF FlowInv, Flows
<1> QED
  BY <1>6, <1>8, <1>10, Zenon DEF FlowInv

LEMMA RunFlow ==
  ASSUME FlowInv, fault = "none", Run
  PROVE  FlowInv'
<1>1. /\ channel' = channel /\ unread' = unread /\ asked' = asked
      /\ answers' = answers /\ fault' = fault /\ added' = added /\ serving' = TRUE
      /\ service_pool' = service_pool /\ deferred' = deferred /\ thread' = thread
      /\ peer' = peer
  BY Zenon DEF Run, peerVars
<1>2. PoolOfServices'
  BY <1>1, Zenon DEF FlowInv, PoolOfServices
<1>3. Asked(Deferring)' = Asked(Deferring) /\ Calm' = Calm
  BY <1>1, Zenon DEF Asked, Calm
<1>4. Requests' /\ KeptClosures' /\ NoFault'
  BY <1>1, <1>3, Zenon DEF FlowInv, Requests, KeptClosures, NoFault
<1>5. \A b \in Calm : FlowOf(b)' /\ answers'[b] \in Seq(Response)
  BY <1>1, Untouched, Zenon
<1>6. Flows'
  BY <1>1, <1>3, <1>5, Zenon DEF FlowInv, Flows
<1> QED
  BY <1>2, <1>4, <1>6, Zenon DEF FlowInv

LEMMA AddServiceFlow ==
  ASSUME FlowInv, fault = "none", NEW s \in Services, AddService(s)
  PROVE  FlowInv'
<1> DEFINE id == ServiceId[s]
<1>1. /\ channel' = channel /\ unread' = unread /\ asked' = asked
      /\ answers' = answers /\ serving' = serving /\ peer' = peer
      /\ deferred' = deferred /\ thread' = thread /\ ~serving
      /\ added' = added \cup {s}
      /\ service_pool' = [i \in DOMAIN service_pool \cup {id} |->
                            IF i \in DOMAIN service_pool THEN service_pool[i] ELSE s]
      /\ fault' = IF GetService(id) = {} THEN fault ELSE "service added twice"
  BY Zenon DEF AddService, peerVars
<1>2. /\ DOMAIN service_pool' = DOMAIN service_pool \cup {id}
      /\ \A i \in DOMAIN service_pool : service_pool'[i] = service_pool[i]
      /\ id \notin DOMAIN service_pool => service_pool'[id] = s
  BY <1>1, Zenon
<1>3. GetService(id) = {} => id \notin DOMAIN service_pool
  BY Zenon DEF GetService
<1> HIDE DEF id
<1>4. PoolOfServices'
  <2>1. \A i \in DOMAIN service_pool' :
          service_pool'[i] \in added' /\ ServiceId[service_pool'[i]] = i
    BY <1>1, <1>2, Zenon DEF FlowInv, PoolOfServices, id
  <2>2. ASSUME fault' # "service added twice", NEW t \in added'
        PROVE  ServiceId[t] \in DOMAIN service_pool' /\ service_pool'[ServiceId[t]] = t
    <3>1. id \notin DOMAIN service_pool
      BY <1>1, <1>3, <2>2, Zenon
    <3> QED
      BY <1>1, <1>2, <2>2, <3>1, Zenon DEF FlowInv, PoolOfServices, id
  <2> QED
    BY <1>1, <2>1, <2>2, Zenon DEF FlowInv, PoolOfServices
<1>5. Asked(Deferring)' = Asked(Deferring) /\ Calm' = Calm
  BY <1>1, Zenon DEF Asked, Calm
<1>6. KeptClosures' /\ NoFault'
  BY <1>1, <1>5, Zenon DEF FlowInv, KeptClosures, NoFault
<1>7. Requests'
  <2>1. \A c \in Conns : Queued(asked'[c], unread'[c], added' \cup Strangers)
    BY <1>1, Zenon DEF FlowInv, Requests, Queued
  <2> QED
    BY <1>1, <2>1, Zenon DEF FlowInv, Requests
<1>8. ASSUME NEW b \in Calm PROVE FlowOf(b)' /\ answers'[b] \in Seq(Response)
  <2>1. /\ Flow(channel[b], answers[b], asked[b], ReadSoFar(b), added, peer[b], fault)
        /\ answers[b] \in Seq(Response) /\ b \in Conns
    BY <1>8, Zenon DEF FlowInv, Flows, FlowOf, Calm
  <2>2. Len(asked[b]) = 0
    BY <1>1, <2>1, Zenon DEF FlowInv, PoolOfServices, Requests
  <2>3. Flow(channel[b], answers[b], asked[b], ReadSoFar(b), added', peer[b], fault')
    BY <2>1, <2>2, FlowUnasked, Zenon
  <2>4. ReadSoFar(b)' = ReadSoFar(b)
    BY <1>1, Zenon DEF ReadSoFar
  <2> QED
    BY <1>1, <2>1, <2>3, <2>4, Zenon DEF FlowOf
<1>9. Flows'
  BY <1>1, <1>5, <1>8, Zenon DEF FlowInv, Flows
<1> QED
  BY <1>4, <1>6, <1>7, <1>9, Zenon DEF FlowInv

LEMMA AcceptedFlow ==
  ASSUME Inv, FlowInv, fault = "none", NEW c \in Conns, Accepted(c)
  PROVE  FlowInv'
<1> DEFINE k == [Absent EXCEPT !.state = "alive", !.count = 1, !.starting = TRUE]
<1>1. /\ unread' = unread /\ asked' = asked /\ answers' = answers /\ fault' = fault
      /\ added' = added /\ service_pool' = service_pool /\ serving' = serving
      /\ deferred' = deferred /\ thread' = thread /\ serving /\ peer[c] = "away"
      /\ peer' = [peer EXCEPT ![c] = "open"] /\ channel' = [channel EXCEPT ![c] = k]
  BY Zenon DEF Accepted, serviceVars
<1>2. Fields(k) /\ k.writes = <<>> /\ k.pending = <<>>
  BY Zenon DEF Absent, Fields, Names
<1> HIDE DEF k
<1>3. /\ channel'[c] = k /\ peer'[c] = "open"
      /\ \A b \in Conns \ {c} : channel'[b] = channel[b] /\ peer'[b] = peer[b]
  BY <1>1, Zenon DEF Inv, AwayInv, ChanInv
<1>4. PoolOfServices'
  BY <1>1, Zenon DEF FlowInv, PoolOfServices
<1>5. Requests'
  BY <1>1, <1>3, ZenonT(30) DEF FlowInv, Requests
<1>6. Asked(Deferring)' = Asked(Deferring)
  BY <1>1, Zenon DEF Asked
<1>7. KeptClosures' /\ NoFault'
  BY <1>1, <1>6, ZenonT(30) DEF FlowInv, KeptClosures, NoFault
<1>8. ASSUME c \in Calm PROVE FlowOf(c)' /\ answers'[c] \in Seq(Response)
  <2>1. /\ Flow(channel[c], answers[c], asked[c], ReadSoFar(c), added, peer[c], fault)
        /\ answers[c] \in Seq(Response)
    BY <1>8, Zenon DEF FlowInv, Flows, FlowOf
  <2>2. Len(asked[c]) = 0
    BY <1>1, Zenon DEF FlowInv, Requests
  <2>3. /\ Order(channel[c].pending, channel[c].writes, answers[c], asked[c],
                 ReadSoFar(c), added, peer[c], channel[c].state, fault)
    BY <2>1, Zenon DEF Flow
  <2>4. ReadSoFar(c) = 0
    <3>1. ReadSoFar(c) \in 0..Len(asked[c])
      BY <2>3, Zenon DEF Order
    <3> QED
      BY <2>2, <3>1
  <2>5. Len(answers[c]) = 0
    <3>1. \A i \in 1..Len(answers[c]) : answers[c][i].seq \in 1..0
      BY <2>3, <2>4, Zenon DEF Order
    <3>2. \A i \in 1..Len(answers[c]) : FALSE
      BY <3>1
    <3>3. Len(answers[c]) \in Nat
      BY <2>1, SMTT(30)
    <3> QED
      BY <3>2, <3>3, SMTT(30)
  <2>6. Flow(k, answers[c], asked[c], 0, added, peer'[c], fault)
    BY <1>2, <2>2, <2>5, FlowNothing, Zenon
  <2>7. ReadSoFar(c)' = 0
    BY <1>1, <2>4, Zenon DEF ReadSoFar
  <2> QED
    BY <1>1, <1>3, <2>1, <2>6, <2>7, Zenon DEF FlowOf
<1>9. answers' = [b \in Conns |-> answers'[b]]
  BY <1>1, Zenon DEF FlowInv, Flows
<1>10. Flows'
  BY <1>1, <1>3, <1>8, <1>9, OneFlow, Zenon
<1> QED
  BY <1>4, <1>5, <1>7, <1>10, Zenon DEF FlowInv

\* A step at a connection that is not calm: one of a closure's own thread, or one
\* that finds the channel deleted.
LEMMA ThreadFlow ==
  ASSUME Inv, FlowInv, fault = "none", NEW c \in Asked(Deferring), NEW k,
         unread' = unread, asked' = asked, answers' = answers, added' = added,
         service_pool' = service_pool, serving' = serving, peer' = peer,
         channel' = channel \/ channel' = [channel EXCEPT ![c] = k],
         fault' \in {"none", "use after delete"},
         deferred' \subseteq deferred,
         thread' \in {thread, Idle} \/ thread'.conn = c
  PROVE  FlowInv'
<1>1. c \in Conns /\ c \notin Calm
  BY Zenon DEF Asked, Calm
<1>2. /\ Asked(Deferring)' = Asked(Deferring)
      /\ answers' = [b \in Conns |-> answers'[b]]
  <2>1. Asked(Deferring)' = Asked(Deferring)
    BY Zenon DEF Asked
  <2>2. answers = [b \in Conns |-> answers[b]]
    BY Zenon DEF FlowInv, Flows
  <2> QED
    BY <2>1, <2>2, Zenon
<1>3. PoolOfServices' /\ Requests'
  BY Zenon DEF FlowInv, PoolOfServices, Requests
<1>4. KeptClosures' /\ NoFault'
  BY <1>2, Zenon DEF FlowInv, KeptClosures, NoFault
<1>5. \A b \in Conns \ {c} :
        /\ channel'[b] = channel[b] /\ answers'[b] = answers[b]
        /\ unread'[b] = unread[b] /\ peer'[b] = peer[b]
  BY Zenon DEF Inv, ChanInv
<1>6. Flows'
  BY <1>1, <1>2, <1>5, OneFlow, Zenon
<1> QED
  BY <1>3, <1>4, <1>6, Zenon DEF FlowInv

LEMMA TerminateFlow ==
  ASSUME Inv, FlowInv, fault = "none", CloseAllChannelsInLoop, fault' = fault
  PROVE  FlowInv'
<1>1. /\ unread' = unread /\ asked' = asked /\ answers' = answers /\ fault' = fault
      /\ added' = added /\ service_pool' = service_pool /\ serving' = serving
      /\ deferred' = deferred /\ thread' = thread /\ peer' = peer
      /\ \A c \in Conns : \/ channel'[c] = channel[c]
                           \/ channel'[c] = TerminateInLoop(channel[c])
  BY Zenon DEF CloseAllChannelsInLoop, peerVars, serviceVars
<1>2. PoolOfServices' /\ Requests' /\ KeptClosures' /\ NoFault'
  BY <1>1, Rest, Zenon
<1>3. Calm' = Calm
  BY <1>1, Zenon DEF Calm, Asked
<1>4. ASSUME NEW b \in Calm PROVE FlowOf(b)' /\ answers'[b] \in Seq(Response)
  <2> DEFINE k == channel[b]
             j == TerminateInLoop(k)
             q == asked[b]
             n == ReadSoFar(b)
  <2>1. /\ Flow(k, answers[b], q, n, added, peer[b], fault)
        /\ answers[b] \in Seq(Response) /\ b \in Conns
    BY <1>4, Zenon DEF FlowInv, Flows, FlowOf, Calm
  <2>2. CASE channel'[b] = k
    BY <1>1, <1>4, <2>1, <2>2, Untouched, Zenon
  <2>3. CASE channel'[b] = j
    <3>1. Fields(k)
      BY <2>1, Zenon DEF Flow, Sending
    <3>2. /\ Fields(j) /\ j.writes = k.writes /\ j.pending = k.pending
          /\ j.state = k.state /\ j.terminated
      <4> HIDE DEF k
      <4> QED
        BY <3>1, Zenon DEF TerminateInLoop, Fields, Names
    <3>3. Len(q) \in Nat
      BY <2>1 DEF FlowInv, Requests, Queued
    <3>4. ReadSoFar(b)' = n
      BY <1>1, Zenon DEF ReadSoFar
    <3> HIDE DEF k, j, q, n
    <3>5. Len(q) >= Len(q) /\ \A i \in 1..Len(q) : q[i] = q[i]
      BY <3>3, SMTT(30)
    <3>6. Flow(j, answers[b], q, n, added, peer[b], fault)
      BY <2>1, <3>2, <3>3, <3>5, FlowSame, Zenon
    <3> QED
      BY <1>1, <2>1, <2>3, <3>4, <3>6, Zenon DEF FlowOf, q
  <2> QED
    BY <1>1, <2>1, <2>2, <2>3, Zenon
<1>5. Flows'
  BY <1>1, <1>3, <1>4, Zenon DEF FlowInv, Flows
<1> QED
  BY <1>2, <1>5, Zenon DEF FlowInv

LEMMA CloseAllFlow ==
  ASSUME Inv, FlowInv, fault = "none", CloseAllChannelsInLoop
  PROVE  FlowInv'
<1>1. ASSUME NEW c \in pool, channel[c].state = "deleted",
             fault' = "use after delete", channel' = channel
      PROVE  FlowInv'
  <2>1. c \in Conns /\ channel[c].state # "alive"
    BY <1>1, Zenon DEF Inv, PoolInv
  <2>2. c \in Asked(Deferring)
    BY <2>1, HeldAlive, Zenon DEF Calm
  <2>3. /\ unread' = unread /\ asked' = asked /\ answers' = answers
        /\ added' = added /\ service_pool' = service_pool /\ serving' = serving
        /\ deferred' = deferred /\ thread' = thread /\ peer' = peer
    BY Zenon DEF CloseAllChannelsInLoop, peerVars, serviceVars
  <2> QED
    BY <1>1, <2>2, <2>3, ThreadFlow, Zenon
<1> QED
  BY <1>1, TerminateFlow, Zenon DEF CloseAllChannelsInLoop

\* The handler of an operation whose channel is deleted.
LEMMA DeletedFlow ==
  ASSUME Inv, FlowInv, fault = "none", NEW c \in Conns, HandlerOfDeleted(c)
  PROVE  FlowInv'
<1>1. /\ channel[c].state # "alive"
      /\ channel[c].reading \/ channel[c].writes # <<>>
  BY Zenon DEF HandlerOfDeleted
<1>2. c \in Asked(Deferring)
  BY <1>1, HeldAlive, Zenon DEF Calm
<1>3. /\ unread' = unread /\ asked' = asked /\ answers' = answers
      /\ added' = added /\ service_pool' = service_pool /\ serving' = serving
      /\ deferred' = deferred /\ thread' = thread /\ peer' = peer
      /\ fault' = "use after delete" /\ channel' = channel
  BY Zenon DEF HandlerOfDeleted, peerVars, serviceVars
<1> QED
  BY <1>2, <1>3, ThreadFlow, Zenon
-----------------------------------------------------------------------------
LEMMA DeletedFree ==
  ASSUME NEW k, NEW p \in Nat, Held(k, p), k.state = "deleted"
  PROVE  k.writes = <<>>
<1>1. /\ Len(k.writes) \in Nat /\ (k.writes # <<>> => Len(k.writes) > 0)
      /\ One(k.starting) \in Nat /\ One(k.reading) \in Nat
  BY DEF Held, Shape, IsSeq, One
<1>2. Holders(k, p) \in Nat /\ k.count = Holders(k, p) /\ ~(k.count > 0)
  BY HoldersNat, Zenon DEF Held
<1>3. Len(k.writes) = 0
  BY <1>1, <1>2 DEF Holders
<1> QED
  BY <1>1, <1>3

\* A handler of c that ends by dropping its reference: k is the channel before.
LEMMA HandlerFlow ==
  ASSUME Inv, Inv', FlowInv, fault = "none", NEW c \in Conns, NEW k,
         channel' = [channel EXCEPT ![c] = UnRef(k)],
         asked' = asked, added' = added, answers' = answers, peer' = peer,
         \A b \in Conns \ {c} : unread'[b] = unread[b],
         c \in Calm => Flow(k, answers[c], asked[c], ReadSoFar(c)', added, peer[c],
                            fault')
  PROVE  Flows' /\ Asked(Deferring)' = Asked(Deferring)
<1> DEFINE j == UnRef(k)
<1>1. /\ channel'[c] = j
      /\ \A b \in Conns \ {c} : channel'[b] = channel[b] /\ answers'[b] = answers[b]
      /\ answers' = [b \in Conns |-> answers'[b]]
  BY Zenon DEF Inv, ChanInv, FlowInv, Flows
<1> HIDE DEF j
<1>2. ASSUME c \in Calm PROVE j.state = "deleted" => j.writes = <<>>
  <2>1. Calm' = Calm
    BY Zenon DEF Calm, Asked
  <2>2. Held(channel'[c], One(c \in pool')) /\ One(c \in pool') \in Nat
    BY <1>2, <2>1, Zenon DEF Inv, ChanInv, One
  <2> QED
    BY <1>1, <2>2, DeletedFree, Zenon
<1>3. ASSUME c \in Calm PROVE FlowOf(c)' /\ answers'[c] \in Seq(Response)
  <2>1. Flow(j, answers[c], asked[c], ReadSoFar(c)', added, peer[c], fault')
    BY <1>2, <1>3, FlowUnRef, Zenon DEF j
  <2> QED
    BY <1>1, <1>3, <2>1, Zenon DEF FlowOf, FlowInv, Flows
<1> QED
  BY <1>1, <1>3, OneFlow, Zenon

LEMMA CalmFlow ==
  ASSUME FlowInv, NEW c \in Calm
  PROVE  /\ Flow(channel[c], answers[c], asked[c], ReadSoFar(c), added, peer[c], fault)
         /\ Fields(channel[c]) /\ Len(asked[c]) \in Nat /\ c \in Conns
         /\ answers[c] \in Seq(Response)
<1>1. Flow(channel[c], answers[c], asked[c], ReadSoFar(c), added, peer[c], fault)
      /\ answers[c] \in Seq(Response)
  BY Zenon DEF FlowInv, Flows, FlowOf
<1>2. Fields(channel[c]) /\ c \in Conns
  BY <1>1, Zenon DEF Flow, Sending, Calm
<1> QED
  BY <1>1, <1>2 DEF FlowInv, Requests, Queued

\* The handler has changed nothing that the flow depends on.
LEMMA CalmKeeps ==
  ASSUME FlowInv, NEW c \in Calm, NEW k, Fields(k),
         k.writes = channel[c].writes, k.pending = channel[c].pending,
         k.state = channel[c].state, channel[c].terminated => k.terminated
  PROVE  Flow(k, answers[c], asked[c], ReadSoFar(c), added, peer[c], fault)
<1> DEFINE i == channel[c]
           q == asked[c]
           n == ReadSoFar(c)
<1>1. Flow(i, answers[c], q, n, added, peer[c], fault) /\ Len(q) \in Nat
  BY CalmFlow, Zenon
<1>2. k.writes = i.writes /\ k.pending = i.pending /\ k.state = i.state
      /\ (i.terminated => k.terminated)
  BY Zenon
<1> HIDE DEF i, q, n
<1>3. Len(q) >= Len(q) /\ \A m \in 1..Len(q) : q[m] = q[m]
  BY <1>1, SMTT(30)
<1>4. Flow(k, answers[c], q, n, added, peer[c], fault)
  BY <1>1, <1>2, <1>3, FlowSame, Zenon
<1> QED
  BY <1>4, Zenon DEF q, n

LEMMA StartFlow ==
  ASSUME Inv, Inv', FlowInv, fault = "none", NEW c \in Conns, StartChannelInLoop(c)
  PROVE  FlowInv'
<1> DEFINE i == channel[c]
           k == [i EXCEPT !.starting = FALSE]
           r == StartToRead(Ref(k))
           t == TerminateInLoop(k)
<1>1. /\ unread' = unread /\ asked' = asked /\ answers' = answers /\ fault' = fault
      /\ added' = added /\ service_pool' = service_pool /\ serving' = serving
      /\ deferred' = deferred /\ thread' = thread /\ peer' = peer
      /\ \/ channel' = [channel EXCEPT ![c] = UnRef(r)]
         \/ channel' = [channel EXCEPT ![c] = UnRef(t)]
  BY Zenon DEF StartChannelInLoop, peerVars, serviceVars
<1>2. PoolOfServices' /\ Requests' /\ KeptClosures' /\ NoFault'
  BY <1>1, Rest, Zenon
<1>3. ReadSoFar(c)' = ReadSoFar(c)
  BY <1>1, Zenon DEF ReadSoFar
<1>4. ASSUME c \in Calm
      PROVE  /\ Flow(r, answers[c], asked[c], ReadSoFar(c), added, peer[c], fault)
             /\ Flow(t, answers[c], asked[c], ReadSoFar(c), added, peer[c], fault)
  <2>1. Fields(i)
    BY <1>4, CalmFlow, Zenon
  <2> HIDE DEF i
  <2>2. /\ Fields(r) /\ r.writes = i.writes /\ r.pending = i.pending
        /\ r.state = i.state /\ r.terminated = i.terminated
    BY <2>1, Zenon DEF StartToRead, Ref, Fields, Names
  <2>3. /\ Fields(t) /\ t.writes = i.writes /\ t.pending = i.pending
        /\ t.state = i.state /\ t.terminated = TRUE
    BY <2>1, Zenon DEF TerminateInLoop, Fields, Names
  <2> HIDE DEF r, t
  <2> QED
    BY <1>4, <2>2, <2>3, CalmKeeps, Zenon DEF i
<1> HIDE DEF r, t
<1>5. CASE channel' = [channel EXCEPT ![c] = UnRef(r)]
  BY <1>1, <1>2, <1>3, <1>4, <1>5, HandlerFlow, Zenon DEF FlowInv
<1>6. CASE channel' = [channel EXCEPT ![c] = UnRef(t)]
  BY <1>1, <1>2, <1>3, <1>4, <1>6, HandlerFlow, Zenon DEF FlowInv
<1> QED
  BY <1>1, <1>5, <1>6, Zenon

LEMMA ReadEndsFlow ==
  ASSUME Inv, Inv', FlowInv, fault = "none", NEW c \in Conns, ReadFails(c),
         fault' = fault
  PROVE  FlowInv'
<1> DEFINE i == channel[c]
           k == [i EXCEPT !.reading = FALSE]
           j == [k EXCEPT !.closed_by_peer = TRUE]
           u == UnRef(j)
<1>1. /\ unread' = unread /\ asked' = asked /\ answers' = answers /\ fault' = fault
      /\ added' = added /\ service_pool' = service_pool /\ serving' = serving
      /\ deferred' = deferred /\ thread' = thread /\ peer' = peer
      /\ \/ channel' = [channel EXCEPT ![c] = UnRef(k)]
         \/ channel' = [channel EXCEPT ![c] = UnRef(j)]
         \/ channel' = [channel EXCEPT ![c] = UnRef(u)]
  BY Zenon DEF ReadFails, ReleaseChannel, peerVars, serviceVars
<1>2. PoolOfServices' /\ Requests' /\ KeptClosures' /\ NoFault'
  BY <1>1, Rest, Zenon
<1>3. ReadSoFar(c)' = ReadSoFar(c)
  BY <1>1, Zenon DEF ReadSoFar
<1>4. ASSUME c \in Calm
      PROVE  /\ Flow(k, answers[c], asked[c], ReadSoFar(c), added, peer[c], fault)
             /\ Flow(j, answers[c], asked[c], ReadSoFar(c), added, peer[c], fault)
             /\ Fields(j)
  <2>1. Fields(i)
    BY <1>4, CalmFlow, Zenon
  <2> HIDE DEF i
  <2>2. /\ Fields(k) /\ k.writes = i.writes /\ k.pending = i.pending
        /\ k.state = i.state /\ k.terminated = i.terminated
    BY <2>1, Zenon DEF Fields, Names
  <2>3. /\ Fields(j) /\ j.writes = i.writes /\ j.pending = i.pending
        /\ j.state = i.state /\ j.terminated = i.terminated
    BY <2>1, Zenon DEF Fields, Names
  <2> HIDE DEF k, j
  <2> QED
    BY <1>4, <2>2, <2>3, CalmKeeps, Zenon DEF i
<1> HIDE DEF k, j
<1>5. CASE channel' = [channel EXCEPT ![c] = UnRef(k)]
  BY <1>1, <1>2, <1>3, <1>4, <1>5, HandlerFlow, Zenon DEF FlowInv
<1>6. CASE channel' = [channel EXCEPT ![c] = UnRef(j)]
  BY <1>1, <1>2, <1>3, <1>4, <1>6, HandlerFlow, Zenon DEF FlowInv
<1>7. CASE channel' = [channel EXCEPT ![c] = UnRef(u)]
  <2>1. ASSUME c \in Calm
        PROVE  Flow(u, answers[c], asked[c], ReadSoFar(c), added, peer[c], fault)
    <3> DEFINE v == UnRef(u)
    <3>1. Fields(u)
      BY <1>4, <2>1, UnRefSends, Zenon
    <3> HIDE DEF u
    <3>2. v.writes = u.writes /\ (u.state = "deleted" => v.state = "deleted")
      BY <3>1, UnRefSends, Zenon
    <3>3. channel'[c] = v
      BY <1>7, Zenon DEF Inv, ChanInv
    <3>7. Calm' = Calm
      BY <1>1, Zenon DEF Calm, Asked
    <3>4. Held(channel'[c], One(c \in pool')) /\ One(c \in pool') \in Nat
      BY <2>1, <3>7, Zenon DEF Inv, ChanInv, One
    <3> HIDE DEF v
    <3>5. v.state = "deleted" => v.writes = <<>>
      BY <3>3, <3>4, DeletedFree, Zenon
    <3>6. u.state = "deleted" => u.writes = <<>>
      BY <3>2, <3>5, Zenon
    <3> QED
      BY <1>4, <2>1, <3>6, FlowUnRef, ZenonT(30) DEF u
  <2> HIDE DEF u
  <2> QED
    BY <1>1, <1>2, <1>3, <1>7, <2>1, HandlerFlow, Zenon DEF FlowInv
<1> QED
  BY <1>1, <1>5, <1>6, <1>7, Zenon

LEMMA ReadFailsFlow ==
  ASSUME Inv, Inv', FlowInv, fault = "none", NEW c \in Conns, ReadFails(c)
  PROVE  FlowInv'
<1> DEFINE k == [channel[c] EXCEPT !.reading = FALSE]
           j == [k EXCEPT !.closed_by_peer = TRUE]
<1>1. CASE /\ fault' = "use after delete" /\ channel' = channel
           /\ c \in pool /\ j.count = 1
  <2>1. channel[c].reading
    BY Zenon DEF ReadFails
  <2>2. c \in Asked(Deferring)
    <3> SUFFICES ASSUME c \in Calm PROVE FALSE
      BY Zenon DEF Calm
    <3>1. Fields(channel[c])
      BY CalmFlow, Zenon
    <3>2. channel[c].count = j.count
      BY <3>1, Zenon DEF Fields, Names
    <3> QED
      BY <1>1, <2>1, <3>2, PoolReading, Zenon
  <2>3. /\ unread' = unread /\ asked' = asked /\ answers' = answers
        /\ added' = added /\ service_pool' = service_pool /\ serving' = serving
        /\ deferred' = deferred /\ thread' = thread /\ peer' = peer
    BY Zenon DEF ReadFails, peerVars, serviceVars
  <2> QED
    BY <1>1, <2>2, <2>3, ThreadFlow, Zenon
<1>2. \/ fault' = fault
      \/ fault' = "use after delete" /\ channel' = channel /\ c \in pool /\ j.count = 1
  BY Zenon DEF ReadFails, ReleaseChannel
<1> HIDE DEF j
<1> QED
  BY <1>1, <1>2, ReadEndsFlow, Zenon

\* The handler of Written takes its operation from the writes.
LEMMA WrittenFlow ==
  ASSUME Inv, Inv', FlowInv, fault = "none", NEW c \in Conns, Written(c)
  PROVE  FlowInv'
<1> DEFINE i == channel[c]
           w == Head(i.writes)
           k == [i EXCEPT !.writes = Tail(@)]
           m == [k EXCEPT !.pending = RecycleRPCData(@)]
           v == WriteInLoop(m)
           F(x) == Flow(x, answers[c], asked[c], ReadSoFar(c), added, peer[c], fault)
<1>1. /\ unread' = unread /\ asked' = asked /\ answers' = answers
      /\ added' = added /\ service_pool' = service_pool /\ serving' = serving
      /\ deferred' = deferred /\ thread' = thread /\ peer' = peer
      /\ i.writes # <<>> /\ w.result # "none"
      /\ \/ /\ w.result = "failed" \/ k.pending = <<>>
            /\ channel' = [channel EXCEPT ![c] = UnRef(k)] /\ fault' = fault
         \/ /\ w.result # "failed" /\ k.pending # <<>> /\ Checked(k, w)
            /\ channel' = [channel EXCEPT ![c] = UnRef(v)] /\ fault' = fault
         \/ /\ w.result # "failed" /\ k.pending # <<>> /\ ~Checked(k, w)
            /\ channel' = channel /\ fault' = "CHECK of Written"
  BY Zenon DEF Written, peerVars, serviceVars
<1>2. ReadSoFar(c)' = ReadSoFar(c) /\ Asked(Deferring)' = Asked(Deferring)
  BY <1>1, Zenon DEF ReadSoFar, Asked
<1>3. ASSUME c \in Calm
      PROVE  /\ w = i.writes[1] /\ w.result \in {"none", "written", "failed"}
             /\ k.pending # <<>> /\ k.pending = i.pending /\ Checked(k, w)
             /\ F(i) /\ Fields(k) /\ Fields(m)
             /\ k.writes = Tail(i.writes) /\ k.state = i.state
             /\ k.terminated = i.terminated
             /\ m.writes = Tail(i.writes) /\ m.pending = Tail(i.pending)
             /\ m.state = i.state
  <2>1. F(i) /\ Sending(i, peer[c]) /\ Fields(i)
    BY <1>3, CalmFlow, Zenon DEF Flow
  <2> HIDE DEF i
  <2>2. /\ Fields(k) /\ k.writes = Tail(i.writes) /\ k.state = i.state
        /\ k.terminated = i.terminated /\ k.pending = i.pending
    BY <2>1, Zenon DEF Fields, Names
  <2>3. /\ Fields(m) /\ m.writes = Tail(i.writes) /\ m.pending = Tail(i.pending)
        /\ m.state = i.state
    BY <2>1, Zenon DEF Fields, Names, RecycleRPCData
  <2> HIDE DEF k, m
  <2>4. /\ i.writes \in Seq(Write) /\ i.pending \in Seq(Data) /\ i.pending # <<>>
        /\ i.writes[1].seq = i.pending[1].seq
        /\ \A n \in 1..Len(i.pending) : i.pending[n].is_pending = (n = 1)
    BY <1>1, <2>1, Zenon DEF Sending
  <2>5. /\ \A x \in Seq(Write) : x # <<>> => Head(x) = x[1] /\ x[1] \in Write
        /\ \A x \in Seq(Data) : x # <<>> => 1 \in 1..Len(x)
    OBVIOUS
  <2>6. w = i.writes[1] /\ w \in Write
    BY <1>1, <2>4, <2>5, Zenon
  <2>7. w.result \in {"none", "written", "failed"}
    BY <2>6, Zenon DEF Write
  <2>8. i.pending[1].is_pending = (1 = 1)
    BY <2>4, <2>5, Zenon
  <2>9. k.pending[1].is_pending /\ k.pending[1].seq = w.seq
    BY <2>2, <2>4, <2>6, <2>8, Zenon
  <2> QED
    BY <2>1, <2>2, <2>3, <2>4, <2>6, <2>7, <2>9, Zenon DEF Checked
<1>4. ASSUME c \in Calm, w.result = "failed" PROVE F(k)
  <2> HIDE DEF i, k, m, w
  <2> QED
    BY <1>1, <1>3, <1>4, FlowFails, Zenon
<1>5. ASSUME c \in Calm, w.result # "failed" PROVE F(v)
  <2> HIDE DEF i, k, m, w
  <2>1. i.writes[1].result = "written"
    BY <1>1, <1>3, <1>5, Zenon
  <2> QED
    BY <1>1, <1>3, <1>5, <2>1, FlowPops, Zenon
<1> HIDE DEF i, k, m, w
<1>6. CASE fault' = fault
  <2>1. PoolOfServices' /\ Requests' /\ KeptClosures' /\ NoFault'
    BY <1>1, <1>6, Rest, Zenon
  <2>2. CASE channel' = [channel EXCEPT ![c] = UnRef(k)] /\ (c \in Calm => F(k))
    BY <1>1, <1>2, <1>6, <2>1, <2>2, HandlerFlow, Zenon DEF FlowInv
  <2>3. CASE channel' = [channel EXCEPT ![c] = UnRef(v)] /\ (c \in Calm => F(v))
    <3> HIDE DEF v
    <3> QED
      BY <1>1, <1>2, <1>6, <2>1, <2>3, HandlerFlow, Zenon DEF FlowInv
  <2> QED
    BY <1>1, <1>3, <1>4, <1>5, <1>6, <2>2, <2>3, Zenon
<1>7. CASE fault' = "CHECK of Written" /\ channel' = channel /\ ~Checked(k, w)
  <2>1. c \in Asked(Deferring) /\ c \notin Calm
    BY <1>3, <1>7, Zenon DEF Calm
  <2>2. PoolOfServices' /\ Requests' /\ KeptClosures'
    BY <1>1, <1>2, <1>7, ZenonT(30) DEF FlowInv, PoolOfServices, Requests, KeptClosures
  <2>3. NoFault'
    BY <1>2, <1>7, <2>1, Zenon DEF NoFault
  <2>4. answers' = [b \in Conns |-> answers'[b]]
    BY <1>1, Zenon DEF FlowInv, Flows
  <2>5. Flows'
    BY <1>1, <1>7, <2>1, <2>4, OneFlow, Zenon
  <2> QED
    BY <2>2, <2>3, <2>5, Zenon DEF FlowInv
<1> QED
  BY <1>1, <1>6, <1>7, Zenon

LEMMA CompleteWriteFlow ==
  ASSUME Inv, FlowInv, fault = "none", NEW c \in Conns,
         NEW result \in {"written", "failed"}, CompleteWrite(c, result)
  PROVE  FlowInv'
<1> DEFINE i == channel[c]
           w == i.writes
           v == [w EXCEPT ![1] = [w[1] EXCEPT !.result = result]]
           j == [i EXCEPT !.writes = v]
           a == answers[c]
           e == [seq |-> Head(w).seq, by |-> Head(w).by]
           b == IF result = "written" /\ peer[c] # "gone" THEN Append(a, e) ELSE a
<1>1. /\ unread' = unread /\ asked' = asked /\ fault' = fault
      /\ added' = added /\ service_pool' = service_pool /\ serving' = serving
      /\ deferred' = deferred /\ thread' = thread /\ peer' = peer
      /\ w # <<>> /\ Head(w).result = "none"
      /\ result = "failed" => peer[c] = "gone" \/ i.terminated
      /\ channel' = [channel EXCEPT ![c] = j]
      /\ answers' = IF result = "written" /\ peer[c] # "gone"
                    THEN [answers EXCEPT ![c] = Append(a, e)] ELSE answers
      /\ i.state = "alive"
  BY Zenon DEF CompleteWrite, serviceVars, peerVars
<1>2. PoolOfServices' /\ Requests' /\ KeptClosures' /\ NoFault'
  BY <1>1, Rest, Zenon
<1>3. ReadSoFar(c)' = ReadSoFar(c)
  BY <1>1, Zenon DEF ReadSoFar
<1>4. /\ channel'[c] = j /\ answers'[c] = b
      /\ answers' = [d \in Conns |-> answers'[d]]
      /\ \A d \in Conns \ {c} : channel'[d] = channel[d] /\ answers'[d] = answers[d]
  <2>1. answers = [d \in Conns |-> answers[d]] /\ channel = [d \in Conns |-> channel[d]]
    BY Zenon DEF FlowInv, Flows, Inv, ChanInv
  <2> HIDE DEF e, j
  <2> QED
    BY <1>1, <2>1, Zenon
<1>6. ASSUME c \in Calm PROVE FlowOf(c)' /\ answers'[c] \in Seq(Response)
  <2> DEFINE q == asked[c]
             n == ReadSoFar(c)
  <2>1. /\ Flow(i, a, q, n, added, peer[c], "none") /\ Sending(i, peer[c])
        /\ Fields(i) /\ a \in Seq(Response)
    BY <1>6, CalmFlow, Zenon DEF Flow
  <2>2. w \in Seq(Write)
    BY <2>1, Zenon DEF Sending
  <2> HIDE DEF w, i, a
  <2>3. Head(w) = w[1] /\ w[1] \in Write /\ w[1].result = "none"
    BY <1>1, <2>2
  <2>4. e \in Response /\ e.seq = w[1].seq /\ e.by = w[1].by
    BY <2>3, Zenon DEF Response, Write
  <2>5. EndedWith(result, w, v)
    BY <1>1, <2>2, FirstEnds, Zenon
  <2> HIDE DEF v, e
  <2>6. /\ Fields(j) /\ j.writes = v /\ j.pending = i.pending /\ j.state = i.state
        /\ j.terminated = i.terminated
    BY <2>1, Zenon DEF Fields, Names
  <2> HIDE DEF j
  <2>7. /\ Append(a, e) \in Seq(Response) /\ Len(Append(a, e)) = Len(a) + 1
        /\ \A m \in 1..Len(a) : Append(a, e)[m] = a[m]
        /\ Append(a, e)[Len(a) + 1] = e
    BY <2>1, <2>4, SMTT(30)
  <2>8. /\ b \in Seq(Response)
        /\ ~(result = "written" /\ peer[c] # "gone") => b = a
        /\ result = "written" /\ peer[c] # "gone" =>
             /\ Len(b) = Len(a) + 1 /\ \A m \in 1..Len(a) : b[m] = a[m]
             /\ b[Len(a) + 1].seq = w[1].seq /\ b[Len(a) + 1].by = w[1].by
    BY <2>1, <2>4, <2>7, Zenon
  <2> HIDE DEF b, q, n
  <2>9. /\ i.writes # <<>> /\ i.writes[1].result = "none" /\ i.state # "deleted"
        /\ EndedWith(result, i.writes, j.writes)
        /\ w = i.writes
    BY <1>1, <2>3, <2>5, <2>6, Zenon DEF w
  <2>10. Flow(j, b, q, n, added, peer[c], "none")
    BY <1>1, <2>1, <2>6, <2>8, <2>9, FlowCompletes, Zenon
  <2> QED
    BY <1>1, <1>3, <1>4, <2>8, <2>10, Zenon DEF FlowOf, q, n
<1>7. Flows'
  BY <1>1, <1>4, <1>6, OneFlow, Zenon
<1> QED
  BY <1>2, <1>7, Zenon DEF FlowInv

\* A request is for an identifier: the service that is found for it has that,
\* and it is the one that was asked for if that was added.
LEMMA Found ==
  ASSUME PoolOfServices, fault = "none", NEW x \in Services, NEW s,
         s = CHOOSE y \in GetService(ServiceId[x]) : TRUE,
         GetService(ServiceId[x]) # {}
  PROVE  /\ s \in Services /\ ServiceId[s] = ServiceId[x]
         /\ x \in added => s = x
<1>1. s \in GetService(ServiceId[x])
  BY Zenon
<1>2. ServiceId[x] \in DOMAIN service_pool /\ s = service_pool[ServiceId[x]]
  BY <1>1, Zenon DEF GetService
<1> QED
  BY <1>2, Zenon DEF PoolOfServices

LEMMA ReadInLoopFlow ==
  ASSUME Inv, Inv', FlowInv, fault = "none", NEW c \in Conns, ReadInLoop(c)
  PROVE  FlowInv'
<1> DEFINE i == channel[c]
           k == [i EXCEPT !.reading = FALSE]
           q == asked[c]
           u == unread[c]
           n == Len(q) - Len(u)
           r == Head(u)
           services == GetService(ServiceId[r.service])
           s == CHOOSE s \in services : TRUE
           d == [seq |-> r.seq, by |-> s]
           j == SendInLoop(k, d)
<1>1. /\ unread' = [unread EXCEPT ![c] = Tail(u)] /\ asked' = asked
      /\ answers' = answers /\ added' = added /\ service_pool' = service_pool
      /\ serving' = serving /\ thread' = thread /\ peer' = peer /\ u # <<>>
      /\ CallMethod(c, k, r)
  BY Zenon DEF ReadInLoop, peerVars
<1>2. \/ /\ services = {} /\ fault' = "no such service"
         /\ channel' = channel /\ deferred' = deferred
      \/ /\ services # {} /\ ~r.parses /\ fault' = fault /\ deferred' = deferred
         /\ channel' = [channel EXCEPT ![c] = UnRef(StartToRead(k))]
      \/ /\ services # {} /\ r.parses /\ s \in Deferring /\ fault' = fault
         /\ deferred' = deferred \cup {[conn |-> c, seq |-> r.seq, by |-> s]}
         /\ channel' = [channel EXCEPT ![c] = UnRef(StartToRead(k))]
      \/ /\ services # {} /\ r.parses /\ s \notin Deferring /\ fault' = fault
         /\ deferred' = deferred
         /\ channel' = [channel EXCEPT ![c] = UnRef(StartToRead(j))]
  BY <1>1, Zenon DEF CallMethod, SendResponse, ParseFromArray
<1>3. Queued(q, u, added \cup Strangers)
  BY Zenon DEF FlowInv, Requests
<1>4. /\ Queued(q, Tail(u), added \cup Strangers)
      /\ Len(q) - Len(Tail(u)) = n + 1 /\ n \in Nat /\ n < Len(q) /\ r = q[n + 1]
  BY <1>1, <1>3, QueuedTail, Zenon
<1>5. /\ r \in Request /\ r.seq = n + 1 /\ r.service \in Services
      /\ r.seq \in 1..MaxRequests /\ n + 1 \in DOMAIN q
      /\ r.service \in added \cup Strangers
  <2> HIDE DEF n, q, u, r
  <2>1. n + 1 \in 1..Len(q) /\ q \in Seq(Request)
    BY <1>4 DEF Queued
  <2>2. r \in Request /\ n + 1 \in DOMAIN q
    <3>1. q[n + 1] \in Request /\ n + 1 \in DOMAIN q
      BY <2>1
    <3> QED
      BY <1>4, <3>1, Zenon
  <2>3. r.seq = n + 1 /\ r.service \in added \cup Strangers
    BY <1>4, <2>1, Zenon DEF Queued
  <2> QED
    BY <2>2, <2>3, Zenon DEF Request
<1>6. /\ unread'[c] = Tail(u) /\ unread' = [b \in Conns |-> unread'[b]]
      /\ \A b \in Conns \ {c} : unread'[b] = unread[b]
  BY <1>1, Zenon DEF FlowInv, Requests
<1>7. ReadSoFar(c)' = n + 1 /\ ReadSoFar(c) = n
  BY <1>1, <1>4, <1>6, Zenon DEF ReadSoFar
<1> HIDE DEF n
<1>8. Requests'
  <2>1. \A b \in Conns : Queued(asked'[b], unread'[b], added' \cup Strangers)
    BY <1>1, <1>4, <1>6, Zenon DEF FlowInv, Requests
  <2> QED
    BY <1>1, <1>6, <2>1, Zenon DEF FlowInv, Requests
<1>9. fault' # "service added twice"
  BY <1>2, Zenon
<1>10. PoolOfServices'
  BY <1>1, <1>9, Zenon DEF FlowInv, PoolOfServices
<1>11. Asked(Deferring)' = Asked(Deferring)
  BY <1>1, Zenon DEF Asked
<1>12. services # {} => /\ s \in Services /\ ServiceId[s] = ServiceId[r.service]
                        /\ r.service \in added => s = r.service
  BY <1>5, Found, Zenon DEF FlowInv
<1>13. KeptClosures'
  <2>1. ASSUME services # {}, s \in Deferring PROVE c \in Asked(Deferring)
    BY <1>4, <1>5, <1>12, <2>1, Zenon DEF Asked
  <2> DEFINE y == [conn |-> c, seq |-> r.seq, by |-> s]
  <2>2. y.conn = c
    BY Zenon
  <2>3. \/ deferred' = deferred
        \/ deferred' = deferred \cup {y} /\ c \in Asked(Deferring)
    <3> HIDE DEF services, s, r, k, j
    <3> QED
      BY <1>2, <2>1, Zenon
  <2> HIDE DEF y
  <2>4. \A x \in deferred' : x.conn \in Asked(Deferring)
    BY <2>2, <2>3, Zenon DEF FlowInv, KeptClosures
  <2> QED
    BY <1>1, <1>11, <2>4, Zenon DEF FlowInv, KeptClosures
<1>14. NoFault'
  <2>1. CASE services = {} /\ fault' = "no such service"
    <3>1. ServiceId[r.service] \notin DOMAIN service_pool
      BY <2>1, Zenon DEF GetService
    <3>2. r.service \notin added
      BY <3>1, Zenon DEF FlowInv, PoolOfServices
    <3>3. \E b \in Conns : \E m \in DOMAIN asked[b] : asked[b][m].service \notin added
      BY <1>4, <1>5, <3>2, Zenon
    <3> QED
      BY <1>1, <2>1, <3>3, Zenon DEF NoFault
  <2>2. CASE fault' = fault
    BY <2>2, Zenon DEF NoFault
  <2> QED
    BY <1>2, <2>1, <2>2, Zenon
<1>15. ASSUME c \in Calm
       PROVE  /\ Flow(i, answers[c], q, n, added, peer[c], fault) /\ Fields(i)
              /\ Flow(k, answers[c], q, n, added, peer[c], fault) /\ Fields(k)
  <2>1. Fields(i) /\ Flow(i, answers[c], q, n, added, peer[c], fault)
    BY <1>7, <1>15, CalmFlow, Zenon
  <2>2. /\ Fields(k) /\ k.writes = i.writes /\ k.pending = i.pending
        /\ k.state = i.state /\ k.terminated = i.terminated
    <3> HIDE DEF i
    <3> QED
      BY <2>1, ZenonT(30) DEF Fields, Names
  <2>3. Flow(k, answers[c], q, ReadSoFar(c), added, peer[c], fault)
    <3> HIDE DEF k
    <3> QED
      BY <1>15, <2>2, CalmKeeps, Zenon
  <2> QED
    BY <1>7, <2>1, <2>2, <2>3, Zenon
\* Starting the next read leaves the flow as it is.
<1>16. ASSUME NEW x, NEW y, Flow(x, answers[c], q, y, added, peer[c], fault)
       PROVE  Flow(StartToRead(x), answers[c], q, y, added, peer[c], fault)
  <2> DEFINE z == StartToRead(x)
             a == answers[c]
  <2>1. Fields(x)
    BY <1>16, Zenon DEF Flow, Sending
  <2>2. /\ Fields(z) /\ z.writes = x.writes /\ z.pending = x.pending
        /\ z.state = x.state /\ z.terminated = x.terminated
    BY <2>1, Zenon DEF StartToRead, Ref, Fields, Names
  <2>3. Len(q) \in Nat
    BY <1>3 DEF Queued
  <2> HIDE DEF z, q, a
  <2>4. Len(q) >= Len(q) /\ \A m \in 1..Len(q) : q[m] = q[m]
    BY <2>3
  <2>5. Flow(x, a, q, y, added, peer[c], fault)
    BY <1>16, Zenon DEF a
  <2>6. Flow(z, a, q, y, added, peer[c], fault)
    BY <2>2, <2>3, <2>4, <2>5, FlowSame, Zenon
  <2> QED
    BY <2>6, Zenon DEF z, a
<1>17. CASE services = {} /\ fault' = "no such service" /\ channel' = channel
  <2>1. ASSUME c \in Calm PROVE FlowOf(c)' /\ answers'[c] \in Seq(Response)
    <3>1. Flow(i, answers[c], q, n + 1, added, peer[c], fault')
      <4> HIDE DEF i, q
      <4> QED
        BY <1>4, <1>15, <1>17, <2>1, FlowSkips, ZenonT(30)
    <3>2. answers[c] \in Seq(Response)
      BY <2>1, CalmFlow, Zenon
    <3> QED
      BY <1>1, <1>7, <1>17, <3>1, <3>2, Zenon DEF FlowOf
  <2>2. answers' = [b \in Conns |-> answers'[b]]
    BY <1>1, Zenon DEF FlowInv, Flows
  <2>3. Flows'
    BY <1>1, <1>6, <1>17, <2>1, <2>2, OneFlow, Zenon
  <2> QED
    BY <1>8, <1>10, <1>13, <1>14, <2>3, Zenon DEF FlowInv
<1>18. CASE /\ services # {} /\ fault' = fault /\ (~r.parses \/ s \in Deferring)
            /\ channel' = [channel EXCEPT ![c] = UnRef(StartToRead(k))]
  <2>1. ASSUME c \in Calm
        PROVE  Flow(StartToRead(k), answers[c], q, n + 1, added, peer[c], fault)
    <3>1. s \notin Deferring
      BY <1>4, <1>5, <1>12, <1>18, <2>1, Zenon DEF Calm, Asked
    <3>2. ~q[n + 1].parses
      BY <1>4, <1>18, <3>1, Zenon
    <3>3. Flow(k, answers[c], q, n + 1, added, peer[c], fault)
      <4> HIDE DEF k, q
      <4> QED
        BY <1>4, <1>15, <2>1, <3>2, FlowSkips, Zenon
    <3> QED
      BY <1>16, <3>3, Zenon
  <2>2. Flows'
    <3> DEFINE x == StartToRead(k)
    <3>1. c \in Calm => Flow(x, answers[c], asked[c], ReadSoFar(c)', added, peer[c],
                             fault')
      BY <1>7, <1>18, <2>1, Zenon
    <3>2. channel' = [channel EXCEPT ![c] = UnRef(x)]
      BY <1>18, Zenon
    <3> HIDE DEF x
    <3> QED
      BY <1>1, <1>6, <3>1, <3>2, HandlerFlow, Zenon
  <2> QED
    BY <1>8, <1>10, <1>13, <1>14, <2>2, Zenon DEF FlowInv
<1>19. CASE /\ services # {} /\ r.parses /\ fault' = fault
            /\ channel' = [channel EXCEPT ![c] = UnRef(StartToRead(j))]
  <2>1. ASSUME c \in Calm
        PROVE  Flow(StartToRead(j), answers[c], q, n + 1, added, peer[c], fault)
    <3>1. /\ d.seq = n + 1 /\ d.seq \in 1..MaxRequests /\ d.by = s /\ s \in Services
          /\ q[n + 1].parses /\ ServiceId[s] = ServiceId[q[n + 1].service]
          /\ q[n + 1].service \in added => s = q[n + 1].service
      BY <1>4, <1>5, <1>12, <1>19, Zenon
    <3> HIDE DEF k, q, d, s
    <3>2. Flow(j, answers[c], q, n + 1, added, peer[c], fault)
      BY <1>4, <1>15, <2>1, <3>1, FlowSends, Zenon
    <3> QED
      BY <1>16, <3>2, Zenon
  <2>2. Flows'
    <3> DEFINE x == StartToRead(j)
    <3>1. c \in Calm => Flow(x, answers[c], asked[c], ReadSoFar(c)', added, peer[c],
                             fault')
      BY <1>7, <1>19, <2>1, Zenon
    <3>2. channel' = [channel EXCEPT ![c] = UnRef(x)]
      BY <1>19, Zenon
    <3> HIDE DEF x
    <3> QED
      BY <1>1, <1>6, <3>1, <3>2, HandlerFlow, Zenon
  <2> QED
    BY <1>8, <1>10, <1>13, <1>14, <2>2, Zenon DEF FlowInv
<1> HIDE DEF services, s, r, k, j
<1> QED
  BY <1>2, <1>17, <1>18, <1>19, Zenon

LEMMA RunClosureFlow ==
  ASSUME Inv, FlowInv, fault = "none", NEW d \in deferred, RunClosure(d)
  PROVE  FlowInv'
<1> DEFINE c == d.conn
           k == PushBack(channel[c], d)
           t == [at |-> "test", conn |-> c]
<1>1. c \in Asked(Deferring)
  BY Zenon DEF FlowInv, KeptClosures
<1>2. /\ unread' = unread /\ asked' = asked /\ answers' = answers
      /\ added' = added /\ service_pool' = service_pool /\ serving' = serving
      /\ peer' = peer /\ deferred' \subseteq deferred
      /\ channel' = channel \/ channel' = [channel EXCEPT ![c] = k]
      /\ fault' \in {"none", "use after delete"}
      /\ thread' = thread \/ thread' = t
  BY Zenon DEF RunClosure, peerVars
<1>3. t.conn = c
  BY Zenon
<1> HIDE DEF c, k, t
<1>4. thread' \in {thread, Idle} \/ thread'.conn = c
  BY <1>2, <1>3, Zenon
<1> QED
  BY <1>1, <1>2, <1>4, ThreadFlow, ZenonT(30)

LEMMA ClosureFlow ==
  ASSUME Inv, FlowInv, fault = "none", ClosureTests \/ ClosureWrites \/ ClosureRefs
  PROVE  FlowInv'
<1> DEFINE c == thread.conn
           t == [at |-> "write", conn |-> c, seq |-> channel[c].pending[1].seq]
           u == [at |-> "ref", conn |-> c, seq |-> thread.seq,
                 loaded |-> channel[c].count]
<1>1. c \in Asked(Deferring)
  BY ThreadBusy, Zenon DEF FlowInv, KeptClosures
<1>2. /\ unread' = unread /\ asked' = asked /\ answers' = answers
      /\ added' = added /\ service_pool' = service_pool /\ serving' = serving
      /\ peer' = peer /\ deferred' = deferred
      /\ channel' = channel \/ \E k : channel' = [channel EXCEPT ![c] = k]
      /\ fault' \in {"none", "use after delete"}
      /\ thread' = thread \/ thread' = Idle \/ thread' = t \/ thread' = u
  <2>1. CASE ClosureTests
    BY <2>1, Zenon DEF ClosureTests, peerVars
  <2>2. CASE ClosureWrites
    BY <2>2, Zenon DEF ClosureWrites, peerVars
  <2>3. CASE ClosureRefs
    BY <2>3, Zenon DEF ClosureRefs, peerVars
  <2> QED
    BY <2>1, <2>2, <2>3, Zenon
<1>3. t.conn = c /\ u.conn = c
  BY Zenon
<1> HIDE DEF c, t, u
<1>4. thread' \in {thread, Idle} \/ thread'.conn = c
  BY <1>2, <1>3, Zenon
<1> QED
  BY <1>1, <1>2, <1>4, ThreadFlow, Zenon

LEMMA NextFlow == Inv /\ Inv' /\ FlowInv /\ [Next]_vars => FlowInv'
<1> SUFFICES ASSUME Inv, Inv', FlowInv, [Next]_vars PROVE FlowInv'
  BY Zenon
<1>1. CASE UNCHANGED vars
  <2>1. PoolOfServices' /\ Requests' /\ Asked(Deferring)' = Asked(Deferring)
    BY <1>1, ZenonT(60) DEF vars, FlowInv, PoolOfServices, Requests, Asked
  <2>2. KeptClosures' /\ NoFault' /\ Calm' = Calm
    BY <1>1, <2>1, Zenon DEF vars, FlowInv, KeptClosures, NoFault, Calm
  <2>3. \A c \in Calm : FlowOf(c)' <=> FlowOf(c)
    BY <1>1, Zenon DEF vars, FlowOf, ReadSoFar
  <2>4. Flows'
    BY <1>1, <2>2, <2>3, Zenon DEF vars, FlowInv, Flows
  <2> QED
    BY <2>1, <2>2, <2>4, Zenon DEF FlowInv
<1>2. CASE Next
  <2>1. fault = "none" /\ Alive
    BY <1>2, Zenon DEF Next
  <2>2. ASSUME NEW c \in Conns, LoopHandler(c) PROVE FlowInv'
    BY <2>1, <2>2, StartFlow, ReadInLoopFlow, ReadFailsFlow, WrittenFlow,
       DeletedFlow, Zenon
       DEF LoopHandler
  <2>3. CASE ServiceThread
    BY <2>1, <2>3, RunClosureFlow, ClosureFlow, Zenon DEF ServiceThread
  <2>4. ASSUME NEW c \in Conns, NEW result \in {"written", "failed"},
               CompleteWrite(c, result)
        PROVE  FlowInv'
    BY <2>1, <2>4, CompleteWriteFlow, Zenon
  <2>5. ASSUME NEW c \in Conns, Accepted(c) \/ PeerFinishes(c) \/ PeerGoes(c)
        PROVE  FlowInv'
    BY <2>1, <2>5, AcceptedFlow, PeerFlow, Zenon
  <2>6. ASSUME NEW c \in Conns, NEW s \in Services, NEW parses \in BOOLEAN,
               PeerSends(c, s, parses)
        PROVE  FlowInv'
    BY <2>1, <2>6, PeerSendsFlow, Zenon
  <2>7. ASSUME NEW s \in Services, AddService(s) PROVE FlowInv'
    BY <2>1, <2>7, AddServiceFlow, Zenon
  <2>8. CASE Run \/ CloseAllChannelsInLoop
    BY <2>1, <2>8, RunFlow, CloseAllFlow, Zenon
  <2> QED
    BY <2>1, <2>2, <2>3, <2>4, <2>5, <2>6, <2>7, <2>8, Zenon DEF Alive
<1> QED
  BY <1>1, <1>2, Zenon

LEMMA OneNat == \A b \in BOOLEAN : One(b) \in Nat /\ (b => One(b) = 1)
  BY Zenon DEF One

LEMMA RefOwes ==
  ASSUME NEW k, NEW p \in Nat, NEW n \in Nat, Owes(k, p, n)
  PROVE  /\ Owes(Ref(k), p, n + 1)
         /\ Ref(k).reading = k.reading /\ Ref(k).starting = k.starting
<1>1. Holders(k, p) \in Nat
  BY HoldersNat, Zenon DEF Owes
<1>2. /\ Ref(k).count = k.count + 1 /\ Ref(k).state = k.state
      /\ Ref(k).starting = k.starting /\ Ref(k).reading = k.reading
      /\ Ref(k).writes = k.writes
      /\ Ref(k) = [x \in Names |-> Ref(k)[x]]
  BY Zenon DEF Owes, Shape, Ref, Names
<1>3. Holders(Ref(k), p) = Holders(k, p)
  BY <1>2, Zenon DEF Holders
<1> QED
  BY <1>1, <1>2, <1>3 DEF Owes, Shape

\* Changes of fields that no count depends on.
LEMMA SameOwes ==
  ASSUME NEW k, NEW j, NEW p \in Nat, NEW n \in Nat, Owes(k, p, n),
         j = [x \in Names |-> j[x]], j.count = k.count, j.state = k.state,
         j.starting = k.starting, j.reading = k.reading, j.writes = k.writes
  PROVE  Owes(j, p, n)
  BY Zenon DEF Owes, Shape, Holders

LEMMA UnRefOwes ==
  ASSUME NEW k, NEW p \in Nat, NEW n \in Nat, Owes(k, p, n + 1)
  PROVE  /\ n = 0 => Held(UnRef(k), p) /\ UnRef(k).state # "none"
         /\ n > 0 => Owes(UnRef(k), p, n) /\ UnRef(k).state # "none"
         /\ UnRef(k).starting = k.starting /\ UnRef(k).reading = k.reading
<1> DEFINE less == [k EXCEPT !.count = @ - 1, !.counted = TRUE]
<1>1. Holders(k, p) \in Nat
  BY HoldersNat, Zenon DEF Owes
<1>2. /\ less.count = k.count - 1 /\ less.state = "alive"
      /\ less.starting = k.starting /\ less.reading = k.reading
      /\ less.writes = k.writes /\ less = [x \in Names |-> less[x]]
  BY Zenon DEF Owes, Shape, Names
<1>3. k.count = Holders(k, p) + n + 1 /\ Shape(k)
  BY <1>1 DEF Owes
<1>4. UnRef(k) = IF less.count = 0 THEN Deleted(less) ELSE less
  BY Zenon DEF UnRef
<1> HIDE DEF less
<1>5. Shape(less) /\ Holders(less, p) = Holders(k, p)
  BY <1>2, <1>3 DEF Shape, Holders
<1>6. CASE less.count = 0
  <2>1. UnRef(k) = Deleted(less)
    BY <1>4, <1>6, Zenon
  <2>2. /\ Deleted(less).count = 0 /\ Deleted(less).state = "deleted"
        /\ Deleted(less).starting = less.starting
        /\ Deleted(less).reading = less.reading
        /\ Deleted(less).writes = less.writes
        /\ Deleted(less) = [x \in Names |-> Deleted(less)[x]]
    BY <1>2, <1>6, Zenon DEF Deleted, Names
  <2>3. n = 0 /\ Holders(k, p) = 0
    BY <1>1, <1>2, <1>3, <1>6, SMTT(20)
  <2>4. Holders(Deleted(less), p) = 0 /\ Shape(Deleted(less))
    BY <1>5, <2>2, <2>3, SMTT(20) DEF Holders, Shape
  <2> QED
    BY <1>2, <2>1, <2>2, <2>3, <2>4, SMTT(20) DEF Held
<1>7. CASE less.count # 0
  <2>1. UnRef(k) = less
    BY <1>4, <1>7, Zenon
  <2>2. less.count = Holders(less, p) + n /\ less.count > 0
    BY <1>1, <1>2, <1>3, <1>5, <1>7, SMTT(20)
  <2> QED
    BY <1>2, <1>5, <2>1, <2>2, <1>1, SMTT(20) DEF Held, Owes
<1> QED
  BY <1>6, <1>7, Zenon

LEMMA ReadOwes ==
  ASSUME NEW k, NEW p \in Nat, NEW n \in Nat, Owes(k, p, n), ~k.reading
  PROVE  Owes(StartToRead(k), p, n) /\ StartToRead(k).starting = k.starting
<1> DEFINE r == StartToRead(k)
<1>1. /\ r.count = k.count + 1 /\ r.state = k.state /\ r.starting = k.starting
      /\ r.reading = TRUE /\ r.writes = k.writes /\ r = [x \in Names |-> r[x]]
  BY Zenon DEF Owes, Shape, Names, StartToRead, Ref
<1>2. Holders(r, p) = Holders(k, p) + 1 /\ Holders(k, p) \in Nat
  <2>1. Len(k.writes) \in Nat /\ k.starting \in BOOLEAN /\ k.reading \in BOOLEAN
    BY DEF Owes, Shape, IsSeq
  <2> HIDE DEF r
  <2>2. One(k.starting) \in Nat /\ One(k.reading) = 0
    BY <2>1, Zenon DEF One
  <2>3. One(r.starting) = One(k.starting) /\ One(r.reading) = 1
    BY <1>1, Zenon DEF One
  <2> QED
    BY <1>1, <2>1, <2>2, <2>3, SMTT(20) DEF Holders
<1> HIDE DEF r
<1>3. r.count \in Int /\ r.count = Holders(r, p) + n
  BY <1>1, <1>2 DEF Owes, Shape
<1>4. Shape(r)
  <2>1. r.starting \in BOOLEAN /\ r.reading \in BOOLEAN /\ IsSeq(r.writes)
    BY <1>1, Zenon DEF Owes, Shape
  <2> QED
    BY <1>1, <1>3, <2>1, Zenon DEF Shape
<1>5. r.state = "alive"
  BY <1>1, Zenon DEF Owes
<1> QED
  BY <1>1, <1>3, <1>4, <1>5, Zenon DEF Owes, r

LEMMA AppendSeq ==
  ASSUME NEW w, IsSeq(w), NEW e
  PROVE  IsSeq(Append(w, e)) /\ Len(Append(w, e)) = Len(w) + 1
<1>1. PICK S : w \in Seq(S)
  BY Zenon DEF IsSeq
<1>2. w \in Seq(S \cup {e}) /\ e \in S \cup {e}
  BY <1>1
<1>3. Append(w, e) \in Seq(S \cup {e}) /\ Len(Append(w, e)) = Len(w) + 1
  BY <1>2
<1> QED
  BY <1>3, Zenon DEF IsSeq

LEMMA TailSeq ==
  ASSUME NEW w, IsSeq(w), w # <<>>
  PROVE  IsSeq(Tail(w)) /\ Len(Tail(w)) = Len(w) - 1
<1>1. PICK S : w \in Seq(S)
  BY Zenon DEF IsSeq
<1>2. Tail(w) \in Seq(S) /\ Len(Tail(w)) = Len(w) - 1
  BY <1>1
<1> QED
  BY <1>2, Zenon DEF IsSeq

LEMMA FirstSeq ==
  ASSUME NEW w, IsSeq(w), w # <<>>, NEW e
  PROVE  IsSeq([w EXCEPT ![1] = e]) /\ Len([w EXCEPT ![1] = e]) = Len(w)
<1>1. PICK S : w \in Seq(S)
  BY Zenon DEF IsSeq
<1>2. w \in Seq(S \cup {e}) /\ e \in S \cup {e} /\ 1 \in 1..Len(w)
  BY <1>1
<1>3. [w EXCEPT ![1] = e] \in Seq(S \cup {e}) /\ Len([w EXCEPT ![1] = e]) = Len(w)
  BY <1>2, FirstSet, Zenon
<1> QED
  BY <1>3, Zenon DEF IsSeq

LEMMA HandOverOwes ==
  ASSUME NEW k, NEW p \in Nat, NEW n \in Nat, Owes(k, p, n)
  PROVE  /\ Owes(HandOver(k), p, n)
         /\ HandOver(k).reading = k.reading /\ HandOver(k).starting = k.starting
<1> DEFINE e == [seq |-> k.pending[1].seq, by |-> k.pending[1].by, result |-> "none"]
           r == HandOver(k)
<1>1. /\ r.count = k.count + 1 /\ r.state = k.state /\ r.starting = k.starting
      /\ r.reading = k.reading /\ r.writes = Append(k.writes, e)
      /\ r = [x \in Names |-> r[x]]
  BY Zenon DEF Owes, Shape, Names, HandOver, Ref
<1> HIDE DEF e
<1>2. IsSeq(r.writes) /\ Len(r.writes) = Len(k.writes) + 1
  BY <1>1, AppendSeq, Zenon DEF Owes, Shape
<1> HIDE DEF r
<1>3. Holders(r, p) = Holders(k, p) + 1 /\ Holders(k, p) \in Nat
  <2>1. Len(k.writes) \in Nat /\ k.starting \in BOOLEAN /\ k.reading \in BOOLEAN
    BY DEF Owes, Shape, IsSeq
  <2>2. One(k.starting) \in Nat /\ One(k.reading) \in Nat
    BY <2>1, OneNat, Zenon
  <2>3. One(r.starting) = One(k.starting) /\ One(r.reading) = One(k.reading)
    BY <1>1, Zenon
  <2> QED
    BY <1>2, <2>1, <2>2, <2>3, SMTT(20) DEF Holders
<1>4. r.count \in Int /\ r.count = Holders(r, p) + n
  BY <1>1, <1>3 DEF Owes, Shape
<1>5. r.starting \in BOOLEAN /\ r.reading \in BOOLEAN
  BY <1>1, Zenon DEF Owes, Shape
<1>6. Shape(r)
  BY <1>1, <1>2, <1>4, <1>5, Zenon DEF Shape
<1>7. Owes(r, p, n) /\ r.reading = k.reading /\ r.starting = k.starting
  BY <1>1, <1>4, <1>6, Zenon DEF Owes
<1> QED
  BY <1>7, Zenon DEF r

LEMMA WriteOwes ==
  ASSUME NEW k, NEW p \in Nat, NEW n \in Nat, Owes(k, p, n)
  PROVE  /\ Owes(WriteInLoop(k), p, n)
         /\ WriteInLoop(k).reading = k.reading /\ WriteInLoop(k).starting = k.starting
  BY HandOverOwes, Zenon DEF WriteInLoop

LEMMA SendOwes ==
  ASSUME NEW k, NEW p \in Nat, NEW n \in Nat, NEW r, Owes(k, p, n)
  PROVE  /\ Owes(SendInLoop(k, r), p, n)
         /\ SendInLoop(k, r).reading = k.reading /\ SendInLoop(k, r).starting = k.starting
<1> DEFINE j == PushBack(k, r)
<1>1. /\ j.count = k.count /\ j.state = k.state /\ j.starting = k.starting
      /\ j.reading = k.reading /\ j.writes = k.writes /\ j = [x \in Names |-> j[x]]
  BY Zenon DEF Owes, Shape, Names, PushBack
<1> HIDE DEF j
<1>2. Owes(j, p, n)
  BY <1>1, SameOwes, Zenon
<1>3. SendInLoop(k, r) = WriteInLoop(j)
  BY Zenon DEF SendInLoop, j
<1> QED
  BY <1>1, <1>2, <1>3, WriteOwes, Zenon
-----------------------------------------------------------------------------
LEMMA InitInv == Init => Inv
<1> SUFFICES ASSUME Init PROVE Inv
  BY Zenon
<1>1. Held(Absent, 0)
  <2>1. Absent = [x \in Names |-> Absent[x]] /\ Absent.writes \in Seq({})
    BY DEF Absent, Names
  <2> QED
    BY <2>1 DEF Held, Shape, IsSeq, Holders, One, Absent
<1>2. \A c \in Conns : One(c \in pool) = 0 /\ channel[c] = Absent
  BY Zenon DEF Init, One
<1>3. ChanInv
  BY <1>1, <1>2, Zenon DEF Init, ChanInv, Calm, Absent
<1>4. AwayInv
  BY <1>2, Zenon DEF Init, AwayInv, Calm, Absent
<1>5. PoolInv
  BY FS_EmptySet, ServerAssumption DEF Init, PoolInv
<1> QED
  BY <1>3, <1>4, <1>5, Zenon DEF Inv

LEMMA CalmSame == asked' = asked => Calm' = Calm
  BY Zenon DEF Calm, Asked

\* Steps that neither the channels nor the pool take part in.
LEMMA OthersInv ==
  ASSUME Inv, channel' = channel, pool' = pool, Calm' \subseteq Calm,
         \/ peer' = peer
         \/ \E c \in Conns : \E p \in {"finished", "gone"} :
              peer' = [peer EXCEPT ![c] = p]
  PROVE  Inv'
<1>1. AwayInv'
  BY Zenon DEF Inv, AwayInv, Calm
<1> QED
  BY <1>1, Zenon DEF Inv, ChanInv, PoolInv

\* A step of the channel of one connection, which exists.
LEMMA OneStep ==
  ASSUME Inv, NEW c \in Conns, NEW k,
         c \in Calm => /\ channel[c].state # "none" /\ Held(k, One(c \in pool'))
                       /\ k.starting => c \notin pool' /\ ~k.reading,
         channel' = [channel EXCEPT ![c] = k], pool' \ {c} = pool \ {c}, PoolInv',
         peer' = peer, asked' = asked
  PROVE  Inv'
<1>6. Calm' = Calm /\ Calm \subseteq Conns
  BY Zenon DEF Calm, Asked
<1>1. /\ channel' = [b \in Conns |-> channel'[b]]
      /\ \A b \in Conns : channel'[b] = IF b = c THEN k ELSE channel[b]
  BY Zenon DEF Inv, ChanInv
<1>2. \A b \in Conns : b # c => One(b \in pool') = One(b \in pool)
  <2> TAKE b \in Conns
  <2> HAVE b # c
  <2>1. b \in pool' <=> b \in pool
    BY Zenon
  <2> QED
    BY <2>1, Zenon DEF One
<1>3. ChanInv'
  <2>1. \A b \in Calm : Held(channel'[b], One(b \in pool'))
    BY <1>1, <1>2, <1>6, Zenon DEF Inv, ChanInv
  <2>2. \A b \in Calm : channel'[b].starting => b \notin pool' /\ ~channel'[b].reading
    BY <1>1, <1>6, Zenon DEF Inv, ChanInv
  <2> QED
    BY <1>1, <1>6, <2>1, <2>2, Zenon DEF ChanInv
<1>4. AwayInv'
  BY <1>1, <1>6, Zenon DEF Inv, AwayInv
<1> QED
  BY <1>3, <1>4, Zenon DEF Inv

\* Inside a handler, its own reference is one that Holders does not count.
LEMMA TakeReading ==
  ASSUME Inv, NEW c \in Calm, channel[c].reading, NEW k,
         k = [channel[c] EXCEPT !.reading = FALSE]
  PROVE  Owes(k, One(c \in pool), 1) /\ ~k.reading /\ ~k.starting
<1> DEFINE j == channel[c]
           q == One(c \in pool)
<1>1. Held(j, q) /\ q \in Nat
  BY Zenon DEF Inv, ChanInv, One
<1>2. j.state = "alive"
  BY HeldAlive, Zenon
<1>3. j.reading /\ k = [j EXCEPT !.reading = FALSE]
  BY Zenon
<1> HIDE DEF j, q
<1>4. /\ k.count = j.count /\ k.state = j.state /\ k.starting = j.starting
      /\ k.reading = FALSE /\ k.writes = j.writes /\ k = [x \in Names |-> k[x]]
  BY <1>1, <1>3, Zenon DEF Held, Shape, Names
<1>5. One(j.reading) = 1 /\ One(k.reading) = 0 /\ One(k.starting) = One(j.starting)
  BY <1>3, <1>4, Zenon DEF One
<1>6. Len(j.writes) \in Nat /\ One(j.starting) \in Nat
  BY <1>1 DEF Held, Shape, IsSeq, One
<1>7. k.count = Holders(k, q) + 1 /\ k.count \in Int
  <2> DEFINE js == One(j.starting)
             jr == One(j.reading)
             ks == One(k.starting)
             kr == One(k.reading)
  <2>1. j.count = js + q + jr + Len(j.writes)
    BY <1>1, Zenon DEF Held, Holders
  <2>2. Holders(k, q) = ks + q + kr + Len(k.writes)
    BY Zenon DEF Holders
  <2>3. k.count = j.count /\ k.writes = j.writes
    BY <1>4, Zenon
  <2>4. jr = 1 /\ kr = 0 /\ ks = js /\ js \in Nat
    BY <1>5, <1>6, Zenon
  <2> HIDE DEF js, jr, ks, kr
  <2> QED
    BY <1>1, <1>6, <2>1, <2>2, <2>3, <2>4, SMTT(20)
<1>8. k.starting \in BOOLEAN /\ k.reading \in BOOLEAN /\ IsSeq(k.writes)
  BY <1>1, <1>4, Zenon DEF Held, Shape
<1>9. Owes(k, q, 1)
  BY <1>2, <1>4, <1>7, <1>8, Zenon DEF Owes, Shape
<1>10. ~k.starting
  BY <1>3, <1>4, Zenon DEF Inv, ChanInv, j
<1> QED
  BY <1>4, <1>9, <1>10, Zenon DEF q

LEMMA TakeStarting ==
  ASSUME Inv, NEW c \in Calm, channel[c].starting, NEW k,
         k = [channel[c] EXCEPT !.starting = FALSE]
  PROVE  Owes(k, 0, 1) /\ ~k.reading /\ ~k.starting /\ c \notin pool
<1> DEFINE j == channel[c]
           q == One(c \in pool)
<1>1. Held(j, q) /\ q \in Nat
  BY Zenon DEF Inv, ChanInv, One
<1>2. j.state = "alive"
  BY HeldAlive, Zenon
<1>3. j.starting /\ k = [j EXCEPT !.starting = FALSE]
  BY Zenon
<1> HIDE DEF j, q
<1>4. /\ k.count = j.count /\ k.state = j.state /\ k.starting = FALSE
      /\ k.reading = j.reading /\ k.writes = j.writes /\ k = [x \in Names |-> k[x]]
  BY <1>1, <1>3, Zenon DEF Held, Shape, Names
<1>5. One(j.starting) = 1 /\ One(k.starting) = 0 /\ One(k.reading) = One(j.reading)
  BY <1>3, <1>4, Zenon DEF One
<1>6. Len(j.writes) \in Nat /\ One(j.reading) \in Nat
  BY <1>1 DEF Held, Shape, IsSeq, One
<1>7. k.count = Holders(k, q) + 1 /\ k.count \in Int
  <2> DEFINE js == One(j.starting)
             jr == One(j.reading)
             ks == One(k.starting)
             kr == One(k.reading)
  <2>1. j.count = js + q + jr + Len(j.writes)
    BY <1>1, Zenon DEF Held, Holders
  <2>2. Holders(k, q) = ks + q + kr + Len(k.writes)
    BY Zenon DEF Holders
  <2>3. k.count = j.count /\ k.writes = j.writes
    BY <1>4, Zenon
  <2>4. js = 1 /\ ks = 0 /\ kr = jr /\ jr \in Nat
    BY <1>5, <1>6, Zenon
  <2> HIDE DEF js, jr, ks, kr
  <2> QED
    BY <1>1, <1>6, <2>1, <2>2, <2>3, <2>4, SMTT(20)
<1>8. k.starting \in BOOLEAN /\ k.reading \in BOOLEAN /\ IsSeq(k.writes)
  BY <1>1, <1>4, Zenon DEF Held, Shape
<1>9. Owes(k, q, 1)
  BY <1>2, <1>4, <1>7, <1>8, Zenon DEF Owes, Shape
<1>10. c \notin pool /\ ~j.reading
  BY Zenon DEF Inv, ChanInv, j
<1>11. q = 0
  BY <1>10, Zenon DEF One, q
<1> QED
  BY <1>4, <1>9, <1>10, <1>11, Zenon

LEMMA TakeWrite ==
  ASSUME Inv, NEW c \in Calm, channel[c].writes # <<>>, NEW k,
         k = [channel[c] EXCEPT !.writes = Tail(@)]
  PROVE  /\ Owes(k, One(c \in pool), 1)
         /\ k.reading = channel[c].reading /\ k.starting = channel[c].starting
<1> DEFINE j == channel[c]
           q == One(c \in pool)
<1>1. Held(j, q) /\ q \in Nat
  BY Zenon DEF Inv, ChanInv, One
<1>2. j.state = "alive"
  BY HeldAlive, Zenon
<1>3. j.writes # <<>> /\ k = [j EXCEPT !.writes = Tail(@)]
  BY Zenon
<1> HIDE DEF j, q
<1>4. /\ k.count = j.count /\ k.state = j.state /\ k.starting = j.starting
      /\ k.reading = j.reading /\ k.writes = Tail(j.writes)
      /\ k = [x \in Names |-> k[x]]
  BY <1>1, <1>3, Zenon DEF Held, Shape, Names
<1>5. IsSeq(k.writes) /\ Len(k.writes) = Len(j.writes) - 1
  BY <1>1, <1>3, <1>4, TailSeq, Zenon DEF Held, Shape
<1>6. Len(j.writes) \in Nat /\ One(j.reading) \in Nat /\ One(j.starting) \in Nat
  BY <1>1 DEF Held, Shape, IsSeq, One
<1>7. k.count = Holders(k, q) + 1 /\ k.count \in Int
  BY <1>1, <1>4, <1>5, <1>6, SMTT(20) DEF Held, Holders
<1>8. k.starting \in BOOLEAN /\ k.reading \in BOOLEAN
  BY <1>1, <1>4, Zenon DEF Held, Shape
<1>9. Owes(k, q, 1)
  BY <1>2, <1>4, <1>5, <1>7, <1>8, Zenon DEF Owes, Shape
<1> QED
  BY <1>4, <1>9, Zenon DEF j, q

\* Leaving the pool is one more reference to drop, entering it one that is kept.
LEMMA PoolOwes ==
  ASSUME NEW k, NEW n \in Nat
  PROVE  Owes(k, 1, n) <=> Owes(k, 0, n + 1)
<1>1. ASSUME Shape(k) PROVE Holders(k, 1) = Holders(k, 0) + 1 /\ Holders(k, 0) \in Nat
  <2>1. Len(k.writes) \in Nat /\ One(k.reading) \in Nat /\ One(k.starting) \in Nat
    BY <1>1 DEF Shape, IsSeq, One
  <2> QED
    BY <2>1 DEF Holders
<1> QED
  BY <1>1, SMTT(20) DEF Owes
-----------------------------------------------------------------------------
LEMMA PoolNat == \A c : One(c \in pool) \in Nat
  BY Zenon DEF One

LEMMA AcceptedInv ==
  ASSUME Inv, NEW c \in Conns, Accepted(c)
  PROVE  Inv'
<1> DEFINE k == [Absent EXCEPT !.state = "alive", !.count = 1, !.starting = TRUE]
           q == One(c \in pool)
<1>11. /\ Calm' = Calm /\ Calm \subseteq Conns
       /\ pool' = pool /\ peer' = [peer EXCEPT ![c] = "open"]
  BY Zenon DEF Accepted, serviceVars, Calm, Asked
<1>1. ASSUME c \in Calm PROVE c \notin pool
  <2>1. channel[c].state = "none" /\ Held(channel[c], q)
    BY <1>1, Zenon DEF Accepted, Inv, AwayInv, ChanInv
  <2>2. Holders(channel[c], q) \in Nat /\ q \in Nat
    BY <2>1, PoolNat, HoldersNat, Zenon DEF Held
  <2>3. Holders(channel[c], q) = 0
    BY <2>1, <2>2, SMTT(20) DEF Held
  <2>4. Len(channel[c].writes) \in Nat /\ One(channel[c].reading) \in Nat
        /\ One(channel[c].starting) \in Nat
    BY <2>1 DEF Held, Shape, IsSeq, One
  <2> HIDE DEF q
  <2>5. q = 0
    BY <2>2, <2>3, <2>4, SMTT(20) DEF Holders
  <2> QED
    BY <2>5 DEF q, One
<1>2. k = [x \in Names |-> k[x]] /\ k.count = 1 /\ k.state = "alive"
      /\ k.starting = TRUE /\ k.reading = FALSE /\ k.writes = <<>>
  BY Zenon DEF Absent, Names
<1> HIDE DEF k
<1>3. Shape(k)
  <2>1. <<>> \in Seq({})
    OBVIOUS
  <2>2. IsSeq(k.writes)
    BY <1>2, <2>1, Zenon DEF IsSeq
  <2>3. k.count \in Int
    BY <1>2
  <2>4. k.starting \in BOOLEAN /\ k.reading \in BOOLEAN
    BY <1>2, Zenon
  <2> QED
    BY <1>2, <2>2, <2>3, <2>4, Zenon DEF Shape
<1>4. Holders(k, 0) = 1
  <2>1. One(k.starting) = 1 /\ One(k.reading) = 0 /\ Len(k.writes) = Len(<<>>)
    BY <1>2, Zenon DEF One
  <2> QED
    BY <2>1 DEF Holders
<1>5. ASSUME c \in Calm PROVE Held(k, One(c \in pool))
  <2>1. One(c \in pool) = 0
    BY <1>1, <1>5, Zenon DEF One
  <2> QED
    BY <1>2, <1>3, <1>4, <2>1, SMTT(20) DEF Held
<1>6. /\ channel' = [b \in Conns |-> channel'[b]]
      /\ \A b \in Conns : channel'[b] = IF b = c THEN k ELSE channel[b]
  BY Zenon DEF Accepted, Inv, ChanInv, k
<1>7. ChanInv'
  <2>1. \A b \in Calm : Held(channel'[b], One(b \in pool'))
    BY <1>5, <1>6, <1>11, Zenon DEF Inv, ChanInv
  <2>2. \A b \in Calm : channel'[b].starting => b \notin pool' /\ ~channel'[b].reading
    BY <1>1, <1>2, <1>6, <1>11, Zenon DEF Inv, ChanInv
  <2> QED
    BY <1>6, <1>11, <2>1, <2>2, Zenon DEF ChanInv
<1>8. AwayInv'
  BY <1>6, <1>11, Zenon DEF Inv, AwayInv
<1>9. PoolInv'
  BY <1>11, Zenon DEF Inv, PoolInv
<1> QED
  BY <1>7, <1>8, <1>9, Zenon DEF Inv

\* What a handler of c may do to the pool.
LEMMA PoolKept ==
  ASSUME PoolInv, NEW c \in Conns,
         \/ pool' = pool \/ pool' = pool \ {c}
         \/ pool' = pool \cup {c} /\ SaveChannel
  PROVE  PoolInv' /\ pool' \ {c} = pool \ {c}
<1>1. IsFiniteSet(pool) /\ Cardinality(pool) <= Threshold /\ pool \subseteq Conns
  BY Zenon DEF PoolInv
<1>2. Cardinality(pool) \in Nat /\ Threshold \in Nat
  BY <1>1, FS_CardinalityType, ServerAssumption, Zenon
<1>3. CASE pool' = pool
  BY <1>1, <1>3, Zenon DEF PoolInv
<1>4. CASE pool' = pool \ {c}
  <2>1. pool' \subseteq pool /\ pool' \ {c} = pool \ {c}
    BY <1>4, Zenon
  <2>2. IsFiniteSet(pool') /\ Cardinality(pool') <= Cardinality(pool)
    BY <1>1, <2>1, FS_Subset, Zenon
  <2>3. Cardinality(pool') \in Nat
    BY <2>2, FS_CardinalityType, Zenon
  <2> QED
    BY <1>1, <1>2, <2>1, <2>2, <2>3, SMTT(20) DEF PoolInv
<1>5. CASE pool' = pool \cup {c} /\ SaveChannel
  <2>1. Cardinality(pool) # Threshold
    BY <1>5, Zenon DEF SaveChannel
  <2>2. /\ IsFiniteSet(pool \cup {c})
        /\ \/ Cardinality(pool \cup {c}) = Cardinality(pool)
           \/ Cardinality(pool \cup {c}) = Cardinality(pool) + 1
    BY <1>1, FS_AddElement, Zenon
  <2>3. pool' \ {c} = pool \ {c} /\ pool' \subseteq Conns
    BY <1>1, <1>5, Zenon
  <2> QED
    BY <1>1, <1>2, <1>5, <2>1, <2>2, <2>3, SMTT(20) DEF PoolInv
<1> QED
  BY <1>3, <1>4, <1>5, Zenon

\* On a connection that is not calm nothing is said about the count.
LEMMA OtherHandlers ==
  ASSUME Inv, NEW c \in Conns \ Calm,
         LoopHandler(c) \/ \E result \in {"written", "failed"} : CompleteWrite(c, result)
  PROVE  Inv'
<1>1. /\ peer' = peer /\ asked' = asked
      /\ channel' = channel \/ \E k : channel' = [channel EXCEPT ![c] = k]
      /\ \/ pool' = pool \/ pool' = pool \ {c}
         \/ pool' = pool \cup {c} /\ SaveChannel
  <2>1. CASE StartChannelInLoop(c)
    BY <2>1, Zenon DEF StartChannelInLoop, peerVars
  <2>2. CASE ReadInLoop(c)
    BY <2>2, Zenon DEF ReadInLoop, CallMethod, peerVars
  <2>3. CASE ReadFails(c)
    BY <2>3, Zenon DEF ReadFails, ReleaseChannel, peerVars
  <2>4. CASE Written(c)
    BY <2>4, Zenon DEF Written, peerVars
  <2>5. CASE HandlerOfDeleted(c)
    BY <2>5, Zenon DEF HandlerOfDeleted, peerVars
  <2>6. ASSUME NEW result, CompleteWrite(c, result)
        PROVE  /\ peer' = peer /\ asked' = asked /\ pool' = pool
               /\ \E k : channel' = [channel EXCEPT ![c] = k]
    BY <2>6, Zenon DEF CompleteWrite, peerVars
  <2> QED
    BY <2>1, <2>2, <2>3, <2>4, <2>5, <2>6, Zenon DEF LoopHandler
<1>2. PoolInv' /\ pool' \ {c} = pool \ {c}
  BY <1>1, PoolKept, Zenon DEF Inv
<1>3. ASSUME NEW k, channel' = [channel EXCEPT ![c] = k] PROVE Inv'
  BY <1>1, <1>2, <1>3, OneStep, Zenon
<1>4. channel' = channel => channel' = [channel EXCEPT ![c] = channel[c]]
  BY Zenon DEF Inv, ChanInv
<1> QED
  BY <1>1, <1>3, <1>4, Zenon

LEMMA StartInv ==
  ASSUME Inv, NEW c \in Calm, StartChannelInLoop(c)
  PROVE  Inv'
<1> DEFINE k == [channel[c] EXCEPT !.starting = FALSE]
<1>1. channel[c].starting /\ channel[c].state # "none"
  BY HeldAlive, Zenon DEF StartChannelInLoop
<1>2. Owes(k, 0, 1) /\ ~k.reading /\ ~k.starting /\ c \notin pool
  BY <1>1, TakeStarting, Zenon
<1>3. /\ peer' = peer /\ asked' = asked /\ c \in Conns
      /\ PoolInv' /\ pool' \ {c} = pool \ {c}
  <2>1. /\ peer' = peer /\ asked' = asked /\ c \in Conns
        /\ pool' = pool \/ (pool' = pool \cup {c} /\ SaveChannel)
    BY Zenon DEF StartChannelInLoop, peerVars, Calm
  <2> QED
    BY <2>1, PoolKept, Zenon DEF Inv
<1>4. CASE SaveChannel
  <2>1. /\ pool' = pool \cup {c}
        /\ channel' = [channel EXCEPT ![c] = UnRef(StartToRead(Ref(k)))]
    BY <1>4, Zenon DEF StartChannelInLoop
  <2> HIDE DEF k
  <2>2. Owes(Ref(k), 0, 2) /\ ~Ref(k).reading /\ ~Ref(k).starting
    BY <1>2, RefOwes
  <2>3. Owes(Ref(k), 1, 1)
    BY <2>2, PoolOwes
  <2> DEFINE r == StartToRead(Ref(k))
  <2>4. Owes(r, 1, 1) /\ ~r.starting
    BY <2>2, <2>3, ReadOwes, Zenon
  <2> HIDE DEF r
  <2>5. Held(UnRef(r), 1) /\ ~UnRef(r).starting
    <3>1. Owes(r, 1, 0 + 1)
      BY <2>4
    <3> QED
      BY <2>4, <3>1, UnRefOwes, Zenon
  <2>6. One(c \in pool') = 1
    BY <2>1, Zenon DEF One
  <2>7. channel' = [channel EXCEPT ![c] = UnRef(r)]
    BY <2>1, Zenon DEF r
  <2> QED
    BY <1>1, <1>3, <2>5, <2>6, <2>7, OneStep, Zenon
<1>5. CASE ~SaveChannel
  <2> DEFINE t == TerminateInLoop(k)
  <2>1. pool' = pool /\ channel' = [channel EXCEPT ![c] = UnRef(t)]
    BY <1>5, Zenon DEF StartChannelInLoop
  <2> HIDE DEF k
  <2>2. /\ t.count = k.count /\ t.state = k.state /\ t.starting = k.starting
        /\ t.reading = k.reading /\ t.writes = k.writes /\ t = [x \in Names |-> t[x]]
    BY <1>2, Zenon DEF Owes, Shape, Names, TerminateInLoop
  <2> HIDE DEF t
  <2>3. Owes(t, 0, 0 + 1)
    <3>1. Owes(t, 0, 1)
      BY <1>2, <2>2, SameOwes, Zenon
    <3> QED
      BY <3>1
  <2>4. Held(UnRef(t), 0) /\ ~UnRef(t).starting
    BY <1>2, <2>2, <2>3, UnRefOwes, Zenon
  <2>5. One(c \in pool') = 0
    BY <1>2, <2>1, Zenon DEF One
  <2> QED
    BY <1>1, <1>3, <2>1, <2>4, <2>5, OneStep, Zenon
<1> QED
  BY <1>4, <1>5, Zenon

\* A handler that ends by dropping its reference, and leaves the pool alone.
LEMMA Finish ==
  ASSUME Inv, NEW c \in Calm, channel[c].state # "none",
         NEW k, Owes(k, One(c \in pool), 1),
         k.starting => c \notin pool /\ ~k.reading,
         channel' = [channel EXCEPT ![c] = UnRef(k)], pool' = pool,
         peer' = peer, asked' = asked
  PROVE  Inv'
<1> DEFINE q == One(c \in pool)
<1>1. q \in Nat
  BY PoolNat, Zenon
<1> HIDE DEF q
<1>2. Owes(k, q, 0 + 1)
  BY DEF q
<1>3. /\ Held(UnRef(k), q)
      /\ UnRef(k).starting = k.starting /\ UnRef(k).reading = k.reading
  BY <1>1, <1>2, UnRefOwes, Zenon
<1>4. One(c \in pool') = q
  BY Zenon DEF q
<1>5. PoolInv' /\ c \in Conns
  BY Zenon DEF Inv, PoolInv, Calm
<1>6. UnRef(k).starting => c \notin pool' /\ ~UnRef(k).reading
  BY <1>3, Zenon
<1> QED
  BY <1>3, <1>4, <1>5, <1>6, OneStep, Zenon

LEMMA ReadFailsInv ==
  ASSUME Inv, NEW c \in Calm, ReadFails(c)
  PROVE  Inv'
<1> DEFINE k == [channel[c] EXCEPT !.reading = FALSE]
           j == [k EXCEPT !.closed_by_peer = TRUE]
<1>1. channel[c].reading /\ channel[c].state # "none"
  BY HeldAlive, Zenon DEF ReadFails
<1>2. Owes(k, One(c \in pool), 1) /\ ~k.reading /\ ~k.starting
  BY <1>1, TakeReading, Zenon
<1>3. peer' = peer /\ asked' = asked /\ c \in Conns
  BY Zenon DEF ReadFails, peerVars, Calm
<1>4. \/ pool' = pool /\ channel' = [channel EXCEPT ![c] = UnRef(k)]
      \/ ReleaseChannel(c, j)
  BY Zenon DEF ReadFails
<1>8. j.count = channel[c].count
  BY Zenon DEF Inv, ChanInv, Held, Shape, Names
<1>5. Owes(j, One(c \in pool), 1) /\ ~j.starting /\ ~j.reading
  <2> HIDE DEF k
  <2>1. /\ j.count = k.count /\ j.state = k.state /\ j.starting = k.starting
        /\ j.reading = k.reading /\ j.writes = k.writes /\ j = [x \in Names |-> j[x]]
    BY <1>2, Zenon DEF Owes, Shape, Names
  <2> HIDE DEF j
  <2> QED
    BY <1>2, <2>1, PoolNat, SameOwes, Zenon
<1> HIDE DEF k, j
<1>6. CASE pool' = pool /\ channel' = [channel EXCEPT ![c] = UnRef(k)]
  BY <1>1, <1>2, <1>3, <1>6, Finish, Zenon
<1>7. CASE ReleaseChannel(c, j)
  <2>1. pool' = pool \ {c} /\ c \notin pool'
    BY <1>7, Zenon DEF ReleaseChannel
  <2>2. One(c \in pool') = 0
    BY <2>1, Zenon DEF One
  <2>3. PoolInv' /\ pool' \ {c} = pool \ {c}
    BY <1>3, <2>1, PoolKept, Zenon DEF Inv
  <2>4. CASE c \in pool
    <3>1. One(c \in pool) = 1
      BY <2>4, Zenon DEF One
    <3>2. Owes(j, 0, 1 + 1)
      BY <1>5, <3>1, PoolOwes, Zenon
    <3> DEFINE u == UnRef(j)
    <3>3. Owes(u, 0, 0 + 1) /\ u.starting = j.starting
      BY <3>2, UnRefOwes
    <3> HIDE DEF u
    <3>4. Held(UnRef(u), 0) /\ ~UnRef(u).starting
      BY <1>5, <3>3, UnRefOwes, Zenon
    <3>5. channel' = [channel EXCEPT ![c] = UnRef(u)]
      BY <1>1, <1>7, <1>8, <2>4, PoolReading, Zenon DEF ReleaseChannel, u
    <3> QED
      BY <1>1, <1>3, <2>2, <2>3, <3>4, <3>5, OneStep, Zenon
  <2>5. CASE c \notin pool
    <3>1. pool' = pool
      BY <2>1, <2>5, Zenon
    <3>2. channel' = [channel EXCEPT ![c] = UnRef(j)]
      BY <1>7, <2>5, Zenon DEF ReleaseChannel
    <3> QED
      BY <1>1, <1>3, <1>5, <3>1, <3>2, Finish, Zenon
  <2> QED
    BY <2>4, <2>5, Zenon
<1> QED
  BY <1>4, <1>6, <1>7, Zenon

LEMMA ReadInLoopInv ==
  ASSUME Inv, NEW c \in Calm, ReadInLoop(c)
  PROVE  Inv'
<1> DEFINE k == [channel[c] EXCEPT !.reading = FALSE]
           r == Head(unread[c])
           s == CHOOSE s \in GetService(ServiceId[r.service]) : TRUE
           a == SendResponse(k, r, s)
           q == One(c \in pool)
<1>1. channel[c].reading /\ channel[c].state # "none"
  BY HeldAlive, Zenon DEF ReadInLoop
<1>2. Owes(k, q, 1) /\ ~k.reading /\ ~k.starting
  BY <1>1, TakeReading, Zenon
<1>3. peer' = peer /\ asked' = asked /\ pool' = pool
  BY Zenon DEF ReadInLoop, peerVars
<1>4. \/ channel' = channel
      \/ channel' = [channel EXCEPT ![c] = UnRef(StartToRead(k))]
      \/ channel' = [channel EXCEPT ![c] = UnRef(StartToRead(a))]
  <2>1. CallMethod(c, k, r)
    BY Zenon DEF ReadInLoop
  <2> QED
    BY <2>1, Zenon DEF CallMethod
<1>5. q \in Nat
  BY PoolNat, Zenon
<1> HIDE DEF k, r, s
<1>6. Owes(a, q, 1) /\ ~a.reading /\ ~a.starting
  BY <1>2, <1>5, SendOwes, SMTT(20) DEF SendResponse
<1> HIDE DEF a, q
<1>7. /\ Owes(StartToRead(k), q, 1) /\ ~StartToRead(k).starting
      /\ Owes(StartToRead(a), q, 1) /\ ~StartToRead(a).starting
  BY <1>2, <1>5, <1>6, ReadOwes, Zenon
<1>8. CASE channel' = channel
  BY <1>3, <1>8, CalmSame, OthersInv, Zenon
<1>9. CASE channel' = [channel EXCEPT ![c] = UnRef(StartToRead(k))]
  BY <1>1, <1>3, <1>7, <1>9, Finish, Zenon DEF q
<1>10. CASE channel' = [channel EXCEPT ![c] = UnRef(StartToRead(a))]
  BY <1>1, <1>3, <1>7, <1>10, Finish, Zenon DEF q
<1> QED
  BY <1>4, <1>8, <1>9, <1>10, Zenon

\* Changes of a channel that nobody starts or ends a handler in.
LEMMA SameHeld ==
  ASSUME NEW k, NEW j, NEW p \in Nat, Held(k, p),
         j = [x \in Names |-> j[x]], j.count = k.count, j.state = k.state,
         j.starting = k.starting, j.reading = k.reading,
         IsSeq(j.writes), Len(j.writes) = Len(k.writes)
  PROVE  Held(j, p)
  BY Zenon DEF Held, Shape, Holders

LEMMA Keep ==
  ASSUME Inv, NEW c \in Calm, channel[c].state # "none", NEW k,
         k = [x \in Names |-> k[x]], k.count = channel[c].count,
         k.state = channel[c].state, k.starting = channel[c].starting,
         k.reading = channel[c].reading,
         IsSeq(k.writes), Len(k.writes) = Len(channel[c].writes),
         channel' = [channel EXCEPT ![c] = k], pool' = pool,
         peer' = peer, asked' = asked
  PROVE  Inv'
<1>1. Held(channel[c], One(c \in pool))
  BY Zenon DEF Inv, ChanInv
<1>2. Held(k, One(c \in pool'))
  BY <1>1, PoolNat, SameHeld, Zenon
<1>3. k.starting => c \notin pool' /\ ~k.reading
  BY Zenon DEF Inv, ChanInv
<1>4. PoolInv' /\ pool' \ {c} = pool \ {c} /\ c \in Conns
  BY Zenon DEF Inv, PoolInv, Calm
<1> QED
  BY <1>2, <1>3, <1>4, OneStep, Zenon

LEMMA ChannelShape ==
  ASSUME Inv, NEW c \in Calm
  PROVE  /\ channel[c] = [x \in Names |-> channel[c][x]]
         /\ IsSeq(channel[c].writes)
  BY Zenon DEF Inv, ChanInv, Held, Shape

LEMMA CompleteWriteInv ==
  ASSUME Inv, NEW c \in Calm, NEW result, CompleteWrite(c, result)
  PROVE  Inv'
<1> DEFINE w == channel[c].writes
           e == [w[1] EXCEPT !.result = result]
           k == [channel[c] EXCEPT !.writes = [w EXCEPT ![1] = e]]
<1>1. w # <<>> /\ channel[c].state # "none"
  BY Zenon DEF CompleteWrite
<1>2. IsSeq([w EXCEPT ![1] = e]) /\ Len([w EXCEPT ![1] = e]) = Len(w)
  <2>1. IsSeq(w)
    BY ChannelShape, Zenon
  <2> HIDE DEF w, e
  <2> QED
    BY <1>1, <2>1, FirstSeq, Zenon
<1>3. /\ channel' = [channel EXCEPT ![c] = k] /\ pool' = pool
      /\ peer' = peer /\ asked' = asked
  BY Zenon DEF CompleteWrite, peerVars
<1> HIDE DEF e
<1>4. /\ k = [x \in Names |-> k[x]] /\ k.count = channel[c].count
      /\ k.state = channel[c].state /\ k.starting = channel[c].starting
      /\ k.reading = channel[c].reading /\ k.writes = [w EXCEPT ![1] = e]
  BY ChannelShape, Zenon DEF Names
<1>5. IsSeq(k.writes) /\ Len(k.writes) = Len(channel[c].writes)
  BY <1>2, <1>4, Zenon
<1> HIDE DEF k
<1> QED
  BY <1>1, <1>3, <1>4, <1>5, Keep, Zenon

LEMMA WrittenInv ==
  ASSUME Inv, NEW c \in Calm, Written(c)
  PROVE  Inv'
<1> DEFINE k == [channel[c] EXCEPT !.writes = Tail(@)]
           j == [k EXCEPT !.pending = RecycleRPCData(@)]
           v == WriteInLoop(j)
           q == One(c \in pool)
<1>1. channel[c].writes # <<>> /\ channel[c].state # "none"
  BY HeldAlive, Zenon DEF Written
<1>2. Owes(k, q, 1) /\ k.reading = channel[c].reading /\ k.starting = channel[c].starting
  BY <1>1, TakeWrite, Zenon
<1>3. /\ peer' = peer /\ asked' = asked /\ pool' = pool
      /\ channel[c].starting => c \notin pool /\ ~channel[c].reading
  BY Zenon DEF Written, peerVars, Inv, ChanInv
<1>4. \/ channel' = channel
      \/ channel' = [channel EXCEPT ![c] = UnRef(k)]
      \/ channel' = [channel EXCEPT ![c] = UnRef(v)]
  BY Zenon DEF Written
<1>5. q \in Nat
  BY PoolNat, Zenon
<1> HIDE DEF k
<1>6. /\ j.count = k.count /\ j.state = k.state /\ j.starting = k.starting
      /\ j.reading = k.reading /\ j.writes = k.writes /\ j = [x \in Names |-> j[x]]
  BY <1>2, Zenon DEF Owes, Shape, Names
<1> HIDE DEF j, q
<1>7. Owes(j, q, 1)
  BY <1>2, <1>5, <1>6, SameOwes, Zenon
<1>8. Owes(v, q, 1) /\ v.reading = k.reading /\ v.starting = k.starting
  BY <1>5, <1>6, <1>7, WriteOwes, Zenon
<1> HIDE DEF v
<1>9. CASE channel' = channel
  BY <1>3, <1>9, CalmSame, OthersInv, Zenon
<1>10. CASE channel' = [channel EXCEPT ![c] = UnRef(k)]
  BY <1>1, <1>2, <1>3, <1>10, Finish, Zenon DEF q
<1>11. CASE channel' = [channel EXCEPT ![c] = UnRef(v)]
  BY <1>1, <1>2, <1>3, <1>8, <1>11, Finish, Zenon DEF q
<1> QED
  BY <1>4, <1>9, <1>10, <1>11, Zenon

\* A service's own thread works on a connection that is not calm.
LEMMA ServiceThreadInv ==
  ASSUME Inv, KeptClosures, ServiceThread
  PROVE  Inv'
<1>1. PICK c \in Asked(Deferring) :
        channel' = channel \/ \E k : channel' = [channel EXCEPT ![c] = k]
  <2>1. ASSUME NEW d \in deferred, RunClosure(d)
        PROVE  /\ d.conn \in Asked(Deferring)
               /\ \/ channel' = channel
                  \/ \E k : channel' = [channel EXCEPT ![d.conn] = k]
    BY <2>1, Zenon DEF RunClosure, KeptClosures
  <2>2. ASSUME ClosureTests \/ ClosureWrites \/ ClosureRefs
        PROVE  /\ thread.conn \in Asked(Deferring)
               /\ \/ channel' = channel
                  \/ \E k : channel' = [channel EXCEPT ![thread.conn] = k]
    <3>1. thread.conn \in Asked(Deferring)
      BY <2>2, ThreadBusy, Zenon DEF KeptClosures
    <3> QED
      BY <2>2, <3>1, Zenon DEF ClosureTests, ClosureWrites, ClosureRefs
  <2> QED
    BY <2>1, <2>2, Zenon DEF ServiceThread
<1>2. c \in Conns /\ c \notin Calm
  BY Zenon DEF Asked, Calm
<1>3. peer' = peer /\ asked' = asked /\ pool' = pool
  BY Zenon DEF ServiceThread, RunClosure, ClosureTests, ClosureWrites, ClosureRefs,
               peerVars
<1>4. PoolInv' /\ pool' \ {c} = pool \ {c}
  BY <1>2, <1>3, PoolKept, Zenon DEF Inv
<1>5. ASSUME NEW k, channel' = [channel EXCEPT ![c] = k] PROVE Inv'
  BY <1>2, <1>3, <1>4, <1>5, OneStep, Zenon
<1> QED
  BY <1>1, <1>3, <1>5, CalmSame, OthersInv, Zenon

LEMMA CloseAllInv ==
  ASSUME Inv, CloseAllChannelsInLoop
  PROVE  Inv'
<1>1. /\ pool' = pool /\ peer' = peer /\ asked' = asked
      /\ Calm' = Calm /\ Calm \subseteq Conns
  <2>1. pool' = pool /\ peer' = peer /\ asked' = asked
    BY Zenon DEF CloseAllChannelsInLoop, peerVars
  <2> QED
    BY <2>1, CalmSame, Zenon DEF Calm
<1>2. /\ channel' = [c \in Conns |-> channel'[c]]
      /\ \A c \in Conns : \/ channel'[c] = channel[c]
                           \/ channel'[c] = TerminateInLoop(channel[c])
  BY Zenon DEF CloseAllChannelsInLoop, Inv, ChanInv
<1>3. ASSUME NEW c \in Calm
      PROVE  /\ Held(channel'[c], One(c \in pool'))
             /\ channel'[c].state = channel[c].state
             /\ channel'[c].starting => c \notin pool' /\ ~channel'[c].reading
  <2> DEFINE k == channel[c]
             t == TerminateInLoop(k)
  <2>1. Held(k, One(c \in pool)) /\ (k.starting => c \notin pool /\ ~k.reading)
    BY Zenon DEF Inv, ChanInv
  <2>2. /\ t.count = k.count /\ t.state = k.state /\ t.starting = k.starting
        /\ t.reading = k.reading /\ t.writes = k.writes /\ t = [x \in Names |-> t[x]]
    BY ChannelShape, Zenon DEF TerminateInLoop, Names
  <2>3. IsSeq(t.writes) /\ Len(t.writes) = Len(k.writes)
    BY <2>2, ChannelShape, Zenon
  <2>4. channel'[c] = k \/ channel'[c] = t
    BY <1>1, <1>2, Zenon
  <2> HIDE DEF k, t
  <2>5. Held(t, One(c \in pool))
    BY <2>1, <2>2, <2>3, PoolNat, SameHeld, Zenon
  <2> QED
    BY <1>1, <2>1, <2>2, <2>4, <2>5, Zenon DEF k
<1>4. ChanInv'
  BY <1>1, <1>2, <1>3, Zenon DEF ChanInv
<1>5. AwayInv' /\ PoolInv'
  BY <1>1, <1>3, Zenon DEF Inv, AwayInv, PoolInv
<1> QED
  BY <1>4, <1>5, Zenon DEF Inv

LEMMA NextInv == Inv /\ FlowInv /\ [Next]_vars => Inv'
<1> SUFFICES ASSUME Inv, FlowInv, [Next]_vars PROVE Inv'
  BY Zenon
<1>1. ASSUME NEW s \in Services, AddService(s) PROVE Inv'
  BY <1>1, CalmSame, OthersInv, Zenon DEF AddService, peerVars
<1>2. CASE Run
  BY <1>2, CalmSame, OthersInv, Zenon DEF Run, peerVars
<1>3. ASSUME NEW c \in Conns, NEW s \in Services, NEW parses \in BOOLEAN,
             PeerSends(c, s, parses)
      PROVE  Inv'
  <2>1. PICK r : asked' = [asked EXCEPT ![c] = Append(@, r)]
    BY <1>3, Zenon DEF PeerSends
  <2>2. Calm' \subseteq Calm
    BY <2>1, AskedGrows, Zenon DEF FlowInv, Calm
  <2> QED
    BY <1>3, <2>2, OthersInv, Zenon DEF PeerSends, serviceVars
<1>4. ASSUME NEW c \in Conns, PeerFinishes(c) \/ PeerGoes(c) PROVE Inv'
  BY <1>4, CalmSame, OthersInv, Zenon DEF PeerFinishes, PeerGoes, serviceVars
<1>5. ASSUME NEW c \in Calm, LoopHandler(c) PROVE Inv'
  <2>1. CASE HandlerOfDeleted(c)
    BY <2>1, CalmSame, OthersInv, Zenon DEF HandlerOfDeleted, peerVars
  <2> QED
    BY <1>5, <2>1, StartInv, ReadInLoopInv, ReadFailsInv, WrittenInv, Zenon
       DEF LoopHandler
<1>6. CASE ServiceThread
  BY <1>6, ServiceThreadInv, Zenon DEF FlowInv
<1>7. CASE UNCHANGED vars
  BY <1>7, CalmSame, OthersInv, Zenon DEF vars
<1>8. ASSUME NEW c \in Conns, NEW result \in {"written", "failed"},
             CompleteWrite(c, result)
      PROVE  Inv'
  BY <1>8, CompleteWriteInv, OtherHandlers, Zenon
<1>9. ASSUME NEW c \in Conns, LoopHandler(c) PROVE Inv'
  BY <1>5, <1>9, OtherHandlers, Zenon
<1> QED
  BY <1>1, <1>2, <1>3, <1>4, <1>6, <1>7, <1>8, <1>9, AcceptedInv, CloseAllInv, Zenon
     DEF Next, Alive

LEMMA Safe == Spec => [](Inv /\ FlowInv)
  BY InitInv, InitFlow, NextInv, NextFlow, PTL DEF Spec

\* Ref and UnRef, for any number of connections and requests: on a connection
\* whose requests are answered in the loop the count of the channel is the number
\* of those who hold it, and the channel is deleted exactly when nobody does.
THEOREM CountsAreRight == Spec => []CountIsHolders
<1>1. Inv => CountIsHolders
  BY Zenon DEF Inv, ChanInv, Held, Holders, Calm, CountIsHolders
<1> QED
  BY <1>1, Safe, PTL

\* SaveChannel and ReleaseChannel: for every threshold and any number of
\* connections, and whatever becomes of the counts, the pool stays within it.
THEOREM PoolWithinThreshold == Spec => []PoolBounded
<1>1. Inv => PoolBounded
  BY Zenon DEF Inv, PoolInv, PoolBounded
<1> QED
  BY <1>1, Safe, PTL

\* The CHECKs of Written and the raw pointers: for any number of connections,
\* requests and services, none fails and nothing deleted is used unless a service
\* has kept its closure; and a service is found for every request unless a peer
\* has asked for one that was not added.
THEOREM ChecksHold == Spec => []NoFault
<1>1. FlowInv => NoFault
  BY Zenon DEF FlowInv
<1> QED
  BY <1>1, Safe, PTL

\* WriteInLoop and Written: for any number of connections and requests, while
\* services answer in the loop a channel has at most one write in progress, that
\* of its first RPCData, and no response waits for a write nobody will start.
THEOREM WritesOneByOne == Spec => []OneWriteInProgress
<1>1. FlowInv => OneWriteInProgress
  <2> SUFFICES ASSUME FlowInv, NEW c \in Conns \ Asked(Deferring), NEW k,
                      k = channel[c]
               PROVE  /\ Len(k.writes) <= 1
                      /\ \A i \in DOMAIN k.pending : k.pending[i].is_pending <=> i = 1
                      /\ k.pending # <<>> =>
                           \/ /\ k.writes # <<>>
                              /\ Head(k.writes).seq = Head(k.pending).seq
                           \/ /\ k.writes = <<>>
                              /\ (k.terminated \/ peer[c] = "gone")
    BY Zenon DEF OneWriteInProgress
  <2>1. Sending(k, peer[c])
    BY CalmFlow, Zenon DEF Flow, Calm
  <2>2. k.writes \in Seq(Write) /\ k.pending \in Seq(Data)
    BY <2>1, Zenon DEF Sending
  <2>3. /\ \A w \in Seq(Write) : w # <<>> => Head(w) = w[1]
        /\ \A p \in Seq(Data) : (p # <<>> => Head(p) = p[1]) /\ DOMAIN p = 1..Len(p)
    OBVIOUS
  <2>4. \A i \in DOMAIN k.pending : k.pending[i].is_pending <=> i = 1
    <3> TAKE i \in DOMAIN k.pending
    <3>1. k.pending[i].is_pending = (i = 1)
      BY <2>1, <2>2, <2>3, Zenon DEF Sending
    <3> QED
      BY <3>1, Zenon
  <2>5. Len(k.writes) <= 1
    BY <2>1, Zenon DEF Sending
  <2>6. ASSUME k.pending # <<>>
        PROVE  \/ k.writes # <<>> /\ Head(k.writes).seq = Head(k.pending).seq
               \/ k.writes = <<>> /\ (k.terminated \/ peer[c] = "gone")
    <3>1. /\ Head(k.pending) = k.pending[1]
          /\ k.writes # <<>> => Head(k.writes) = k.writes[1]
      BY <2>2, <2>3, <2>6, Zenon
    <3> QED
      BY <2>1, <2>6, <3>1, Zenon DEF Sending
  <2> QED
    BY <2>4, <2>5, <2>6, Zenon
<1> QED
  BY <1>1, Safe, PTL

\* CallMethod, SendResponse and the writes: for any number of connections,
\* requests and services and whatever identifiers those have, a peer whose
\* requests are answered in the loop gets answers to its own requests only, from
\* the service it asked for, in their order, none twice and none skipped.
THEOREM AnsweredInOrder == Spec => []AnswersInOrder
<1>1. FlowInv => AnswersInOrder
  <2> SUFFICES ASSUME FlowInv, NEW c \in Conns \ Asked(Deferring)
               PROVE  LET a == answers[c] IN
                      /\ \A i \in DOMAIN a : \E n \in DOMAIN asked[c] :
                           Answers(c, a[i], n)
                      /\ \A i, j \in DOMAIN a : i < j => a[i].seq < a[j].seq
                      /\ \A i \in DOMAIN a : \A n \in 1..(a[i].seq - 1) :
                           asked[c][n].parses => \E j \in DOMAIN a : a[j].seq = n
    BY Zenon DEF AnswersInOrder
  <2> DEFINE k == channel[c]
             a == answers[c]
             q == asked[c]
             m == ReadSoFar(c)
  <2>1. /\ Order(k.pending, k.writes, a, q, m, added, peer[c], k.state, fault)
        /\ a \in Seq(Response) /\ q \in Seq(Request)
    BY CalmFlow, Zenon DEF Flow, Calm, FlowInv, Requests, Queued
  <2> HIDE DEF k, m, a
  <2>2. DOMAIN a = 1..Len(a) /\ DOMAIN q = 1..Len(q)
    BY <2>1, SMTT(30)
  <2>3. ASSUME NEW i \in DOMAIN a PROVE \E n \in DOMAIN q : Answers(c, a[i], n)
    <3>1. a[i].seq \in 1..m /\ Right(a[i], q, added) /\ m \in 0..Len(q)
      BY <2>1, <2>2, <2>3, Zenon DEF Order
    <3>2. a[i].seq \in DOMAIN q
      BY <2>2, <3>1
    <3> QED
      BY <3>1, <3>2, Zenon DEF Answers, Right
  <2>4. \A i, j \in DOMAIN a : i < j => a[i].seq < a[j].seq
    BY <2>1, <2>2, Zenon DEF Order, Increasing
  <2>5. \A i \in DOMAIN a : \A n \in 1..(a[i].seq - 1) :
          q[n].parses => \E j \in DOMAIN a : a[j].seq = n
    <3>1. \A i \in 1..Len(a) : \A n \in 1..(a[i].seq - 1) : q[n].parses => Has(a, n)
      BY <2>1, Zenon DEF Order
    <3>2. \A n : Has(a, n) => \E j \in DOMAIN a : a[j].seq = n
      BY <2>2, Zenon DEF Has
    <3> QED
      BY <2>2, <3>1, <3>2, Zenon
  <2> QED
    BY <2>3, <2>4, <2>5, Zenon DEF a
<1> QED
  BY <1>1, Safe, PTL
=============================================================================
