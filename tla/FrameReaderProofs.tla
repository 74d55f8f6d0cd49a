------------------------- MODULE FrameReaderProofs -------------------------
(***************************************************************************)
(* The reader of messages, for streams of any frames cut into reads in any *)
(* way: what it delivers is what was sent, and the only CHECK that fails   *)
(* is the one of meta data that came in two reads.                         *)
(***************************************************************************)
EXTENDS FrameReader, WellFoundedInduction, TLAPS

-----------------------------------------------------------------------------
(* Bytes in a row *)

(* The places of m bytes from place a on. *)
Bytes(a, m) == [i \in 1..m |-> a + i - 1]

LEMMA BytesAre ==
  ASSUME NEW a \in Nat, NEW m \in Nat
  PROVE  /\ Bytes(a, m) \in Seq(Nat)
         /\ Len(Bytes(a, m)) = m
         /\ m # 0 => Bytes(a, m)[1] = a
         /\ Bytes(a, m) = <<>> <=> m = 0
<1>1. Bytes(a, m) \in Seq(Nat) /\ Len(Bytes(a, m)) = m
  BY DEF Bytes
<1>2. m # 0 => Bytes(a, m)[1] = a
  BY DEF Bytes
<1>3. m # 0 => Bytes(a, m) # <<>>
  BY <1>1, Zenon
<1>4. m = 0 => Bytes(a, m) = <<>>
  BY <1>1
<1> QED
  BY <1>1, <1>2, <1>3, <1>4, Zenon

LEMMA ConcatIs ==
  ASSUME NEW x \in Seq(Nat), NEW y \in Seq(Nat)
  PROVE  /\ x \o y \in Seq(Nat) /\ Len(x \o y) = Len(x) + Len(y)
         /\ \A i \in 1..Len(x) : (x \o y)[i] = x[i]
         /\ \A i \in 1..Len(y) : (x \o y)[Len(x) + i] = y[i]
  OBVIOUS

(* fast_append of the bytes that follow. *)
LEMMA AppendedAre ==
  ASSUME NEW a \in Nat, NEW m \in Nat, NEW n \in Nat
  PROVE  FastAppend(Bytes(a, m), a + m, n) = Bytes(a, m + n)
<1> DEFINE new == [i \in 1..n |-> a + m + i - 1]
           all == FastAppend(Bytes(a, m), a + m, n)
<1>1. new \in Seq(Nat) /\ Len(new) = n
  OBVIOUS
<1>2. Bytes(a, m) \in Seq(Nat) /\ Len(Bytes(a, m)) = m
  BY BytesAre, Zenon
<1>3. all = Bytes(a, m) \o new
  BY Zenon DEF FastAppend
<1>4. \A i \in 1..m : Bytes(a, m)[i] = a + i - 1
  BY Zenon DEF Bytes
<1>5. \A i \in 1..n : new[i] = a + m + i - 1
  BY Zenon
<1> HIDE DEF new, all
<1>6. PICK old : old = Bytes(a, m)
  BY Zenon
<1>7. /\ all \in Seq(Nat) /\ Len(all) = Len(old) + Len(new)
      /\ \A i \in 1..Len(old) : all[i] = old[i]
      /\ \A i \in 1..Len(new) : all[Len(old) + i] = new[i]
  BY <1>1, <1>2, <1>3, <1>6, ConcatIs, Zenon
<1>8. /\ Len(all) = m + n
      /\ \A i \in 1..m : all[i] = Bytes(a, m)[i]
      /\ \A i \in 1..n : all[m + i] = new[i]
  BY <1>1, <1>2, <1>6, <1>7, Zenon
<1>9. ASSUME NEW i \in 1..(m + n) PROVE all[i] = a + i - 1
  <2>1. CASE i <= m
    BY <2>1, <1>4, <1>8
  <2>2. CASE i > m
    <3>1. PICK j \in 1..n : i = m + j
      <4>1. i - m \in 1..n /\ m + (i - m) = i
        BY <2>2
      <4> QED
        BY <4>1, Zenon
    <3>2. all[m + j] = new[j] /\ new[j] = a + m + j - 1
      BY <1>5, <1>8, Zenon
    <3>3. a + i - 1 = a + m + j - 1
      BY <3>1
    <3> QED
      BY <3>1, <3>2, <3>3, Zenon
  <2> QED
    BY <2>1, <2>2
<1>10. all = [i \in 1..(m + n) |-> a + i - 1]
  BY <1>7, <1>8, <1>9
<1> QED
  BY <1>10, Zenon DEF Bytes, all

-----------------------------------------------------------------------------
(* Where the frames are *)

(* A set of numbers has a least one. *)
LEMMA LeastIn ==
  ASSUME NEW S \in SUBSET Nat, S # {}
  PROVE  \E n \in S : \A m \in S : n <= m
<1> DEFINE R == OpToRel(<, Nat)
<1>1. IsWellFoundedOn(R, Nat)
  BY NatLessThanWellFounded, Zenon
<1>2. \A x, y \in Nat : x < y => <<x, y>> \in R
  BY Zenon DEF OpToRel
<1> HIDE DEF R
<1>3. PICK n \in S : \A m \in S : ~(<<m, n>> \in R)
  BY <1>1, WFMin, Zenon
<1>4. \A m \in S : ~(m < n)
  BY <1>2, <1>3, Zenon
<1>5. \A m \in S : m \in Nat /\ n \in Nat
  BY Zenon
<1>6. \A m \in S : n <= m
  BY <1>4, <1>5
<1> QED
  BY <1>6, Zenon

(* The fields of a frame, and that it has no end before its start. *)
LEMMA FrameIs ==
  ASSUME NEW s \in Streams, NEW i \in DOMAIN s
  PROVE  /\ s[i].start \in Nat /\ s[i].meta \in Nat /\ s[i].meta # 0
         /\ s[i].len \in Nat /\ s[i].ok \in BOOLEAN
         /\ NumMetaSizeBytes \in Nat /\ NumMetaSizeBytes # 0
         /\ End(s[i]) \in Nat /\ End(s[i]) > s[i].start
         /\ i \in Nat /\ i >= 1 /\ i <= Len(s) /\ Len(s) \in Nat
<1>1. s[i] \in FrameType /\ s \in Seq(FrameType)
  BY StreamAssumption
<1>2. /\ s[i].start \in Nat /\ s[i].meta \in Nat /\ s[i].meta # 0
      /\ s[i].len \in Nat /\ s[i].ok \in BOOLEAN
  BY <1>1 DEF FrameType
<1>3. NumMetaSizeBytes \in Nat /\ NumMetaSizeBytes # 0
  BY StreamAssumption, Zenon
<1>4. End(s[i]) \in Nat /\ End(s[i]) > s[i].start
  <2>1. PICK a, b, c, e : /\ a = s[i].start /\ b = NumMetaSizeBytes
                          /\ c = s[i].meta /\ e = s[i].len
    BY Zenon
  <2>2. /\ a \in Nat /\ b \in Nat /\ b # 0 /\ c \in Nat /\ e \in Nat
        /\ End(s[i]) = a + b + c + e
    BY <1>2, <1>3, <2>1, Zenon DEF End
  <2> QED
    BY <2>1, <2>2
<1>5. i \in Nat /\ i >= 1 /\ i <= Len(s) /\ Len(s) \in Nat
  BY <1>1
<1> QED
  BY <1>2, <1>3, <1>4, <1>5, Zenon

(***************************************************************************)
(* A frame starts after those before it have ended.  The first one that    *)
(* did not would come just after another, whose end is where it starts.    *)
(***************************************************************************)
LEMMA FramesInOrder ==
  ASSUME NEW s \in Streams
  PROVE  \A i, j \in DOMAIN s : i < j => End(s[i]) <= s[j].start
<1> DEFINE Early == {j \in DOMAIN s : \E i \in DOMAIN s :
                                       i < j /\ ~(End(s[i]) <= s[j].start)}
<1>1. SUFFICES ASSUME Early # {} PROVE FALSE
  BY Zenon
<1>2. Early \in SUBSET Nat
  BY FrameIs, Zenon
<1>3. PICK j \in Early : \A m \in Early : j <= m
  BY <1>1, <1>2, LeastIn, Zenon
<1>4. PICK i \in DOMAIN s : i < j /\ ~(End(s[i]) <= s[j].start)
  BY <1>3, Zenon
<1>5. /\ j \in DOMAIN s /\ s \in Seq(FrameType) /\ DOMAIN s = 1..Len(s)
      /\ Len(s) \in Nat /\ i \in Nat /\ j \in Nat /\ i >= 1 /\ j <= Len(s)
  BY <1>3, <1>4, FrameIs, StreamAssumption
<1>6. j - 1 \in DOMAIN s /\ j - 1 \in 1..(Len(s) - 1) /\ (j - 1) + 1 = j
  BY <1>4, <1>5
<1>7. s[j].start = End(s[j - 1])
  BY <1>6, StreamAssumption, Zenon
<1>8. /\ s[j].start \in Nat /\ End(s[j - 1]) > s[j - 1].start
      /\ s[j - 1].start \in Nat /\ End(s[j - 1]) \in Nat
      /\ End(s[i]) \in Nat
  BY <1>4, <1>5, <1>6, FrameIs, Zenon
<1>9. i < j - 1
  BY <1>4, <1>5, <1>7, <1>8
<1>10. ~(End(s[i]) <= s[j - 1].start)
  BY <1>4, <1>7, <1>8
<1>11. j - 1 \in Early
  BY <1>6, <1>9, <1>10, Zenon
<1> QED
  BY <1>3, <1>5, <1>11

(* No two frames start at one place, *)
LEMMA FrameAt ==
  ASSUME stream \in Streams, NEW k \in DOMAIN stream
  PROVE  FramesAt(stream[k].start) = {k}
<1>1. ASSUME NEW i \in DOMAIN stream, stream[i].start = stream[k].start
      PROVE  i = k
  <2>1. ASSUME NEW x \in DOMAIN stream, NEW y \in DOMAIN stream, x < y
        PROVE  stream[x].start # stream[y].start
    <3>1. /\ End(stream[x]) <= stream[y].start /\ End(stream[x]) > stream[x].start
          /\ End(stream[x]) \in Nat
          /\ stream[x].start \in Nat /\ stream[y].start \in Nat
      BY <2>1, FramesInOrder, FrameIs, Zenon
    <3> QED
      BY <3>1
  <2>2. i \in Nat /\ k \in Nat
    BY FrameIs, Zenon
  <2>3. ~(i < k) /\ ~(k < i)
    BY <1>1, <2>1, Zenon
  <2> QED
    BY <2>2, <2>3
<1> QED
  BY <1>1, Zenon DEF FramesAt

(* so that its size word and its meta data are found. *)
LEMMA FrameParses ==
  ASSUME stream \in Streams, NEW k \in DOMAIN stream
  PROVE  /\ SizeWord(stream[k].start) = stream[k].meta
         /\ ParseFromArray(stream[k].start + NumMetaSizeBytes, stream[k].meta)
              = IF stream[k].ok THEN k ELSE 0
<1>1. FramesAt(stream[k].start) = {k}
  BY FrameAt, Zenon
<1>2. SizeWord(stream[k].start) = stream[k].meta
  BY <1>1, Zenon DEF SizeWord
<1>3. PICK p : p = stream[k].start + NumMetaSizeBytes
  BY Zenon
<1>4. FramesAt(p - NumMetaSizeBytes) = {k}
  <2>1. p - NumMetaSizeBytes = stream[k].start
    BY <1>3, FrameIs
  <2> QED
    BY <1>1, <2>1, Zenon
<1>5. PICK good :
        good = {i \in FramesAt(p - NumMetaSizeBytes) :
                  stream[i].ok /\ stream[i].meta = stream[k].meta}
  BY Zenon
<1>6. ParseFromArray(p, stream[k].meta)
        = IF good = {} THEN 0 ELSE CHOOSE i \in good : TRUE
  BY <1>5 DEF ParseFromArray
<1>7. /\ stream[k].ok => good = {k}
      /\ ~stream[k].ok => good = {}
  BY <1>4, <1>5, Zenon
<1>8. (CHOOSE i \in {k} : TRUE) = k
  BY Zenon
<1> QED
  BY <1>2, <1>3, <1>6, <1>7, <1>8, Zenon

-----------------------------------------------------------------------------
(* How far an RPCData has been read *)

RPCDataType ==
  [exists : {TRUE}, meta_size : Nat, binaries : Seq(Nat), frame : Nat]

(* d holds m bytes of the size word of frame k, *)
InSize(s, d, k, m) ==
  /\ d.meta_size = 0 /\ d.frame = 0
  /\ m < NumMetaSizeBytes
  /\ d.binaries = Bytes(s[k].start, m)

(* or the size and m bytes of the meta data, *)
InMeta(s, d, k, m) ==
  /\ d.meta_size = s[k].meta /\ d.frame = 0
  /\ m < s[k].meta
  /\ d.binaries = Bytes(s[k].start + NumMetaSizeBytes, m)

(* or the meta data and m bytes of the payload. *)
InPayload(s, d, k, m) ==
  /\ d.meta_size = s[k].meta /\ d.frame = k
  /\ m <= s[k].len
  /\ d.binaries = Bytes(s[k].start + NumMetaSizeBytes + s[k].meta, m)

(* d holds the bytes of frame k up to place p, and not all of them. *)
Holding(s, d, k, p) ==
  /\ d \in RPCDataType
  /\ \E m \in Nat :
       \/ InSize(s, d, k, m) /\ p = s[k].start + m
       \/ InMeta(s, d, k, m) /\ p = s[k].start + NumMetaSizeBytes + m
       \/ /\ InPayload(s, d, k, m) /\ m < s[k].len
          /\ p = s[k].start + NumMetaSizeBytes + s[k].meta + m

(* d is the message of frame k, which ends at p. *)
Complete(s, d, k, p) ==
  /\ d \in RPCDataType
  /\ InPayload(s, d, k, s[k].len)
  /\ p = End(s[k])

(* What AppendBinaries makes of n bytes from place p on. *)
Outcome(r, k, p, n) ==
  \/ /\ r.failed = 0 /\ r.value = n
     /\ Holding(stream, r.data, k, p + n)
  \/ /\ r.failed = 0 /\ r.value \in 1..n
     /\ Complete(stream, r.data, k, p + r.value)
  \/ r.failed = 0 /\ r.value = -1 /\ ~stream[k].ok

(* The payload: all that there is of it, or all that is lacked. *)
LEMMA PayloadAppended ==
  ASSUME stream \in Streams, NEW k \in DOMAIN stream, NEW d \in RPCDataType,
         NEW m \in Nat, m < stream[k].len, InPayload(stream, d, k, m),
         NEW p \in Nat, NEW offset \in Nat, NEW n \in Nat, n # 0,
         p + offset = stream[k].start + NumMetaSizeBytes + stream[k].meta + m
  PROVE  Outcome(AppendPayload(d, p, offset, n), k, p, offset + n)
<1> DEFINE a      == stream[k].start + NumMetaSizeBytes + stream[k].meta
           size   == stream[k].len
           lacked == size - m
           take   == IF n < lacked THEN n ELSE lacked
           all    == Bytes(a, m + take)
           e      == [d EXCEPT !.binaries = all]
<1>0. /\ stream[k].start \in Nat /\ NumMetaSizeBytes \in Nat
      /\ stream[k].meta \in Nat /\ stream[k].len \in Nat
  BY FrameIs, Zenon
<1>1. /\ a \in Nat /\ size \in Nat /\ lacked \in Nat /\ take \in Nat /\ take # 0
      /\ take <= n /\ take <= lacked
  BY <1>0
<1>2. Len(d.binaries) = m /\ stream[d.frame].len = size
  BY <1>1, BytesAre DEF InPayload
<1>3. FastAppend(d.binaries, p + offset, take) = all
  <2>1. d.binaries = Bytes(a, m) /\ p + offset = a + m
    BY Zenon DEF InPayload
  <2> HIDE DEF a, take
  <2> QED
    BY <1>1, <2>1, AppendedAre
<1>4. Len(all) = m + take /\ all \in Seq(Nat)
  <2> HIDE DEF a, take
  <2>1. m + take \in Nat
    BY <1>1
  <2> QED
    BY <1>1, <2>1, BytesAre, Zenon
<1>5. /\ e \in RPCDataType /\ e.meta_size = d.meta_size /\ e.frame = d.frame
      /\ e.binaries = all
  BY <1>4, Zenon DEF RPCDataType
<1>6. AppendPayload(d, p, offset, n) = Returns(e, offset + take)
  <2>1. AppendPayload(d, p, offset, n)
          = IF ~(m < size) THEN CheckFails(d, 124)
            ELSE IF n < lacked /\ ~(Len(all) < size) THEN CheckFails(d, 130)
            ELSE IF n >= lacked /\ Len(all) # size THEN CheckFails(d, 136)
            ELSE Returns(e, offset + take)
    <3> HIDE DEF a, all
    <3> QED
      BY <1>2, <1>3, Zenon DEF AppendPayload
  <2>2. m < size /\ (n < lacked => m + take < size) /\ (n >= lacked => m + take = size)
    BY <1>1
  <2> HIDE DEF a, all, take, lacked, e
  <2> QED
    BY <1>4, <2>1, <2>2, Zenon
<1>7. InPayload(stream, e, k, m + take)
  BY <1>1, <1>5 DEF InPayload
<1>8. CASE n < lacked
  <2>1. Holding(stream, e, k, p + (offset + n))
    BY <1>1, <1>5, <1>7, <1>8 DEF Holding
  <2> QED
    BY <1>6, <1>8, <2>1 DEF Outcome, Returns
<1>9. CASE ~(n < lacked)
  <2>1. Complete(stream, e, k, p + (offset + take))
    BY <1>1, <1>5, <1>7, <1>9 DEF Complete, End
  <2>2. offset + take \in 1..(offset + n)
    BY <1>1, <1>9
  <2> QED
    BY <1>6, <2>1, <2>2 DEF Outcome, Returns
<1> QED
  BY <1>8, <1>9, Zenon

(***************************************************************************)
(* The meta data: what there is of it, or, if none of it was kept from an  *)
(* earlier read, what is lacked, and the payload behind it.                *)
(***************************************************************************)
LEMMA MetaAppended ==
  ASSUME stream \in Streams, NEW k \in DOMAIN stream, NEW d \in RPCDataType,
         NEW m \in Nat, InMeta(stream, d, k, m),
         NEW p \in Nat, NEW offset \in Nat, NEW n \in Nat, n # 0,
         p + offset = stream[k].start + NumMetaSizeBytes + m
  PROVE  \/ Outcome(AppendMeta(d, p, offset, n), k, p, offset + n)
         \/ AppendMeta(d, p, offset, n).failed = 96 /\ m # 0
<1>0. /\ stream[k].start \in Nat /\ NumMetaSizeBytes \in Nat
      /\ stream[k].meta \in Nat /\ stream[k].meta # 0 /\ stream[k].len \in Nat
      /\ k \in Nat /\ k # 0
  BY FrameIs
<1>1. PICK a, size, lacked, r :
        /\ a = stream[k].start + NumMetaSizeBytes
        /\ size = stream[k].meta /\ lacked = size - m
        /\ r = AppendMeta(d, p, offset, n)
  BY Zenon
<1>2. /\ a \in Nat /\ size \in Nat /\ lacked \in Nat /\ lacked # 0 /\ m + lacked = size
      /\ p + offset = a + m
  BY <1>0, <1>1 DEF InMeta
<1>3. /\ d.binaries = Bytes(a, m) /\ d.meta_size = size /\ d.frame = 0
      /\ Len(d.binaries) = m /\ (d.binaries # <<>> <=> m # 0)
  <2>1. d.binaries = Bytes(a, m) /\ d.meta_size = size /\ d.frame = 0
    BY <1>1, Zenon DEF InMeta
  <2>2. Len(Bytes(a, m)) = m /\ (Bytes(a, m) = <<>> <=> m = 0)
    BY <1>2, BytesAre, Zenon
  <2> QED
    BY <2>1, <2>2, Zenon
<1>4. PICK all : all = FastAppend(d.binaries, p + offset, lacked)
  BY Zenon
<1>5. all = Bytes(a, size) /\ Len(all) = size
  <2>1. FastAppend(Bytes(a, m), a + m, lacked) = Bytes(a, m + lacked)
    BY <1>2, AppendedAre
  <2>2. Len(Bytes(a, size)) = size
    BY <1>2, BytesAre, Zenon
  <2> QED
    BY <1>2, <1>3, <1>4, <2>1, <2>2, Zenon
<1>6. CASE n < lacked
  <2>1. PICK e : e = [d EXCEPT !.binaries = FastAppend(d.binaries, p + offset, n)]
    BY Zenon
  <2>2. r = Returns(e, offset + n)
    <3>1. m < size /\ n < size - m
      BY <1>1, <1>2, <1>6
    <3>2. Len(d.binaries) < d.meta_size /\ n < d.meta_size - Len(d.binaries)
      BY <1>3, <3>1, Zenon
    <3> QED
      BY <1>1, <1>3, <2>1, <3>2, Zenon DEF AppendMeta
  <2>3. FastAppend(d.binaries, p + offset, n) = Bytes(a, m + n)
    <3>1. FastAppend(Bytes(a, m), a + m, n) = Bytes(a, m + n)
      BY <1>2, AppendedAre
    <3> QED
      BY <1>2, <1>3, <3>1, Zenon
  <2>4. e \in RPCDataType /\ InMeta(stream, e, k, m + n)
    <3>1. m + n \in Nat /\ m + n < size
      BY <1>2, <1>6
    <3>2. Bytes(a, m + n) \in Seq(Nat)
      BY <1>2, <3>1, BytesAre, Zenon
    <3> QED
      BY <1>1, <1>3, <2>1, <2>3, <3>1, <3>2, Zenon DEF RPCDataType, InMeta
  <2>5. Holding(stream, e, k, p + (offset + n))
    BY <1>1, <1>2, <2>4 DEF Holding
  <2> QED
    BY <1>1, <2>2, <2>5 DEF Outcome, Returns
<1>7. CASE ~(n < lacked) /\ m # 0
  <2>1. r = CheckFails(d, 96)
    <3>1. /\ Len(d.binaries) < d.meta_size /\ ~(n < d.meta_size - Len(d.binaries))
          /\ d.binaries # <<>> /\ ~(Len(all) < d.meta_size)
          /\ FastAppend(d.binaries, p + offset, d.meta_size - Len(d.binaries)) = all
      <4>1. m < size /\ ~(n < size - m) /\ ~(size < size) /\ lacked = size - m
        BY <1>1, <1>2, <1>7
      <4> QED
        BY <1>3, <1>4, <1>5, <1>7, <4>1, Zenon
    <3> QED
      BY <1>1, <1>3, <3>1, Zenon DEF AppendMeta
  <2> QED
    BY <1>1, <1>7, <2>1 DEF CheckFails
<1>8. CASE ~(n < lacked) /\ m = 0
  <2>1. /\ d.binaries = <<>> /\ lacked = size /\ d.meta_size - Len(d.binaries) = size
        /\ Len(d.binaries) < d.meta_size /\ ~(n < size) /\ p + offset = a
    BY <1>1, <1>2, <1>3, <1>8
  <2>2. PICK frame : frame = ParseFromArray(p + offset, d.meta_size)
    BY Zenon
  <2>3. frame = IF stream[k].ok THEN k ELSE 0
    BY <1>1, <1>3, <2>1, <2>2, FrameParses, Zenon
  <2>4. PICK e : e = [d EXCEPT !.frame = frame, !.binaries = <<>>]
    BY Zenon
  <2>5. r = IF frame = 0 THEN Returns(d, -1)
            ELSE IF n = size \/ stream[frame].len = 0 THEN Returns(e, offset + size)
            ELSE AppendPayload(e, p, offset + size, n - size)
    BY <1>1, <1>3, <2>1, <2>2, <2>4, Zenon DEF AppendMeta
  <2>6. CASE ~stream[k].ok
    BY <1>1, <2>3, <2>5, <2>6 DEF Outcome, Returns
  <2>7. CASE stream[k].ok
    <3>1. frame = k /\ frame # 0
      BY <1>0, <2>3, <2>7, Zenon
    <3>2. e \in RPCDataType /\ InPayload(stream, e, k, 0)
      <4>1. stream[k].start + NumMetaSizeBytes + stream[k].meta \in Nat
        BY <1>0
      <4>2. Bytes(stream[k].start + NumMetaSizeBytes + stream[k].meta, 0) = <<>>
        BY <4>1, BytesAre, Zenon
      <4>3. e = [exists |-> TRUE, meta_size |-> d.meta_size, binaries |-> <<>>,
                 frame |-> k]
        BY <2>4, <3>1, Zenon DEF RPCDataType
      <4>4. d.meta_size \in Nat
        BY Zenon DEF RPCDataType
      <4>5. e \in RPCDataType
        BY <1>0, <4>3, <4>4 DEF RPCDataType
      <4> QED
        BY <1>0, <1>1, <1>3, <4>2, <4>3, <4>5 DEF InPayload
    <3>3. p + (offset + size) = stream[k].start + NumMetaSizeBytes + stream[k].meta
      BY <1>1, <1>2, <2>1, SMTT(20)
    <3>4. CASE stream[k].len = 0
      <4>1. Complete(stream, e, k, p + (offset + size))
        BY <1>0, <3>2, <3>3, <3>4 DEF Complete, End
      <4>2. offset + size \in 1..(offset + n)
        <5>1. size # 0 /\ size <= n
          BY <1>2, <1>8
        <5> QED
          BY <1>2, <5>1
      <4> QED
        BY <1>1, <2>5, <3>1, <3>4, <4>1, <4>2 DEF Outcome, Returns
    <3>5. CASE stream[k].len # 0 /\ n = size
      <4>1. Holding(stream, e, k, p + (offset + n))
        BY <1>0, <3>2, <3>3, <3>5 DEF Holding
      <4> QED
        BY <1>1, <2>5, <3>1, <3>5, <4>1 DEF Outcome, Returns
    <3>6. CASE stream[k].len # 0 /\ n # size
      <4>1. /\ r = AppendPayload(e, p, offset + size, n - size)
            /\ n - size \in Nat /\ n - size # 0 /\ offset + size \in Nat
            /\ offset + size + (n - size) = offset + n
            /\ 0 < stream[k].len
        BY <1>0, <1>2, <2>1, <2>5, <3>1, <3>6
      <4>2. Outcome(r, k, p, offset + size + (n - size))
        BY <1>0, <3>2, <3>3, <4>1, PayloadAppended
      <4> QED
        BY <1>1, <4>1, <4>2, Zenon
    <3> QED
      BY <3>4, <3>5, <3>6, Zenon
  <2> QED
    BY <2>6, <2>7, FrameIs, Zenon
<1> QED
  BY <1>6, <1>7, <1>8, Zenon

(* The n bytes from place p + offset on continue the meta data of frame k,  *)
(* of which d holds m bytes.                                               *)
MetaFollows(k, d, m, p, offset, n) ==
  /\ stream \in Streams /\ k \in DOMAIN stream
  /\ d \in RPCDataType /\ m \in Nat /\ InMeta(stream, d, k, m)
  /\ p \in Nat /\ offset \in Nat /\ n \in Nat /\ n # 0
  /\ p + offset = stream[k].start + NumMetaSizeBytes + m

LEMMA FollowedMeta ==
  ASSUME NEW k, NEW d, NEW m, NEW p, NEW offset, NEW n,
         MetaFollows(k, d, m, p, offset, n)
  PROVE  \/ Outcome(AppendMeta(d, p, offset, n), k, p, offset + n)
         \/ AppendMeta(d, p, offset, n).failed = 96 /\ m # 0
  BY MetaAppended DEF MetaFollows

(***************************************************************************)
(* Whatever AppendBinaries has to begin with, it takes all bytes there are *)
(* and needs more, completes the message, cannot parse it, or fails the    *)
(* CHECK of meta data some of which was kept.                              *)
(***************************************************************************)
LEMMA BinariesAppended ==
  ASSUME stream \in Streams, NEW k \in DOMAIN stream, NEW d, NEW p \in Nat,
         Holding(stream, d, k, p), NEW n \in Nat, n # 0
  PROVE  \/ Outcome(AppendBinaries(d, p, n), k, p, n)
         \/ /\ AppendBinaries(d, p, n).failed = 96
            /\ d.meta_size # 0 /\ d.frame = 0 /\ d.binaries # <<>>
<1>0. /\ stream[k].start \in Nat /\ NumMetaSizeBytes \in Nat /\ NumMetaSizeBytes # 0
      /\ stream[k].meta \in Nat /\ stream[k].meta # 0 /\ stream[k].len \in Nat
      /\ k \in Nat /\ k # 0
  BY FrameIs
<1>1. PICK r : r = AppendBinaries(d, p, n)
  BY Zenon
<1>2. d \in RPCDataType /\ p + 0 = p /\ 0 + n = n
  BY DEF Holding
<1>3. ASSUME NEW m \in Nat, InPayload(stream, d, k, m), m < stream[k].len,
             p = stream[k].start + NumMetaSizeBytes + stream[k].meta + m
      PROVE  Outcome(r, k, p, n)
  <2>1. r = AppendPayload(d, p, 0, n)
    BY <1>0, <1>1, <1>3, Zenon DEF AppendBinaries, AppendMeta, InPayload
  <2>2. p + 0 = stream[k].start + NumMetaSizeBytes + stream[k].meta + m
    BY <1>2, <1>3, Zenon
  <2>3. Outcome(r, k, p, 0 + n)
    BY <1>2, <1>3, <2>1, <2>2, PayloadAppended, Zenon
  <2> QED
    BY <1>2, <2>3, Zenon
<1>4. ASSUME NEW m \in Nat, InMeta(stream, d, k, m),
             p = stream[k].start + NumMetaSizeBytes + m
      PROVE  Outcome(r, k, p, n) \/ (r.failed = 96 /\ m # 0)
  <2>1. r = AppendMeta(d, p, 0, n)
    BY <1>0, <1>1, <1>4, Zenon DEF AppendBinaries, InMeta
  <2>2. p + 0 = stream[k].start + NumMetaSizeBytes + m
    BY <1>2, <1>4, Zenon
  <2>3. \/ Outcome(AppendMeta(d, p, 0, n), k, p, 0 + n)
        \/ AppendMeta(d, p, 0, n).failed = 96 /\ m # 0
    <3>1. 0 \in Nat
      BY Zenon
    <3>2. MetaFollows(k, d, m, p, 0, n)
      BY <1>2, <1>4, <2>2, <3>1, Zenon DEF MetaFollows
    <3> QED
      BY <3>2, FollowedMeta, Zenon
  <2> QED
    BY <1>2, <2>1, <2>3, Zenon
<1>5. ASSUME NEW m \in Nat, InSize(stream, d, k, m), p = stream[k].start + m
      PROVE  Outcome(r, k, p, n)
  <2>1. PICK start, lacked :
          start = stream[k].start /\ lacked = NumMetaSizeBytes - m
    BY Zenon
  <2>2. lacked \in Nat /\ lacked # 0 /\ m + lacked = NumMetaSizeBytes
        /\ p = start + m /\ start \in Nat
    BY <1>0, <1>5, <2>1 DEF InSize
  <2>3. d.binaries = Bytes(start, m) /\ d.meta_size = 0 /\ d.frame = 0
    BY <1>5, <2>1, Zenon DEF InSize
  <2>4. /\ Len(d.binaries) = m /\ (d.binaries = <<>> <=> m = 0)
        /\ m # 0 => d.binaries[1] = start
    <3>1. /\ Len(Bytes(start, m)) = m /\ (Bytes(start, m) = <<>> <=> m = 0)
          /\ m # 0 => Bytes(start, m)[1] = start
      BY <2>2, BytesAre, Zenon
    <3> QED
      BY <2>3, <3>1, Zenon
  <2>5. (IF d.binaries = <<>> THEN p ELSE d.binaries[1]) = start
    BY <2>2, <2>4
  <2>6. PICK sized, e :
          /\ sized = [d EXCEPT !.meta_size = stream[k].meta, !.binaries = <<>>]
          /\ e = [d EXCEPT !.binaries = FastAppend(d.binaries, p, n)]
    BY Zenon
  <2>7. /\ sized \in RPCDataType /\ sized.meta_size = stream[k].meta
        /\ sized.binaries = <<>> /\ sized.frame = 0
    <3>1. sized = [exists |-> TRUE, meta_size |-> stream[k].meta, binaries |-> <<>>,
                   frame |-> 0]
      BY <1>2, <2>3, <2>6, Zenon DEF RPCDataType
    <3> QED
      BY <1>0, <3>1 DEF RPCDataType
  <2>8. InMeta(stream, sized, k, 0)
    <3>1. Bytes(stream[k].start + NumMetaSizeBytes, 0) = <<>>
      <4>1. stream[k].start + NumMetaSizeBytes \in Nat /\ 0 \in Nat
        BY <1>0
      <4> QED
        BY <4>1, BytesAre, Zenon
    <3> QED
      BY <1>0, <2>7, <3>1 DEF InMeta
  <2>9. SizeWord(start) = stream[k].meta
    BY <2>1, FrameParses, Zenon
  <2>10. r = IF n < lacked THEN Returns(e, n)
             ELSE IF n = lacked THEN Returns(sized, lacked)
             ELSE AppendMeta(sized, p, lacked, n - lacked)
    <3>1. NumMetaSizeBytes - Len(d.binaries) = lacked /\ Len(d.binaries) < NumMetaSizeBytes
      BY <1>0, <2>1, <2>2, <2>4
    <3> QED
      BY <1>0, <1>1, <2>3, <2>5, <2>6, <2>7, <2>9, <3>1, Zenon DEF AppendBinaries
  <2>11. CASE n < lacked
    <3>1. FastAppend(d.binaries, p, n) = Bytes(start, m + n)
      BY <2>2, <2>3, AppendedAre
    <3>2. Bytes(start, m + n) \in Seq(Nat) /\ m + n \in Nat /\ m + n < NumMetaSizeBytes
      BY <1>0, <2>2, <2>11, BytesAre
    <3>3. e \in RPCDataType /\ InSize(stream, e, k, m + n)
      BY <1>2, <2>1, <2>3, <2>6, <3>1, <3>2, Zenon DEF RPCDataType, InSize
    <3>4. p + n = stream[k].start + (m + n)
      BY <2>1, <2>2
    <3>5. Holding(stream, e, k, p + n)
      BY <3>2, <3>3, <3>4, Zenon DEF Holding
    <3> QED
      BY <2>10, <2>11, <3>5, Zenon DEF Outcome, Returns
  <2>12. p + lacked = stream[k].start + NumMetaSizeBytes + 0
    BY <1>0, <2>1, <2>2
  <2>13. CASE n = lacked
    <3>1. Holding(stream, sized, k, p + n)
      BY <2>7, <2>8, <2>12, <2>13 DEF Holding
    <3> QED
      BY <2>2, <2>10, <2>13, <3>1 DEF Outcome, Returns
  <2>14. CASE ~(n < lacked) /\ n # lacked
    <3>1. PICK left : left = n - lacked
      BY Zenon
    <3>2. left \in Nat /\ left # 0 /\ lacked + left = n /\ 0 \in Nat
      BY <2>2, <2>14, <3>1
    <3>3. r = AppendMeta(sized, p, lacked, left)
      BY <2>10, <2>14, <3>1, Zenon
    <3>4. PICK z : z = 0
      BY Zenon
    <3>5. MetaFollows(k, sized, z, p, lacked, left)
      BY <2>2, <2>7, <2>8, <2>12, <3>2, <3>4, Zenon DEF MetaFollows
    <3>6. \/ Outcome(AppendMeta(sized, p, lacked, left), k, p, lacked + left)
          \/ AppendMeta(sized, p, lacked, left).failed = 96 /\ z # 0
      BY <3>5, FollowedMeta, Zenon
    <3> QED
      BY <3>2, <3>3, <3>4, <3>6, Zenon
  <2> QED
    BY <2>11, <2>13, <2>14, Zenon
<1>6. ASSUME NEW m \in Nat, InMeta(stream, d, k, m), m # 0
      PROVE  d.meta_size # 0 /\ d.frame = 0 /\ d.binaries # <<>>
  <2>1. stream[k].start + NumMetaSizeBytes \in Nat
    BY <1>0
  <2> QED
    BY <1>0, <1>6, <2>1, BytesAre, Zenon DEF InMeta
<1> QED
  <2>1. PICK m \in Nat :
          \/ InSize(stream, d, k, m) /\ p = stream[k].start + m
          \/ InMeta(stream, d, k, m) /\ p = stream[k].start + NumMetaSizeBytes + m
          \/ /\ InPayload(stream, d, k, m) /\ m < stream[k].len
             /\ p = stream[k].start + NumMetaSizeBytes + stream[k].meta + m
    BY Zenon DEF Holding
  <2> QED
    BY <1>1, <1>3, <1>4, <1>5, <1>6, <2>1, Zenon

(* What is held and not complete is partial, what is complete is not. *)
LEMMA HoldingIsPartial ==
  ASSUME stream \in Streams, NEW k \in DOMAIN stream, NEW d, NEW p,
         Holding(stream, d, k, p)
  PROVE  Partial(d) /\ (d.frame # 0 => ~(Len(d.binaries) > stream[d.frame].len))
<1>1. /\ stream[k].start + NumMetaSizeBytes + stream[k].meta \in Nat
      /\ stream[k].len \in Nat
  BY FrameIs, SMTT(20)
<1>2. ASSUME NEW m \in Nat, InPayload(stream, d, k, m), m < stream[k].len
      PROVE  d.frame = k /\ Len(d.binaries) = m
  BY <1>1, <1>2, BytesAre DEF InPayload
<1> QED
  BY <1>1, <1>2 DEF Holding, InSize, InMeta, Partial

LEMMA CompleteIsWhole ==
  ASSUME stream \in Streams, NEW k \in DOMAIN stream, NEW d, NEW p,
         Complete(stream, d, k, p)
  PROVE  /\ ~Partial(d) /\ ~(Len(d.binaries) > stream[d.frame].len)
         /\ d.frame = k /\ d.binaries = Payload(stream[k])
         /\ d.binaries \in Seq(Nat) /\ p = End(stream[k])
<1>1. /\ stream[k].start + NumMetaSizeBytes + stream[k].meta \in Nat
      /\ stream[k].len \in Nat /\ k \in Nat /\ k # 0
  BY FrameIs
<1>2. /\ d.frame = k
      /\ d.binaries = Bytes(stream[k].start + NumMetaSizeBytes + stream[k].meta,
                            stream[k].len)
      /\ p = End(stream[k])
  BY Zenon DEF Complete, InPayload
<1>3. d.binaries \in Seq(Nat) /\ Len(d.binaries) = stream[k].len
  BY <1>1, <1>2, BytesAre
<1>4. d.binaries = Payload(stream[k])
  BY <1>2, Zenon DEF Bytes, Payload
<1> QED
  BY <1>1, <1>2, <1>3, <1>4 DEF Partial

-----------------------------------------------------------------------------
(* The invariant *)

(* The loop has bytes in its hands or a read is in progress; no read brings *)
(* more than was sent.                                                      *)
LoopInv ==
  /\ stream \in Streams
  /\ at \in Nat /\ transferred \in Nat
  /\ reading \in BOOLEAN /\ discarded \in BOOLEAN
  /\ delivered \in Seq([frame : DOMAIN stream, payload : Seq(Nat)])
  /\ reading <=> transferred = 0
  /\ at + transferred <= Total

(* Frame k comes next after what was delivered. *)
Upcoming(k) ==
  /\ \A i \in DOMAIN delivered : delivered[i].frame < k
  /\ ~discarded => k = Len(delivered) + 1

(* Where the frames that were delivered have ended. *)
Reached == IF delivered = <<>> THEN 0 ELSE End(stream[Len(delivered)])

(* partial_message_ holds the part of the upcoming frame up to the place    *)
(* that was reached, or there is none and, if there are bytes, they start   *)
(* with a frame.                                                            *)
PlaceInv ==
  \/ /\ partial.exists
     /\ \E k \in DOMAIN stream : Holding(stream, partial, k, at) /\ Upcoming(k)
  \/ /\ partial = NoRPCData
     /\ \A i \in DOMAIN delivered : End(stream[delivered[i].frame]) <= at
     /\ ~discarded => at = Reached
     /\ transferred # 0 => \E k \in DOMAIN stream : stream[k].start = at

ReaderInv == LoopInv /\ PlaceInv /\ DeliveredAsSent /\ OnlySplitMetaAborts

LEMMA DeliveredFrames ==
  ASSUME LoopInv, NEW i \in DOMAIN delivered
  PROVE  delivered[i].frame \in DOMAIN stream
<1>1. PICK D : D = DOMAIN stream
  BY Zenon
<1>2. delivered \in Seq([frame : D, payload : Seq(Nat)])
  BY <1>1, Zenon DEF LoopInv
<1>3. ASSUME NEW S, NEW q \in Seq(S), NEW j \in DOMAIN q PROVE q[j] \in S
  OBVIOUS
<1>4. delivered[i] \in [frame : D, payload : Seq(Nat)]
  BY <1>2, <1>3, Zenon
<1>5. delivered[i].frame \in D
  BY <1>4, Zenon
<1> QED
  BY <1>1, <1>5, Zenon

LEMMA ReaderInit == Init => ReaderInv
<1> SUFFICES ASSUME Init PROVE ReaderInv
  BY Zenon
<1>1. stream \in Seq(FrameType) /\ stream # <<>>
  BY StreamAssumption, Zenon DEF Init
<1>2. Len(stream) \in DOMAIN stream
  BY <1>1
<1>3. End(stream[Len(stream)]) \in Nat
  BY <1>2, FrameIs, Zenon DEF Init
<1>4. LoopInv
  <2>1. at + transferred <= Total
    BY <1>3 DEF Init, Total
  <2>2. delivered \in Seq([frame : DOMAIN stream, payload : Seq(Nat)])
    BY DEF Init
  <2> QED
    BY <2>1, <2>2, Zenon DEF Init, LoopInv
<1>5. PlaceInv
  BY DEF Init, PlaceInv, Reached
<1> QED
  BY <1>4, <1>5 DEF Init, ReaderInv, DeliveredAsSent, OnlySplitMetaAborts

(* The frame after one that ends before all that is sent has ended. *)
LEMMA NextFrame ==
  ASSUME stream \in Streams, NEW k \in DOMAIN stream, End(stream[k]) < Total
  PROVE  k + 1 \in DOMAIN stream /\ stream[k + 1].start = End(stream[k])
<1>1. /\ stream \in Seq(FrameType) /\ DOMAIN stream = 1..Len(stream)
      /\ Len(stream) \in Nat /\ End(stream[k]) \in Nat
  BY StreamAssumption, FrameIs
<1>2. k # Len(stream)
  BY <1>1 DEF Total
<1>3. k \in 1..(Len(stream) - 1) /\ k + 1 \in DOMAIN stream
  BY <1>1, <1>2
<1> QED
  BY <1>3, StreamAssumption, Zenon

(* A frame that starts where those that were delivered have ended is the   *)
(* upcoming one.                                                           *)
LEMMA FrameUpcoming ==
  ASSUME LoopInv, DeliveredAsSent, NEW k \in DOMAIN stream, stream[k].start = at,
         \A i \in DOMAIN delivered : End(stream[delivered[i].frame]) <= at,
         ~discarded => at = Reached
  PROVE  Upcoming(k)
<1>0. stream \in Streams /\ k \in Nat /\ at \in Nat
  BY FrameIs, Zenon DEF LoopInv
<1>1. ASSUME NEW f \in DOMAIN stream, End(stream[f]) <= at
      PROVE  f < k
  <2>1. /\ f \in Nat /\ End(stream[f]) \in Nat /\ End(stream[f]) > stream[f].start
        /\ stream[f].start \in Nat /\ End(stream[k]) \in Nat
        /\ End(stream[k]) > stream[k].start
    BY <1>0, FrameIs, Zenon
  <2>2. k < f => End(stream[k]) <= stream[f].start
    BY <1>0, FramesInOrder, Zenon
  <2> QED
    BY <1>0, <1>1, <2>1, <2>2
<1>2. ASSUME NEW i \in DOMAIN delivered PROVE delivered[i].frame < k
  <2>1. delivered[i].frame \in DOMAIN stream
    BY DeliveredFrames, Zenon
  <2>2. End(stream[delivered[i].frame]) <= at
    BY Zenon
  <2> QED
    BY <1>1, <2>1, <2>2, Zenon
<1>3. ASSUME ~discarded PROVE k = Len(delivered) + 1
  <2>1. CASE delivered = <<>>
    <3>1. /\ stream \in Seq(FrameType) /\ stream # <<>> /\ stream[1].start = 0
      BY <1>0, StreamAssumption, Zenon
    <3>2. 1 \in DOMAIN stream /\ at = 0
      BY <1>3, <2>1, <3>1 DEF Reached
    <3>3. FramesAt(0) = {1}
      BY <1>0, <3>1, <3>2, FrameAt, Zenon
    <3> QED
      BY <2>1, <3>2, <3>3 DEF FramesAt
  <2>2. CASE delivered # <<>>
    <3>1. PICK n : n = Len(delivered)
      BY Zenon
    <3>2. /\ n \in DOMAIN delivered /\ n \in Nat
          /\ delivered \in Seq([frame : DOMAIN stream, payload : Seq(Nat)])
      BY <2>2, <3>1 DEF LoopInv
    <3>3. n \in DOMAIN stream /\ at = End(stream[n])
      <4>1. delivered[n].frame \in DOMAIN stream
        BY <3>2, DeliveredFrames, Zenon
      <4>2. delivered[n].frame = n
        BY <1>3, <3>2, Zenon DEF DeliveredAsSent
      <4>3. at = End(stream[n])
        BY <1>3, <2>2, <3>1, Zenon DEF Reached
      <4> QED
        BY <4>1, <4>2, <4>3, Zenon
    <3>4. /\ n < k /\ k \in 1..Len(stream) /\ Len(stream) \in Nat
          /\ stream \in Seq(FrameType) /\ n >= 1
      <4>1. End(stream[n]) <= at
        BY <1>0, <3>3
      <4> QED
        BY <1>0, <1>1, <3>3, <4>1, StreamAssumption, FrameIs
    <3>5. n \in 1..(Len(stream) - 1) /\ n + 1 \in DOMAIN stream
      BY <1>0, <3>2, <3>4
    <3>6. stream[n + 1].start = at
      BY <1>0, <3>3, <3>5, StreamAssumption, Zenon
    <3>7. FramesAt(at) = {n + 1}
      BY <1>0, <3>5, <3>6, FrameAt, Zenon
    <3> QED
      BY <3>1, <3>7, Zenon DEF FramesAt
  <2> QED
    BY <2>1, <2>2, Zenon
<1> QED
  BY <1>2, <1>3, Zenon DEF Upcoming

-----------------------------------------------------------------------------
(* The steps keep it *)

(* A read completes. *)
LEMMA ReceiveKeeps ==
  ASSUME ReaderInv, NEW n \in 1..BufferSize, Receive(n)
  PROVE  ReaderInv'
<1>1. /\ n \in Nat /\ n # 0 /\ at \in Nat /\ at + n <= Total
      /\ stream \in Streams /\ stream' = stream
  BY StreamAssumption DEF Receive, ReaderInv, LoopInv
<1>2. LoopInv'
  BY <1>1, Zenon DEF Receive, ReaderInv, LoopInv, Total
<1>3. ASSUME partial = NoRPCData, ~discarded => at = Reached
      PROVE  \E k \in DOMAIN stream : stream[k].start = at
  <2>1. CASE discarded
    <3>1. FramesAt(at) # {}
      BY <1>3, <2>1, Zenon DEF Receive, InStep, NoRPCData, NewRPCData
    <3> QED
      BY <3>1, Zenon DEF FramesAt
  <2>2. CASE ~discarded /\ delivered = <<>>
    <3>1. stream \in Seq(FrameType) /\ stream # <<>> /\ stream[1].start = 0
      BY <1>1, StreamAssumption, Zenon
    <3>2. 1 \in DOMAIN stream
      BY <3>1
    <3> QED
      BY <1>3, <2>2, <3>1, <3>2, Zenon DEF Reached
  <2>3. CASE ~discarded /\ delivered # <<>>
    <3>1. PICK m : m = Len(delivered)
      BY Zenon
    <3>2. m \in DOMAIN delivered
      BY <2>3, <3>1 DEF ReaderInv, LoopInv
    <3>3. m \in DOMAIN stream
      <4>1. delivered[m].frame \in DOMAIN stream
        BY <3>2, DeliveredFrames, Zenon DEF ReaderInv
      <4>2. delivered[m].frame = m
        BY <2>3, <3>2, Zenon DEF ReaderInv, DeliveredAsSent
      <4> QED
        BY <4>1, <4>2, Zenon
    <3>4. at = End(stream[m])
      BY <1>3, <2>3, <3>1, Zenon DEF Reached
    <3>5. End(stream[m]) < Total
      <4>1. Total \in Nat
        <5>1. Len(stream) \in DOMAIN stream
          BY <1>1, StreamAssumption
        <5> QED
          BY <1>1, <5>1, FrameIs, Zenon DEF Total
      <4> QED
        BY <1>1, <3>4, <4>1
    <3> QED
      BY <1>1, <3>3, <3>4, <3>5, NextFrame, Zenon
  <2> QED
    BY <2>1, <2>2, <2>3, Zenon
<1>4. PlaceInv'
  <2>1. PlaceInv /\ UNCHANGED <<stream, at, partial, delivered, discarded>>
    BY Zenon DEF ReaderInv, Receive
  <2>2. CASE partial.exists /\ \E k \in DOMAIN stream :
               Holding(stream, partial, k, at) /\ Upcoming(k)
    BY <2>1, <2>2, Zenon DEF PlaceInv, Upcoming
  <2>3. CASE /\ partial = NoRPCData
             /\ \A i \in DOMAIN delivered : End(stream[delivered[i].frame]) <= at
             /\ ~discarded => at = Reached
    BY <1>3, <2>1, <2>3, Zenon DEF PlaceInv, Reached
  <2> QED
    BY <2>1, <2>2, <2>3, Zenon DEF PlaceInv
<1>5. DeliveredAsSent' /\ OnlySplitMetaAborts'
  BY DEF ReaderInv, Receive, DeliveredAsSent, OnlySplitMetaAborts
<1> QED
  BY <1>2, <1>4, <1>5, Zenon DEF ReaderInv

(* With bytes in its hands the loop is in the upcoming frame. *)
LEMMA InUpcoming ==
  ASSUME ReaderInv, transferred # 0,
         NEW d, d = IF partial.exists THEN partial ELSE NewRPCData
  PROVE  \E k \in DOMAIN stream : Holding(stream, d, k, at) /\ Upcoming(k)
<1>1. CASE partial.exists /\ \E k \in DOMAIN stream :
             Holding(stream, partial, k, at) /\ Upcoming(k)
  BY <1>1, Zenon
<1>2. CASE /\ partial = NoRPCData
           /\ \A i \in DOMAIN delivered : End(stream[delivered[i].frame]) <= at
           /\ ~discarded => at = Reached
           /\ transferred # 0 => \E k \in DOMAIN stream : stream[k].start = at
  <2>1. PICK k \in DOMAIN stream : stream[k].start = at
    BY <1>2, Zenon
  <2>2. Upcoming(k)
    BY <1>2, <2>1, FrameUpcoming, Zenon DEF ReaderInv
  <2>3. d = NewRPCData
    BY <1>2, Zenon DEF NoRPCData, NewRPCData
  <2>4. NewRPCData \in RPCDataType
    BY DEF NewRPCData, RPCDataType
  <2>5. /\ at \in Nat /\ NumMetaSizeBytes \in Nat /\ NumMetaSizeBytes # 0
        /\ stream \in Streams
    BY StreamAssumption, Zenon DEF ReaderInv, LoopInv
  <2>6. Bytes(at, 0) = <<>> /\ at = at + 0 /\ 0 < NumMetaSizeBytes
    BY <2>5, BytesAre
  <2>7. InSize(stream, NewRPCData, k, 0)
    BY <2>1, <2>6, Zenon DEF NewRPCData, InSize
  <2>8. Holding(stream, NewRPCData, k, at)
    BY <2>1, <2>4, <2>6, <2>7, Zenon DEF Holding
  <2> QED
    BY <2>2, <2>3, <2>8, Zenon
<1> QED
  BY <1>1, <1>2, Zenon DEF ReaderInv, PlaceInv

(***************************************************************************)
(* A turn of the loop fails the CHECK of split meta data, drops what it    *)
(* has, needs more than there is, or completes the upcoming message.       *)
(***************************************************************************)
LEMMA ReadInLoopDoes ==
  ASSUME ReaderInv, ReadInLoop
  PROVE  \E k \in DOMAIN stream :
           /\ Upcoming(k)
           /\ \/ /\ Abort(96)
                 /\ partial.meta_size # 0 /\ partial.frame = 0
                 /\ partial.binaries # <<>>
              \/ Discard
              \/ \E d : /\ Handled(d, transferred) /\ Partial(d)
                        /\ Holding(stream, d, k, at + transferred)
              \/ \E d : \E n \in 1..transferred :
                   Handled(d, n) /\ Complete(stream, d, k, at + n)
<1>1. PICK d : d = IF partial.exists THEN partial ELSE NewRPCData
  BY Zenon
<1>2. /\ stream \in Streams /\ at \in Nat /\ transferred \in Nat
      /\ transferred # 0
  BY Zenon DEF ReaderInv, LoopInv, ReadInLoop
<1>3. PICK k \in DOMAIN stream : Holding(stream, d, k, at) /\ Upcoming(k)
  BY <1>1, <1>2, InUpcoming, Zenon
<1>4. PICK r : r = AppendBinaries(d, at, transferred)
  BY Zenon
<1>5. \/ r.failed # 0 /\ Abort(r.failed)
      \/ r.failed = 0 /\ r.value < 0 /\ Discard
      \/ /\ r.failed = 0 /\ r.value >= 0
         /\ IF transferred - r.value < 0 THEN Abort(86)
            ELSE IF r.data.frame # 0 /\ Len(r.data.binaries) > stream[r.data.frame].len
                 THEN Abort(204)
            ELSE IF Partial(r.data) /\ transferred - r.value # 0 THEN Abort(91)
            ELSE Handled(r.data, r.value)
  <2>1. \E x \in {AppendBinaries(d, at, transferred)} :
          \/ x.failed # 0 /\ Abort(x.failed)
          \/ x.failed = 0 /\ x.value < 0 /\ Discard
          \/ /\ x.failed = 0 /\ x.value >= 0
             /\ IF transferred - x.value < 0 THEN Abort(86)
                ELSE IF x.data.frame # 0 /\ Len(x.data.binaries) > stream[x.data.frame].len
                     THEN Abort(204)
                ELSE IF Partial(x.data) /\ transferred - x.value # 0 THEN Abort(91)
                ELSE Handled(x.data, x.value)
    BY <1>1 DEF ReadInLoop
  <2> QED
    BY <1>4, <2>1, Zenon
<1>6. \/ Outcome(r, k, at, transferred)
      \/ r.failed = 96 /\ d.meta_size # 0 /\ d.frame = 0 /\ d.binaries # <<>>
  BY <1>2, <1>3, <1>4, BinariesAppended
<1>7. CASE r.failed = 96 /\ d.meta_size # 0 /\ d.frame = 0 /\ d.binaries # <<>>
  <2>1. Abort(96)
    BY <1>5, <1>7
  <2>2. d = partial
    BY <1>1, <1>7, Zenon DEF NewRPCData
  <2> QED
    BY <1>3, <1>7, <2>1, <2>2, Zenon
<1>8. CASE /\ r.failed = 0 /\ r.value = transferred
           /\ Holding(stream, r.data, k, at + transferred)
  <2>1. /\ Partial(r.data)
        /\ r.data.frame # 0 => ~(Len(r.data.binaries) > stream[r.data.frame].len)
    BY <1>2, <1>8, HoldingIsPartial, Zenon
  <2>2. /\ r.value >= 0 /\ ~(transferred - r.value < 0)
        /\ ~(transferred - r.value # 0) /\ ~(r.value < 0)
    BY <1>2, <1>8
  <2>3. Handled(r.data, r.value)
    BY <1>5, <1>8, <2>1, <2>2, Zenon
  <2> QED
    BY <1>3, <1>8, <2>1, <2>3, Zenon
<1>9. CASE /\ r.failed = 0 /\ r.value \in 1..transferred
           /\ Complete(stream, r.data, k, at + r.value)
  <2>1. /\ ~Partial(r.data)
        /\ ~(Len(r.data.binaries) > stream[r.data.frame].len)
    BY <1>2, <1>9, CompleteIsWhole, Zenon
  <2>2. r.value >= 0 /\ ~(transferred - r.value < 0) /\ ~(r.value < 0)
    BY <1>2, <1>9
  <2>3. Handled(r.data, r.value)
    BY <1>5, <1>9, <2>1, <2>2, Zenon
  <2> QED
    BY <1>3, <1>9, <2>3, Zenon
<1>10. CASE r.failed = 0 /\ r.value = -1
  <2>1. Discard
    BY <1>5, <1>10
  <2> QED
    BY <1>3, <2>1, Zenon
<1> QED
  BY <1>6, <1>7, <1>8, <1>9, <1>10, Zenon DEF Outcome

(* The message needs more bytes than there are. *)
LEMMA PartialKeeps ==
  ASSUME ReaderInv, NEW k \in DOMAIN stream, Upcoming(k), transferred # 0,
         aborted = 0, NEW d, Handled(d, transferred), Partial(d),
         Holding(stream, d, k, at + transferred)
  PROVE  ReaderInv'
<1>1. /\ UNCHANGED <<stream, discarded, aborted, delivered>>
      /\ partial' = d /\ at' = at + transferred /\ transferred' = 0 /\ reading' = TRUE
  <2>1. /\ UNCHANGED <<stream, discarded, aborted, delivered>> /\ partial' = d
        /\ at' = at + transferred /\ reading' = (transferred = transferred)
        /\ transferred' = transferred - transferred
    BY Zenon DEF Handled
  <2>2. transferred - transferred = 0
    BY DEF ReaderInv, LoopInv
  <2> QED
    BY <2>1, <2>2, Zenon
<1>2. LoopInv'
  BY <1>1 DEF ReaderInv, LoopInv, Total
<1>3. d.exists
  BY Zenon DEF Holding, RPCDataType
<1>4. PlaceInv'
  BY <1>1, <1>3, Zenon DEF PlaceInv, Upcoming
<1>5. DeliveredAsSent' /\ OnlySplitMetaAborts'
  BY <1>1, Zenon DEF ReaderInv, DeliveredAsSent, OnlySplitMetaAborts
<1> QED
  BY <1>2, <1>4, <1>5, Zenon DEF ReaderInv

(* The message is complete and was delivered. *)
LEMMA CompleteKeeps ==
  ASSUME ReaderInv, NEW k \in DOMAIN stream, Upcoming(k),
         aborted = 0, NEW d, NEW n \in 1..transferred, Handled(d, n),
         Complete(stream, d, k, at + n)
  PROVE  ReaderInv'
<1>0. /\ stream \in Streams /\ at \in Nat /\ transferred \in Nat /\ n \in Nat /\ n # 0
      /\ n <= transferred /\ at + transferred <= Total
      /\ delivered \in Seq([frame : DOMAIN stream, payload : Seq(Nat)])
  BY DEF ReaderInv, LoopInv
<1>1. /\ ~Partial(d) /\ d.frame = k /\ d.binaries = Payload(stream[k])
      /\ d.binaries \in Seq(Nat) /\ at + n = End(stream[k])
  BY <1>0, CompleteIsWhole, Zenon
<1>2. PICK m : m = [frame |-> k, payload |-> d.binaries]
  BY Zenon
<1>3. /\ UNCHANGED <<stream, discarded, aborted>>
      /\ at' = End(stream[k]) /\ transferred' = transferred - n
      /\ reading' = (transferred = n) /\ partial' = NoRPCData
      /\ delivered' = Append(delivered, m)
  BY <1>1, <1>2, Zenon DEF Handled
<1>4. /\ delivered' \in Seq([frame : DOMAIN stream, payload : Seq(Nat)])
      /\ Len(delivered') = Len(delivered) + 1 /\ Len(delivered) \in Nat
      /\ DOMAIN delivered' = 1..(Len(delivered) + 1)
      /\ DOMAIN delivered = 1..Len(delivered)
      /\ \A i \in DOMAIN delivered : delivered'[i] = delivered[i]
      /\ delivered'[Len(delivered) + 1] = m
  <2>1. PICK M : M = [frame : DOMAIN stream, payload : Seq(Nat)]
    BY Zenon
  <2>2. m \in M
    BY <1>1, <1>2, <2>1, Zenon
  <2>3. delivered \in Seq(M)
    BY <1>0, <2>1, Zenon
  <2>4. delivered' \in Seq(M)
    BY <1>3, <2>2, <2>3
  <2>5. /\ Len(delivered') = Len(delivered) + 1 /\ Len(delivered) \in Nat
        /\ DOMAIN delivered' = 1..(Len(delivered) + 1)
        /\ DOMAIN delivered = 1..Len(delivered)
        /\ \A i \in DOMAIN delivered : delivered'[i] = delivered[i]
        /\ delivered'[Len(delivered) + 1] = m
    BY <1>3, <2>2, <2>3
  <2> QED
    BY <2>1, <2>4, <2>5, Zenon
<1>5. \A i \in DOMAIN delivered' : i \in DOMAIN delivered \/ i = Len(delivered) + 1
  BY <1>4
<1>6. m.frame = k /\ m.payload = Payload(stream[k])
  BY <1>1, <1>2, Zenon
<1>7. LoopInv'
  <2>1. /\ at' \in Nat /\ transferred' \in Nat
        /\ (transferred = n) <=> transferred' = 0
        /\ at' + transferred' = at + transferred
    <3>1. at' = at + n /\ transferred' = transferred - n
      BY <1>1, <1>3, Zenon
    <3> QED
      BY <1>0, <3>1
  <2>2. at' + transferred' <= Total'
    BY <1>0, <1>3, <2>1, Zenon DEF Total
  <2> QED
    <3>1. reading' = (transferred' = 0)
      BY <1>3, <2>1, Zenon
    <3>2. reading' \in BOOLEAN /\ (reading' <=> transferred' = 0)
      BY <3>1, Zenon
    <3>3. discarded' \in BOOLEAN /\ stream' \in Streams
      BY <1>0, <1>3, Zenon DEF LoopInv, ReaderInv
    <3>4. delivered' \in Seq([frame : DOMAIN stream', payload : Seq(Nat)])
      BY <1>3, <1>4, Zenon
    <3> QED
      BY <2>1, <2>2, <3>2, <3>3, <3>4, Zenon DEF LoopInv
<1>8. DeliveredAsSent'
  <2>1. ASSUME NEW i \in DOMAIN delivered'
        PROVE  delivered'[i].payload = Payload(stream[delivered'[i].frame])
    <3>1. CASE i \in DOMAIN delivered
      BY <1>4, <3>1, Zenon DEF ReaderInv, DeliveredAsSent
    <3>2. CASE i = Len(delivered) + 1
      BY <1>4, <1>6, <3>2, Zenon
    <3> QED
      BY <1>5, <3>1, <3>2, Zenon
  <2>2. ASSUME NEW i \in DOMAIN delivered', NEW j \in DOMAIN delivered', i < j
        PROVE  delivered'[i].frame < delivered'[j].frame
    <3>1. CASE j \in DOMAIN delivered
      <4>1. i \in DOMAIN delivered
        BY <1>4, <2>2, <3>1
      <4> QED
        BY <1>4, <2>2, <3>1, <4>1, Zenon DEF ReaderInv, DeliveredAsSent
    <3>2. CASE j = Len(delivered) + 1
      <4>1. i \in DOMAIN delivered
        BY <1>4, <2>2, <3>2
      <4> QED
        BY <1>4, <1>6, <3>2, <4>1, Zenon DEF Upcoming
    <3> QED
      BY <1>5, <3>1, <3>2, Zenon
  <2>3. ASSUME ~discarded, NEW i \in DOMAIN delivered'
        PROVE  delivered'[i].frame = i
    BY <1>4, <1>5, <1>6, <2>3, Zenon DEF ReaderInv, DeliveredAsSent, Upcoming
  <2> QED
    BY <1>3, <2>1, <2>2, <2>3, SMTT(20) DEF DeliveredAsSent, Payload
<1>9. PlaceInv'
  <2>1. ASSUME NEW i \in DOMAIN delivered'
        PROVE  End(stream[delivered'[i].frame]) <= End(stream[k])
    <3>1. CASE i \in DOMAIN delivered
      <4>1. delivered[i].frame \in DOMAIN stream
        BY <3>1, DeliveredFrames, Zenon DEF ReaderInv
      <4>2. PICK f \in DOMAIN stream : f = delivered'[i].frame /\ f < k
        BY <1>4, <3>1, <4>1, Zenon DEF Upcoming
      <4>3. End(stream[f]) <= stream[k].start
        BY <1>0, <4>2, FramesInOrder, Zenon
      <4>4. /\ End(stream[k]) > stream[k].start /\ End(stream[k]) \in Nat
            /\ End(stream[f]) \in Nat /\ stream[k].start \in Nat
        BY <1>0, FrameIs, Zenon
      <4>5. End(stream[f]) <= End(stream[k])
        BY <4>3, <4>4
      <4> QED
        BY <4>2, <4>5, Zenon
    <3>2. CASE i = Len(delivered) + 1
      <4>1. End(stream[k]) \in Nat
        BY <1>0, FrameIs, Zenon
      <4> QED
        BY <1>4, <1>6, <3>2, <4>1
    <3> QED
      BY <1>5, <3>1, <3>2, Zenon
  <2>2. ASSUME ~discarded PROVE at' = Reached'
    <3>1. delivered' # <<>> /\ Len(delivered') = k
      BY <1>4, <2>2 DEF Upcoming
    <3> QED
      BY <1>3, <3>1, Zenon DEF Reached
  <2>3. ASSUME transferred' # 0
        PROVE  \E j \in DOMAIN stream : stream[j].start = End(stream[k])
    <3>1. Len(stream) \in DOMAIN stream
      BY <1>0, StreamAssumption
    <3>2. Total \in Nat
      BY <1>0, <3>1, FrameIs, Zenon DEF Total
    <3>3. End(stream[k]) < Total
      BY <1>0, <1>1, <1>3, <2>3, <3>2
    <3> QED
      BY <1>0, <3>3, NextFrame, Zenon
  <2> QED
    BY <1>3, <2>1, <2>2, <2>3, Zenon DEF PlaceInv, End
<1>10. OnlySplitMetaAborts'
  BY <1>3, Zenon DEF OnlySplitMetaAborts
<1> QED
  BY <1>7, <1>8, <1>9, <1>10, Zenon DEF ReaderInv

(* A frame of which something is held starts before the place reached. *)
LEMMA HoldingFrom ==
  ASSUME stream \in Streams, NEW k \in DOMAIN stream, NEW d, NEW p,
         Holding(stream, d, k, p)
  PROVE  p \in Nat /\ stream[k].start <= p
<1>1. /\ stream[k].start \in Nat /\ NumMetaSizeBytes \in Nat
      /\ stream[k].meta \in Nat
  BY FrameIs, Zenon
<1>2. PICK m \in Nat : \/ p = stream[k].start + m
                       \/ p = stream[k].start + NumMetaSizeBytes + m
                       \/ p = stream[k].start + NumMetaSizeBytes + stream[k].meta + m
  BY Zenon DEF Holding
<1> QED
  BY <1>1, <1>2

(* All that was delivered has ended there. *)
LEMMA DeliveredBefore ==
  ASSUME ReaderInv, NEW i \in DOMAIN delivered
  PROVE  End(stream[delivered[i].frame]) <= at /\ End(stream[delivered[i].frame]) \in Nat
<1>0. stream \in Streams /\ delivered[i].frame \in DOMAIN stream /\ at \in Nat
  BY DeliveredFrames, Zenon DEF ReaderInv, LoopInv
<1>1. End(stream[delivered[i].frame]) \in Nat
  BY <1>0, FrameIs, Zenon
<1>2. ASSUME NEW k \in DOMAIN stream, Holding(stream, partial, k, at), Upcoming(k)
      PROVE  End(stream[delivered[i].frame]) <= at
  <2>1. stream[k].start <= at /\ stream[k].start \in Nat
    BY <1>0, <1>2, HoldingFrom, FrameIs, Zenon
  <2>2. End(stream[delivered[i].frame]) <= stream[k].start
    BY <1>0, <1>2, FramesInOrder, Zenon DEF Upcoming
  <2> QED
    BY <1>0, <1>1, <2>1, <2>2
<1> QED
  BY <1>1, <1>2, Zenon DEF ReaderInv, PlaceInv

(* What could not be parsed is dropped, with the bytes that are left. *)
LEMMA DiscardKeeps ==
  ASSUME ReaderInv, aborted = 0, Discard
  PROVE  ReaderInv'
<1>1. /\ UNCHANGED <<stream, delivered, aborted>>
      /\ at' = at + transferred /\ transferred' = 0 /\ reading' = TRUE
      /\ partial' = NoRPCData /\ discarded' = TRUE
      /\ at \in Nat /\ transferred \in Nat
  BY Zenon DEF Discard, ReaderInv, LoopInv
<1>2. LoopInv'
  BY <1>1 DEF ReaderInv, LoopInv, Total
<1>3. ASSUME NEW i \in DOMAIN delivered
      PROVE  End(stream[delivered[i].frame]) <= at + transferred
  BY <1>1, DeliveredBefore
<1>4. PlaceInv'
  BY <1>1, <1>3, Zenon DEF PlaceInv, End
<1>5. DeliveredAsSent' /\ OnlySplitMetaAborts'
  BY <1>1, Zenon DEF ReaderInv, DeliveredAsSent, OnlySplitMetaAborts, Payload
<1> QED
  BY <1>2, <1>4, <1>5, Zenon DEF ReaderInv

LEMMA ReaderNext == ReaderInv /\ [Next]_vars => ReaderInv'
<1> SUFFICES ASSUME ReaderInv, [Next]_vars PROVE ReaderInv'
  BY Zenon
<1>1. CASE BytesArrive
  BY <1>1, ReceiveKeeps, Zenon DEF BytesArrive
<1>2. CASE ReadInLoop
  <2>1. transferred # 0 /\ aborted = 0
    BY <1>2, Zenon DEF ReadInLoop
  <2>2. PICK k \in DOMAIN stream :
          /\ Upcoming(k)
          /\ \/ /\ Abort(96)
                /\ partial.meta_size # 0 /\ partial.frame = 0
                /\ partial.binaries # <<>>
             \/ Discard
             \/ \E d : /\ Handled(d, transferred) /\ Partial(d)
                       /\ Holding(stream, d, k, at + transferred)
             \/ \E d : \E n \in 1..transferred :
                  Handled(d, n) /\ Complete(stream, d, k, at + n)
    BY <1>2, ReadInLoopDoes, Zenon
  <2>3. CASE Abort(96) /\ partial.meta_size # 0 /\ partial.frame = 0
               /\ partial.binaries # <<>>
    <3>1. /\ UNCHANGED <<stream, at, transferred, reading, partial, delivered, discarded>>
          /\ aborted' = 96
      BY <2>3, Zenon DEF Abort
    <3>2. LoopInv' /\ DeliveredAsSent'
      BY <3>1, Zenon DEF ReaderInv, LoopInv, Total, DeliveredAsSent
    <3>3. PlaceInv'
      BY <3>1, Zenon DEF ReaderInv, PlaceInv, Upcoming, Reached
    <3>4. OnlySplitMetaAborts'
      BY <2>3, <3>1, Zenon DEF OnlySplitMetaAborts
    <3> QED
      BY <3>2, <3>3, <3>4, Zenon DEF ReaderInv
  <2>4. CASE Discard
    BY <2>1, <2>4, DiscardKeeps, Zenon
  <2>5. ASSUME NEW d, Handled(d, transferred), Partial(d),
               Holding(stream, d, k, at + transferred)
        PROVE  ReaderInv'
    BY <2>1, <2>2, <2>5, PartialKeeps, Zenon
  <2>6. ASSUME NEW d, NEW n \in 1..transferred, Handled(d, n),
               Complete(stream, d, k, at + n)
        PROVE  ReaderInv'
    BY <2>1, <2>2, <2>6, CompleteKeeps, Zenon
  <2> QED
    BY <2>2, <2>3, <2>4, <2>5, <2>6, Zenon
<1>3. CASE UNCHANGED vars
  BY <1>3 DEF vars, ReaderInv, LoopInv, PlaceInv, Upcoming, Reached, Total, End,
     DeliveredAsSent, Payload, OnlySplitMetaAborts
<1> QED
  BY <1>1, <1>2, <1>3, Zenon DEF Next

(***************************************************************************)
(* However the reads cut a stream of any frames, AppendBinaries puts the   *)
(* messages together as they were sent: ReadInLoop delivers their payload  *)
(* byte by byte, in the order of the stream, none twice, and skips none    *)
(* unless it has discarded a buffer.                                       *)
(***************************************************************************)
THEOREM MessagesAsSent == Spec => []DeliveredAsSent
<1>1. ReaderInv => DeliveredAsSent
  BY Zenon DEF ReaderInv
<1> QED
  BY <1>1, ReaderInit, ReaderNext, PTL DEF Spec

(***************************************************************************)
(* Of the CHECKs of AppendBinaries, Partial and ReadInLoop only the one at *)
(* rpc_data.cc:96 can fail, and only when a read ended inside meta data.   *)
(***************************************************************************)
THEOREM ChecksButOneHold == Spec => []OnlySplitMetaAborts
<1>1. ReaderInv => OnlySplitMetaAborts
  BY Zenon DEF ReaderInv
<1> QED
  BY <1>1, ReaderInit, ReaderNext, PTL DEF Spec

(* The bytes of frame k that d holds are those from its start to place p. *)
LEMMA HeldFrom ==
  ASSUME stream \in Streams, NEW k \in DOMAIN stream, NEW d, NEW p,
         Holding(stream, d, k, p)
  PROVE  p = Held(d) + stream[k].start
<1>1. /\ stream[k].start \in Nat /\ NumMetaSizeBytes \in Nat
      /\ stream[k].meta \in Nat /\ stream[k].meta # 0 /\ k # 0
      /\ stream[k].start + NumMetaSizeBytes \in Nat
      /\ stream[k].start + NumMetaSizeBytes + stream[k].meta \in Nat
  BY FrameIs, SMTT(20)
<1>2. PICK m \in Nat :
        \/ InSize(stream, d, k, m) /\ p = stream[k].start + m
        \/ InMeta(stream, d, k, m) /\ p = stream[k].start + NumMetaSizeBytes + m
        \/ /\ InPayload(stream, d, k, m)
           /\ p = stream[k].start + NumMetaSizeBytes + stream[k].meta + m
  BY Zenon DEF Holding
<1>3. Len(d.binaries) = m
  <2>1. \A a \in Nat : Len(Bytes(a, m)) = m
    BY BytesAre, Zenon
  <2>2. \E a \in Nat : d.binaries = Bytes(a, m)
    BY <1>1, <1>2, Zenon DEF InSize, InMeta, InPayload
  <2> QED
    BY <2>1, <2>2, Zenon
<1>4. CASE InSize(stream, d, k, m) /\ p = stream[k].start + m
  <2>1. Held(d) = m
    BY <1>1, <1>3, <1>4, Zenon DEF InSize, Held
  <2> QED
    BY <1>1, <1>4, <2>1
<1>5. CASE InMeta(stream, d, k, m) /\ p = stream[k].start + NumMetaSizeBytes + m
  <2>1. Held(d) = NumMetaSizeBytes + m
    BY <1>1, <1>3, <1>5, Zenon DEF InMeta, Held
  <2> QED
    BY <1>1, <1>5, <2>1
<1>6. CASE /\ InPayload(stream, d, k, m)
           /\ p = stream[k].start + NumMetaSizeBytes + stream[k].meta + m
  <2>1. Held(d) = NumMetaSizeBytes + stream[k].meta + m
    BY <1>1, <1>3, <1>6, Zenon DEF InPayload, Held
  <2> QED
    BY <1>1, <1>6, <2>1
<1> QED
  BY <1>2, <1>4, <1>5, <1>6, Zenon

(***************************************************************************)
(* As long as no buffer was discarded, no byte is lost or handled twice    *)
(* between two turns of the loop of ReadInLoop: those handled are those of *)
(* the messages delivered and those partial_message_ holds.                *)
(***************************************************************************)
THEOREM NoByteLost == Spec => []BytesAccountedFor
<1>1. ASSUME ReaderInv PROVE BytesAccountedFor
  <2> SUFFICES ASSUME ~discarded PROVE at = Held(partial) + Reached
    BY Zenon DEF BytesAccountedFor, Reached
  <2>0. stream \in Streams /\ at \in Nat
    BY <1>1, Zenon DEF ReaderInv, LoopInv
  <2>1. ASSUME NEW k \in DOMAIN stream, Holding(stream, partial, k, at), Upcoming(k)
        PROVE  at = Held(partial) + Reached
    <3>1. at = Held(partial) + stream[k].start
      BY <2>0, <2>1, HeldFrom, Zenon
    <3>2. /\ k = Len(delivered) + 1 /\ Len(delivered) \in Nat
          /\ delivered = <<>> <=> Len(delivered) = 0
      BY <1>1, <2>1 DEF Upcoming, ReaderInv, LoopInv
    <3>3. stream[k].start = Reached
      <4>1. CASE delivered = <<>>
        BY <2>0, <3>2, <4>1, StreamAssumption DEF Reached
      <4>2. CASE delivered # <<>>
        <5>1. PICK n : n = Len(delivered)
          BY Zenon
        <5>2. n \in 1..(Len(stream) - 1) /\ k = n + 1
          BY <2>0, <3>2, <4>2, <5>1, StreamAssumption, FrameIs
        <5>3. stream[n + 1].start = End(stream[n])
          BY <2>0, <5>2, StreamAssumption, Zenon
        <5> QED
          BY <4>2, <5>1, <5>2, <5>3, Zenon DEF Reached
      <4> QED
        BY <4>1, <4>2, Zenon
    <3> QED
      BY <3>1, <3>3, Zenon
  <2>2. ASSUME partial = NoRPCData, at = Reached
        PROVE  at = Held(partial) + Reached
    <3>1. Held(partial) = 0
      BY <2>2, Zenon DEF Held, NoRPCData, NewRPCData
    <3> QED
      BY <2>0, <2>2, <3>1
  <2> QED
    BY <1>1, <2>1, <2>2, Zenon DEF ReaderInv, PlaceInv
<1> QED
  BY <1>1, ReaderInit, ReaderNext, PTL DEF Spec
=============================================================================
