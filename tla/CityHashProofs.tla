--------------------------- MODULE CityHashProofs ---------------------------
(***************************************************************************)
(* The hash functions read each byte of the string and nothing else, for   *)
(* strings of any length.                                                  *)
(***************************************************************************)
EXTENDS CityHash, TLAPS

\* The bytes from lo up to, not including, hi.
Bytes(lo, hi) == {i \in Int : lo <= i /\ i < hi}

TypeInv ==
  /\ length \in Nat /\ len \in Int /\ s \in Nat
  /\ hash \in {"CityHash32", "CityHash64", "CityHash128"}
  /\ read \subseteq Bytes(0, length)

\* What the functions have read, and how far the chunks still have to go, at
\* each place.
AtStart == len = length /\ s = 0
AtLoop32 ==
  /\ hash = "CityHash32" /\ len >= 1
  /\ s + 20 * len < length /\ length <= s + 20 * len + 20
  /\ Bytes(0, s) \cup Bytes(length - 20, length) \subseteq read
AtLoop64 ==
  /\ hash = "CityHash64" /\ len >= 64 /\ len % 64 = 0
  /\ s + len < length /\ length <= s + len + 64
  /\ Bytes(0, s) \cup Bytes(length - 64, length) \subseteq read
AtSeeded == s + len = length /\ len >= 0 /\ Bytes(0, s) \subseteq read
AtChunks == s + len = length /\ len >= 128 /\ Bytes(0, s) \subseteq read
AtTail ==
  /\ s + len = length /\ s >= 128 /\ 0 <= len /\ len < 128
  /\ Bytes(0, s) \subseteq read
AtMurmur ==
  /\ len >= 1 /\ s + len + 16 = length
  /\ Bytes(0, s) \cup Bytes(length - 16, length) \subseteq read
AtDone == Bytes(0, length) \subseteq read

Inv ==
  /\ TypeInv
  /\ \/ at = "start" /\ AtStart
     \/ at = "loop" /\ (AtLoop32 \/ AtLoop64)
     \/ at = "seeded" /\ AtSeeded
     \/ at = "chunks" /\ AtChunks
     \/ at = "tail" /\ AtTail
     \/ at = "murmur" /\ AtMurmur
     \/ at = "done" /\ AtDone

LEMMA InitInv == Init => Inv
  BY MaxLenAssumption DEF Init, Inv, TypeInv, AtStart

\* Adding bytes of the string to what was read, and joining stretches.
LEMMA Within ==
  ASSUME NEW lo \in Int, NEW hi \in Int, NEW n \in Int, 0 <= lo, hi <= n
  PROVE  Bytes(lo, hi) \subseteq Bytes(0, n)
  BY DEF Bytes

LEMMA Joined ==
  ASSUME NEW lo \in Int, NEW hi \in Int, NEW n \in Int, lo <= hi, hi <= n
  PROVE  Bytes(lo, hi) \cup Bytes(hi, n) = Bytes(lo, n)
  BY DEF Bytes

\* What each group of loads reads.
LEMMA Fetch32Bytes == \A p \in Int : Fetch32(p) = Bytes(p, p + 4)
  BY DEF Fetch32, Bytes

LEMMA Fetch64Bytes == \A p \in Int : Fetch64(p) = Bytes(p, p + 8)
  BY DEF Fetch64, Bytes

LEMMA Fetch128Bytes == \A p \in Int : Fetch128(p) = Bytes(p, p + 16)
  BY DEF Fetch128, Fetch64, Bytes

LEMMA WeakBytes == \A p \in Int : WeakHashLen32WithSeeds(p) = Bytes(p, p + 32)
<1> TAKE p \in Int
<1>1. Fetch128(p) = Bytes(p, p + 16) /\ Fetch128(p + 16) = Bytes(p + 16, p + 32)
  BY Fetch128Bytes
<1> QED
  BY <1>1 DEF WeakHashLen32WithSeeds, Bytes

LEMMA ChunkBytes == \A p \in Int : Chunk(p) = Bytes(p, p + 64)
<1> TAKE p \in Int
<1>1. /\ WeakHashLen32WithSeeds(p) = Bytes(p, p + 32)
      /\ WeakHashLen32WithSeeds(p + 32) = Bytes(p + 32, p + 64)
  BY WeakBytes
<1> QED
  BY <1>1 DEF Chunk, Fetch64, Bytes

\* The short cases read exactly the string, which starts at p.
LEMMA Short32 ==
  ASSUME NEW n \in Nat, n <= 24
  PROVE  (IF n <= 12 THEN IF n <= 4 THEN Hash32Len0to4(n) ELSE Hash32Len5to12(n)
          ELSE Hash32Len13to24(n)) = Bytes(0, n)
<1>1. CASE n <= 4
  BY <1>1 DEF Hash32Len0to4, Bytes
<1>2. CASE 4 < n /\ n <= 12
  BY <1>2 DEF Hash32Len5to12, Fetch32, Bytes
<1>3. CASE 12 < n
  BY <1>3 DEF Hash32Len13to24, Fetch32, Bytes
<1> QED
  BY <1>1, <1>2, <1>3

LEMMA Short16 ==
  ASSUME NEW p \in Nat, NEW n \in Nat, n <= 16
  PROVE  HashLen0to16(p, n) = Bytes(p, p + n)
<1>1. CASE n >= 8
  BY <1>1 DEF HashLen0to16, Fetch64, Bytes
<1>2. CASE n \in 4..7
  BY <1>2 DEF HashLen0to16, Fetch32, Bytes
<1>3. CASE n \in 1..3
  BY <1>3 DEF HashLen0to16, Bytes
<1>4. CASE n = 0
  BY <1>4 DEF HashLen0to16, Bytes
<1> QED
  BY <1>1, <1>2, <1>3, <1>4

LEMMA Short64 ==
  ASSUME NEW n \in Nat, n <= 64
  PROVE  (IF n <= 32 THEN IF n <= 16 THEN HashLen0to16(0, n) ELSE HashLen17to32(n)
          ELSE HashLen33to64(n)) = Bytes(0, n)
<1>1. CASE n <= 16
  BY <1>1, Short16
<1>2. CASE 16 < n /\ n <= 32
  BY <1>2, Fetch128Bytes DEF HashLen17to32, Fetch64, Bytes
<1>3. CASE 32 < n
  BY <1>3, WeakBytes DEF HashLen33to64, Bytes
<1> QED
  BY <1>1, <1>2, <1>3

\* A function that is done has read the string.
LEMMA DoneInv ==
  ASSUME Inv, NEW B, Done(B), B \subseteq Bytes(0, length),
         Bytes(0, length) \subseteq read \cup B
  PROVE  Inv'
  BY DEF Inv, TypeInv, Done, Goes, AtDone

LEMMA Start32Inv ==
  ASSUME Inv, CityHash32Short \/ CityHash32
  PROVE  Inv'
<1>1. len = length /\ s = 0 /\ length \in Nat
  BY DEF Inv, TypeInv, CityHash32Short, CityHash32, AtStart
<1>2. CASE CityHash32Short
  BY <1>1, <1>2, Short32, DoneInv DEF CityHash32Short
<1>3. CASE CityHash32
  <2> DEFINE B == Fetch32(len - 4) \cup Fetch32(len - 8) \cup Fetch32(len - 16)
                    \cup Fetch32(len - 12) \cup Fetch32(len - 20)
  <2>1. B = Bytes(length - 20, length)
    BY <1>1 DEF Fetch32, Bytes
  <2>2. length > 24 /\ hash = "CityHash32" /\ read' = read \cup B
    BY <1>1, <1>3 DEF CityHash32, Goes
  <2>3. /\ s' = 0 /\ length' = length /\ hash' = hash
        /\ len' = (length - 1) \div 20 /\ at' = "loop"
    BY <1>1, <1>3 DEF CityHash32, Goes
  <2> HIDE DEF B
  <2>4. len' \in Nat /\ len' >= 1 /\ 20 * len' < length /\ length <= 20 * len' + 20
    BY <1>1, <2>2, <2>3
  <2>5. read' \subseteq Bytes(0, length)
    <3>1. Bytes(length - 20, length) \subseteq Bytes(0, length)
      BY <1>1, <2>2, Within
    <3> QED
      BY <2>1, <2>2, <3>1 DEF Inv, TypeInv
  <2>6. Bytes(0, 0) \cup Bytes(length - 20, length) \subseteq read'
    BY <2>1, <2>2 DEF Bytes
  <2>7. AtLoop32'
    BY <1>1, <2>2, <2>3, <2>4, <2>6 DEF AtLoop32
  <2>8. TypeInv'
    BY <1>1, <2>2, <2>3, <2>4, <2>5 DEF TypeInv
  <2> QED
    BY <2>3, <2>7, <2>8 DEF Inv
<1> QED
  BY <1>2, <1>3

LEMMA Loop32Inv ==
  ASSUME Inv, CityHash32Loop
  PROVE  Inv'
<1> DEFINE B == Fetch32(s) \cup Fetch32(s + 4) \cup Fetch32(s + 8)
                  \cup Fetch32(s + 12) \cup Fetch32(s + 16)
<1>1. TypeInv /\ AtLoop32 /\ hash = "CityHash32"
  BY DEF Inv, CityHash32Loop, AtLoop64
<1>2. B = Bytes(s, s + 20)
  BY <1>1 DEF TypeInv, Fetch32, Bytes
<1>3. /\ s' = s + 20 /\ len' = len - 1 /\ length' = length /\ hash' = hash
      /\ read' = read \cup B /\ at' = IF len' # 0 THEN "loop" ELSE "done"
  BY DEF CityHash32Loop, Goes
<1> HIDE DEF B
<1>4. read' \subseteq Bytes(0, length)
  <2>1. Bytes(s, s + 20) \subseteq Bytes(0, length)
    BY <1>1, Within DEF TypeInv, AtLoop32
  <2> QED
    BY <1>1, <1>2, <1>3, <2>1 DEF TypeInv
<1>5. TypeInv'
  BY <1>1, <1>3, <1>4 DEF TypeInv, AtLoop32
<1>6. Bytes(0, s') \cup Bytes(length - 20, length) \subseteq read'
  BY <1>1, <1>2, <1>3 DEF TypeInv, AtLoop32, Bytes
<1>7. CASE len' # 0
  <2>1. AtLoop32'
    BY <1>1, <1>3, <1>6, <1>7 DEF TypeInv, AtLoop32
  <2> QED
    BY <1>3, <1>5, <1>7, <2>1 DEF Inv
<1>8. CASE len' = 0
  <2>1. AtDone'
    BY <1>1, <1>3, <1>6, <1>8 DEF TypeInv, AtLoop32, AtDone, Bytes
  <2> QED
    BY <1>3, <1>5, <1>8, <2>1 DEF Inv
<1> QED
  BY <1>7, <1>8

LEMMA Start64Inv ==
  ASSUME Inv, CityHash64Short \/ CityHash64
  PROVE  Inv'
<1>1. len = length /\ s = 0 /\ length \in Nat
  BY DEF Inv, TypeInv, CityHash64Short, CityHash64, AtStart
<1>2. CASE CityHash64Short
  BY <1>1, <1>2, Short64, DoneInv DEF CityHash64Short
<1>3. CASE CityHash64
  <2> DEFINE B == Fetch64(len - 40) \cup Fetch64(len - 16) \cup Fetch64(len - 56)
                    \cup Fetch64(len - 48) \cup Fetch64(len - 24)
                    \cup WeakHashLen32WithSeeds(len - 64)
                    \cup WeakHashLen32WithSeeds(len - 32) \cup Fetch64(0)
  <2>1. length > 64 /\ hash = "CityHash64" /\ read' = read \cup B
    BY <1>1, <1>3 DEF CityHash64, Goes
  <2>2. /\ WeakHashLen32WithSeeds(len - 64) = Bytes(length - 64, length - 32)
        /\ WeakHashLen32WithSeeds(len - 32) = Bytes(length - 32, length)
    BY <1>1, WeakBytes
  <2>3. B \subseteq Bytes(0, length) /\ Bytes(length - 64, length) \subseteq B
    BY <1>1, <2>1, <2>2 DEF Fetch64, Bytes
  <2>4. /\ s' = 0 /\ length' = length /\ hash' = hash
        /\ len' = 64 * ((length - 1) \div 64) /\ at' = "loop"
    BY <1>1, <1>3 DEF CityHash64, Goes
  <2> HIDE DEF B
  <2>5. /\ len' \in Nat /\ len' >= 64 /\ len' % 64 = 0
        /\ len' < length /\ length <= len' + 64
    BY <1>1, <2>1, <2>4
  <2>6. read' \subseteq Bytes(0, length)
    BY <2>1, <2>3 DEF Inv, TypeInv
  <2>7. Bytes(0, 0) \cup Bytes(length - 64, length) \subseteq read'
    BY <2>1, <2>3 DEF Bytes
  <2>8. AtLoop64'
    BY <1>1, <2>1, <2>4, <2>5, <2>7 DEF AtLoop64
  <2>9. TypeInv'
    BY <1>1, <2>1, <2>4, <2>5, <2>6 DEF TypeInv
  <2> QED
    BY <2>4, <2>8, <2>9 DEF Inv
<1> QED
  BY <1>2, <1>3

LEMMA Loop64Inv ==
  ASSUME Inv, CityHash64Loop
  PROVE  Inv'
<1>1. TypeInv /\ AtLoop64
  BY DEF Inv, CityHash64Loop, AtLoop32
<1>2. Chunk(s) = Bytes(s, s + 64)
  BY <1>1, ChunkBytes DEF TypeInv
<1>3. /\ s' = s + 64 /\ len' = len - 64 /\ length' = length /\ hash' = hash
      /\ read' = read \cup Chunk(s) /\ at' = IF len' # 0 THEN "loop" ELSE "done"
  BY DEF CityHash64Loop, Goes
<1>4. read' \subseteq Bytes(0, length)
  <2>1. Bytes(s, s + 64) \subseteq Bytes(0, length)
    BY <1>1, Within DEF TypeInv, AtLoop64
  <2> QED
    BY <1>1, <1>2, <1>3, <2>1 DEF TypeInv
<1>5. TypeInv'
  BY <1>1, <1>3, <1>4 DEF TypeInv, AtLoop64
<1>6. Bytes(0, s') \cup Bytes(length - 64, length) \subseteq read'
  BY <1>1, <1>2, <1>3 DEF TypeInv, AtLoop64, Bytes
<1>7. CASE len' # 0
  <2>1. len' >= 64 /\ len' % 64 = 0
    BY <1>1, <1>3, <1>7 DEF TypeInv, AtLoop64
  <2>2. AtLoop64'
    BY <1>1, <1>3, <1>6, <2>1 DEF TypeInv, AtLoop64
  <2> QED
    BY <1>3, <1>5, <1>7, <2>2 DEF Inv
<1>8. CASE len' = 0
  <2>1. AtDone'
    BY <1>1, <1>3, <1>6, <1>8 DEF TypeInv, AtLoop64, AtDone, Bytes
  <2> QED
    BY <1>3, <1>5, <1>8, <2>1 DEF Inv
<1> QED
  BY <1>7, <1>8

LEMMA SeedInv ==
  ASSUME Inv, CityHash128
  PROVE  Inv'
<1>1. TypeInv /\ len = length /\ s = 0
  BY DEF Inv, CityHash128, AtStart
<1>2. Fetch128(0) = Bytes(0, 16)
  BY Fetch128Bytes
<1>3. /\ length' = length /\ hash' = hash /\ at' = "seeded"
  BY DEF CityHash128, Goes
<1>4. CASE len >= 16
  <2>1. s' = 16 /\ len' = length - 16 /\ read' = read \cup Bytes(0, 16)
    BY <1>1, <1>2, <1>4 DEF CityHash128, Goes
  <2>2. Bytes(0, 16) \subseteq Bytes(0, length)
    BY <1>1, <1>4, Within DEF TypeInv
  <2>3. TypeInv'
    BY <1>1, <1>3, <1>4, <2>1, <2>2 DEF TypeInv
  <2>4. AtSeeded'
    BY <1>1, <1>3, <1>4, <2>1 DEF TypeInv, AtSeeded
  <2> QED
    BY <1>3, <2>3, <2>4 DEF Inv
<1>5. CASE ~(len >= 16)
  <2>1. s' = s /\ len' = len /\ read' = read
    BY <1>5 DEF CityHash128, Goes
  <2>2. AtSeeded'
    BY <1>1, <1>3, <2>1 DEF TypeInv, AtSeeded, Bytes
  <2> QED
    BY <1>1, <1>3, <2>1, <2>2 DEF Inv, TypeInv
<1> QED
  BY <1>4, <1>5

LEMMA WithSeedInv ==
  ASSUME Inv, CityHash128WithSeed
  PROVE  Inv'
<1> DEFINE B == Fetch128(s) \cup Fetch64(s + 88)
<1>1. TypeInv /\ AtSeeded /\ len >= 128
  BY DEF Inv, CityHash128WithSeed
<1>2. B \subseteq Bytes(0, length)
  <2>1. Fetch128(s) = Bytes(s, s + 16) /\ Fetch64(s + 88) = Bytes(s + 88, s + 96)
    BY <1>1, Fetch128Bytes, Fetch64Bytes DEF TypeInv
  <2>2. Bytes(s, s + 16) \subseteq Bytes(0, length)
    BY <1>1, Within DEF TypeInv, AtSeeded
  <2>3. Bytes(s + 88, s + 96) \subseteq Bytes(0, length)
    BY <1>1, Within DEF TypeInv, AtSeeded
  <2> QED
    BY <2>1, <2>2, <2>3
<1>3. /\ length' = length /\ hash' = hash /\ at' = "chunks"
      /\ s' = s /\ len' = len /\ read' = read \cup B
  BY DEF CityHash128WithSeed, Goes
<1> HIDE DEF B
<1> QED
  BY <1>1, <1>2, <1>3 DEF Inv, TypeInv, AtSeeded, AtChunks

\* A chunk moves the front of what was read.
LEMMA Front ==
  ASSUME TypeInv, Bytes(0, s) \subseteq read, NEW n \in Nat, s + n <= length,
         NEW B, B = Bytes(s, s + n)
  PROVE  /\ read \cup B \subseteq Bytes(0, length)
         /\ Bytes(0, s + n) \subseteq read \cup B
<1>1. Bytes(s, s + n) \subseteq Bytes(0, length)
  BY Within DEF TypeInv
<1>2. Bytes(0, s) \cup Bytes(s, s + n) = Bytes(0, s + n)
  BY Joined DEF TypeInv
<1> QED
  BY <1>1, <1>2 DEF TypeInv

LEMMA ChunksInv ==
  ASSUME Inv, CityHash128Loop
  PROVE  Inv'
<1> DEFINE B == Chunk(s) \cup Chunk(s + 64)
<1>1. TypeInv /\ AtChunks
  BY DEF Inv, CityHash128Loop
<1>2. B = Bytes(s, s + 128)
  <2>1. Chunk(s) = Bytes(s, s + 64) /\ Chunk(s + 64) = Bytes(s + 64, s + 128)
    BY <1>1, ChunkBytes DEF TypeInv
  <2>2. Bytes(s, s + 64) \cup Bytes(s + 64, s + 128) = Bytes(s, s + 128)
    BY <1>1, Joined DEF TypeInv
  <2> QED
    BY <2>1, <2>2
<1>3. /\ s' = s + 128 /\ len' = len - 128 /\ length' = length /\ hash' = hash
      /\ read' = read \cup B /\ at' = IF len' >= 128 THEN "chunks" ELSE "tail"
  BY DEF CityHash128Loop, Goes
<1> HIDE DEF B
<1>4. read' \subseteq Bytes(0, length) /\ Bytes(0, s') \subseteq read'
  <2>1. s + 128 <= length
    BY <1>1 DEF TypeInv, AtChunks
  <2> QED
    BY <1>1, <1>2, <1>3, <2>1, Front DEF AtChunks
<1>5. TypeInv'
  BY <1>1, <1>3, <1>4 DEF TypeInv, AtChunks
<1>6. CASE len' >= 128
  <2>1. AtChunks'
    BY <1>1, <1>3, <1>4, <1>6 DEF TypeInv, AtChunks
  <2> QED
    BY <1>3, <1>5, <1>6, <2>1 DEF Inv
<1>7. CASE ~(len' >= 128)
  <2>1. AtTail'
    BY <1>1, <1>3, <1>4, <1>7 DEF TypeInv, AtChunks, AtTail
  <2> QED
    BY <1>3, <1>5, <1>7, <2>1 DEF Inv
<1> QED
  BY <1>6, <1>7

LEMMA TailInv ==
  ASSUME Inv, CityHash128Tail
  PROVE  Inv'
<1> DEFINE B == UNION {WeakHashLen32WithSeeds(s + len - t) : t \in TailDone(len)}
<1>1. TypeInv /\ AtTail
  BY DEF Inv, CityHash128Tail
<1>2. B \subseteq Bytes(0, length)
  <2> SUFFICES ASSUME NEW t \in TailDone(len)
               PROVE  WeakHashLen32WithSeeds(s + len - t) \subseteq Bytes(0, length)
    OBVIOUS
  <2>1. t \in Int /\ 32 <= t /\ t <= 128
    <3>1. PICK i \in 1..((len + 31) \div 32) : t = 32 * i
      BY DEF TailDone
    <3>2. (len + 31) \div 32 <= 4
      BY <1>1 DEF TypeInv, AtTail
    <3> QED
      BY <1>1, <3>1, <3>2 DEF TypeInv
  <2>2. WeakHashLen32WithSeeds(s + len - t) = Bytes(s + len - t, s + len - t + 32)
    BY <1>1, <2>1, WeakBytes DEF TypeInv
  <2> QED
    BY <1>1, <2>1, <2>2, Within DEF TypeInv, AtTail
<1>3. Bytes(s, length) \subseteq B
  <2> SUFFICES ASSUME NEW i \in Bytes(s, length) PROVE i \in B
    OBVIOUS
  <2> DEFINE k == (length - 1 - i) \div 32 + 1
             t == 32 * k
  <2>1. i \in Int /\ s <= i /\ i < length
    BY DEF Bytes
  <2>2. k \in 1..((len + 31) \div 32)
    BY <1>1, <2>1 DEF TypeInv, AtTail
  <2>3. t \in TailDone(len)
    BY <2>2 DEF TailDone
  <2>4. t \in Int /\ length - t <= i /\ i < length - t + 32
    BY <1>1, <2>1 DEF TypeInv
  <2> HIDE DEF t
  <2>5. i \in Bytes(s + len - t, s + len - t + 32)
    BY <1>1, <2>1, <2>4 DEF TypeInv, AtTail, Bytes
  <2>6. i \in WeakHashLen32WithSeeds(s + len - t)
    BY <1>1, <2>4, <2>5, WeakBytes DEF TypeInv
  <2> QED
    BY <2>3, <2>6
<1>4. Bytes(0, length) \subseteq read \cup B
  <2>1. Bytes(0, s) \cup Bytes(s, length) = Bytes(0, length)
    BY <1>1, Joined DEF TypeInv, AtTail
  <2> QED
    BY <1>1, <1>3, <2>1 DEF AtTail
<1>5. Done(B)
  BY DEF CityHash128Tail
<1> HIDE DEF B
<1> QED
  BY <1>2, <1>4, <1>5, DoneInv

LEMMA MurmurShortInv ==
  ASSUME Inv, CityMurmurShort
  PROVE  Inv'
<1> DEFINE F == IF len >= 8 THEN Fetch64(s) ELSE {}
           B == HashLen0to16(s, len) \cup F
<1>1. TypeInv /\ AtSeeded /\ len <= 16
  BY DEF Inv, CityMurmurShort
<1>2. HashLen0to16(s, len) = Bytes(s, length)
  <2>1. s + len = length /\ len \in Nat
    BY <1>1 DEF TypeInv, AtSeeded
  <2> QED
    BY <1>1, <2>1, Short16 DEF TypeInv
<1>3. Bytes(s, length) \subseteq Bytes(0, length)
  BY <1>1, Within DEF TypeInv
<1>4. F \subseteq Bytes(0, length)
  <2>1. CASE len >= 8
    <3>1. Fetch64(s) = Bytes(s, s + 8)
      BY <1>1, Fetch64Bytes DEF TypeInv
    <3> QED
      BY <1>1, <2>1, <3>1, Within DEF TypeInv, AtSeeded
  <2> QED
    BY <2>1
<1>5. Bytes(0, s) \cup Bytes(s, length) = Bytes(0, length)
  BY <1>1, Joined DEF TypeInv, AtSeeded
<1>6. Done(B)
  BY DEF CityMurmurShort
<1> HIDE DEF F
<1>7. B \subseteq Bytes(0, length) /\ Bytes(0, length) \subseteq read \cup B
  BY <1>1, <1>2, <1>3, <1>4, <1>5 DEF AtSeeded
<1> HIDE DEF B
<1> QED
  BY <1>6, <1>7, DoneInv

LEMMA MurmurInv ==
  ASSUME Inv, CityMurmur
  PROVE  Inv'
<1> DEFINE B == Fetch64(s + len - 8) \cup Fetch64(s + len - 16)
<1>1. TypeInv /\ AtSeeded /\ 16 < len
  BY DEF Inv, CityMurmur
<1>2. B = Bytes(length - 16, length)
  BY <1>1 DEF TypeInv, AtSeeded, Fetch64, Bytes
<1>3. B \subseteq Bytes(0, length)
  BY <1>1, <1>2, Within DEF TypeInv, AtSeeded
<1>4. /\ length' = length /\ hash' = hash /\ at' = "murmur"
      /\ s' = s /\ len' = len - 16 /\ read' = read \cup B
  BY DEF CityMurmur, Goes
<1> HIDE DEF B
<1>5. TypeInv'
  BY <1>1, <1>3, <1>4 DEF TypeInv
<1>6. AtMurmur'
  BY <1>1, <1>2, <1>4 DEF TypeInv, AtSeeded, AtMurmur
<1> QED
  BY <1>4, <1>5, <1>6 DEF Inv

LEMMA MurmurLoopInv ==
  ASSUME Inv, CityMurmurLoop
  PROVE  Inv'
<1>1. TypeInv /\ AtMurmur
  BY DEF Inv, CityMurmurLoop
<1>2. Fetch128(s) = Bytes(s, s + 16)
  BY <1>1, Fetch128Bytes DEF TypeInv
<1>3. /\ s' = s + 16 /\ len' = len - 16 /\ length' = length /\ hash' = hash
      /\ read' = read \cup Fetch128(s) /\ at' = IF len' > 0 THEN "murmur" ELSE "done"
  BY DEF CityMurmurLoop, Goes
<1>4. read' \subseteq Bytes(0, length) /\ Bytes(0, s') \subseteq read'
  <2>1. s + 16 <= length
    BY <1>1 DEF TypeInv, AtMurmur
  <2> QED
    BY <1>1, <1>2, <1>3, <2>1, Front DEF AtMurmur
<1>5. Bytes(length - 16, length) \subseteq read'
  BY <1>1, <1>3 DEF AtMurmur
<1>6. CASE len' > 0
  <2>1. TypeInv'
    BY <1>1, <1>3, <1>4, <1>6 DEF TypeInv
  <2>2. AtMurmur'
    BY <1>1, <1>3, <1>4, <1>5, <1>6 DEF TypeInv, AtMurmur
  <2> QED
    BY <1>3, <1>6, <2>1, <2>2 DEF Inv
<1>7. CASE ~(len' > 0)
  <2>1. Bytes(0, length) \subseteq read'
    <3>1. s' \in Int /\ length - 16 <= s'
      BY <1>1, <1>3, <1>7 DEF TypeInv, AtMurmur
    <3> QED
      BY <1>1, <1>4, <1>5, <3>1 DEF TypeInv, Bytes
  <2> QED
    BY <1>1, <1>3, <1>4, <1>7, <2>1 DEF Inv, TypeInv, AtDone
<1> QED
  BY <1>6, <1>7

LEMMA NextInv == Inv /\ [Next]_vars => Inv'
<1> SUFFICES ASSUME Inv, [Next]_vars PROVE Inv'
  OBVIOUS
<1>1. CASE UNCHANGED vars
  BY <1>1 DEF vars, Inv, TypeInv, AtStart, AtLoop32, AtLoop64, AtSeeded, AtChunks,
              AtTail, AtMurmur, AtDone
<1> QED
  BY <1>1, Start32Inv, Loop32Inv, Start64Inv, Loop64Inv, SeedInv, WithSeedInv,
     ChunksInv, TailInv, MurmurShortInv, MurmurInv, MurmurLoopInv DEF Next

LEMMA Safe == Spec => []Inv
  BY InitInv, NextInv, PTL DEF Spec

\* For strings of any length, CityHash32, CityHash64 and CityHash128 load no
\* byte from outside the string.
THEOREM ReadsInBounds == Spec => []InBounds
<1>1. Inv => InBounds
  BY DEF Inv, TypeInv, InBounds, Bytes
<1> QED
  BY <1>1, Safe, PTL

\* For strings of any length, they return only after reading every byte.
THEOREM ReadsEveryByte == Spec => []EveryByteRead
<1>1. Inv => EveryByteRead
  BY DEF Inv, TypeInv, AtDone, EveryByteRead, Bytes
<1> QED
  BY <1>1, Safe, PTL
=============================================================================
