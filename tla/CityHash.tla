------------------------------ MODULE CityHash ------------------------------
(***************************************************************************)
(* The bytes that CityHash32, which makes the id of a service of its name, *)
(* and CityHash64 and CityHash128 read of a string.  The functions load    *)
(* words at offsets from both ends of the string and step through it in    *)
(* chunks; the mixing of what they load is left out.                       *)
(***************************************************************************)
EXTENDS Integers

CONSTANT MaxLen \* bound: the length of the string

ASSUME MaxLenAssumption == MaxLen \in Nat

VARIABLES
  hash,   \* which function runs
  length, \* the length of the string
  at,     \* where the function is
  s,      \* the offset of the pointer s
  len,    \* the local len, or what iters or l counts
  read    \* the offsets of the bytes read

vars == <<hash, length, at, s, len, read>>

Fetch32(p) == p..(p + 3)
Fetch64(p) == p..(p + 7)

\* Two, four words of 64 bits in a row.
Fetch128(p) == Fetch64(p) \cup Fetch64(p + 8)
WeakHashLen32WithSeeds(p) == Fetch128(p) \cup Fetch128(p + 16)

Hash32Len0to4(n) == 0..(n - 1)

Hash32Len5to12Shifted(n) ==
  Fetch32(0) \cup Fetch32(n - 4) \cup Fetch32(IF n \div 4 \in 4..7 THEN 4 ELSE 0)

\* (len >> 1) & 4
Hash32Len5to12(n) ==
  Fetch32(0) \cup Fetch32(n - 4) \cup Fetch32(IF n \div 2 \in 4..7 THEN 4 ELSE 0)

Hash32Len13to24(n) ==
  Fetch32((n \div 2) - 4) \cup Fetch32(4) \cup Fetch32(n - 8)
    \cup Fetch32(n \div 2) \cup Fetch32(0) \cup Fetch32(n - 4)

HashLen0to16(p, n) ==
  CASE n >= 8 -> Fetch64(p) \cup Fetch64(p + n - 8)
    [] n \in 4..7 -> Fetch32(p) \cup Fetch32(p + n - 4)
    [] n \in 1..3 -> {p, p + (n \div 2), p + n - 1}
    [] n = 0 -> {}

HashLen17to32(n) == Fetch128(0) \cup Fetch64(n - 8) \cup Fetch64(n - 16)

HashLen33to64(n) == WeakHashLen32WithSeeds(0) \cup WeakHashLen32WithSeeds(n - 32)

Init ==
  /\ hash \in {"CityHash32", "CityHash64", "CityHash128"}
  /\ length \in 0..MaxLen /\ len = length
  /\ at = "start" /\ s = 0 /\ read = {}

Goes(place, bytes) ==
  /\ at' = place
  /\ read' = read \cup bytes
  /\ UNCHANGED <<hash, length>>

Done(bytes) == Goes("done", bytes) /\ UNCHANGED <<s, len>>

\* The three short cases return at once.
CityHash32Short ==
  /\ hash = "CityHash32" /\ at = "start" /\ len <= 24
  /\ Done(IF len <= 12
          THEN IF len <= 4 THEN Hash32Len0to4(len) ELSE Hash32Len5to12(len)
          ELSE Hash32Len13to24(len))

\* The last twenty bytes first; then iters chunks of twenty.
CityHash32RoundsUp ==
  /\ hash = "CityHash32" /\ at = "start" /\ len > 24
  /\ Goes("loop", Fetch32(len - 4) \cup Fetch32(len - 8) \cup Fetch32(len - 16)
                    \cup Fetch32(len - 12) \cup Fetch32(len - 20))
  /\ len' = (len + 19) \div 20
  /\ UNCHANGED s

CityHash32 ==
  /\ hash = "CityHash32" /\ at = "start" /\ len > 24
  /\ Goes("loop", Fetch32(len - 4) \cup Fetch32(len - 8) \cup Fetch32(len - 16)
                    \cup Fetch32(len - 12) \cup Fetch32(len - 20))
  /\ len' = (len - 1) \div 20
  /\ UNCHANGED s

CityHash32Loop ==
  /\ hash = "CityHash32" /\ at = "loop"
  /\ s' = s + 20 /\ len' = len - 1
  /\ Goes(IF len' # 0 THEN "loop" ELSE "done",
          Fetch32(s) \cup Fetch32(s + 4) \cup Fetch32(s + 8)
            \cup Fetch32(s + 12) \cup Fetch32(s + 16))

CityHash64Short ==
  /\ hash = "CityHash64" /\ at = "start" /\ len <= 64
  /\ Done(IF len <= 32
          THEN IF len <= 16 THEN HashLen0to16(0, len) ELSE HashLen17to32(len)
          ELSE HashLen33to64(len))

\* The last 64 bytes first; then chunks of 64.  (len - 1) & ~63
CityHash64 ==
  /\ hash = "CityHash64" /\ at = "start" /\ len > 64
  /\ Goes("loop",
          Fetch64(len - 40) \cup Fetch64(len - 16) \cup Fetch64(len - 56)
            \cup Fetch64(len - 48) \cup Fetch64(len - 24)
            \cup WeakHashLen32WithSeeds(len - 64)
            \cup WeakHashLen32WithSeeds(len - 32) \cup Fetch64(0))
  /\ len' = 64 * ((len - 1) \div 64)
  /\ UNCHANGED s

\* A chunk of 64 bytes, in CityHash64 and twice in CityHash128WithSeed.
Chunk(p) ==
  Fetch64(p + 8) \cup Fetch64(p + 48) \cup Fetch64(p + 40)
    \cup WeakHashLen32WithSeeds(p) \cup WeakHashLen32WithSeeds(p + 32)
    \cup Fetch64(p + 16)

CityHash64Loop ==
  /\ hash = "CityHash64" /\ at = "loop"
  /\ s' = s + 64 /\ len' = len - 64
  /\ Goes(IF len' # 0 THEN "loop" ELSE "done", Chunk(s))

\* The first sixteen bytes of a string that has them are the seed.
CityHash128 ==
  /\ hash = "CityHash128" /\ at = "start"
  /\ IF len >= 16
     THEN Goes("seeded", Fetch128(0)) /\ s' = s + 16 /\ len' = len - 16
     ELSE Goes("seeded", {}) /\ UNCHANGED <<s, len>>

CityHash128WithSeed ==
  /\ at = "seeded" /\ len >= 128
  /\ Goes("chunks", Fetch128(s) \cup Fetch64(s + 88))
  /\ UNCHANGED <<s, len>>

CityHash128Loop ==
  /\ at = "chunks"
  /\ s' = s + 128 /\ len' = len - 128
  /\ Goes(IF len' >= 128 THEN "chunks" ELSE "tail", Chunk(s) \cup Chunk(s + 64))

\* Up to four chunks of 32 bytes from the end: tail_done goes 32, 64, ... while
\* it is less than len.
TailDone(n) == {32 * i : i \in 1..((n + 31) \div 32)}

CityHash128Tail ==
  /\ at = "tail"
  /\ Done(UNION {WeakHashLen32WithSeeds(s + len - t) : t \in TailDone(len)})

CityMurmurShort ==
  /\ at = "seeded" /\ len <= 16
  /\ Done(HashLen0to16(s, len) \cup IF len >= 8 THEN Fetch64(s) ELSE {})

\* The last sixteen bytes; then chunks of sixteen while l, which is len less
\* sixteen, is positive.
CityMurmur ==
  /\ at = "seeded" /\ 16 < len /\ len < 128
  /\ Goes("murmur", Fetch64(s + len - 8) \cup Fetch64(s + len - 16))
  /\ len' = len - 16
  /\ UNCHANGED s

CityMurmurLoop ==
  /\ at = "murmur"
  /\ s' = s + 16 /\ len' = len - 16
  /\ Goes(IF len' > 0 THEN "murmur" ELSE "done", Fetch128(s))

Next ==
  \/ CityHash32Short \/ CityHash32 \/ CityHash32Loop
  \/ CityHash64Short \/ CityHash64 \/ CityHash64Loop
  \/ CityHash128 \/ CityHash128WithSeed \/ CityHash128Loop \/ CityHash128Tail
  \/ CityMurmurShort \/ CityMurmur \/ CityMurmurLoop

Spec == Init /\ [][Next]_vars
-----------------------------------------------------------------------------
\* city.cc:171, 348 and 427.  No word is loaded from outside the string, at any
\* length.
InBounds == read \subseteq 0..(length - 1)

\* Every byte of the string is read, so that no two names hash alike merely
\* because a byte between the chunks and the tail was left out.
EveryByteRead == at = "done" => 0..(length - 1) \subseteq read
=============================================================================
