----------------------------- MODULE RPCMetaData -----------------------------
(***************************************************************************)
(* The metadata in front of every message, on its way from the client to   *)
(* the server and back: SessionManager::SaveSession fills it, protobuf's   *)
(* code for RPCMetaData sizes it, writes it and reads it, CallMethod       *)
(* copies it and SendResponse sends it back with another length.  Bytes,   *)
(* tags and varint groups are the real ones; the words are narrower than   *)
(* 32 and 64 bits but need several groups, as the real ones do.  A frame   *)
(* holds the whole metadata, so that no read runs out of bytes.            *)
(***************************************************************************)
EXTENDS Integers, Sequences, FiniteSetsExt

CONSTANTS
  IntBits, LongBits, \* the widths that stand for 32 and 64
  Seqs, Hashes, Methods, Lengths \* bound: the values tried of each field

ASSUME MetaAssumption ==
  /\ 7 < IntBits /\ IntBits < LongBits
  /\ Seqs \subseteq 0..(2^LongBits - 1)
  /\ Hashes \cup Lengths \subseteq 0..(2^IntBits - 1)
  /\ Methods \subseteq 0..(2^(IntBits - 1) - 1)

VARIABLES
  at,   \* "idle", "request", "served", "response", "answered": how far the call is
  hash, \* the hash of the service's name
  sent, \* the metadata last written
  wire, \* what was written of it
  pos,  \* the next byte the reader reads
  meta  \* the reader's RPCMetaData

vars == <<at, hash, sent, wire, pos, meta>>

Fields == {"seq", "service_id", "method_id", "message_length"}
Number == [seq |-> 1, service_id |-> 2, method_id |-> 3, message_length |-> 4]

\* SharedCtor: no field is set.
New == [has |-> {}, val |-> [f \in Fields |-> 0]]

Clear(m) == [m EXCEPT !.val = [f \in Fields |-> 0], !.has = {}]

\* set_seq, set_service_id, set_method_id, set_message_length.
Set(m, f, v) == [m EXCEPT !.val[f] = v, !.has = @ \cup {f}]

\* MergeFrom, which the copy constructor applies to a new message.
MergeFrom(m, from) ==
  [has |-> m.has \cup from.has,
   val |-> [f \in Fields |-> IF f \in from.has THEN from.val[f] ELSE m.val[f]]]

IsInitialized(m) == Fields \subseteq m.has

\* A word of w bits read as a signed one.
Signed(v, w) == IF v < 2^(w - 1) THEN v ELSE v - 2^w

\* Varints: seven bits a byte, the low ones first, the high bit saying more.
VarintSize(v) == CHOOSE k \in 1..LongBits : v < 128^k /\ (k = 1 \/ v >= 128^(k - 1))
Varint(v) ==
  LET k == VarintSize(v) IN
  [i \in 1..k |-> ((v \div 128^(i - 1)) % 128) + (IF i < k THEN 128 ELSE 0)]

\* Negative integers are written with the sign extended to 64 bits, and so have
\* the longest varint.
Int32SizeAsUnsigned(v) == VarintSize(v % 2^IntBits)
Int32Size(v) == IF v < 0 THEN (LongBits + 6) \div 7 ELSE VarintSize(v)

SizeOfValue(m, f) ==
  IF m.val[f] = 0 THEN 0
  ELSE 1 + (IF f \in {"service_id", "method_id"} THEN Int32Size(m.val[f])
            ELSE VarintSize(m.val[f]))

SizeOf(m, f) ==
  IF f \notin m.has THEN 0
  ELSE 1 + (IF f \in {"service_id", "method_id"} THEN Int32Size(m.val[f])
            ELSE VarintSize(m.val[f]))

ByteSize(m) == MapThenSumSet(LAMBDA f : SizeOf(m, f), Fields)

WriteField(m, f) ==
  IF f \notin m.has THEN <<>>
  ELSE <<8 * Number[f]>> \o Varint(m.val[f] % 2^LongBits)

SerializeWithCachedSizesToArray(m) ==
  WriteField(m, "seq") \o WriteField(m, "service_id")
    \o WriteField(m, "method_id") \o WriteField(m, "message_length")

\* ReadPrimitive of each type: the varint at p, cut to the width of the field.
VarintEnd(p) == Min({q \in p..Len(wire) : wire[q] < 128})
ReadVarint(p) == MapThenSumSet(LAMBDA q : (wire[q] % 128) * 128^(q - p), p..VarintEnd(p))

ReadUnsigned(f, p) ==
  IF f = "seq" THEN ReadVarint(p) ELSE ReadVarint(p) % 2^IntBits

ReadPrimitive(f, p) ==
  CASE f = "seq" -> ReadVarint(p)
    [] f = "message_length" -> ReadVarint(p) % 2^IntBits
    [] OTHER -> Signed(ReadVarint(p) % 2^IntBits, IntBits)

\* The service pool is looked up with the id made unsigned again.
GetServiceSigned(id) == id
GetService(id) == id % 2^IntBits
-----------------------------------------------------------------------------
Init ==
  /\ at = "idle" /\ hash = 0
  /\ sent = New /\ wire = <<>> /\ pos = 1
  /\ meta = New

\* RPCData::ToBuffer writes m.  The other side reads every message into a new
\* RPCData, whose RPCMetaData ParseFromArray clears before it reads.
Send(m) ==
  /\ sent' = m
  /\ wire' = SerializeWithCachedSizesToArray(m)
  /\ pos' = 1
  /\ meta' = Clear(New)

SaveSession(seq, h, method, length) ==
  /\ at = "idle"
  /\ at' = "request" /\ hash' = h
  /\ Send(Set(Set(Set(Set(New, "seq", seq), "method_id", method),
                  "service_id", Signed(h, IntBits)), "message_length", length))

\* One turn of MergePartialFromCodedStream: a tag, and the value behind it.
MergePartialFromCodedStream(f) ==
  /\ at \in {"request", "response"} /\ pos <= Len(wire)
  /\ wire[pos] = 8 * Number[f]
  /\ meta' = Set(meta, f, ReadPrimitive(f, pos + 1))
  /\ pos' = VarintEnd(pos + 1) + 1
  /\ UNCHANGED <<at, hash, sent, wire>>

\* The end of the bytes ends the parse, which succeeds with all fields set.
ParseEnds ==
  /\ at \in {"request", "response"} /\ pos > Len(wire)
  /\ IsInitialized(meta)
  /\ at' = IF at = "request" THEN "served" ELSE "answered"
  /\ UNCHANGED <<hash, sent, wire, pos, meta>>

\* The server calls the service and sends the response with a copy of the
\* request's metadata.
SendResponse(length) ==
  /\ at = "served"
  /\ at' = "response" /\ UNCHANGED hash
  /\ Send(Set(MergeFrom(New, meta), "message_length", length))

Next ==
  \/ \E seq \in Seqs, h \in Hashes, method \in Methods, length \in Lengths :
       SaveSession(seq, h, method, length)
  \/ \E f \in Fields : MergePartialFromCodedStream(f)
  \/ ParseEnds
  \/ \E length \in Lengths : SendResponse(length)

Spec == Init /\ [][Next]_vars
-----------------------------------------------------------------------------
\* rpc.pb.cc:188.  What is read is what was written, field by field: signs and
\* widths survive both ways, so the client gets the seq and ids it sent.
ParsedAsSent == at \in {"served", "answered"} => meta = sent

\* rpc_data.cc:153.  ToBuffer allocates ByteSize() bytes and the writer fills
\* exactly these.
SizeIsWritten == Len(wire) = ByteSize(sent)

\* rpc_data.cc:80 and 200.  RPCData takes ByteSize() = 0 for "not parsed yet":
\* it is so before the first field is read, and never after a parse, also when
\* every field is zero.
SizeTellsParsed ==
  /\ at \in {"request", "response"} /\ pos = 1 => ByteSize(meta) = 0
  /\ at \in {"served", "answered"} => ByteSize(meta) > 0

\* client_session.cc:53 and rpc_server_impl.cc:158.  The unsigned hash the client
\* takes of the service's name, stored in a signed field, is the key the server
\* looks up.
ServiceIdSurvives == at = "served" => GetService(meta.val["service_id"]) = hash
=============================================================================
