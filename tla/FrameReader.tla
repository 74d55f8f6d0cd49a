---------------------------- MODULE FrameReader ----------------------------
(***************************************************************************)
(* How a channel cuts the bytes of a connection into messages:             *)
(* RPCChannel::ReadInLoop with RPCData::AppendBinaries and Partial.        *)
(*                                                                         *)
(* A byte is named by its place in what the peer sends, so that a message  *)
(* that was put together can be compared with the one that was sent.  A    *)
(* frame is a size word (NumMetaSizeBytes bytes), its meta data (`meta'    *)
(* bytes, not empty) and its payload (`len' bytes); `ok' says whether      *)
(* RPCMetaData can be parsed from the meta data.  Any read may return any  *)
(* number of the bytes that follow.                                        *)
(*                                                                         *)
(* A definition that is not used, just before one with almost its name, is *)
(* the same step with a plausible mistake: the properties tell them apart. *)
(***************************************************************************)
EXTENDS Integers, Sequences

CONSTANTS
  Streams,          \* the sequences of frames the peer may send
  NumMetaSizeBytes, \* 4 in the code
  BufferSize        \* bytes of buffer_, the most one read returns

FrameType == [start : Nat, meta : Nat \ {0}, len : Nat, ok : BOOLEAN]

(* The place after frame f, which is where the next one starts. *)
End(f) == f.start + NumMetaSizeBytes + f.meta + f.len

ASSUME StreamAssumption ==
  /\ NumMetaSizeBytes \in Nat \ {0}
  /\ BufferSize \in Nat \ {0}
  /\ \A s \in Streams :
       /\ s \in Seq(FrameType) /\ s # <<>>
       /\ s[1].start = 0
       /\ \A i \in 1..(Len(s) - 1) : s[i + 1].start = End(s[i])

VARIABLES
  stream,      \* the frames the peer sends on this connection
  at,          \* place of the first byte ReadInLoop has not handled
  transferred, \* bytes_transferred: how many of them are in buffer_
  reading,     \* an async_read_some is in progress
  partial,     \* partial_message_
  delivered,   \* the messages given to receiver_ (history)
  discarded,   \* AppendBinaries has returned -1 (history)
  aborted      \* line of the CHECK that ended the process, or 0

vars == <<stream, at, transferred, reading, partial, delivered, discarded,
          aborted>>

(***************************************************************************)
(* An RPCData being read: meta_size_, payload_binaries_, and the frame     *)
(* whose meta data meta_ holds (0 while meta_->ByteSize() is 0).           *)
(***************************************************************************)
NewRPCData == [exists |-> TRUE, meta_size |-> 0, binaries |-> <<>>, frame |-> 0]
NoRPCData  == [NewRPCData EXCEPT !.exists = FALSE]

Init ==
  /\ stream \in Streams
  /\ at = 0 /\ transferred = 0 /\ reading = TRUE
  /\ partial = NoRPCData
  /\ delivered = <<>>
  /\ discarded = FALSE
  /\ aborted = 0

-----------------------------------------------------------------------------
(***************************************************************************)
(* What the bytes say.  The size word that starts at p is the size of the  *)
(* meta data of the frame that starts there; a place where no frame starts *)
(* holds no size.  The meta data at p, of the given size, is that of the   *)
(* frame it belongs to, if it can be parsed; 0 otherwise.                  *)
(***************************************************************************)
FramesAt(p) == {i \in DOMAIN stream : stream[i].start = p}

SizeWord(p) ==
  IF FramesAt(p) = {} THEN 0 ELSE stream[CHOOSE i \in FramesAt(p) : TRUE].meta

ParseFromArray(p, size) ==
  LET good == {i \in FramesAt(p - NumMetaSizeBytes) :
                 stream[i].ok /\ stream[i].meta = size}
  IN  IF good = {} THEN 0 ELSE CHOOSE i \in good : TRUE

FastAppend(binaries, p, n) == binaries \o [i \in 1..n |-> p + i - 1]

(***************************************************************************)
(* RPCData::AppendBinaries on n bytes from place p, `offset' of them       *)
(* handled before, in its three phases.  The result is the RPCData, the    *)
(* value returned and the line of the CHECK that failed, if one did.       *)
(***************************************************************************)
Returns(d, value)   == [data |-> d, value |-> value, failed |-> 0]
CheckFails(d, line) == [data |-> d, value |-> 0, failed |-> line]

AppendPayloadNoOffset(d, p, offset, n) ==
  LET lacked == stream[d.frame].len - Len(d.binaries)
      take   == IF n < lacked THEN n ELSE lacked
  IN  Returns([d EXCEPT !.binaries = FastAppend(d.binaries, p, take)], offset + take)

AppendPayload(d, p, offset, n) ==
  LET size   == stream[d.frame].len
      lacked == size - Len(d.binaries)
      take   == IF n < lacked THEN n ELSE lacked
      all    == FastAppend(d.binaries, p + offset, take)
  IN  IF ~(Len(d.binaries) < size) THEN CheckFails(d, 124)
      ELSE IF n < lacked /\ ~(Len(all) < size) THEN CheckFails(d, 130)
      ELSE IF n >= lacked /\ Len(all) # size THEN CheckFails(d, 136)
      ELSE Returns([d EXCEPT !.binaries = all], offset + take)

(***************************************************************************)
(* If part of the meta data was kept from an earlier read, the rest is     *)
(* appended to it and the length CHECKed to be less than the size of the   *)
(* meta data, and offset is advanced by the whole length.                  *)
(***************************************************************************)
AppendMeta(d, p, offset, n) ==
  LET lacked == d.meta_size - Len(d.binaries)
      kept   == d.binaries # <<>>
      all    == FastAppend(d.binaries, p + offset, lacked)
      skip   == IF kept THEN offset + n ELSE offset
      frame  == ParseFromArray(IF kept THEN all[1] ELSE p + offset, d.meta_size)
      parsed == [d EXCEPT !.frame = frame,
                          !.binaries = IF kept /\ stream[frame].len = 0
                                       THEN all ELSE <<>>]
  IN  IF d.frame # 0 THEN AppendPayload(d, p, offset, n)
      ELSE IF ~(Len(d.binaries) < d.meta_size) THEN CheckFails(d, 82)
      ELSE IF n < lacked
           THEN Returns([d EXCEPT !.binaries =
                           FastAppend(d.binaries, p + offset, n)], offset + n)
      ELSE IF kept /\ ~(Len(all) < d.meta_size) THEN CheckFails(d, 96)
      ELSE IF frame = 0 THEN Returns(d, -1)
      ELSE IF n = lacked \/ stream[frame].len = 0
           THEN Returns(parsed, skip + lacked)
      ELSE AppendPayload(parsed, p, skip + lacked, n - lacked)

AppendBinariesNoClear(d, p, n) ==
  LET lacked == NumMetaSizeBytes - Len(d.binaries)
      sized  == [d EXCEPT !.meta_size = SizeWord(IF d.binaries = <<>> THEN p
                                                 ELSE d.binaries[1])]
  IN  IF d.meta_size # 0 THEN AppendMeta(d, p, 0, n)
      ELSE IF n < lacked
           THEN Returns([d EXCEPT !.binaries = FastAppend(d.binaries, p, n)], n)
      ELSE IF n = lacked THEN Returns(sized, lacked)
      ELSE AppendMeta(sized, p, lacked, n - lacked)

AppendBinaries(d, p, n) ==
  LET lacked == NumMetaSizeBytes - Len(d.binaries)
      word   == IF d.binaries = <<>> THEN p ELSE d.binaries[1]
      sized  == [d EXCEPT !.meta_size = SizeWord(word), !.binaries = <<>>]
  IN  IF d.meta_size # 0 THEN AppendMeta(d, p, 0, n)
      ELSE IF ~(Len(d.binaries) < NumMetaSizeBytes) THEN CheckFails(d, 54)
      ELSE IF n < lacked
           THEN Returns([d EXCEPT !.binaries = FastAppend(d.binaries, p, n)], n)
      ELSE IF sized.meta_size = 0 THEN CheckFails(d, 72)
      ELSE IF n = lacked THEN Returns(sized, lacked)
      ELSE AppendMeta(sized, p, lacked, n - lacked)

(* RPCData::Partial, for an RPCData whose CHECK_LE holds. *)
Partial(d) == d.frame = 0 \/ Len(d.binaries) < stream[d.frame].len

-----------------------------------------------------------------------------
Total == End(stream[Len(stream)])

(***************************************************************************)
(* After a buffer was dropped in the middle of a frame, what is read next  *)
(* depends on the values of the bytes: that is not modelled, the behaviour *)
(* ends there.                                                             *)
(***************************************************************************)
InStep == discarded => partial.exists \/ FramesAt(at) # {}

(* async_read_some completes with n bytes and ReadInLoop starts. *)
Receive(n) ==
  /\ reading /\ InStep
  /\ at + n <= Total
  /\ reading' = FALSE
  /\ transferred' = n
  /\ UNCHANGED <<stream, at, partial, delivered, discarded, aborted>>

(* A turn of the loop of ReadInLoop that ends the process. *)
Abort(line) ==
  /\ aborted' = line
  /\ UNCHANGED <<stream, at, transferred, reading, partial, delivered, discarded>>

(* AppendBinaries has returned -1. *)
Discard ==
  /\ at' = at + transferred
  /\ transferred' = 0
  /\ reading' = TRUE
  /\ partial' = NoRPCData
  /\ discarded' = TRUE
  /\ UNCHANGED <<stream, delivered, aborted>>

(* d has taken n bytes; it is delivered if that completes it. *)
HandledNoRead(d, n) ==
  /\ at' = at + n
  /\ transferred' = transferred - n
  /\ reading' = (transferred = n /\ ~Partial(d))
  /\ partial' = IF Partial(d) THEN d ELSE NoRPCData
  /\ delivered' = IF Partial(d) THEN delivered
                  ELSE Append(delivered, [frame |-> d.frame, payload |-> d.binaries])
  /\ UNCHANGED <<stream, discarded, aborted>>

Handled(d, n) ==
  /\ at' = at + n
  /\ transferred' = transferred - n
  /\ reading' = (transferred = n)
  /\ partial' = IF Partial(d) THEN d ELSE NoRPCData
  /\ delivered' = IF Partial(d) THEN delivered
                  ELSE Append(delivered, [frame |-> d.frame, payload |-> d.binaries])
  /\ UNCHANGED <<stream, discarded, aborted>>

(***************************************************************************)
(* A turn of the loop in ReadInLoop; the next read starts when no bytes    *)
(* are left, or after a message that could not be parsed, with which the   *)
(* rest of the buffer goes.                                                *)
(***************************************************************************)
ReadInLoop ==
  /\ aborted = 0 /\ transferred # 0
  /\ \E r \in {AppendBinaries(IF partial.exists THEN partial ELSE NewRPCData,
                              at, transferred)} :
       LET d    == r.data
           left == transferred - r.value
       IN  \/ r.failed # 0 /\ Abort(r.failed)
           \/ r.failed = 0 /\ r.value < 0 /\ Discard
           \/ /\ r.failed = 0 /\ r.value >= 0
              /\ IF left < 0 THEN Abort(86)
                 ELSE IF d.frame # 0 /\ Len(d.binaries) > stream[d.frame].len
                      THEN Abort(204)
                 ELSE IF Partial(d) /\ left # 0 THEN Abort(91)
                 ELSE Handled(d, r.value)

BytesArrive == \E n \in 1..BufferSize : Receive(n)

Next == BytesArrive \/ ReadInLoop

Spec == Init /\ [][Next]_vars

(* Bytes that were sent arrive, and the loop thread runs. *)
FairSpec == Spec /\ WF_vars(BytesArrive) /\ WF_vars(ReadInLoop)

-----------------------------------------------------------------------------
(* Properties *)

TypeOK ==
  /\ stream \in Streams
  /\ at \in Nat
  /\ transferred \in Nat
  /\ reading \in BOOLEAN
  /\ partial \in [exists : BOOLEAN, meta_size : Nat, binaries : Seq(Nat),
                  frame : 0..Len(stream)]
  /\ delivered \in Seq([frame : DOMAIN stream, payload : Seq(Nat)])
  /\ discarded \in BOOLEAN
  /\ aborted \in {0, 54, 72, 82, 86, 91, 96, 124, 130, 136, 204}

(* The places of the payload of frame f, in order. *)
Payload(f) == [i \in 1..f.len |-> f.start + NumMetaSizeBytes + f.meta + i - 1]

(***************************************************************************)
(* However the reads cut the stream, receiver_ is given messages as they   *)
(* were sent, in the order they were sent, and none is missing between     *)
(* them unless AppendBinaries has discarded some.                          *)
(***************************************************************************)
DeliveredAsSent ==
  /\ \A i \in DOMAIN delivered :
       delivered[i].payload = Payload(stream[delivered[i].frame])
  /\ \A i, j \in DOMAIN delivered :
       i < j => delivered[i].frame < delivered[j].frame
  /\ ~discarded => \A i \in DOMAIN delivered : delivered[i].frame = i

(***************************************************************************)
(* No byte is lost or handled twice between two turns of the loop: what    *)
(* ReadInLoop has handled is the messages it delivered and what the        *)
(* partial message holds.                                                  *)
(***************************************************************************)
Held(d) ==
  IF d.meta_size = 0 THEN Len(d.binaries)
  ELSE IF d.frame = 0 THEN NumMetaSizeBytes + Len(d.binaries)
  ELSE NumMetaSizeBytes + d.meta_size + Len(d.binaries)

BytesAccountedFor ==
  ~discarded =>
    at = Held(partial)
           + IF delivered = <<>> THEN 0 ELSE End(stream[Len(delivered)])

(***************************************************************************)
(* The only CHECK of the reader that can fail is the one at rpc_data.cc:96 *)
(* and it fails only when a read ended inside the meta data of a message.  *)
(***************************************************************************)
OnlySplitMetaAborts ==
  aborted # 0 =>
    /\ aborted = 96
    /\ partial.meta_size # 0 /\ partial.frame = 0 /\ partial.binaries # <<>>

(* The frames before the first whose meta data cannot be parsed. *)
Parsable == {i \in DOMAIN stream : \A j \in 1..i : stream[j].ok}

(* A read has ended inside the meta data of a message. *)
MetaSplit ==
  reading /\ partial.meta_size # 0 /\ partial.frame = 0 /\ partial.binaries # <<>>

(***************************************************************************)
(* However the reads cut the stream, every message before the first that   *)
(* cannot be parsed is delivered in the end, unless a read ends inside     *)
(* meta data: what becomes of that is the CHECK at rpc_data.cc:96, see     *)
(* SplitMetaIsHandled.                                                     *)
(***************************************************************************)
AllDelivered ==
  <>(MetaSplit \/ Parsable \subseteq DOMAIN delivered)

(***************************************************************************)
(* rpc_message_test.cc:93 and 117 expect the rest of meta data that came   *)
(* in two reads to be handled.                                             *)
(***************************************************************************)
SplitMetaIsHandled == aborted # 96

(***************************************************************************)
(* rpc_data.cc:105 announces that the channel will be closed when meta     *)
(* data cannot be parsed: no further read is started.                      *)
(***************************************************************************)
UnknownMessageClosesChannel == discarded => ~reading
=============================================================================
