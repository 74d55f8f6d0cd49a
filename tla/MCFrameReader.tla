--------------------------- MODULE MCFrameReader ---------------------------
(* FrameReader on every stream of MaxFrames frames of a few kinds. *)
EXTENDS FrameReader

CONSTANT MaxFrames

Kinds ==
  {[meta |-> 1, len |-> 0, ok |-> TRUE],   \* an empty message
   [meta |-> 1, len |-> 2, ok |-> TRUE],
   [meta |-> 3, len |-> 1, ok |-> TRUE],   \* meta data that can be split
   [meta |-> 2, len |-> 1, ok |-> FALSE]}  \* meta data that cannot be parsed

MCStreams ==
  {LET start[i \in 1..MaxFrames] ==
         IF i = 1 THEN 0
         ELSE start[i - 1] + NumMetaSizeBytes + k[i - 1].meta + k[i - 1].len
   IN  [i \in 1..MaxFrames |->
          [start |-> start[i], meta |-> k[i].meta, len |-> k[i].len,
           ok |-> k[i].ok]] :
   k \in [1..MaxFrames -> Kinds]}
=============================================================================
