---------------------------- MODULE MCVoicePipeline ----------------------------
(* Three voice messages: two of ann, in different seconds unless the cfg asks *)
(* for the same one, and one of bob, in the second of ann's first, which is   *)
(* too long.  The durations lie on both sides of the limit.                   *)
EXTENDS VoicePipeline

CONSTANTS d1, d2, d3, \* deliveries
          v1, v2, v3, \* what was said in them
          ann, bob

OfEach(x, y, z) == [d \in Deliveries |-> CASE d = d1 -> x [] d = d2 -> y [] d = d3 -> z]

MCVoice == OfEach(v1, v2, v3)
MCSender == OfEach(ann, ann, bob)
MCDate == OfEach(1, 2, 1)
MCSameSecond == OfEach(1, 1, 1)

\* The update of ann's first message is received twice.
MCRepeatedVoice == OfEach(v1, v1, v3)
MCDuration == OfEach(60, 59, 61)
================================================================================
