----------------------------- MODULE FrameParser -----------------------------
(***************************************************************************)
(* From the bytes of a frame to the telemetry in it: processRawFrame of    *)
(* the three decoders.  A raw frame is what its decoder finds in it:       *)
(*   RS41  size, ok (whether both Reed-Solomon codewords decode), errors   *)
(*         (the bytes they change), and the blocks of the frame as it was  *)
(*         received and as the codewords have it, each with the type,      *)
(*         length and contents its bytes give                              *)
(*   DFM   size, the type nibble, and what the fields hold                 *)
(*   M10   size, serial, and what the fields hold                          *)
(* A position is its altitude, or nothing when the fields cannot be one.   *)
(***************************************************************************)
EXTENDS Integers, Sequences, SequencesExt

CONSTANT Nothing    \* no serial, no position, no temperature

\* The fields of a TelemetryFrame that matter here.
Unknown ==
  [type |-> "Unknown", serial |-> Nothing, alt |-> Nothing, climb |-> 0,
   temperature |-> Nothing, eccCorrected |-> FALSE, frequencyHz |-> 0]

GpsValid(t) == t.alt # Nothing
HasSerial(t) == t.serial # Nothing

-----------------------------------------------------------------------------
\* Slip: blocks are read whatever their length.
AnyLength(block, least) == TRUE

LongEnough(block, least) == block.len >= least

\* One block of an RS41 frame.  Only the GPS block has a climb rate, and a
\* position near the axis of the earth is taken for none.
ReadBlock(t, b) ==
  CASE b.type = "status" /\ LongEnough(b, 18) -> [t EXCEPT !.serial = b.serial]
    [] b.type = "gps" /\ LongEnough(b, 28) /\ b.alt # Nothing ->
         [t EXCEPT !.alt = b.alt, !.climb = b.climb]
    [] b.type = "ptu" /\ LongEnough(b, 20) /\ b.temperature # Nothing ->
         [t EXCEPT !.temperature = b.temperature]
    [] OTHER -> t

\* The walk over the blocks.  A block of length 0, or one that is said to go on
\* behind the end of the frame, ends it.
WalkBlock(walk, b) ==
  IF walk.ended \/ ~(walk.offset + 4 < walk.size)
                \/ b.len = 0 \/ walk.offset + 2 + b.len > walk.size
    THEN [walk EXCEPT !.ended = TRUE]
    ELSE [walk EXCEPT !.offset = @ + 2 + b.len, !.frame = ReadBlock(@, b)]

\* A frame that cannot be corrected is read as it was received.
RS41Frame(raw) ==
  LET full == raw.size >= 518
      corrected == full /\ raw.ok
      blocks == IF corrected THEN raw.corrected ELSE raw.received
      empty == [Unknown EXCEPT !.type = "RS41", !.eccCorrected = corrected /\ raw.errors > 0]
  IN FoldLeft(WalkBlock, [size |-> raw.size, offset |-> 8, ended |-> FALSE, frame |-> empty],
              blocks).frame

\* Position and serial come in frames of their own.
DFMFrame(raw) ==
  [Unknown EXCEPT !.type = "DFM09",
                  !.alt = IF raw.nibble \in {0, 1} THEN raw.alt ELSE Nothing,
                  !.serial = IF raw.nibble \in {2, 3} THEN raw.serial ELSE Nothing]

M10Frame(raw) == [Unknown EXCEPT !.type = "M10", !.serial = raw.serial, !.alt = raw.alt]

LeastSize == [RS41 |-> 320, DFM |-> 26, M10 |-> 100]

\* What the telemetry callback is called with: a sequence of one frame, or none.
ProcessRawFrame(raw) ==
  LET t == CASE raw.sonde = "RS41" -> RS41Frame(raw)
             [] raw.sonde = "DFM"  -> DFMFrame(raw)
             [] OTHER              -> M10Frame(raw)
  IN IF raw.size >= LeastSize[raw.sonde] /\ (HasSerial(t) \/ GpsValid(t)) THEN <<t>> ELSE <<>>
=============================================================================
