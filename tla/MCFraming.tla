----------------------------- MODULE MCFraming -----------------------------
(* Bytes of two bits, frames of a header and two bytes (RS41, M10) or of    *)
(* two to three bytes (DFM): the shortest with a boundary inside a frame.   *)
EXTENDS Framing
=============================================================================
