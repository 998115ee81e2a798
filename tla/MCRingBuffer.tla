---------------------------- MODULE MCRingBuffer ----------------------------
(***************************************************************************)
(* Four slots, two item values and batches up to one more than fits.       *)
(***************************************************************************)
EXTENDS RingBuffer
=============================================================================
