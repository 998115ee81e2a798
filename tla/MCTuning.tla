------------------------------ MODULE MCTuning ------------------------------
(***************************************************************************)
(* Small instances of Tuning: frequencies are grid points of the band, one *)
(* clock unit stands for the seconds between two sweep iterations.         *)
(***************************************************************************)
EXTENDS Tuning

TwoHops == <<1, 3>>
OneHop == <<1>>
=============================================================================
