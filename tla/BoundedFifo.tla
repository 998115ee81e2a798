---------------------------- MODULE BoundedFifo ----------------------------
(***************************************************************************)
(* What a single-producer single-consumer buffer promises: items come out  *)
(* in the order they went in, none twice, none lost, never more than Size  *)
(* of them inside, and a batch is put or taken as far as it fits.          *)
(***************************************************************************)
EXTENDS Integers, Sequences

CONSTANTS Item, Size

VARIABLES
  queue,    \* what is inside, oldest first
  got       \* what the last read returned

fifoVars == <<queue, got>>

Init == queue = <<>> /\ got = <<>>

\* A batch of at least one item that fits.
Put == \E n \in 1 .. Size - Len(queue) : \E batch \in [1 .. n -> Item] :
         /\ queue' = queue \o batch
         /\ UNCHANGED got

Take == \E n \in 1 .. Len(queue) :
          /\ got' = SubSeq(queue, 1, n)
          /\ queue' = SubSeq(queue, n + 1, Len(queue))

\* Both ends forget what is inside.
Clear == queue' = <<>> /\ UNCHANGED got

Spec == Init /\ [][Put \/ Take \/ Clear]_fifoVars
=============================================================================
