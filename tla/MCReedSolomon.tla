--------------------------- MODULE MCReedSolomon ---------------------------
EXTENDS ReedSolomon

(* GF(8) with six parity symbols: blocks of seven symbols, three of them     *)
(* correctable.  The zero block is the one the repository's test starts      *)
(* from; the other is a multiple of the generator polynomial of the code.    *)
CONSTANT MaxHits    \* bound: symbols an initial state corrupts

BitsOf(n) == {bit \in Bits : (n \div 2^bit) % 2 = 1}
Word(w) == [j \in 0 .. N - 1 |-> BitsOf(w[j + 1])]
MCSent == {Word(<<0, 0, 0, 0, 0, 0, 0>>), Word(<<1, 5, 7, 6, 3, 4, 2>>)}

(* The first wrong symbol is off by 1: the steps of the decoder commute with *)
(* multiplying the errors by a constant of the field.                        *)
MCErrors ==
  UNION {{e \in [J -> Symbol \ {{}}] : \A i \in J : (\A j \in J : i <= j) => e[i] = {0}} :
           J \in {K \in SUBSET (0 .. N - 1) : Cardinality(K) <= MaxHits}}
=============================================================================
