---------------------------- MODULE ReedSolomon ----------------------------
(***************************************************************************)
(* The forward error correction of the RS41 decoder, decodeReedSolomon     *)
(* (src/decoders/RS41Decoder.cpp), loop by loop: syndromes, one step per   *)
(* iteration of Berlekamp and Massey, the Chien search, one step per       *)
(* corrected byte.  The code is written for the field GF(2^8) and blocks   *)
(* of 255; here the field, and with it the length of a block, is a         *)
(* parameter.  A symbol is the set of its bits that are 1.                 *)
(***************************************************************************)
EXTENDS Integers, Sequences, FiniteSets, SequencesExt, Functions

CONSTANTS M,       \* bits of a symbol (8 in the code)
          Poly,    \* the polynomial of the field (0x11D), its bits that are 1
          N,       \* symbols of a block (255)
          NPAR,    \* parity symbols of a block (24)
          Sent,    \* the codewords the initial states start from
          Errors   \* the errors they add, functions of the wrong positions

MAXERR == NPAR \div 2
Bits == 0 .. M - 1
Symbol == SUBSET Bits
Block == [0 .. N - 1 -> Symbol]

x ^^ y == (x \ y) \cup (y \ x)

ASSUME FieldAssumption ==
  /\ M \in Nat \ {0} /\ N \in Nat \ {0} /\ NPAR \in 0 .. N - 1
  /\ Poly \subseteq 0 .. M /\ {0, M} \subseteq Poly

-----------------------------------------------------------------------------
(* The field: powers of the generator, their logarithms, and products.      *)

\* x *= 2, modulo the polynomial
Double(x) ==
  LET shifted == {bit + 1 : bit \in x}
  IN  IF M \in shifted THEN shifted ^^ Poly ELSE shifted

expTable ==
  LET power[i \in Nat] == IF i = 0 THEN {0} ELSE Double(power[i - 1])
  IN  [i \in 0 .. 2 * N - 1 |-> power[i % N]]

\* The polynomial is primitive: each symbol but 0 is a power, and one only.
ASSUME PrimitiveAssumption ==
  [i \in 0 .. N - 1 |-> expTable[i]] \in Bijection(0 .. N - 1, Symbol \ {{}})

logTable ==
  [x \in Symbol |->
     IF x = {} THEN 0 ELSE CHOOSE i \in 0 .. N - 1 : expTable[i] = x]

mul(x, y) ==
  IF x = {} \/ y = {} THEN {} ELSE expTable[logTable[x] + logTable[y]]

div(x, y) ==
  IF x = {} \/ y = {} THEN {}
  ELSE expTable[(logTable[x] - logTable[y] + N) % N]

\* the sum in the field of the values of f, and the j-th power of x
Total(f) == {bit \in Bits : Cardinality({i \in DOMAIN f : bit \in f[i]}) % 2 = 1}
Power(x, j) == expTable[(logTable[x] * j) % N]

\* S[i] of a block, by Horner's rule from its first byte
Syndrome(word, i) ==
  LET sum[j \in 0 .. N] == IF j = 0 THEN {} ELSE word[j - 1] ^^ mul(sum[j - 1], expTable[i])
  IN  sum[N]

\* What is sent are codewords, and errors are to symbols of a block.
ASSUME CodewordAssumption ==
  /\ \A word \in Sent : word \in Block /\ \A i \in 0 .. NPAR - 1 : Syndrome(word, i) = {}
  /\ \A e \in Errors : \A j \in DOMAIN e : j \in 0 .. N - 1 /\ e[j] \in Symbol

VARIABLES pc,              \* the loop the decoder is in
          block,           \* the caller's buffer, corrected in place
          S,               \* the syndromes
          lambda, b,       \* locator polynomial, and the last one replaced
          L, k, gamma, r,  \* the counters of Berlekamp and Massey
          errorPos, next,  \* roots found by the search, next one to correct
          errorsCorrected, \* the second result, by reference
          ok,              \* the boolean result
          sent, hits       \* history: the codeword sent, the errors added

vars == <<pc, block, S, lambda, b, L, k, gamma, r, errorPos, next,
          errorsCorrected, ok, sent, hits>>
locator == <<lambda, b, L, k, gamma, r>>
history == <<sent, hits>>

-----------------------------------------------------------------------------
(* The polynomials the steps evaluate.                                      *)

\* the discrepancy of iteration r
Delta == S[r] ^^ Total([i \in 1 .. L |-> mul(lambda[i], S[r - i])])

\* mutant: the roots themselves instead of their inverses
RootUninverted(i) ==
  {0} ^^ Total([j \in 1 .. L |-> mul(lambda[j], Power(expTable[i], j))]) = {}

\* the Chien search: i is reported when 1/alpha^i is a root of lambda
Root(i) ==
  LET alphaInv == expTable[(N - i) % N]
  IN  {0} ^^ Total([j \in 1 .. L |-> mul(lambda[j], Power(alphaInv, j))]) = {}

\* a position is reported if the search found it
Report(found, positions, i) == IF i \in found THEN Append(positions, N - 1 - i) ELSE positions

Roots ==
  LET found == {i \in 0 .. N - 1 : Root(i)}
  IN  FoldLeft(LAMBDA positions, i : Report(found, positions, i), <<>>, [i \in 1 .. N |-> i - 1])

omega ==
  [i \in 0 .. NPAR - 1 |->
     Total([j \in 0 .. IF i < L THEN i ELSE L |-> mul(S[i - j], lambda[j])])]

Numerator(xInv) ==
  Total([j \in 0 .. NPAR - 1 |-> mul(omega[j], Power(xInv, j))])

\* the formal derivative of lambda: only odd powers are left
Denominator(xInv) ==
  Total([j \in {i \in 1 .. L : i % 2 = 1} |->
           mul(lambda[j], Power(xInv, j - 1))])

-----------------------------------------------------------------------------
One == [i \in 0 .. NPAR |-> IF i = 0 THEN {0} ELSE {}]

Corrupted(word, errors) == [j \in 0 .. N - 1 |-> word[j] ^^ errors[j]]

Init ==
  /\ sent \in Sent
  /\ \E e \in Errors :
       hits = [j \in 0 .. N - 1 |-> IF j \in DOMAIN e THEN e[j] ELSE {}]
  /\ block = Corrupted(sent, hits)
  /\ pc = "syndromes"
  /\ S = [i \in 0 .. NPAR - 1 |-> {}]
  /\ lambda = One /\ b = One
  /\ L = 0 /\ k = 1 /\ gamma = {0} /\ r = 0
  /\ errorPos = <<>> /\ next = 1
  /\ errorsCorrected = 0 /\ ok = FALSE

Return(result) == pc' = "done" /\ ok' = result

Syndromes ==
  /\ pc = "syndromes"
  /\ S' = [i \in 0 .. NPAR - 1 |-> Syndrome(block, i)]
  /\ IF \E i \in DOMAIN S : S'[i] # {}
     THEN pc' = "massey" /\ UNCHANGED ok
     ELSE Return(TRUE)
  /\ UNCHANGED <<block, locator, errorPos, next, errorsCorrected, history>>

\* lambda with factor * x^k * b added to it
Adjusted(factor) ==
  [i \in 0 .. NPAR |->
     IF i < k THEN lambda[i] ELSE lambda[i] ^^ mul(factor, b[i - k])]

\* mutant: strictly
LengthenStrictly == 2 * L < r

\* whether a wrong prediction asks for a longer register
Lengthen == 2 * L <= r

Massey ==
  /\ pc = "massey" /\ r < NPAR
  /\ r' = r + 1
  /\ IF Delta = {}
     THEN k' = k + 1 /\ UNCHANGED <<lambda, b, L, gamma>>
     ELSE /\ lambda' = Adjusted(div(Delta, gamma))
          /\ IF Lengthen
             THEN L' = r + 1 - L /\ b' = lambda /\ gamma' = Delta /\ k' = 1
             ELSE k' = k + 1 /\ UNCHANGED <<b, L, gamma>>
  /\ UNCHANGED <<pc, block, S, errorPos, next, errorsCorrected, ok, history>>

\* mutant: the limit is the number of syndromes
BeyondParity == L > NPAR

TooManyErrors == L > MAXERR

\* mutant: one root is enough
NoRoot == Len(Roots) = 0

RootMismatch == Len(Roots) # L

Chien ==
  /\ pc = "massey" /\ r = NPAR
  /\ IF TooManyErrors
     THEN Return(FALSE) /\ UNCHANGED errorPos
     ELSE /\ errorPos' = Roots
          /\ IF RootMismatch
             THEN Return(FALSE)
             ELSE pc' = "forney" /\ UNCHANGED ok
  /\ UNCHANGED <<block, S, locator, next, errorsCorrected, history>>

Forney ==
  /\ pc = "forney" /\ next <= Len(errorPos)
  /\ LET pos == errorPos[next]
         xInv == expTable[(N - (N - 1 - pos)) % N]
         denom == Denominator(xInv)
     IN  IF denom = {}
         THEN Return(FALSE) /\ UNCHANGED <<block, next>>
         ELSE /\ block' = [block EXCEPT
                             ![pos] = @ ^^ div(Numerator(xInv), denom)]
              /\ next' = next + 1
              /\ UNCHANGED <<pc, ok>>
  /\ UNCHANGED <<S, locator, errorPos, errorsCorrected, history>>

Finish ==
  /\ pc = "forney" /\ next > Len(errorPos)
  /\ errorsCorrected' = L
  /\ Return(TRUE)
  /\ UNCHANGED <<block, S, locator, errorPos, next, history>>

Next == Syndromes \/ Massey \/ Chien \/ Forney \/ Finish

Spec == Init /\ [][Next]_vars

-----------------------------------------------------------------------------
TypeOK ==
  /\ pc \in {"syndromes", "massey", "forney", "done"}
  /\ block \in Block /\ sent \in Block /\ hits \in Block
  /\ S \in [0 .. NPAR - 1 -> Symbol]
  /\ lambda \in [0 .. NPAR -> Symbol] /\ b \in [0 .. NPAR -> Symbol]
  /\ L \in 0 .. NPAR /\ k \in 1 .. NPAR + 1 /\ gamma \in Symbol \ {{}}
  /\ r \in 0 .. NPAR
  /\ errorPos \in Seq(0 .. N - 1) /\ next \in 1 .. Len(errorPos) + 1
  /\ errorsCorrected \in 0 .. MAXERR /\ ok \in BOOLEAN

Wrong == {j \in 0 .. N - 1 : hits[j] # {}}

\* The loop invariant of Berlekamp and Massey: before iteration r the
\* register (L, lambda) predicts every syndrome from S[L] to S[r - 1], its
\* degree is at most L and it is not longer than what it has read.
RegisterPredicts ==
  pc = "massey" =>
    /\ L <= r
    /\ \A i \in L + 1 .. NPAR : lambda[i] = {}
    /\ \A j \in L .. r - 1 :
         S[j] = Total([i \in 1 .. L |-> mul(lambda[i], S[j - i])])

\* A block with at most MAXERR wrong bytes is accepted, with the number of
\* wrong bytes as errorsCorrected, and the bytes the decoder changes are
\* exactly the wrong ones.
LocatesErrors ==
  (Cardinality(Wrong) <= MAXERR) =>
    /\ pc = "forney" => ToSet(errorPos) = Wrong
    /\ pc = "done" => ok /\ errorsCorrected = Cardinality(Wrong)

\* A decode that fails leaves the caller's block as it was received: the
\* return in the middle of the correction loop is never taken.
FailureIsHarmless ==
  pc = "done" /\ ~ok => block = Corrupted(sent, hits)

\* What the test testReedSolomonFec asserts: a block with at most MAXERR
\* wrong bytes is restored to the codeword that was sent.
Corrects ==
  pc = "done" /\ Cardinality(Wrong) <= MAXERR => block = sent
=============================================================================
